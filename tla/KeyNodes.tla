------------------------------ MODULE KeyNodes ------------------------------
(***************************************************************************)
(* The engine's list of key nodes (hks_keynode.c).  A key node is the      *)
(* engine's half of a three-stage session: the decrypted key and the       *)
(* running algorithm context, found again by its handle.                   *)
(*                                                                         *)
(* Nodes are numbered in the order AddKeyNode appends them, so the head of *)
(* g_keyNodeList is its smallest member.  A node that was freed keeps its  *)
(* number: a pointer to it can still be written down, which is what makes  *)
(* a dangling pointer expressible.  The handle of a node is a random       *)
(* number that no other live node has; it is taken to be fresh for the     *)
(* whole run, and the node's number serves as its handle.                  *)
(*                                                                         *)
(* Every function of hks_keynode.c that touches the list does so between   *)
(* HksMutexLock and HksMutexUnlock of one mutex and calls nothing that     *)
(* blocks in between, so each is one atomic step here.                     *)
(***************************************************************************)
EXTENDS FiniteSetsExt

CONSTANTS
    MAX_KEY_NODES_COUNT,          \* 32 in the source
    MAX_KEY_NODES_EACH_TOKEN_ID,  \* 10 in the source
    Tokens,                       \* access token ids of the callers
    INVALID_TOKEN_ID,             \* what a node without a runtimeParamSet answers
    MaxNodes                      \* bound: key nodes created in a run

ASSUME NodeLimits ==
    /\ MAX_KEY_NODES_COUNT \in Nat \ {0}
    /\ MAX_KEY_NODES_EACH_TOKEN_ID \in Nat \ {0}
    /\ MaxNodes \in Nat
    /\ INVALID_TOKEN_ID \notin Tokens

VARIABLES
    g_keyNodeList,   \* the numbers of the nodes in the list
    g_keyNodeCount,  \* the counter kept beside the list
    keyNode,         \* number -> contents of the node
    nodesMade        \* nodes appended so far

nodeVars == <<g_keyNodeList, g_keyNodeCount, keyNode, nodesMade>>

NodeIds == 1 .. MaxNodes

\* What other threads read in a node: the token in its runtimeParamSet and
\* the fields of a batch session.
HuksKeyNode ==
    [token : Tokens \cup {INVALID_TOKEN_ID}, isBatchOperation : BOOLEAN,
     batchOperationTimestamp : Nat]

\* HksMalloc zeroes the node: no runtimeParamSet, not a batch.
NewKeyNode ==
    [token |-> INVALID_TOKEN_ID, isBatchOperation |-> FALSE,
     batchOperationTimestamp |-> 0]

NodeTypeOK ==
    /\ g_keyNodeList \subseteq 1 .. nodesMade
    /\ g_keyNodeCount \in Nat
    /\ keyNode \in [NodeIds -> HuksKeyNode]
    /\ nodesMade \in 0 .. MaxNodes

NodeInit ==
    /\ g_keyNodeList = {}
    /\ g_keyNodeCount = 0
    /\ keyNode = [n \in NodeIds |-> NewKeyNode]
    /\ nodesMade = 0

-----------------------------------------------------------------------------
(* The victims of AddKeyNode.  Each operator is the set, empty or a        *)
(* singleton, of the nodes its function frees in a list of count nodes.    *)

FirstOf(S) == IF S = {} THEN {} ELSE {Min(S)}

GetTokenIdFromParamSet(n) == keyNode[n].token

NodesOf(list, token) == {n \in list : GetTokenIdFromParamSet(n) = token}

DeleteFirstTimeOutBatchKeyNode(list, count, now) ==
    IF count < MAX_KEY_NODES_COUNT
    THEN {}
    ELSE FirstOf({n \in list : /\ keyNode[n].isBatchOperation
                               /\ keyNode[n].batchOperationTimestamp < now})

\* Slip: the limit itself is let pass.
DeleteKeyNodeForTokenIdLate(list, count, token) ==
    IF \/ count < MAX_KEY_NODES_EACH_TOKEN_ID
       \/ Cardinality(NodesOf(list, token)) <= MAX_KEY_NODES_EACH_TOKEN_ID
    THEN {}
    ELSE FirstOf(NodesOf(list, token))

\* The function's HKS_ERROR_SESSION_REACHED_LIMIT is out of reach: a token
\* that owns a positive number of nodes has a first one.
DeleteKeyNodeForTokenIdIfExceedLimit(list, count, token) ==
    IF \/ count < MAX_KEY_NODES_EACH_TOKEN_ID
       \/ Cardinality(NodesOf(list, token)) < MAX_KEY_NODES_EACH_TOKEN_ID
    THEN {}
    ELSE FirstOf(NodesOf(list, token))

\* Slip: one node too many before the head is evicted.
DeleteFirstKeyNodeLate(list, count) ==
    IF count <= MAX_KEY_NODES_COUNT THEN {} ELSE FirstOf(list)

\* The head of the list, whoever is using it.
DeleteFirstKeyNode(list, count) ==
    IF count < MAX_KEY_NODES_COUNT THEN {} ELSE FirstOf(list)

\* DeleteKeyNodeFree: nothing is left of the contents of the nodes in S.
Wiped(S) == [n \in NodeIds |-> IF n \in S THEN NewKeyNode ELSE keyNode[n]]

\* Make room, then append the next node and count it.  Its contents stay as
\* HksMalloc left them until HksCreateKeyNode has released the mutex.
AddKeyNode(token, now) ==
    LET timedOut == DeleteFirstTimeOutBatchKeyNode(g_keyNodeList, g_keyNodeCount, now)
        l1 == g_keyNodeList \ timedOut
        c1 == g_keyNodeCount - Cardinality(timedOut)
        excess == DeleteKeyNodeForTokenIdIfExceedLimit(l1, c1, token)
        l2 == l1 \ excess
        c2 == c1 - Cardinality(excess)
        oldest == DeleteFirstKeyNode(l2, c2)
    IN  /\ nodesMade < MaxNodes
        /\ nodesMade' = nodesMade + 1
        /\ g_keyNodeList' = (l2 \ oldest) \cup {nodesMade + 1}
        /\ g_keyNodeCount' = c2 - Cardinality(oldest) + 1
        /\ keyNode' = Wiped(timedOut \cup excess \cup oldest)

-----------------------------------------------------------------------------
HksQueryKeyNode(handle) == g_keyNodeList \cap {handle}

\* Slip: the counter goes down for a handle that is not in the list.
HksDeleteKeyNodeUnchecked(handle) ==
    /\ g_keyNodeList' = g_keyNodeList \ {handle}
    /\ g_keyNodeCount' = g_keyNodeCount - 1
    /\ keyNode' = Wiped({handle})
    /\ UNCHANGED nodesMade

HksDeleteKeyNode(handle) ==
    /\ g_keyNodeList' = g_keyNodeList \ {handle}
    /\ g_keyNodeCount' = g_keyNodeCount - Cardinality(HksQueryKeyNode(handle))
    /\ keyNode' = Wiped({handle})
    /\ UNCHANGED nodesMade

(* What a thread reaches through its pointer to node n, after the mutex is *)
(* released.  Once n is freed that is undefined behaviour: the memory may  *)
(* belong to nobody, or be that of a node allocated since.                 *)
Deref(n) ==
    IF n \in g_keyNodeList THEN {n}
    ELSE {n} \cup {m \in g_keyNodeList : m > n}

\* Assignments through a pointer that reaches m; freed memory keeps nothing.
WriteKeyNode(m, contents) ==
    /\ keyNode' = [keyNode EXCEPT ![m] = IF m \in g_keyNodeList THEN contents ELSE @]
    /\ UNCHANGED <<g_keyNodeList, g_keyNodeCount, nodesMade>>

\* keyNode->runtimeParamSet = runtimeParamSet
PublishRuntimeParamSet(m, token) ==
    WriteKeyNode(m, [keyNode[m] EXCEPT !.token = token])

HksAddBatchTimeToKeyNode(m, batch, deadline) ==
    WriteKeyNode(m, [keyNode[m] EXCEPT !.isBatchOperation = batch,
                                       !.batchOperationTimestamp = deadline])

-----------------------------------------------------------------------------
(* The counter that decides about evictions agrees with the list, and the  *)
(* list never outgrows MAX_KEY_NODES_COUNT, whatever mixture of evictions, *)
(* failed Inits and deletions by stale handles led here.                   *)
NodeCountExact ==
    /\ g_keyNodeCount = Cardinality(g_keyNodeList)
    /\ g_keyNodeCount <= MAX_KEY_NODES_COUNT
=============================================================================

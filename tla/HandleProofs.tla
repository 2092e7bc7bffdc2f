---------------------------- MODULE HandleProofs ----------------------------
(***************************************************************************)
(* Proofs about the handles of three-stage sessions: what connects a key   *)
(* node of the engine, the request that makes it and the operation of the  *)
(* service.  The engine's list is guarded by another mutex than the        *)
(* service's, so a node may be evicted at any moment; the invariant is     *)
(* about the nodes that are still there.  As long as no dangling pointer   *)
(* has been followed, a node is written by the thread that makes it alone, *)
(* and its handle becomes known to others when node and operation agree.   *)
(***************************************************************************)
EXTENDS ThreeStageProofs

-----------------------------------------------------------------------------
(* What a step does to the two lists. *)

\* Nodes may go; those that stay keep their contents, and a new one has a
\* number that nobody had before.
NodesKept ==
    /\ nodesMade' \in Nat /\ nodesMade <= nodesMade'
    /\ \A n \in g_keyNodeList' :
          n <= nodesMade => n \in g_keyNodeList /\ keyNode'[n] = keyNode[n]

SameOperation(o) ==
    /\ operation'[o].handle = operation[o].handle
    /\ operation'[o].owner = operation[o].owner
    /\ operation'[o].isBatchOperation = operation[o].isBatchOperation
    /\ operation'[o].batchOperationTimestamp = operation[o].batchOperationTimestamp

OperationsKept ==
    /\ g_operationList' \subseteq g_operationList
    /\ \A o \in g_operationList' : SameOperation(o)

\* The step is one of thread t.
StepOf(t) ==
    /\ OthersSame(t)
    /\ \A u \in Threads \ {t} : ptr'[u] = ptr[u]
    /\ now' = now

\* AddKeyNode appends a node with a new number.
LEMMA AddKeyNodeKeeps ==
    ASSUME NodeInv, NEW token \in Tokens, NEW n, AddKeyNode(token, n)
    PROVE  NodesKept /\ nodesMade' = nodesMade + 1 /\ nodesMade + 1 \in g_keyNodeList'
<1>1. PICK S, D : /\ g_keyNodeList' = S \cup {nodesMade + 1} /\ S \subseteq g_keyNodeList
                  /\ S \cap D = {} /\ keyNode' = Wiped(D) /\ nodesMade' = nodesMade + 1
    <2> DEFINE timedOut == DeleteFirstTimeOutBatchKeyNode(g_keyNodeList, g_keyNodeCount, n)
               l1 == g_keyNodeList \ timedOut
               c1 == g_keyNodeCount - Cardinality(timedOut)
               excess == DeleteKeyNodeForTokenIdIfExceedLimit(l1, c1, token)
               l2 == l1 \ excess
               c2 == c1 - Cardinality(excess)
               oldest == DeleteFirstKeyNode(l2, c2)
    <2>1. /\ g_keyNodeList' = (l2 \ oldest) \cup {nodesMade + 1}
          /\ keyNode' = Wiped(timedOut \cup excess \cup oldest)
          /\ nodesMade' = nodesMade + 1
        BY DEF AddKeyNode
    <2>2. /\ l2 \ oldest \subseteq g_keyNodeList
          /\ (l2 \ oldest) \cap (timedOut \cup excess \cup oldest) = {}
        <3> HIDE DEF timedOut, excess, oldest
        <3> QED OBVIOUS
    <2> HIDE DEF timedOut, excess, oldest, l2
    <2> QED BY <2>1, <2>2
<1>2. nodesMade \in Nat /\ g_keyNodeList \subseteq 1 .. nodesMade /\ 1 .. nodesMade \subseteq NodeIds
    BY NodeLimits DEF NodeInv, NodeTypeOK, NodeIds
<1>3. ASSUME NEW x \in g_keyNodeList', x <= nodesMade
      PROVE  x \in g_keyNodeList /\ keyNode'[x] = keyNode[x]
    <2>1. x \in S /\ x \in NodeIds /\ x \notin D
        BY <1>1, <1>2, <1>3
    <2> QED BY <1>1, <2>1 DEF Wiped
<1> QED BY <1>1, <1>2, <1>3 DEF NodesKept

\* HksDeleteKeyNode takes out at most one node.
LEMMA DeleteKeyNodeKeeps ==
    ASSUME NodeInv, NEW h, HksDeleteKeyNode(h)
    PROVE  NodesKept /\ g_keyNodeList' \subseteq g_keyNodeList
<1>1. nodesMade \in Nat /\ g_keyNodeList \subseteq NodeIds
    BY NodesFinite, NodeLimits DEF NodeInv, NodeTypeOK
<1>2. /\ g_keyNodeList' = g_keyNodeList \ {h} /\ keyNode' = Wiped({h}) /\ nodesMade' = nodesMade
    BY DEF HksDeleteKeyNode
<1> QED BY <1>1, <1>2 DEF NodesKept, Wiped

\* A step that leaves the engine's list alone.
LEMMA SameNodesKept ==
    ASSUME NodeInv, UNCHANGED nodeVars
    PROVE  NodesKept
BY NodeLimits DEF NodeInv, NodeTypeOK, NodesKept, nodeVars

\* Marking an operation in use or free again.
LEMMA SetInUseKeeps ==
    ASSUME SessionInv, NEW o, NEW b \in BOOLEAN, SetInUse(o, b)
    PROVE  OperationsKept /\ g_operationList' = g_operationList
<1>1. operation \in [OpIds -> HksOperation] /\ g_operationList \subseteq OpIds
    BY OperationsFinite DEF SessionInv, SessionTypeOK
<1>2. ASSUME NEW p \in g_operationList PROVE SameOperation(p)
    BY <1>1 DEF SetInUse, SameOperation, HksOperation
<1> QED BY <1>2 DEF SetInUse, OperationsKept

\* Freeing an operation leaves the others alone.
LEMMA FreeOperationKeeps ==
    ASSUME SessionInv, NEW o \in g_operationList, FreeOperation(o)
    PROVE  OperationsKept
<1>1. operation \in [OpIds -> HksOperation] /\ g_operationList \subseteq OpIds
    BY OperationsFinite DEF SessionInv, SessionTypeOK
<1>2. ASSUME NEW p \in g_operationList \ {o} PROVE SameOperation(p)
    BY <1>1 DEF FreeOperation, SameOperation
<1> QED BY <1>2 DEF FreeOperation, OperationsKept

\* A step that leaves the operations alone.
LEMMA SameOperationsKept ==
    ASSUME UNCHANGED <<g_operationList, operation>>
    PROVE  OperationsKept
BY DEF OperationsKept, SameOperation

-----------------------------------------------------------------------------
(* Every step is one of a thread, and the history variable only grows. *)

\* A call starts.
LEMMA CallLocal ==
    ASSUME ThreadTypeOK, NEW t \in Threads, NEW l, NEW r, Call(t, l, r)
    PROVE  /\ StepOf(t) /\ UNCHANGED <<nodeVars, sessionVars, ptr, usedAfterFree>>
           /\ pc[t] = "idle" /\ pc'[t] = l /\ req'[t] = r
BY DEF ThreadTypeOK, Call, Goto, StepOf, OthersSame

\* A call returns.
LEMMA ReturnLocal ==
    ASSUME ThreadTypeOK, NEW t \in Threads, Return(t), now' = now
    PROVE  StepOf(t) /\ pc'[t] = "idle"
BY DEF ThreadTypeOK, Return, Goto, StepOf, OthersSame

\* A step to another label that leaves the local variables alone.
LEMMA GotoLocal ==
    ASSUME ThreadTypeOK, NEW t \in Threads, NEW l, Goto(t, l), UNCHANGED <<req, held, victim, ptr, now>>
    PROVE  StepOf(t) /\ pc'[t] = l /\ req'[t] = req[t] /\ held'[t] = held[t] /\ ptr'[t] = ptr[t]
BY DEF ThreadTypeOK, Goto, StepOf, OthersSame

\* A step to another label that sets the pointer to the key node.
LEMMA GotoPtrLocal ==
    ASSUME ThreadTypeOK, NEW t \in Threads, NEW l, NEW p, Goto(t, l),
           ptr' = [ptr EXCEPT ![t] = p], UNCHANGED <<req, held, victim, now>>
    PROVE  StepOf(t) /\ pc'[t] = l /\ req'[t] = req[t] /\ held'[t] = held[t] /\ ptr'[t] = p
BY DEF ThreadTypeOK, Goto, StepOf, OthersSame

\* An eviction starts, and remembers where to go on.
LEMMA StartEvictLocal ==
    ASSUME ThreadTypeOK, NEW t \in Threads, NEW S, NEW l, StartEvict(t, S, l),
           UNCHANGED <<held, now>>
    PROVE  /\ StepOf(t) /\ pc'[t] = "evict" /\ req'[t].cont = l
           /\ req'[t].caller = req[t].caller /\ req'[t].handle = req[t].handle
           /\ req'[t].batch = req[t].batch /\ req'[t].deadline = req[t].deadline
<1>1. /\ \E o : victim' = [victim EXCEPT ![t] = o]
      /\ \E p : ptr' = [ptr EXCEPT ![t] = p]
      /\ req' = [req EXCEPT ![t].cont = l]
      /\ pc' = [pc EXCEPT ![t] = "evict"]
    BY DEF StartEvict, Goto
<1>2. req[t] \in Request /\ req \in [Threads -> Request]
    BY DEF ThreadTypeOK
<1>3. /\ req'[t].cont = l
      /\ req'[t].caller = req[t].caller /\ req'[t].handle = req[t].handle
      /\ req'[t].batch = req[t].batch /\ req'[t].deadline = req[t].deadline
    BY <1>1, <1>2 DEF Request
<1>4. \A u \in Threads \ {t} : /\ pc'[u] = pc[u] /\ req'[u] = req[u]
                               /\ victim'[u] = victim[u] /\ ptr'[u] = ptr[u]
    BY <1>1 DEF ThreadTypeOK
<1> QED BY <1>1, <1>3, <1>4 DEF ThreadTypeOK, StepOf, OthersSame

-----------------------------------------------------------------------------
(* Handles. *)

\* What a thread other than t names does not change.
LEMMA OthersName ==
    ASSUME NEW t \in Threads, StepOf(t), NEW u \in Threads \ {t}
    PROVE  /\ Making(u)' <=> Making(u)
           /\ Binding(u)' <=> Binding(u)
           /\ \A n : Names(u, n)' <=> Names(u, n)
           /\ Due(u)' = Due(u)
           /\ pc'[u] = pc[u] /\ req'[u] = req[u] /\ ptr'[u] = ptr[u]
<1>1. pc'[u] = pc[u] /\ req'[u] = req[u] /\ ptr'[u] = ptr[u] /\ now' = now
    BY DEF StepOf, OthersSame
<1>2. (Making(u)' <=> Making(u)) /\ (Binding(u)' <=> Binding(u))
    BY <1>1 DEF Making, Binding
<1> QED BY <1>1, <1>2 DEF Names, Due

\* Thread t has no handle of its own after the step, or goes on with the one
\* it had, or has made a node.
NamesKept(t) ==
    \/ ~Making(t)' /\ ~Binding(t)'
    \/ /\ Binding(t) /\ Binding(t)' /\ ~Making(t)'
       /\ req'[t].handle = req[t].handle /\ req'[t].caller = req[t].caller
       /\ req'[t].batch = req[t].batch
       /\ req[t].batch => Due(t) <= Due(t)'
    \/ /\ pc'[t] = "publish"
       /\ ptr'[t] = nodesMade + 1 /\ nodesMade' = nodesMade + 1

\* The time an operation will be given is a number.
LEMMA DueType ==
    ASSUME ThreadTypeOK, NEW t \in Threads
    PROVE  Due(t) \in Nat
<1>1. req[t] \in Request /\ now \in Nat
    BY DEF ThreadTypeOK
<1>2. req[t].deadline \in Nat
    BY <1>1 DEF Request
<1> QED BY <1>1, <1>2, TimeBounds DEF Due

\* The handles stay apart through a step that writes no node and appends no
\* operation.
LEMMA MadeOnceKept ==
    ASSUME Inv, Inv', NEW t \in Threads, NodesMadeOnce, StepOf(t), NodesKept,
           OperationsKept, NamesKept(t)
    PROVE  NodesMadeOnce'
<1>1. nodesMade \in Nat /\ nodesMade' \in Nat /\ nodesMade <= nodesMade'
    BY NodeLimits DEF NodesKept, Inv, NodeInv, NodeTypeOK
<1>2. ASSUME NEW o \in g_operationList'
      PROVE  /\ o \in g_operationList /\ operation'[o].handle = operation[o].handle
             /\ operation[o].handle <= nodesMade /\ operation[o].handle \in Nat
    <2>1. o \in g_operationList /\ operation'[o].handle = operation[o].handle
        BY DEF OperationsKept, SameOperation
    <2>2. operation[o] \in HksOperation
        BY <2>1, OperationsFinite DEF Inv, SessionInv, SessionTypeOK
    <2> QED BY <2>1, <2>2 DEF NodesMadeOnce, HksOperation
<1>3. ASSUME NEW u \in Threads
      PROVE  /\ req[u].handle \in Nat /\ req'[u].handle \in Nat
             /\ ptr[u] \in Nat /\ ptr'[u] \in Nat
    BY NodeLimits DEF Inv, ThreadTypeOK, Request, NodeIds, NULL
<1>4. ASSUME NEW u \in Threads, Binding(u)' PROVE req'[u].handle <= nodesMade
    <2>1. CASE u # t
        BY <1>4, <2>1, OthersName DEF NodesMadeOnce
    <2>2. CASE u = t
        <3>1. Binding(t) /\ req'[t].handle = req[t].handle
            BY <1>4, <2>2 DEF NamesKept, Binding
        <3> QED BY <2>2, <3>1 DEF NodesMadeOnce
    <2> QED BY <2>1, <2>2
<1>5. ASSUME NEW u \in Threads, Making(u)'
      PROVE  \/ u # t /\ Making(u) /\ ptr'[u] = ptr[u]
             \/ u = t /\ ptr'[t] = nodesMade + 1 /\ nodesMade' = nodesMade + 1
    <2>1. CASE u # t
        BY <1>5, <2>1, OthersName
    <2>2. CASE u = t
        BY <1>5, <2>2 DEF NamesKept
    <2> QED BY <2>1, <2>2
<1>6. ASSUME NEW u \in Threads, Making(u)' PROVE ptr'[u] \in 1 .. nodesMade'
    BY <1>1, <1>5, <1>6 DEF NodesMadeOnce
<1>7. ASSUME NEW u \in Threads, NEW n, Names(u, n)', n <= nodesMade
      PROVE  Names(u, n)
    <2>1. CASE u # t
        BY <1>7, <2>1, OthersName
    <2>2. CASE u = t
        <3>1. ~Making(t)'
            BY <1>1, <1>3, <1>5, <1>7, <2>2 DEF Names, Binding, Making
        <3>2. Binding(t)' /\ req'[t].handle = n
            BY <1>7, <2>2, <3>1 DEF Names
        <3>3. Binding(t) /\ req'[t].handle = req[t].handle
            BY <3>1, <3>2 DEF NamesKept, Making
        <3> QED BY <2>2, <3>2, <3>3 DEF Names
    <2> QED BY <2>1, <2>2
<1>8. ASSUME NEW u \in Threads, NEW n, Names(u, n)', n \in Nat, n > nodesMade
      PROVE  u = t /\ Making(t)'
    <2>1. ~(Binding(u)' /\ req'[u].handle = n)
        BY <1>1, <1>3, <1>4, <1>8
    <2>2. Making(u)' /\ ptr'[u] = n
        BY <1>8, <2>1 DEF Names
    <2> QED BY <1>1, <1>5, <1>8, <2>2 DEF NodesMadeOnce
<1>9. ASSUME NEW u \in Threads, Making(u)', NEW p, ptr'[u] = p PROVE ~Known(u, p)'
    <2>1. CASE u # t
        <3>1. Making(u) /\ ptr[u] = p /\ p \in 1 .. nodesMade /\ ~Known(u, p)
            BY <1>5, <1>9, <2>1 DEF NodesMadeOnce
        <3>2. ASSUME NEW v \in Threads \ {u}, Names(v, p)' PROVE FALSE
            <4>1. Names(v, p)
                BY <1>1, <1>7, <3>1, <3>2
            <4> QED BY <3>1, <4>1 DEF Known
        <3>3. ASSUME NEW o \in g_operationList', operation'[o].handle = p PROVE FALSE
            BY <1>2, <3>1, <3>3 DEF Known
        <3> QED BY <3>2, <3>3 DEF Known
    <2>2. CASE u = t
        <3>1. p = nodesMade + 1
            BY <1>1, <1>5, <1>9, <2>2
        <3>2. p \in Nat /\ p > nodesMade
            BY <1>1, <3>1
        <3>3. ASSUME NEW v \in Threads \ {u}, Names(v, p)' PROVE FALSE
            BY <1>8, <2>2, <3>2, <3>3
        <3>4. ASSUME NEW o \in g_operationList', operation'[o].handle = p PROVE FALSE
            BY <1>1, <1>2, <3>1, <3>4
        <3> QED BY <3>3, <3>4 DEF Known
    <2> QED BY <2>1, <2>2
<1>10. ASSUME NEW u \in Threads, Making(u)' PROVE ~Known(u, ptr[u])'
    BY <1>9, <1>10 DEF Known, Names
<1> QED BY <1>1, <1>2, <1>3, <1>4, <1>6, <1>10 DEF NodesMadeOnce

\* The node of handle h has gone or is as it was.
NodeSame(h) == h \in g_keyNodeList' => h \in g_keyNodeList /\ keyNode'[h] = keyNode[h]

\* A node that stays in the list still fits, and a later deadline fits too.
LEMMA NodeIsKept ==
    ASSUME NodeInv, NEW h, NodeSame(h), NEW k, NEW b,
           NEW d \in Nat, NEW e \in Nat, NodeIs(h, k, b, d), b => d <= e
    PROVE  NodeIs(h, k, b, e)'
<1>1. SUFFICES ASSUME h \in g_keyNodeList'
               PROVE  /\ keyNode'[h].token = k
                      /\ keyNode'[h].isBatchOperation = b
                      /\ b => keyNode'[h].batchOperationTimestamp <= e
    BY DEF NodeIs
<1>2. h \in g_keyNodeList /\ keyNode'[h] = keyNode[h]
    BY <1>1 DEF NodeSame
<1>3. keyNode[h] \in HuksKeyNode
    BY <1>2, NodesFinite DEF NodeInv, NodeTypeOK
<1>4. keyNode[h].batchOperationTimestamp \in Nat
    BY <1>3 DEF HuksKeyNode
<1>5. /\ keyNode[h].token = k
      /\ keyNode[h].isBatchOperation = b
      /\ b => keyNode[h].batchOperationTimestamp <= d
    BY <1>2 DEF NodeIs
<1>6. ASSUME b PROVE keyNode[h].batchOperationTimestamp <= e
    BY <1>4, <1>5, <1>6
<1> QED BY <1>2, <1>5, <1>6

\* An operation that stays in the list still fits its node.
LEMMA OperationFits ==
    ASSUME Inv, NodesFit, NEW o \in g_operationList, SameOperation(o),
           NodeSame(operation[o].handle)
    PROVE  NodeIs(operation[o].handle, operation[o].owner.token,
                  operation[o].isBatchOperation, operation[o].batchOperationTimestamp)'
<1>1. PICK h, k, b, d : /\ h = operation[o].handle /\ k = operation[o].owner.token
                        /\ b = operation[o].isBatchOperation
                        /\ d = operation[o].batchOperationTimestamp
    OBVIOUS
<1>2. operation[o] \in HksOperation
    BY OperationsFinite DEF Inv, SessionInv, SessionTypeOK
<1>3. d \in Nat /\ NodeSame(h) /\ d <= d
    BY <1>1, <1>2 DEF HksOperation, NodeSame
<1>4. NodeIs(h, k, b, d)
    BY <1>1 DEF NodesFit, NodeIs
<1>5. NodeIs(h, k, b, d)'
    BY <1>3, <1>4, NodeIsKept DEF Inv
<1> QED BY <1>1, <1>5 DEF SameOperation, NodeIs

\* A request that goes on with its handle still fits its node.
LEMMA RequestFits ==
    ASSUME Inv, Inv', NodesFit, NEW u \in Threads, Binding(u), NodeSame(req[u].handle),
           req'[u].handle = req[u].handle, req'[u].caller = req[u].caller,
           req'[u].batch = req[u].batch, req[u].batch => Due(u) <= Due(u)'
    PROVE  NodeIs(req[u].handle, req[u].caller.token, req[u].batch, Due(u))'
<1>1. PICK h, k, b, d, e : /\ h = req[u].handle /\ k = req[u].caller.token
                           /\ b = req[u].batch /\ d = Due(u) /\ e = Due(u)'
    OBVIOUS
<1>2. NodeSame(h)
    BY <1>1 DEF NodeSame
<1>3. d \in Nat
    BY <1>1, DueType DEF Inv
<1>4. e \in Nat
    <2>1. req'[u] \in Request /\ now' \in Nat
        BY DEF Inv, ThreadTypeOK
    <2>2. req'[u].deadline \in Nat
        BY <2>1 DEF Request
    <2>3. PICK m \in Nat : m = now'
        BY <2>1
    <2>4. m + BatchTimeout \in Nat
        BY TimeBounds
    <2>5. Due(u)' \in Nat
        BY <2>2, <2>3, <2>4 DEF Due
    <2> QED BY <1>1, <2>5, Zenon
<1>5. NodeIs(h, k, b, d)
    BY <1>1 DEF NodesFit
<1>6. NodeIs(h, k, b, e)'
    <2>1. b => d <= e
        BY <1>1
    <2> QED BY <1>2, <1>3, <1>4, <1>5, <2>1, NodeIsKept DEF Inv
<1>7. h = req'[u].handle /\ k = req'[u].caller.token /\ b = req'[u].batch
    BY <1>1
<1> QED BY <1>1, <1>6, <1>7 DEF NodeIs

\* The node a thread fills in keeps the token it was given.
LEMMA OwnTokenKept ==
    ASSUME NodesFit, NEW u \in Threads, pc[u] = "coreInit", NodeSame(ptr[u]),
           pc'[u] = pc[u], ptr'[u] = ptr[u], req'[u] = req[u], ptr'[u] \in g_keyNodeList'
    PROVE  keyNode'[ptr'[u]].token = req'[u].caller.token
BY DEF NodesFit, NodeSame

\* Nodes, requests and operations still agree after a step that writes no
\* node and appends no operation.
LEMMA FitKept ==
    ASSUME Inv, Inv', NEW t \in Threads, NodesMadeOnce, NodesFit, StepOf(t), NodesKept,
           OperationsKept, NamesKept(t)
    PROVE  NodesFit'
<1>0. ASSUME NEW h, h <= nodesMade PROVE NodeSame(h)
    BY <1>0 DEF NodesKept, NodeSame
<1>1. ASSUME NEW o \in g_operationList'
      PROVE  NodeIs(operation[o].handle, operation[o].owner.token,
                    operation[o].isBatchOperation, operation[o].batchOperationTimestamp)'
    <2>1. o \in g_operationList /\ SameOperation(o) /\ operation[o].handle <= nodesMade
        BY DEF OperationsKept, NodesMadeOnce
    <2> QED BY <1>0, <2>1, OperationFits
<1>2. ASSUME NEW u \in Threads, Binding(u)'
      PROVE  NodeIs(req[u].handle, req[u].caller.token, req[u].batch, Due(u))'
    <2>1. CASE u # t
        <3>1. Binding(u) /\ Due(u)' = Due(u) /\ req'[u] = req[u]
            BY <1>2, <2>1, OthersName
        <3>2. Due(u) <= Due(u)'
            BY <3>1, DueType DEF Inv
        <3>3. NodeSame(req[u].handle)
            BY <1>0, <3>1 DEF NodesMadeOnce
        <3> QED BY <3>1, <3>2, <3>3, RequestFits
    <2>2. CASE u = t
        <3>1. /\ Binding(t) /\ req'[t].handle = req[t].handle /\ req'[t].caller = req[t].caller
              /\ req'[t].batch = req[t].batch /\ (req[t].batch => Due(t) <= Due(t)')
            BY <1>2, <2>2 DEF NamesKept, Binding
        <3>2. NodeSame(req[u].handle)
            BY <1>0, <2>2, <3>1 DEF NodesMadeOnce
        <3> QED BY <2>2, <3>1, <3>2, RequestFits
    <2> QED BY <2>1, <2>2
<1>3. ASSUME NEW u \in Threads, pc'[u] = "coreInit", ptr'[u] \in g_keyNodeList'
      PROVE  keyNode'[ptr'[u]].token = req'[u].caller.token
    <2>1. u # t
        BY <1>3 DEF NamesKept, Making
    <2>2. pc'[u] = pc[u] /\ ptr'[u] = ptr[u] /\ req'[u] = req[u]
        BY <2>1, OthersName
    <2>3. NodeSame(ptr[u])
        BY <1>0, <1>3, <2>2, NodeLimits DEF NodesMadeOnce, Making, Inv, NodeInv, NodeTypeOK
    <2> QED BY <1>3, <2>2, <2>3, OwnTokenKept
<1> QED BY <1>1, <1>2, <1>3 DEF NodesFit

\* AddOperation: the handle passes from the request to the operation.
LEMMA AppendHandles ==
    ASSUME Inv, Inv', NEW t \in Threads, NodesMadeOnce, NodesFit, AddOperation(t)
    PROVE  NodesMadeOnce' /\ NodesFit'
<1> DEFINE n == operationsMade + 1
<1>1. /\ pc[t] = "append" /\ StepOf(t) /\ pc'[t] = "idle" /\ UNCHANGED nodeVars
    BY ReturnLocal DEF AddOperation, Inv
<1>2. /\ g_operationList' = g_operationList \cup {n}
      /\ operation' = [operation EXCEPT ![n] =
                         [owner |-> req[t].caller, handle |-> req[t].handle, isInUse |-> FALSE,
                          isBatchOperation |-> req[t].batch,
                          batchOperationTimestamp |-> req[t].deadline]]
      /\ n \in OpIds /\ n \notin g_operationList /\ g_operationList \subseteq OpIds
    BY OperationsFinite, OperationLimits
       DEF AddOperation, AppendOperation, Inv, SessionInv, SessionTypeOK, OpIds
<1> HIDE DEF n
<1>3. /\ operation'[n].owner = req[t].caller /\ operation'[n].handle = req[t].handle
      /\ operation'[n].isBatchOperation = req[t].batch
      /\ operation'[n].batchOperationTimestamp = req[t].deadline
    BY <1>2 DEF Inv, SessionInv, SessionTypeOK
<1>4. \A o \in g_operationList : operation'[o] = operation[o]
    BY <1>2 DEF Inv, SessionInv, SessionTypeOK
<1>5. /\ g_keyNodeList' = g_keyNodeList /\ keyNode' = keyNode /\ nodesMade' = nodesMade
    BY <1>1 DEF nodeVars
<1>6. Binding(t) /\ Due(t) = req[t].deadline /\ ~Binding(t)' /\ ~Making(t)'
    BY <1>1 DEF Binding, Making, Due
<1>7. NodesMadeOnce'
    <2>1. ASSUME NEW o \in g_operationList' PROVE operation'[o].handle <= nodesMade'
        BY <1>2, <1>3, <1>4, <1>5, <1>6 DEF NodesMadeOnce
    <2>2. ASSUME NEW u \in Threads, Binding(u)' PROVE req'[u].handle <= nodesMade'
        <3>1. u # t
            BY <1>6, <2>2
        <3> QED BY <1>1, <1>5, <2>2, <3>1, OthersName DEF NodesMadeOnce
    <2>3. ASSUME NEW u \in Threads, Making(u)'
          PROVE  ptr'[u] \in 1 .. nodesMade' /\ ~Known(u, ptr[u])'
        <3>1. u # t
            BY <1>6, <2>3
        <3>2. PICK p : p = ptr[u]
            OBVIOUS
        <3>3. ptr'[u] = p /\ Making(u) /\ p \in 1 .. nodesMade /\ ~Known(u, p)
            BY <1>1, <2>3, <3>1, <3>2, OthersName DEF NodesMadeOnce
        <3>4. ASSUME NEW v \in Threads \ {u}, Names(v, p)' PROVE FALSE
            <4>1. v # t
                BY <1>6, <3>4 DEF Names
            <4>2. Names(v, p)
                BY <1>1, <3>4, <4>1, OthersName
            <4> QED BY <3>3, <4>2 DEF Known
        <3>5. ASSUME NEW o \in g_operationList', operation'[o].handle = p PROVE FALSE
            <4>1. CASE o \in g_operationList
                BY <1>4, <3>3, <3>5, <4>1 DEF Known
            <4>2. CASE o = n
                <5>1. Names(t, p)
                    BY <1>3, <1>6, <3>5, <4>2 DEF Names
                <5> QED BY <3>1, <3>3, <5>1 DEF Known
            <4> QED BY <1>2, <4>1, <4>2
        <3>6. ~Known(u, p)'
            BY <3>4, <3>5 DEF Known
        <3>7. ~Known(u, ptr[u])'
            BY <3>3, <3>6 DEF Known, Names
        <3> QED BY <1>5, <3>3, <3>7
    <2> QED BY <2>1, <2>2, <2>3 DEF NodesMadeOnce
<1>8. NodesFit'
    <2>0. \A h : NodeSame(h)
        BY <1>5 DEF NodeSame
    <2>1. ASSUME NEW o \in g_operationList'
          PROVE  NodeIs(operation[o].handle, operation[o].owner.token,
                        operation[o].isBatchOperation, operation[o].batchOperationTimestamp)'
        <3>1. CASE o \in g_operationList
            <4>1. SameOperation(o)
                BY <1>4, <3>1 DEF SameOperation
            <4> QED BY <2>0, <3>1, <4>1, OperationFits
        <3>2. CASE o = n
            <4>1. PICK h, k, b, d : /\ h = req[t].handle /\ k = req[t].caller.token
                                    /\ b = req[t].batch /\ d = req[t].deadline
                OBVIOUS
            <4>2. NodeIs(h, k, b, d)
                BY <1>6, <4>1 DEF NodesFit
            <4>3. NodeIs(h, k, b, d)'
                BY <1>5, <4>2 DEF NodeIs
            <4> QED BY <1>3, <3>2, <4>1, <4>3 DEF NodeIs
        <3> QED BY <1>2, <3>1, <3>2
    <2>2. ASSUME NEW u \in Threads, Binding(u)'
          PROVE  NodeIs(req[u].handle, req[u].caller.token, req[u].batch, Due(u))'
        <3>1. u # t
            BY <1>6, <2>2
        <3>2. Binding(u) /\ Due(u)' = Due(u) /\ req'[u] = req[u]
            BY <1>1, <2>2, <3>1, OthersName
        <3>3. Due(u) <= Due(u)'
            BY <3>2, DueType DEF Inv
        <3> QED BY <2>0, <3>2, <3>3, RequestFits
    <2>3. ASSUME NEW u \in Threads, pc'[u] = "coreInit", ptr'[u] \in g_keyNodeList'
          PROVE  keyNode'[ptr'[u]].token = req'[u].caller.token
        <3>1. u # t
            BY <1>1, <2>3
        <3>2. pc'[u] = pc[u] /\ ptr'[u] = ptr[u] /\ req'[u] = req[u]
            BY <1>1, <3>1, OthersName
        <3> QED BY <2>0, <2>3, <3>2, OwnTokenKept
    <2> QED BY <2>1, <2>2, <2>3 DEF NodesFit
<1> QED BY <1>7, <1>8

\* A thread writes the node it makes: nobody else has its handle.
LEMMA WriteHandles ==
    ASSUME Inv, Inv', NEW t \in Threads, NodesMadeOnce, NodesFit, StepOf(t), Making(t),
           UNCHANGED sessionVars, UNCHANGED <<g_keyNodeList, nodesMade>>,
           \A n \in g_keyNodeList : n # ptr[t] => keyNode'[n] = keyNode[n],
           \A n : Names(t, n)' => n = ptr[t],
           Binding(t)' => NodeIs(req[t].handle, req[t].caller.token, req[t].batch, Due(t))',
           Making(t)' => ptr'[t] = ptr[t],
           pc'[t] = "coreInit" /\ ptr'[t] \in g_keyNodeList' =>
               keyNode'[ptr'[t]].token = req'[t].caller.token
    PROVE  NodesMadeOnce' /\ NodesFit'
<1>1. PICK m : m = ptr[t]
    OBVIOUS
<1>2. m \in 1 .. nodesMade /\ ~Known(t, m) /\ Names(t, m) /\ nodesMade \in Nat
    BY <1>1, NodeLimits DEF NodesMadeOnce, Names, Inv, NodeInv, NodeTypeOK
<1>3. \A n : n # m => NodeSame(n)
    BY <1>1 DEF NodeSame
<1>4. ASSUME NEW u \in Threads, NEW p, Names(u, p)' PROVE Names(u, p)
    <2>1. CASE u = t
        BY <1>1, <1>2, <1>4, <2>1
    <2>2. CASE u # t
        BY <1>4, <2>2, OthersName
    <2> QED BY <2>1, <2>2
<1>5. /\ g_operationList' = g_operationList /\ operation' = operation /\ nodesMade' = nodesMade
    BY DEF sessionVars
<1>6. ASSUME NEW u \in Threads, NEW p, ~Known(u, p) PROVE ~Known(u, p)'
    BY <1>4, <1>5, <1>6 DEF Known
<1>7. NodesMadeOnce'
    <2>1. ASSUME NEW u \in Threads, Binding(u)' PROVE req'[u].handle <= nodesMade'
        <3>1. CASE u # t
            BY <1>5, <2>1, <3>1, OthersName DEF NodesMadeOnce
        <3>2. CASE u = t
            <4>1. req'[t].handle = ptr[t]
                BY <2>1, <3>2 DEF Names
            <4> QED BY <1>1, <1>2, <1>5, <3>2, <4>1
        <3> QED BY <3>1, <3>2
    <2>2. ASSUME NEW u \in Threads, Making(u)'
          PROVE  ptr'[u] \in 1 .. nodesMade' /\ ~Known(u, ptr[u])'
        <3>1. Making(u) /\ ptr'[u] = ptr[u]
            <4>1. CASE u # t
                BY <2>2, <4>1, OthersName
            <4>2. CASE u = t
                BY <2>2, <4>2
            <4> QED BY <4>1, <4>2
        <3>2. PICK p : p = ptr[u] /\ p = ptr'[u]
            BY <3>1
        <3>3. p \in 1 .. nodesMade /\ ~Known(u, p)
            BY <3>1, <3>2 DEF NodesMadeOnce
        <3>4. ~Known(u, p)'
            BY <1>6, <3>3
        <3>5. ~Known(u, ptr[u])'
            BY <3>2, <3>4 DEF Known, Names
        <3> QED BY <1>5, <3>2, <3>3, <3>5
    <2> QED BY <1>5, <2>1, <2>2 DEF NodesMadeOnce
<1>8. NodesFit'
    <2>1. ASSUME NEW o \in g_operationList'
          PROVE  NodeIs(operation[o].handle, operation[o].owner.token,
                        operation[o].isBatchOperation, operation[o].batchOperationTimestamp)'
        <3>1. operation[o].handle # m /\ o \in g_operationList
            BY <1>2, <1>5 DEF Known
        <3>2. SameOperation(o) /\ NodeSame(operation[o].handle)
            BY <1>3, <1>5, <3>1 DEF SameOperation
        <3> QED BY <3>1, <3>2, OperationFits
    <2>2. ASSUME NEW u \in Threads, Binding(u)'
          PROVE  NodeIs(req[u].handle, req[u].caller.token, req[u].batch, Due(u))'
        <3>1. CASE u = t
            BY <2>2, <3>1
        <3>2. CASE u # t
            <4>1. Binding(u) /\ Due(u)' = Due(u) /\ req'[u] = req[u]
                BY <2>2, <3>2, OthersName
            <4>2. Due(u) <= Due(u)'
                BY <4>1, DueType DEF Inv
            <4>3. req[u].handle # m
                BY <1>2, <3>2, <4>1 DEF Known, Names
            <4> QED BY <1>3, <4>1, <4>2, <4>3, RequestFits
        <3> QED BY <3>1, <3>2
    <2>3. ASSUME NEW u \in Threads, pc'[u] = "coreInit", ptr'[u] \in g_keyNodeList'
          PROVE  keyNode'[ptr'[u]].token = req'[u].caller.token
        <3>1. CASE u = t
            BY <2>3, <3>1
        <3>2. CASE u # t
            <4>1. pc'[u] = pc[u] /\ ptr'[u] = ptr[u] /\ req'[u] = req[u]
                BY <3>2, OthersName
            <4>2. ptr[u] # m
                BY <1>2, <2>3, <3>2, <4>1 DEF Known, Names, Making
            <4> QED BY <1>3, <2>3, <4>1, <4>2, OwnTokenKept
        <3> QED BY <3>1, <3>2
    <2> QED BY <2>1, <2>2, <2>3 DEF NodesFit
<1> QED BY <1>7, <1>8

\* A pointer that was good when it was followed reaches its own node.
LEMMA GoodPointer ==
    ASSUME NEW t \in Threads, Follow(t), ~usedAfterFree'
    PROVE  ~usedAfterFree /\ ptr[t] \in g_keyNodeList /\ Deref(ptr[t]) = {ptr[t]}
BY DEF Follow, Deref

\* HksCreateKeyNode sets the parameter sets of its node.
LEMMA PublishHandles ==
    ASSUME Inv, Inv', NEW t \in Threads, NodesMadeOnce, NodesFit, PublishKeyNode(t),
           ~usedAfterFree'
    PROVE  NodesMadeOnce' /\ NodesFit'
<1>1. PICK m : m = ptr[t]
    OBVIOUS
<1>2. m \in g_keyNodeList /\ PublishRuntimeParamSet(m, req[t].caller.token)
    BY <1>1, GoodPointer DEF PublishKeyNode
<1>3. /\ StepOf(t) /\ pc[t] = "publish" /\ pc'[t] = "coreInit"
      /\ req'[t] = req[t] /\ ptr'[t] = ptr[t] /\ UNCHANGED sessionVars
    BY GotoLocal DEF PublishKeyNode, Inv
<1>4. Making(t) /\ Making(t)' /\ ~Binding(t)'
    BY <1>3 DEF Making, Binding
<1>5. m \in NodeIds /\ keyNode \in [NodeIds -> HuksKeyNode] /\ g_keyNodeList \subseteq NodeIds
    BY <1>2, NodesFinite DEF Inv, NodeInv, NodeTypeOK
<1>6. /\ UNCHANGED <<g_keyNodeList, nodesMade>>
      /\ keyNode' = [keyNode EXCEPT ![m] = [keyNode[m] EXCEPT !.token = req[t].caller.token]]
    BY <1>2 DEF PublishRuntimeParamSet, WriteKeyNode
<1>7. /\ \A n \in g_keyNodeList : n # m => keyNode'[n] = keyNode[n]
      /\ keyNode'[m].token = req[t].caller.token
    BY <1>5, <1>6 DEF HuksKeyNode
<1>8. \A n : Names(t, n)' => n = ptr[t]
    BY <1>3, <1>4 DEF Names
<1>9. keyNode'[ptr'[t]].token = req'[t].caller.token
    BY <1>1, <1>3, <1>7
<1>10. \A n \in g_keyNodeList : n # ptr[t] => keyNode'[n] = keyNode[n]
    BY <1>1, <1>7
<1> QED BY <1>3, <1>4, <1>6, <1>8, <1>9, <1>10, WriteHandles

\* HksCoreInit sets the batch fields and hands the handle out.
LEMMA CoreInitHandles ==
    ASSUME Inv, Inv', NEW t \in Threads, NodesMadeOnce, NodesFit, HksCoreInit(t),
           ~usedAfterFree'
    PROVE  NodesMadeOnce' /\ NodesFit'
<1>1. PICK m : m = ptr[t]
    OBVIOUS
<1>2. m \in g_keyNodeList /\ Deref(ptr[t]) = {m}
    BY <1>1, GoodPointer DEF HksCoreInit
<1>3. PICK d : d = Deadline(req[t].batch)
    OBVIOUS
<1>4. /\ HksAddBatchTimeToKeyNode(m, req[t].batch, d)
      /\ \/ /\ req' = [req EXCEPT ![t].handle = m]
            /\ ptr' = [ptr EXCEPT ![t] = NULL]
            /\ Goto(t, "createOperation")
         \/ /\ ptr' = [ptr EXCEPT ![t] = m]
            /\ Goto(t, "coreInitFail")
            /\ UNCHANGED req
    BY <1>2, <1>3 DEF HksCoreInit
<1>5. /\ pc[t] = "coreInit" /\ UNCHANGED <<sessionVars, now, held, victim>>
    BY DEF HksCoreInit
<1>6. Making(t) /\ keyNode[m].token = req[t].caller.token
    BY <1>1, <1>2, <1>5 DEF Making, NodesFit
<1>7. m \in NodeIds /\ keyNode \in [NodeIds -> HuksKeyNode] /\ g_keyNodeList \subseteq NodeIds
    BY <1>2, NodesFinite DEF Inv, NodeInv, NodeTypeOK
<1>8. /\ UNCHANGED <<g_keyNodeList, nodesMade>>
      /\ keyNode' = [keyNode EXCEPT ![m] = [keyNode[m] EXCEPT !.isBatchOperation = req[t].batch,
                                                            !.batchOperationTimestamp = d]]
    BY <1>2, <1>4 DEF HksAddBatchTimeToKeyNode, WriteKeyNode
<1>9. /\ \A n \in g_keyNodeList : n # ptr[t] => keyNode'[n] = keyNode[n]
      /\ keyNode'[m].token = keyNode[m].token
      /\ keyNode'[m].isBatchOperation = req[t].batch
      /\ keyNode'[m].batchOperationTimestamp = d
    BY <1>1, <1>7, <1>8 DEF HuksKeyNode
<1>10. req \in [Threads -> Request] /\ req[t] \in Request /\ now \in Nat
    BY DEF Inv, ThreadTypeOK
<1>11. CASE /\ req' = [req EXCEPT ![t].handle = m]
            /\ ptr' = [ptr EXCEPT ![t] = NULL]
            /\ Goto(t, "createOperation")
    <2>1. /\ StepOf(t) /\ pc'[t] = "createOperation"
        BY <1>5, <1>11 DEF Inv, ThreadTypeOK, Goto, StepOf, OthersSame
    <2>2. /\ req'[t].handle = m /\ req'[t].caller = req[t].caller /\ req'[t].batch = req[t].batch
        BY <1>10, <1>11 DEF Request
    <2>3. ~Making(t)' /\ Binding(t)' /\ Due(t)' = now + BatchTimeout
        BY <1>5, <2>1 DEF Making, Binding, Due
    <2>4. \A n : Names(t, n)' => n = ptr[t]
        BY <1>1, <2>2, <2>3 DEF Names
    <2>5. req[t].batch => d <= now + BatchTimeout
        BY <1>3, <1>10, TimeBounds DEF Deadline
    <2>6. NodeIs(req[t].handle, req[t].caller.token, req[t].batch, Due(t))'
        <3>1. PICK k, b, e : /\ k = req[t].caller.token /\ b = req[t].batch
                             /\ e = now + BatchTimeout
            OBVIOUS
        <3>2. NodeIs(m, k, b, e)'
            <4>1. keyNode'[m].token = k /\ keyNode'[m].isBatchOperation = b
                BY <1>6, <1>9, <3>1
            <4>2. b => keyNode'[m].batchOperationTimestamp <= e
                BY <1>9, <2>5, <3>1
            <4> QED BY <4>1, <4>2 DEF NodeIs
        <3> QED BY <2>2, <2>3, <3>1, <3>2 DEF NodeIs
    <2>7. pc'[t] # "coreInit"
        BY <2>1
    <2> QED BY <1>5, <1>6, <1>8, <1>9, <2>1, <2>3, <2>4, <2>6, <2>7, WriteHandles
<1>12. CASE /\ ptr' = [ptr EXCEPT ![t] = m]
            /\ Goto(t, "coreInitFail")
            /\ UNCHANGED req
    <2>1. StepOf(t) /\ pc'[t] = "coreInitFail"
        BY <1>5, <1>12, GotoPtrLocal DEF Inv
    <2>2. ~Making(t)' /\ ~Binding(t)' /\ pc'[t] # "coreInit"
        BY <2>1 DEF Making, Binding
    <2>3. \A n : ~Names(t, n)'
        BY <2>2 DEF Names
    <2> QED BY <1>5, <1>6, <1>8, <1>9, <2>1, <2>2, <2>3, WriteHandles
<1> QED BY <1>4, <1>11, <1>12

\* The clock goes on, or nothing happens.
LEMMA TimeHandles ==
    ASSUME Inv, Inv', NodesMadeOnce, NodesFit,
           UNCHANGED <<nodeVars, sessionVars, threadVars, usedAfterFree>>, now <= now'
    PROVE  NodesMadeOnce' /\ NodesFit'
<1>1. UNCHANGED <<pc, req, ptr, g_keyNodeList, keyNode, nodesMade, g_operationList, operation>>
    BY DEF nodeVars, sessionVars, threadVars
<1>2. \A u : (Making(u)' <=> Making(u)) /\ (Binding(u)' <=> Binding(u))
    BY <1>1 DEF Making, Binding
<1>3. \A u, n : Names(u, n)' <=> Names(u, n)
    BY <1>1, <1>2 DEF Names
<1>4. ASSUME NEW u \in Threads, ~Known(u, ptr[u]) PROVE ~Known(u, ptr[u])'
    BY <1>1, <1>2, <1>4 DEF Known, Names
<1>5. NodesMadeOnce'
    BY <1>1, <1>2, <1>4 DEF NodesMadeOnce
<1>6. \A h : NodeSame(h)
    BY <1>1 DEF NodeSame
<1>7. ASSUME NEW o \in g_operationList'
      PROVE  NodeIs(operation[o].handle, operation[o].owner.token,
                    operation[o].isBatchOperation, operation[o].batchOperationTimestamp)'
    <2>1. o \in g_operationList /\ SameOperation(o)
        BY <1>1 DEF SameOperation
    <2> QED BY <1>6, <2>1, OperationFits
<1>8. ASSUME NEW u \in Threads, Binding(u)'
      PROVE  NodeIs(req[u].handle, req[u].caller.token, req[u].batch, Due(u))'
    <2>1. now \in Nat /\ now' \in Nat /\ req[u] \in Request
        BY DEF Inv, ThreadTypeOK
    <2>2. req[u].deadline \in Nat
        BY <2>1 DEF Request
    <2>3. Due(u) <= Due(u)'
        <3>1. PICK a \in Nat, b \in Nat : a = now /\ b = now'
            BY <2>1
        <3>2. a + BatchTimeout <= b + BatchTimeout
            <4>1. a <= b
                BY <3>1
            <4>2. BatchTimeout \in Nat
                BY TimeBounds
            <4> HIDE <3>1
            <4> QED BY <4>1, <4>2
        <3>3. req[u].deadline <= req[u].deadline
            BY <2>2
        <3>4. Due(u) = (IF pc[u] = "createOperation" THEN a + BatchTimeout ELSE req[u].deadline)
            BY <3>1 DEF Due
        <3>5. Due(u)' = (IF pc[u] = "createOperation" THEN b + BatchTimeout ELSE req[u].deadline)
            BY <1>1, <3>1 DEF Due
        <3> QED BY <3>2, <3>3, <3>4, <3>5
    <2> QED BY <1>1, <1>2, <1>6, <1>8, <2>3, RequestFits
<1>9. ASSUME NEW u \in Threads, pc'[u] = "coreInit", ptr'[u] \in g_keyNodeList'
      PROVE  keyNode'[ptr'[u]].token = req'[u].caller.token
    BY <1>1, <1>6, <1>9, OwnTokenKept
<1> QED BY <1>5, <1>7, <1>8, <1>9 DEF NodesFit

-----------------------------------------------------------------------------
(* Every other step keeps nodes, operations and names. *)

StepKeeps(t) == StepOf(t) /\ NodesKept /\ OperationsKept /\ NamesKept(t)

\* A thread that is at one of these labels after the step names no handle.
PlainLabels == Labels \ {"publish", "coreInit", "createOperation", "timeOut", "tokenLimit",
                         "countLimit", "append", "evict"}

\* A step to a plain label.
LEMMA PlainNames ==
    ASSUME NEW t \in Threads, pc'[t] \in PlainLabels
    PROVE  NamesKept(t)
BY DEF PlainLabels, Labels, NamesKept, Making, Binding

\* The steps that begin or answer a request, or follow it through the engine.
LEMMA PlainSteps ==
    ASSUME Inv, NEW t \in Threads,
           \/ Arrive(t) \/ InitFails(t) \/ HksCoreInitFail(t) \/ FinishWithOtherToken(t)
           \/ ChecksPass(t) \/ ChecksFail(t) \/ GetParamsForUpdateAndFinish(t)
           \/ HksCoreUpdateSucceeds(t) \/ HksCoreUpdateFails(t) \/ HksCoreFinishOrAbort(t)
           \/ CoreDelete(t)
    PROVE  StepKeeps(t)
<1> USE DEF Inv
<1>1. CASE Arrive(t)
    <2>0. PICK l \in {"createKeyNode", "query", "lockSweep"} : \E r : Call(t, l, r)
        BY <1>1 DEF Arrive, CallInit, CallSession, CallRemove
    <2>1. PICK r : Call(t, l, r)
        BY <2>0
    <2>2. /\ StepOf(t) /\ UNCHANGED <<nodeVars, sessionVars>> /\ pc'[t] = l
        BY <2>1, CallLocal
    <2>3. NamesKept(t)
        BY <2>2, PlainNames DEF PlainLabels, Labels
    <2> QED BY <2>2, <2>3, SameNodesKept, SameOperationsKept DEF StepKeeps, sessionVars
<1>2. CASE InitFails(t) \/ HksCoreInitFail(t) \/ FinishWithOtherToken(t)
    <2>1. Return(t) /\ now' = now /\ UNCHANGED sessionVars
        BY <1>2 DEF InitFails, HksCoreInitFail, FinishWithOtherToken
    <2>2. NodesKept
        BY <1>2, SameNodesKept, DeleteKeyNodeKeeps
           DEF InitFails, HksCoreInitFail, FinishWithOtherToken
    <2>3. StepOf(t) /\ pc'[t] = "idle"
        BY <2>1, ReturnLocal
    <2>4. NamesKept(t)
        BY <2>3, PlainNames DEF PlainLabels, Labels
    <2> QED BY <2>1, <2>2, <2>3, <2>4, SameOperationsKept DEF StepKeeps, sessionVars
<1>3. CASE \/ ChecksPass(t) \/ ChecksFail(t) \/ GetParamsForUpdateAndFinish(t)
           \/ HksCoreUpdateSucceeds(t) \/ HksCoreUpdateFails(t) \/ HksCoreFinishOrAbort(t)
           \/ CoreDelete(t)
    <2>1. UNCHANGED <<sessionVars, now, req, held, victim>>
        BY <1>3 DEF ChecksPass, ChecksFail, GetParamsForUpdateAndFinish, HksCoreUpdateSucceeds,
                    HksCoreUpdateFails, HksCoreFinishOrAbort, CoreDelete
    <2>2. \E l \in {"coreQuery", "unuse", "unuseThenDelete", "coreRun", "coreDelete"} : Goto(t, l)
        BY <1>3 DEF ChecksPass, ChecksFail, GetParamsForUpdateAndFinish, HksCoreUpdateSucceeds,
                    HksCoreUpdateFails, HksCoreFinishOrAbort, CoreDelete
    <2>3. ptr' = ptr \/ \E p : ptr' = [ptr EXCEPT ![t] = p]
        BY <1>3 DEF ChecksPass, ChecksFail, GetParamsForUpdateAndFinish, HksCoreUpdateSucceeds,
                    HksCoreUpdateFails, HksCoreFinishOrAbort, CoreDelete
    <2>4. StepOf(t) /\ pc'[t] \in PlainLabels
        BY <2>1, <2>2, <2>3, GotoLocal, GotoPtrLocal DEF PlainLabels, Labels
    <2>5. UNCHANGED nodeVars \/ HksDeleteKeyNode(ptr[t])
        BY <1>3 DEF ChecksPass, ChecksFail, GetParamsForUpdateAndFinish, HksCoreUpdateSucceeds,
                    HksCoreUpdateFails, HksCoreFinishOrAbort, CoreDelete
    <2>6. NodesKept
        BY <2>5, SameNodesKept, DeleteKeyNodeKeeps
    <2> QED BY <2>1, <2>4, <2>6, PlainNames, SameOperationsKept DEF StepKeeps, sessionVars
<1> QED BY <1>1, <1>2, <1>3

\* The steps that mark an operation, give it back or take it out at the end
\* of its session.
LEMMA OperationSteps ==
    ASSUME Inv, NEW t \in Threads,
           QueryOperationAndMarkInUse(t) \/ MarkOperationUnUse(t) \/ DeleteOperation(t)
    PROVE  StepKeeps(t)
<1> USE DEF Inv
<1>1. UNCHANGED nodeVars /\ now' = now
    BY DEF QueryOperationAndMarkInUse, MarkOperationUnUse, DeleteOperation
<1>2. NodesKept
    BY <1>1, SameNodesKept
<1>3. StepOf(t) /\ pc'[t] \in PlainLabels
    <2>1. CASE Return(t)
        BY <1>1, <2>1, ReturnLocal DEF PlainLabels, Labels
    <2>2. CASE ~Return(t)
        <3>1. \E l \in {"checks", "deleteOperation"} : Goto(t, l)
            BY <2>2 DEF QueryOperationAndMarkInUse, MarkOperationUnUse, DeleteOperation
        <3>2. (\E o : held' = [held EXCEPT ![t] = o]) /\ UNCHANGED <<req, victim, ptr>>
            BY <2>2 DEF QueryOperationAndMarkInUse, MarkOperationUnUse, DeleteOperation
        <3> QED BY <1>1, <3>1, <3>2
                DEF ThreadTypeOK, Goto, StepOf, OthersSame, PlainLabels, Labels
    <2> QED BY <2>1, <2>2
<1>4. OperationsKept
    <2>1. CASE QueryOperationAndMarkInUse(t)
        <3>1. \/ UNCHANGED <<g_operationList, operation>>
              \/ \E o : SetInUse(o, TRUE)
            BY <2>1 DEF QueryOperationAndMarkInUse
        <3> QED BY <3>1, SetInUseKeeps, SameOperationsKept
    <2>2. CASE MarkOperationUnUse(t)
        BY <2>2, SetInUseKeeps DEF MarkOperationUnUse
    <2>3. CASE DeleteOperation(t)
        <3> DEFINE found == OpsWithHandle(req[t].handle)
        <3>1. \/ found # {} /\ FreeOperation(Min(found))
              \/ UNCHANGED <<g_operationList, operation>>
            BY <2>3 DEF DeleteOperation
        <3>2. found \in SUBSET Nat /\ found \subseteq g_operationList
            BY OperationsFinite DEF OpsWithHandle
        <3> HIDE DEF found
        <3>3. found # {} => Min(found) \in g_operationList
            BY <3>2, MinInSet
        <3> QED BY <3>1, <3>3, FreeOperationKeeps, SameOperationsKept
    <2> QED BY <2>1, <2>2, <2>3
<1> QED BY <1>2, <1>3, <1>4, PlainNames DEF StepKeeps

\* The sweep of DeleteSessionByProcessInfo.
LEMMA SweepSteps ==
    ASSUME Inv, NEW t \in Threads, DeleteSessionByProcessInfo(t) \/ DeleteSession(t)
    PROVE  StepKeeps(t)
<1> USE DEF Inv
<1>1. UNCHANGED nodeVars /\ now' = now /\ UNCHANGED <<g_operationList, operation>>
    BY DEF DeleteSessionByProcessInfo, DeleteSession
<1>2. NodesKept /\ OperationsKept
    BY <1>1, SameNodesKept, SameOperationsKept
<1>3. StepOf(t) /\ NamesKept(t)
    <2>1. CASE DeleteSessionByProcessInfo(t)
        <3>1. StepOf(t) /\ pc'[t] = "sweep"
            BY <2>1, GotoLocal DEF DeleteSessionByProcessInfo
        <3> QED BY <3>1, PlainNames DEF PlainLabels, Labels
    <2>2. CASE Return(t)
        BY <1>1, <2>2, ReturnLocal, PlainNames DEF PlainLabels, Labels
    <2>3. CASE /\ \E S : StartEvict(t, S, "sweep")
               /\ UNCHANGED held
        <3>1. StepOf(t) /\ pc'[t] = "evict" /\ req'[t].cont = "sweep"
            BY <1>1, <2>3, StartEvictLocal
        <3> QED BY <3>1 DEF NamesKept, Making, Binding
    <2>4. CASE pc[t] = "sweep" /\ UNCHANGED <<pc, req, held, ptr>>
               /\ \E o : victim' = [victim EXCEPT ![t] = o]
        <3>1. StepOf(t) /\ pc'[t] = "sweep"
            BY <1>1, <2>4 DEF StepOf, OthersSame, ThreadTypeOK
        <3> QED BY <3>1, PlainNames DEF PlainLabels, Labels
    <2> QED BY <2>1, <2>2, <2>3, <2>4 DEF DeleteSession
<1> QED BY <1>2, <1>3 DEF StepKeeps

\* A request of HksServiceInit goes on with its handle.
LEMMA BindingNames ==
    ASSUME Inv, NEW t \in Threads, Binding(t), pc[t] # "createOperation",
           req'[t].handle = req[t].handle, req'[t].caller = req[t].caller,
           req'[t].batch = req[t].batch, req'[t].deadline = req[t].deadline,
           \/ pc'[t] \in {"tokenLimit", "countLimit", "append"}
           \/ pc'[t] = "evict" /\ req'[t].cont # "sweep"
    PROVE  NamesKept(t)
<1>1. Binding(t)' /\ ~Making(t)'
    BY DEF Binding, Making
<1>2. Due(t) = req[t].deadline /\ Due(t)' = req[t].deadline
    BY DEF Due
<1>3. Due(t) <= Due(t)'
    BY <1>2, DueType DEF Inv
<1> QED BY <1>1, <1>3 DEF NamesKept

\* The steps of HksServiceInit between the first lock and the append.
LEMMA LimitSteps ==
    ASSUME Inv, NEW t \in Threads,
           \/ DeleteFirstTimeOutBatchOperation(t) \/ DeleteForTokenIdIfExceedLimit(t)
           \/ DeleteFirstAbortableOperation(t)
    PROVE  StepKeeps(t)
<1> USE DEF Inv
<1>1. UNCHANGED nodeVars /\ now' = now /\ UNCHANGED <<g_operationList, operation>>
    BY DEF DeleteFirstTimeOutBatchOperation, DeleteForTokenIdIfExceedLimit,
           DeleteFirstAbortableOperation, EnforceLimit
<1>2. NodesKept /\ OperationsKept
    BY <1>1, SameNodesKept, SameOperationsKept
<1>3. pc[t] \in {"timeOut", "tokenLimit", "countLimit"} /\ Binding(t) /\ pc[t] # "createOperation"
    BY DEF DeleteFirstTimeOutBatchOperation, DeleteForTokenIdIfExceedLimit,
           DeleteFirstAbortableOperation, Binding
<1>4. \/ Return(t)
      \/ \E l \in {"tokenLimit", "countLimit", "append"} :
            Goto(t, l) /\ UNCHANGED <<req, held, victim, ptr>>
      \/ \E l \in {"tokenLimit", "countLimit", "append"} : \E S :
            StartEvict(t, S, l) /\ UNCHANGED held
    BY DEF DeleteFirstTimeOutBatchOperation, DeleteForTokenIdIfExceedLimit,
           DeleteFirstAbortableOperation, EnforceLimit
<1>5. CASE Return(t)
    <2>1. StepOf(t) /\ NamesKept(t)
        BY <1>1, <1>5, ReturnLocal, PlainNames DEF PlainLabels, Labels
    <2> QED BY <1>2, <2>1 DEF StepKeeps
<1>6. CASE \E l \in {"tokenLimit", "countLimit", "append"} :
              Goto(t, l) /\ UNCHANGED <<req, held, victim, ptr>>
    <2>1. StepOf(t) /\ pc'[t] \in {"tokenLimit", "countLimit", "append"} /\ req'[t] = req[t]
        BY <1>1, <1>6, GotoLocal
    <2> QED BY <1>2, <1>3, <2>1, BindingNames DEF StepKeeps
<1>7. CASE \E l \in {"tokenLimit", "countLimit", "append"} : \E S :
              StartEvict(t, S, l) /\ UNCHANGED held
    <2>0. PICK l \in {"tokenLimit", "countLimit", "append"} : \E S : StartEvict(t, S, l) /\ UNCHANGED held
        BY <1>7
    <2>1. PICK S : StartEvict(t, S, l) /\ UNCHANGED held
        BY <2>0
    <2>2. /\ StepOf(t) /\ pc'[t] = "evict" /\ req'[t].cont = l
          /\ req'[t].caller = req[t].caller /\ req'[t].handle = req[t].handle
          /\ req'[t].batch = req[t].batch /\ req'[t].deadline = req[t].deadline
        BY <1>1, <2>1, StartEvictLocal
    <2> QED BY <1>2, <1>3, <2>2, BindingNames DEF StepKeeps
<1> QED BY <1>4, <1>5, <1>6, <1>7

\* The remaining steps: a new node, CreateOperation and the eviction.
LEMMA OtherSteps ==
    ASSUME Inv, NEW t \in Threads,
           HksCreateKeyNode(t) \/ CreateOperation(t) \/ DeleteKeyNodeAndDecreaseGlobalCount(t)
    PROVE  StepKeeps(t)
<1> USE DEF Inv
<1>0. req[t] \in Request /\ req \in [Threads -> Request]
    BY DEF ThreadTypeOK
<1>1. CASE HksCreateKeyNode(t)
    <2>1. req[t].caller.token \in Tokens
        BY <1>0, TimeBounds DEF Request
    <2>2. NodesKept /\ nodesMade' = nodesMade + 1
        BY <1>1, <2>1, AddKeyNodeKeeps DEF HksCreateKeyNode
    <2>3. StepOf(t) /\ pc'[t] = "publish" /\ ptr'[t] = nodesMade + 1 /\ UNCHANGED sessionVars
        BY <1>1, GotoPtrLocal DEF HksCreateKeyNode
    <2> QED BY <2>2, <2>3, SameOperationsKept DEF StepKeeps, NamesKept, sessionVars
<1>2. CASE CreateOperation(t)
    <2>1. UNCHANGED <<nodeVars, sessionVars, now>> /\ pc[t] = "createOperation"
        BY <1>2 DEF CreateOperation
    <2>2. CASE Return(t)
        <3>1. StepOf(t) /\ NamesKept(t)
            BY <2>1, <2>2, ReturnLocal, PlainNames DEF PlainLabels, Labels
        <3> QED BY <2>1, <3>1, SameNodesKept, SameOperationsKept DEF StepKeeps, sessionVars
    <2>3. CASE /\ req' = [req EXCEPT ![t].deadline = Deadline(req[t].batch)]
               /\ Goto(t, "timeOut")
               /\ UNCHANGED <<held, victim, ptr>>
        <3>1. StepOf(t) /\ pc'[t] = "timeOut"
            BY <2>1, <2>3 DEF ThreadTypeOK, Goto, StepOf, OthersSame
        <3>2. /\ req'[t].handle = req[t].handle /\ req'[t].caller = req[t].caller
              /\ req'[t].batch = req[t].batch /\ req'[t].deadline = Deadline(req[t].batch)
            BY <1>0, <2>3 DEF Request
        <3>3. Binding(t) /\ Binding(t)' /\ ~Making(t)'
            BY <2>1, <3>1 DEF Binding, Making
        <3>4. req[t].batch => Due(t) <= Due(t)'
            <4>1. Due(t) = now + BatchTimeout /\ Due(t)' = Deadline(req[t].batch)
                BY <2>1, <3>1, <3>2 DEF Due
            <4>2. now + BatchTimeout \in Nat
                BY TimeBounds DEF ThreadTypeOK
            <4> QED BY <4>1, <4>2 DEF Deadline
        <3>5. NamesKept(t)
            BY <3>2, <3>3, <3>4 DEF NamesKept
        <3> QED BY <2>1, <3>1, <3>5, SameNodesKept, SameOperationsKept DEF StepKeeps, sessionVars
    <2> QED BY <1>2, <2>2, <2>3 DEF CreateOperation
<1>3. CASE DeleteKeyNodeAndDecreaseGlobalCount(t)
    <2>1. /\ pc[t] = "evict" /\ FreeOperation(victim[t])
          /\ UNCHANGED <<now, req, held, victim>>
        BY <1>3 DEF DeleteKeyNodeAndDecreaseGlobalCount
    <2>2. victim[t] \in g_operationList /\ req[t].cont \in LockedLabels \ {"evict"}
        BY <2>1 DEF ThreadInv, OperationPointersGood, LockHeld
    <2>3. NodesKept
        BY <1>3, SameNodesKept, DeleteKeyNodeKeeps DEF DeleteKeyNodeAndDecreaseGlobalCount
    <2>4. StepOf(t) /\ pc'[t] = req[t].cont /\ req'[t] = req[t]
        BY <1>3, <2>1, GotoPtrLocal DEF DeleteKeyNodeAndDecreaseGlobalCount
    <2>5. NamesKept(t)
        <3>1. CASE req[t].cont = "sweep"
            BY <2>4, <3>1, PlainNames DEF PlainLabels, Labels
        <3>2. CASE req[t].cont # "sweep"
            <4>1. Binding(t) /\ pc[t] # "createOperation"
                BY <2>1, <3>2 DEF Binding
            <4>2. pc'[t] \in {"tokenLimit", "countLimit", "append"}
                BY <2>2, <2>4, <3>2 DEF LockedLabels
            <4> QED BY <2>4, <4>1, <4>2, BindingNames
        <3> QED BY <3>1, <3>2
    <2> QED BY <2>1, <2>2, <2>3, <2>4, <2>5, FreeOperationKeeps DEF StepKeeps
<1> QED BY <1>1, <1>2, <1>3

-----------------------------------------------------------------------------
(* The operation that a request holds. *)

\* Every step is one of its thread, and no operation that stays changes hands.
LEMMA ThreadSteps ==
    ASSUME Inv, NEW t \in Threads, Arrive(t) \/ Work(t)
    PROVE  /\ StepOf(t)
           /\ \A o \in g_operationList \cap g_operationList' : SameOperation(o)
           /\ \/ StepKeeps(t) \/ PublishKeyNode(t) \/ HksCoreInit(t) \/ AddOperation(t)
<1>1. CASE StepKeeps(t)
    BY <1>1 DEF StepKeeps, OperationsKept
<1>2. CASE PublishKeyNode(t) \/ HksCoreInit(t)
    <2>1. UNCHANGED <<g_operationList, operation>>
        BY <1>2 DEF PublishKeyNode, HksCoreInit, sessionVars
    <2>2. StepOf(t)
        <3>1. CASE PublishKeyNode(t)
            BY <3>1, GotoLocal DEF PublishKeyNode, Inv
        <3>2. CASE HksCoreInit(t)
            <4>1. \E l : Goto(t, l)
                BY <3>2 DEF HksCoreInit
            <4>2. \E p : ptr' = [ptr EXCEPT ![t] = p]
                BY <3>2 DEF HksCoreInit
            <4>3. \/ UNCHANGED req
                  \/ \E m : req' = [req EXCEPT ![t].handle = m]
                BY <3>2 DEF HksCoreInit
            <4>4. UNCHANGED <<now, held, victim>>
                BY <3>2 DEF HksCoreInit
            <4> QED BY <4>1, <4>2, <4>3, <4>4 DEF Inv, ThreadTypeOK, Goto, StepOf, OthersSame
        <3> QED BY <1>2, <3>1, <3>2
    <2> QED BY <1>2, <2>1, <2>2 DEF SameOperation
<1>3. CASE AddOperation(t)
    <2>1. StepOf(t)
        BY <1>3, ReturnLocal DEF AddOperation, Inv
    <2>2. operationsMade + 1 \notin g_operationList
        BY OperationLimits DEF Inv, SessionInv, SessionTypeOK
    <2>3. \A o \in g_operationList : operation'[o] = operation[o]
        BY <1>3, <2>2, OperationsFinite
           DEF AddOperation, AppendOperation, Inv, SessionInv, SessionTypeOK
    <2> QED BY <1>3, <2>1, <2>3 DEF SameOperation
<1> QED BY <1>1, <1>2, <1>3, PlainSteps, OperationSteps, SweepSteps, LimitSteps, OtherSteps DEF Work

\* The operation of another thread's request is not touched.
LEMMA HeldByOthers ==
    ASSUME Inv, Inv', NEW t \in Threads, Arrive(t) \/ Work(t), NEW u \in Threads \ {t}, HeldFits(u)
    PROVE  HeldFits(u)'
<1>1. /\ pc'[u] = pc[u] /\ req'[u] = req[u] /\ ptr'[u] = ptr[u] /\ held'[u] = held[u]
    BY ThreadSteps DEF StepOf, OthersSame
<1>2. CASE pc[u] \in {"checks", "coreQuery", "coreRun"}
    <2>1. held[u] \in g_operationList /\ held'[u] \in g_operationList'
        BY <1>1, <1>2 DEF Inv, ThreadInv, OperationPointersGood, HoldingLabels
    <2>2. SameOperation(held[u])
        BY <1>1, <2>1, ThreadSteps
    <2> QED BY <1>1, <2>2 DEF HeldFits, IsSameProcess, SameToken, SameOperation
<1>3. CASE pc[u] \notin {"checks", "coreQuery", "coreRun"}
    BY <1>1, <1>3 DEF HeldFits
<1> QED BY <1>2, <1>3

\* A request gets the operation it asked for, and checks its token.
LEMMA HeldByOne ==
    ASSUME Inv, Inv', NEW t \in Threads, Arrive(t) \/ Work(t), HeldFits(t)
    PROVE  HeldFits(t)'
<1>1. CASE QueryOperationAndMarkInUse(t)
    <2> DEFINE found == Matching(req[t].caller, req[t].handle)
    <2>1. CASE Return(t)
        <3>1. pc'[t] = "idle"
            BY <2>1, ReturnFacts DEF Inv
        <3> QED BY <3>1 DEF HeldFits
    <2>2. CASE ~Return(t)
        <3>1. /\ found # {} /\ SetInUse(Min(found), TRUE) /\ Goto(t, "checks")
              /\ held' = [held EXCEPT ![t] = Min(found)] /\ req' = req
            BY <1>1, <2>2 DEF QueryOperationAndMarkInUse
        <3>2. found \in SUBSET Nat /\ found \subseteq g_operationList
            BY OperationsFinite DEF Inv, Matching, OpsWithHandle
        <3>3. PICK o : o = Min(found)
            OBVIOUS
        <3>4. o \in found
            <4> HIDE DEF found
            <4> QED BY <3>1, <3>2, <3>3, MinInSet
        <3>5. o \in g_operationList /\ operation[o].handle = req[t].handle
              /\ IsSameProcess(req[t].caller, o)
            BY <3>2, <3>4 DEF Matching, OpsWithHandle
        <3>6. pc'[t] = "checks" /\ held'[t] = o
            BY <3>1, <3>3 DEF Inv, ThreadTypeOK, Goto
        <3>7. SameOperation(o)
            <4>1. SetInUse(o, TRUE)
                BY <3>1, <3>3
            <4> QED BY <3>5, <4>1, SetInUseKeeps DEF Inv, OperationsKept
        <3> QED BY <3>1, <3>5, <3>6, <3>7 DEF HeldFits, IsSameProcess, SameOperation
    <2> QED BY <2>1, <2>2
<1>2. CASE ChecksPass(t)
    <2>1. /\ pc[t] = "checks" /\ pc'[t] = "coreQuery" /\ req'[t] = req[t] /\ held'[t] = held[t]
          /\ operation' = operation /\ (req[t].call # "abort" => SameToken(t))
        BY <1>2, GotoLocal DEF ChecksPass, Inv, sessionVars
    <2> QED BY <2>1 DEF HeldFits, IsSameProcess, SameToken
<1>3. CASE GetParamsForUpdateAndFinish(t)
    <2>1. /\ pc[t] = "coreQuery" /\ req' = req /\ held' = held /\ operation' = operation
        BY <1>3 DEF GetParamsForUpdateAndFinish, sessionVars
    <2>2. \/ pc'[t] = "coreRun" /\ ptr'[t] = req[t].handle
          \/ pc'[t] = "unuseThenDelete"
        BY <1>3 DEF GetParamsForUpdateAndFinish, Inv, ThreadTypeOK, Goto
    <2> QED BY <2>1, <2>2 DEF HeldFits, IsSameProcess, SameToken
<1>4. CASE ~(QueryOperationAndMarkInUse(t) \/ ChecksPass(t) \/ GetParamsForUpdateAndFinish(t))
    <2>1. pc'[t] \notin {"checks", "coreQuery", "coreRun"}
        <3>1. CASE Arrive(t)
            <4>0. PICK l \in {"createKeyNode", "query", "lockSweep"} : \E r : Call(t, l, r)
                BY <3>1 DEF Arrive, CallInit, CallSession, CallRemove
            <4>1. PICK r : Call(t, l, r)
                BY <4>0
            <4> QED BY <4>1, CallLocal DEF Inv
        <3>2. CASE Work(t)
            <4>1. CASE \/ InitFails(t) \/ HksCoreInitFail(t) \/ FinishWithOtherToken(t)
                       \/ DeleteOperation(t) \/ AddOperation(t)
                <5>1. Return(t)
                    BY <4>1 DEF InitFails, HksCoreInitFail, FinishWithOtherToken,
                                DeleteOperation, AddOperation
                <5> QED BY <5>1, ReturnFacts DEF Inv
            <4>2. CASE \/ HksCreateKeyNode(t) \/ PublishKeyNode(t) \/ HksCoreInit(t)
                       \/ ChecksFail(t) \/ HksCoreUpdateSucceeds(t) \/ HksCoreUpdateFails(t)
                       \/ HksCoreFinishOrAbort(t) \/ CoreDelete(t)
                       \/ DeleteSessionByProcessInfo(t)
                <5>1. \E l \in Labels \ {"checks", "coreQuery", "coreRun"} : Goto(t, l)
                    BY <4>2 DEF HksCreateKeyNode, PublishKeyNode, HksCoreInit, ChecksFail,
                         HksCoreUpdateSucceeds, HksCoreUpdateFails, HksCoreFinishOrAbort,
                         CoreDelete, DeleteSessionByProcessInfo, Labels
                <5> QED BY <5>1, GotoFacts DEF Inv
            <4>3. CASE \/ CreateOperation(t) \/ DeleteFirstTimeOutBatchOperation(t)
                       \/ DeleteForTokenIdIfExceedLimit(t) \/ DeleteFirstAbortableOperation(t)
                       \/ MarkOperationUnUse(t)
                <5>1. \/ Return(t)
                      \/ \E l \in Labels \ {"checks", "coreQuery", "coreRun"} : Goto(t, l)
                    BY <4>3 DEF CreateOperation, DeleteFirstTimeOutBatchOperation,
                         DeleteForTokenIdIfExceedLimit, DeleteFirstAbortableOperation,
                         MarkOperationUnUse, EnforceLimit, StartEvict, Labels
                <5> QED BY <5>1, GotoFacts, ReturnFacts DEF Inv
            <4>4. CASE DeleteKeyNodeAndDecreaseGlobalCount(t)
                <5>1. pc[t] = "evict" /\ Goto(t, req[t].cont)
                    BY <4>4 DEF DeleteKeyNodeAndDecreaseGlobalCount
                <5>2. req[t].cont \in LockedLabels
                    BY <5>1 DEF Inv, ThreadInv, LockHeld
                <5> QED BY <5>1, <5>2, GotoFacts DEF Inv, LockedLabels, Labels
            <4>5. CASE DeleteSession(t)
                <5>1. \/ Return(t)
                      \/ Goto(t, "evict")
                      \/ pc' = pc /\ pc[t] = "sweep"
                    BY <4>5 DEF DeleteSession, StartEvict
                <5> QED BY <5>1, GotoFacts, ReturnFacts DEF Inv, Labels
            <4> QED BY <1>4, <3>2, <4>1, <4>2, <4>3, <4>4, <4>5 DEF Work
        <3> QED BY <3>1, <3>2
    <2> QED BY <2>1 DEF HeldFits
<1> QED BY <1>1, <1>2, <1>3, <1>4

-----------------------------------------------------------------------------
(* Theorems. *)

\* Once a dangling pointer has been followed, that stays on record.
LEMMA HistoryKept ==
    ASSUME NEW t \in Threads, Arrive(t) \/ Work(t), usedAfterFree
    PROVE  usedAfterFree'
<1>1. UNCHANGED usedAfterFree \/ Follow(t)
    <2>1. CASE Arrive(t)
        BY <2>1 DEF Arrive, CallInit, CallSession, CallRemove, Call
    <2>2. CASE Work(t)
        BY <2>2 DEF Work, InitFails, HksCreateKeyNode, PublishKeyNode, HksCoreInit,
            HksCoreInitFail, CreateOperation, DeleteFirstTimeOutBatchOperation,
            DeleteForTokenIdIfExceedLimit, DeleteFirstAbortableOperation, EnforceLimit,
            AddOperation, DeleteKeyNodeAndDecreaseGlobalCount, QueryOperationAndMarkInUse,
            ChecksPass, ChecksFail, FinishWithOtherToken, GetParamsForUpdateAndFinish,
            HksCoreUpdateSucceeds, HksCoreUpdateFails, HksCoreFinishOrAbort, CoreDelete,
            MarkOperationUnUse, DeleteOperation, DeleteSessionByProcessInfo, DeleteSession
    <2> QED BY <2>1, <2>2
<1> QED BY <1>1 DEF Follow

\* Every step preserves the invariant of the handles.
LEMMA NextHandles ==
    ASSUME Inv, Inv', HandleInv, [Next]_vars
    PROVE  HandleInv'
<1>1. ASSUME NEW t \in Threads, Arrive(t) \/ Work(t) PROVE HandleInv'
    <2>1. ASSUME NEW u \in Threads PROVE HeldFits(u)'
        BY <1>1, HeldByOne, HeldByOthers DEF HandleInv
    <2>2. ASSUME ~usedAfterFree' PROVE NodesMadeOnce' /\ NodesFit'
        <3>1. NodesMadeOnce /\ NodesFit
            BY <1>1, <2>2, HistoryKept DEF HandleInv
        <3>2. CASE StepKeeps(t)
            BY <3>1, <3>2, MadeOnceKept, FitKept DEF StepKeeps
        <3> QED BY <1>1, <2>2, <3>1, <3>2, ThreadSteps, PublishHandles, CoreInitHandles, AppendHandles
    <2> QED BY <2>1, <2>2 DEF HandleInv
<1>2. ASSUME UNCHANGED <<nodeVars, sessionVars, threadVars, usedAfterFree>>, now <= now'
      PROVE  HandleInv'
    <2>1. ASSUME NEW u \in Threads PROVE HeldFits(u)'
        BY <1>2 DEF HandleInv, HeldFits, IsSameProcess, SameToken, sessionVars, threadVars
    <2> QED BY <1>2, <2>1, TimeHandles DEF HandleInv
<1>3. CASE Tick
    BY <1>2, <1>3 DEF Tick, Inv, ThreadTypeOK
<1>4. CASE UNCHANGED vars
    BY <1>2, <1>4 DEF vars, Inv, ThreadTypeOK
<1> QED BY <1>1, <1>3, <1>4 DEF Next

(* The request that makes a key node, the operation and the node agree on  *)
(* handle, token and batch deadline, for any number of threads, callers    *)
(* and nodes, until a dangling pointer is followed; a request of Update,   *)
(* Finish or Abort holds the operation it asked for.                       *)
THEOREM HandleInvariant == Spec => []HandleInv
<1>1. Init => HandleInv
    BY DEF Init, NodeInit, SessionInit, HandleInv, HeldFits, NodesMadeOnce, NodesFit, Making, Binding
<1>2. Inv /\ HandleInv /\ [Next]_vars => Inv' /\ HandleInv'
    BY NextInv, NextHandles
<1>3. Init => Inv
    BY InitInv
<1> QED BY <1>1, <1>2, <1>3, PTL DEF Spec

\* A request that runs in the engine holds an operation of the list.
LEMMA OwnNode ==
    ASSUME Inv, HandleInv
    PROVE  OnlyOwnKeyNode
<1>1. SUFFICES ASSUME ~usedAfterFree, NEW t \in Threads, pc[t] = "coreRun",
                      req[t].call \in {"update", "finish"}, ptr[t] \in g_keyNodeList
               PROVE  keyNode[ptr[t]].token = req[t].caller.token
    BY DEF OnlyOwnKeyNode
<1>2. held[t] \in g_operationList
    BY <1>1 DEF Inv, ThreadInv, OperationPointersGood, HoldingLabels
<1>3. ptr[t] = operation[held[t]].handle /\ SameToken(t)
    BY <1>1 DEF HandleInv, HeldFits
<1>4. keyNode[ptr[t]].token = operation[held[t]].owner.token
    BY <1>1, <1>2, <1>3 DEF HandleInv, NodesFit, NodeIs
<1> QED BY <1>3, <1>4 DEF SameToken

(* Until a dangling pointer is followed, HksCoreUpdate and HksCoreFinish   *)
(* run on a key node that the caller's own token opened.                   *)
THEOREM OwnKeyNode == Spec => []OnlyOwnKeyNode
<1>1. Spec => []Inv
    BY InitInv, NextInv, PTL DEF Spec
<1> QED BY <1>1, HandleInvariant, OwnNode, PTL

(* The engine's deadline of a batch session is never later than the        *)
(* service's, until a dangling pointer is followed.                        *)
THEOREM DeadlineFirst == Spec => []EngineDeadlineFirst
<1>1. HandleInv => EngineDeadlineFirst
    BY DEF HandleInv, EngineDeadlineFirst, NodesFit, NodeIs
<1> QED BY <1>1, HandleInvariant, PTL

-----------------------------------------------------------------------------
(* The nodes of a token.  AddKeyNode takes one out when the token has as   *)
(* many as it may have, but it does not see the nodes whose makers have    *)
(* yet to set their parameter sets: so these are counted with the others.  *)

\* A part of a finite set is not larger.
LEMMA Smaller ==
    ASSUME NEW S, NEW T, IsFiniteSet(S), T \subseteq S
    PROVE  /\ IsFiniteSet(T) /\ Cardinality(T) \in Nat /\ Cardinality(S) \in Nat
           /\ Cardinality(T) <= Cardinality(S)
BY FS_Subset, FS_CardinalityType

\* What is not in the list belongs to nobody.
FreeNodesBlank == \A n \in NodeIds \ g_keyNodeList : keyNode[n].token = INVALID_TOKEN_ID

QuotaInv == NodesAndPending /\ FreeNodesBlank

\* The sets that are counted are finite.
LEMMA Counted ==
    ASSUME NodeInv, NEW k
    PROVE  /\ IsFiniteSet(NodesOf(g_keyNodeList, k)) /\ Cardinality(NodesOf(g_keyNodeList, k)) \in Nat
           /\ Cardinality(NodesOf(g_keyNodeList, k)) <= g_keyNodeCount
           /\ IsFiniteSet(Publishing(k)) /\ Cardinality(Publishing(k)) \in Nat
           /\ Cardinality(Publishing(k)) <= Cardinality(Threads)
           /\ Cardinality(Threads) \in Nat
<1>1. NodesOf(g_keyNodeList, k) \subseteq g_keyNodeList /\ Publishing(k) \subseteq Threads
    BY DEF NodesOf, Publishing
<1>2. IsFiniteSet(g_keyNodeList) /\ IsFiniteSet(Threads)
    BY NodesFinite, OperationLimits
<1>3. g_keyNodeCount = Cardinality(g_keyNodeList)
    BY DEF NodeInv, NodeCountExact
<1> QED BY <1>1, <1>2, <1>3, Smaller

\* A step after which no token has more nodes or more makers.
LEMMA QuotaKept ==
    ASSUME Inv, NEW k \in Tokens, NEW A, NEW P,
           Cardinality(NodesOf(g_keyNodeList, k)) + Cardinality(Publishing(k))
              <= MAX_KEY_NODES_EACH_TOKEN_ID + Cardinality(Threads) - 1,
           A \subseteq NodesOf(g_keyNodeList, k), P \subseteq Publishing(k)
    PROVE  Cardinality(A) + Cardinality(P) <= MAX_KEY_NODES_EACH_TOKEN_ID + Cardinality(Threads) - 1
<1>1. PICK a, p, T : /\ a = Cardinality(NodesOf(g_keyNodeList, k))
                     /\ p = Cardinality(Publishing(k)) /\ T = Cardinality(Threads)
    OBVIOUS
<1>2. a \in Nat /\ p \in Nat /\ T \in Nat /\ MAX_KEY_NODES_EACH_TOKEN_ID \in Nat
    BY <1>1, Counted, NodeLimits DEF Inv
<1>3. /\ Cardinality(A) \in Nat /\ Cardinality(A) <= a
      /\ Cardinality(P) \in Nat /\ Cardinality(P) <= p
    BY <1>1, Counted, Smaller DEF Inv
<1>4. a + p <= MAX_KEY_NODES_EACH_TOKEN_ID + T - 1
    BY <1>1
<1>5. Cardinality(A) + Cardinality(P) <= MAX_KEY_NODES_EACH_TOKEN_ID + T - 1
    BY <1>2, <1>3, <1>4
<1> QED BY <1>1, <1>5

\* AddKeyNode: the new node is blank, the nodes taken out become blank, and
\* either the token has room after it or one of its nodes has gone.
LEMMA AddKeyNodeQuota ==
    ASSUME NodeInv, FreeNodesBlank, NEW token \in Tokens, NEW n, AddKeyNode(token, n)
    PROVE  /\ FreeNodesBlank'
           /\ \A k \in Tokens : NodesOf(g_keyNodeList, k)' \subseteq NodesOf(g_keyNodeList, k)
           /\ \/ Cardinality(NodesOf(g_keyNodeList, token)') < MAX_KEY_NODES_EACH_TOKEN_ID
              \/ Cardinality(NodesOf(g_keyNodeList, token)')
                    <= Cardinality(NodesOf(g_keyNodeList, token)) - 1
<1> DEFINE timedOut == DeleteFirstTimeOutBatchKeyNode(g_keyNodeList, g_keyNodeCount, n)
           l1 == g_keyNodeList \ timedOut
           c1 == g_keyNodeCount - Cardinality(timedOut)
           excess == DeleteKeyNodeForTokenIdIfExceedLimit(l1, c1, token)
           l2 == l1 \ excess
           c2 == c1 - Cardinality(excess)
           oldest == DeleteFirstKeyNode(l2, c2)
<1>1. PICK D : D = timedOut \cup excess \cup oldest
    OBVIOUS
<1>2. /\ g_keyNodeList' = (g_keyNodeList \ D) \cup {nodesMade + 1}
      /\ keyNode' = Wiped(D) /\ nodesMade < MaxNodes
    <2>1. /\ g_keyNodeList' = (l2 \ oldest) \cup {nodesMade + 1}
          /\ keyNode' = Wiped(timedOut \cup excess \cup oldest) /\ nodesMade < MaxNodes
        BY DEF AddKeyNode
    <2>2. l2 \ oldest = g_keyNodeList \ D
        <3> HIDE DEF timedOut, excess, oldest
        <3> QED BY <1>1
    <2> HIDE DEF timedOut, excess, oldest, l2
    <2> QED BY <1>1, <2>1, <2>2
<1>3. /\ nodesMade + 1 \in NodeIds \ g_keyNodeList /\ g_keyNodeList \subseteq NodeIds
      /\ keyNode \in [NodeIds -> HuksKeyNode]
    BY <1>2, NodesFinite, NodeLimits DEF NodeInv, NodeTypeOK, NodeIds
<1>4. ASSUME NEW x \in NodeIds
      PROVE  keyNode'[x] = IF x \in D THEN NewKeyNode ELSE keyNode[x]
    BY <1>2 DEF Wiped
<1>5. NewKeyNode.token = INVALID_TOKEN_ID
    BY DEF NewKeyNode
<1>6. FreeNodesBlank'
    <2>1. ASSUME NEW x \in NodeIds \ g_keyNodeList' PROVE keyNode'[x].token = INVALID_TOKEN_ID
        <3>1. x \in D \/ x \notin g_keyNodeList
            BY <1>2
        <3> QED BY <1>4, <1>5, <3>1 DEF FreeNodesBlank
    <2> QED BY <2>1 DEF FreeNodesBlank
<1>7. ASSUME NEW k \in Tokens, NEW x \in g_keyNodeList', keyNode'[x].token = k
      PROVE  x \in NodesOf(g_keyNodeList, k) /\ x \notin D
    <2>1. x \in NodeIds /\ k # INVALID_TOKEN_ID
        BY <1>2, <1>3, NodeLimits
    <2>2. x \notin D /\ keyNode[x].token = k
        BY <1>4, <1>5, <1>7, <2>1
    <2>3. x \in g_keyNodeList
        BY <1>2, <1>3, <2>1, <2>2 DEF FreeNodesBlank
    <2> QED BY <2>2, <2>3 DEF NodesOf, GetTokenIdFromParamSet
<1>8. ASSUME NEW k \in Tokens
      PROVE  NodesOf(g_keyNodeList, k)' \subseteq NodesOf(g_keyNodeList, k) \ D
    BY <1>7 DEF NodesOf, GetTokenIdFromParamSet
<1>9. PICK own : own = NodesOf(l1, token)
    OBVIOUS
<1>10. /\ IsFiniteSet(NodesOf(g_keyNodeList, token)) /\ own \subseteq NodesOf(g_keyNodeList, token)
       /\ own = NodesOf(g_keyNodeList, token) \ timedOut
       /\ Cardinality(own) \in Nat /\ IsFiniteSet(own)
    <2> HIDE DEF timedOut
    <2>1. own = NodesOf(g_keyNodeList, token) \ timedOut
        BY <1>9 DEF NodesOf
    <2>2. IsFiniteSet(NodesOf(g_keyNodeList, token))
        BY Counted
    <2> QED BY <2>1, <2>2, Smaller
<1>11. NodesOf(g_keyNodeList, token)' \subseteq own
    <2> HIDE DEF timedOut, excess, oldest
    <2> QED BY <1>1, <1>8, <1>10
<1>12. CASE Cardinality(own) < MAX_KEY_NODES_EACH_TOKEN_ID
    <2>1. Cardinality(NodesOf(g_keyNodeList, token)') \in Nat
          /\ Cardinality(NodesOf(g_keyNodeList, token)') <= Cardinality(own)
        BY <1>10, <1>11, Smaller
    <2>2. Cardinality(NodesOf(g_keyNodeList, token)') < MAX_KEY_NODES_EACH_TOKEN_ID
        BY <1>10, <1>12, <2>1, NodeLimits
    <2> QED BY <1>6, <1>8, <2>2
<1>13. CASE ~(Cardinality(own) < MAX_KEY_NODES_EACH_TOKEN_ID)
    <2>1. c1 = Cardinality(l1) /\ IsFiniteSet(l1)
        <3>1. \E T \in SUBSET g_keyNodeList : timedOut = FirstOf(T)
            BY DEF DeleteFirstTimeOutBatchKeyNode, FirstOf
        <3>2. g_keyNodeList \in SUBSET Nat /\ IsFiniteSet(g_keyNodeList)
            BY NodesFinite
        <3>3. g_keyNodeCount = Cardinality(g_keyNodeList)
            BY DEF NodeInv, NodeCountExact
        <3> HIDE DEF timedOut
        <3> QED BY <3>1, <3>2, <3>3, RemoveFirst
    <2>2. own \subseteq l1
        BY <1>9 DEF NodesOf
    <2>3. Cardinality(l1) \in Nat /\ Cardinality(own) <= Cardinality(l1)
        <3> HIDE DEF l1
        <3> QED BY <2>1, <2>2, Smaller
    <2>4. ~(c1 < MAX_KEY_NODES_EACH_TOKEN_ID)
        <3> HIDE DEF l1, c1
        <3> QED BY <1>10, <1>13, <2>1, <2>3, NodeLimits
    <2>5. excess = FirstOf(own)
        <3> HIDE DEF l1, c1
        <3> QED BY <1>9, <1>13, <2>4 DEF DeleteKeyNodeForTokenIdIfExceedLimit
    <2>6. own # {} /\ own \in SUBSET Nat
        <3>1. own # {}
            BY <1>13, FS_EmptySet, NodeLimits
        <3>2. g_keyNodeList \in SUBSET Nat
            BY NodesFinite
        <3> QED BY <1>10, <3>1, <3>2 DEF NodesOf
    <2>7. Min(own) \in own /\ excess = {Min(own)}
        BY <2>5, <2>6, MinInSet DEF FirstOf
    <2>8. NodesOf(g_keyNodeList, token)' \subseteq own \ {Min(own)}
        <3>1. Min(own) \in D
            <4> HIDE DEF excess, timedOut, oldest
            <4> QED BY <1>1, <2>7
        <3> QED BY <1>8, <1>11, <3>1
    <2>9. /\ IsFiniteSet(own \ {Min(own)})
          /\ Cardinality(own \ {Min(own)}) = Cardinality(own) - 1
        BY <1>10, <2>7, FS_RemoveElement
    <2>10. /\ Cardinality(NodesOf(g_keyNodeList, token)') \in Nat
           /\ Cardinality(NodesOf(g_keyNodeList, token)') <= Cardinality(own \ {Min(own)})
           /\ Cardinality(own \ {Min(own)}) \in Nat
        BY <2>8, <2>9, Smaller
    <2>11. /\ Cardinality(own) <= Cardinality(NodesOf(g_keyNodeList, token))
           /\ Cardinality(NodesOf(g_keyNodeList, token)) \in Nat
        BY <1>10, Smaller
    <2>12. Cardinality(NodesOf(g_keyNodeList, token)')
              <= Cardinality(NodesOf(g_keyNodeList, token)) - 1
        BY <1>10, <2>9, <2>10, <2>11
    <2> QED BY <1>6, <1>8, <2>12
<1> QED BY <1>12, <1>13

\* HksCreateKeyNode: its thread becomes one of the makers.
LEMMA CreateQuota ==
    ASSUME Inv, NEW t \in Threads, QuotaInv, HksCreateKeyNode(t)
    PROVE  QuotaInv'
<1>1. PICK token \in Tokens : token = req[t].caller.token
    BY TimeBounds DEF Inv, ThreadTypeOK, Request
<1>2. AddKeyNode(token, now) /\ pc[t] = "createKeyNode" /\ req' = req
    BY <1>1 DEF HksCreateKeyNode
<1>3. /\ FreeNodesBlank'
      /\ \A k \in Tokens : NodesOf(g_keyNodeList, k)' \subseteq NodesOf(g_keyNodeList, k)
      /\ \/ Cardinality(NodesOf(g_keyNodeList, token)') < MAX_KEY_NODES_EACH_TOKEN_ID
         \/ Cardinality(NodesOf(g_keyNodeList, token)')
               <= Cardinality(NodesOf(g_keyNodeList, token)) - 1
    BY <1>2, AddKeyNodeQuota DEF Inv, QuotaInv
<1>4. pc'[t] = "publish" /\ \A u \in Threads \ {t} : pc'[u] = pc[u]
    BY DEF HksCreateKeyNode, Goto, Inv, ThreadTypeOK
<1>5. ASSUME NEW k \in Tokens
      PROVE  Cardinality(NodesOf(g_keyNodeList, k)') + Cardinality(Publishing(k)')
                <= MAX_KEY_NODES_EACH_TOKEN_ID + Cardinality(Threads) - 1
    <2>1. CASE k # token
        <3>1. Publishing(k)' \subseteq Publishing(k)
            BY <1>1, <1>2, <1>4, <2>1 DEF Publishing
        <3> QED BY <1>3, <3>1, QuotaKept DEF QuotaInv, NodesAndPending
    <2>2. CASE k = token
        <3>1. Publishing(token)' = Publishing(token) \cup {t} /\ t \notin Publishing(token)
            BY <1>1, <1>2, <1>4 DEF Publishing
        <3>2. PICK a, b, p, q, T, M :
                  /\ a = Cardinality(NodesOf(g_keyNodeList, token))
                  /\ b = Cardinality(NodesOf(g_keyNodeList, token)')
                  /\ p = Cardinality(Publishing(token)) /\ q = Cardinality(Publishing(token)')
                  /\ T = Cardinality(Threads) /\ M = MAX_KEY_NODES_EACH_TOKEN_ID
            OBVIOUS
        <3>3. a \in Nat /\ p \in Nat /\ T \in Nat /\ M \in Nat /\ IsFiniteSet(Publishing(token))
            BY <3>2, Counted, NodeLimits DEF Inv
        <3>4. b \in Nat
            BY <1>3, <3>2, Counted, Smaller DEF Inv
        <3>5. q = p + 1
            <4>1. Cardinality(Publishing(token) \cup {t}) = Cardinality(Publishing(token)) + 1
                BY <3>1, <3>3, FS_AddElement
            <4> QED BY <3>1, <3>2, <4>1
        <3>6. q <= T
            <4>1. Publishing(token) \cup {t} \subseteq Threads
                BY DEF Publishing
            <4>2. Cardinality(Publishing(token) \cup {t}) <= Cardinality(Threads)
                BY <4>1, OperationLimits, Smaller
            <4> QED BY <3>1, <3>2, <4>2
        <3>7. a + p <= M + T - 1
            BY <3>2 DEF QuotaInv, NodesAndPending
        <3>8. b < M \/ b <= a - 1
            BY <1>3, <3>2
        <3>9. b + q <= M + T - 1
            BY <3>3, <3>4, <3>5, <3>6, <3>7, <3>8
        <3> QED BY <2>2, <3>2, <3>9
    <2> QED BY <2>1, <2>2
<1> QED BY <1>3, <1>5 DEF QuotaInv, NodesAndPending

\* PublishRuntimeParamSet: a maker less, at most one node more.
LEMMA PublishQuota ==
    ASSUME Inv, NEW t \in Threads, QuotaInv, PublishKeyNode(t)
    PROVE  QuotaInv'
<1>1. PICK token \in Tokens : token = req[t].caller.token
    BY TimeBounds DEF Inv, ThreadTypeOK, Request
<1>2. PICK m \in Deref(ptr[t]) : PublishRuntimeParamSet(m, token)
    BY <1>1 DEF PublishKeyNode
<1>3. pc[t] = "publish" /\ req' = req
    BY DEF PublishKeyNode
<1>4. pc'[t] = "coreInit" /\ \A u \in Threads \ {t} : pc'[u] = pc[u]
    BY DEF PublishKeyNode, Goto, Inv, ThreadTypeOK
<1>5. /\ g_keyNodeList' = g_keyNodeList /\ g_keyNodeList \subseteq NodeIds
      /\ \A n \in NodeIds : n # m => keyNode'[n] = keyNode[n]
      /\ \A n \in NodeIds : n \notin g_keyNodeList => keyNode'[n] = keyNode[n]
      /\ \A n \in NodeIds : n \in g_keyNodeList /\ n = m => keyNode'[n].token = token
    BY <1>2, NodesFinite
       DEF PublishRuntimeParamSet, WriteKeyNode, Inv, NodeInv, NodeTypeOK, HuksKeyNode
<1>6. FreeNodesBlank'
    BY <1>5 DEF QuotaInv, FreeNodesBlank
<1>7. ASSUME NEW k \in Tokens
      PROVE  Cardinality(NodesOf(g_keyNodeList, k)') + Cardinality(Publishing(k)')
                <= MAX_KEY_NODES_EACH_TOKEN_ID + Cardinality(Threads) - 1
    <2>1. CASE k # token
        <3>1. Publishing(k)' \subseteq Publishing(k)
            BY <1>3, <1>4 DEF Publishing
        <3>2. NodesOf(g_keyNodeList, k)' \subseteq NodesOf(g_keyNodeList, k)
            BY <1>5, <2>1 DEF NodesOf, GetTokenIdFromParamSet
        <3> QED BY <3>1, <3>2, QuotaKept DEF QuotaInv, NodesAndPending
    <2>2. CASE k = token
        <3>1. Publishing(token)' = Publishing(token) \ {t} /\ t \in Publishing(token)
            BY <1>1, <1>3, <1>4 DEF Publishing
        <3>2. NodesOf(g_keyNodeList, token)' \subseteq NodesOf(g_keyNodeList, token) \cup {m}
            BY <1>5 DEF NodesOf, GetTokenIdFromParamSet
        <3>3. PICK a, b, p, q, T, M :
                  /\ a = Cardinality(NodesOf(g_keyNodeList, token))
                  /\ b = Cardinality(NodesOf(g_keyNodeList, token)')
                  /\ p = Cardinality(Publishing(token)) /\ q = Cardinality(Publishing(token)')
                  /\ T = Cardinality(Threads) /\ M = MAX_KEY_NODES_EACH_TOKEN_ID
            OBVIOUS
        <3>4. /\ a \in Nat /\ p \in Nat /\ T \in Nat /\ M \in Nat
              /\ IsFiniteSet(Publishing(token)) /\ IsFiniteSet(NodesOf(g_keyNodeList, token))
            BY <3>3, Counted, NodeLimits DEF Inv
        <3>5. q = p - 1
            <4>1. Cardinality(Publishing(token) \ {t}) = Cardinality(Publishing(token)) - 1
                BY <3>1, <3>4, FS_RemoveElement
            <4> QED BY <3>1, <3>3, <4>1
        <3>6. b \in Nat /\ b <= a + 1
            <4>1. /\ IsFiniteSet(NodesOf(g_keyNodeList, token) \cup {m})
                  /\ \/ Cardinality(NodesOf(g_keyNodeList, token) \cup {m}) = a
                     \/ Cardinality(NodesOf(g_keyNodeList, token) \cup {m}) = a + 1
                BY <3>3, <3>4, FS_AddElement
            <4>2. b \in Nat /\ b <= Cardinality(NodesOf(g_keyNodeList, token) \cup {m})
                BY <3>2, <3>3, <4>1, Smaller
            <4> QED BY <3>4, <4>1, <4>2
        <3>7. a + p <= M + T - 1
            BY <3>3 DEF QuotaInv, NodesAndPending
        <3>8. b + q <= M + T - 1
            BY <3>4, <3>5, <3>6, <3>7
        <3> QED BY <2>2, <3>3, <3>8
    <2> QED BY <2>1, <2>2
<1> QED BY <1>6, <1>7 DEF QuotaInv, NodesAndPending

\* Every other step of a thread: nodes keep their tokens or go, and nobody
\* starts to make a node.
LEMMA OtherQuota ==
    ASSUME Inv, NEW t \in Threads, QuotaInv,
           Arrive(t) \/ Work(t), ~HksCreateKeyNode(t), ~PublishKeyNode(t)
    PROVE  QuotaInv'
<1>1. /\ pc'[t] # "publish" /\ \A u \in Threads \ {t} : pc'[u] = pc[u] /\ req'[u] = req[u]
    <2>1. \A u \in Threads \ {t} : pc'[u] = pc[u] /\ req'[u] = req[u]
        BY ThreadSteps DEF StepOf, OthersSame
    <2>2. CASE Arrive(t)
        <3>0. PICK l \in {"createKeyNode", "query", "lockSweep"} : \E r : Call(t, l, r)
            BY <2>2 DEF Arrive, CallInit, CallSession, CallRemove
        <3>1. PICK r : Call(t, l, r)
            BY <3>0
        <3> QED BY <2>1, <3>1, CallLocal DEF Inv
    <2>3. CASE DeleteKeyNodeAndDecreaseGlobalCount(t)
        <3>1. pc[t] = "evict" /\ Goto(t, req[t].cont)
            BY <2>3 DEF DeleteKeyNodeAndDecreaseGlobalCount
        <3>2. req[t].cont \in LockedLabels
            BY <3>1 DEF Inv, ThreadInv, LockHeld
        <3> QED BY <2>1, <3>1, <3>2, GotoFacts DEF Inv, LockedLabels, Labels
    <2>4. CASE Work(t) /\ ~DeleteKeyNodeAndDecreaseGlobalCount(t)
        <3>1. \/ Return(t)
              \/ \E l \in Labels \ {"publish"} : Goto(t, l)
              \/ pc' = pc /\ pc[t] = "sweep"
            <4>1. CASE \/ InitFails(t) \/ HksCoreInitFail(t) \/ FinishWithOtherToken(t)
                       \/ DeleteOperation(t) \/ AddOperation(t) \/ DeleteSession(t)
                       \/ DeleteSessionByProcessInfo(t) \/ QueryOperationAndMarkInUse(t)
                BY <4>1 DEF InitFails, HksCoreInitFail, FinishWithOtherToken, DeleteOperation,
                            AddOperation, DeleteSession, StartEvict, Labels,
                            DeleteSessionByProcessInfo, QueryOperationAndMarkInUse
            <4>2. CASE \/ HksCoreInit(t) \/ ChecksPass(t) \/ ChecksFail(t)
                       \/ GetParamsForUpdateAndFinish(t) \/ HksCoreUpdateSucceeds(t)
                       \/ HksCoreUpdateFails(t) \/ HksCoreFinishOrAbort(t) \/ CoreDelete(t)
                BY <4>2 DEF HksCoreInit, ChecksPass, ChecksFail, GetParamsForUpdateAndFinish,
                            HksCoreUpdateSucceeds, HksCoreUpdateFails, HksCoreFinishOrAbort,
                            CoreDelete, Labels
            <4>3. CASE \/ CreateOperation(t) \/ DeleteFirstTimeOutBatchOperation(t)
                       \/ DeleteForTokenIdIfExceedLimit(t) \/ DeleteFirstAbortableOperation(t)
                       \/ MarkOperationUnUse(t)
                BY <4>3 DEF CreateOperation, DeleteFirstTimeOutBatchOperation,
                     DeleteForTokenIdIfExceedLimit, DeleteFirstAbortableOperation,
                     MarkOperationUnUse, EnforceLimit, StartEvict, Labels
            <4> QED BY <2>4, <4>1, <4>2, <4>3 DEF Work
        <3> QED BY <2>1, <3>1, GotoFacts, ReturnFacts DEF Inv
    <2> QED BY <2>2, <2>3, <2>4
<1>2. \/ UNCHANGED nodeVars
      \/ \E h : HksDeleteKeyNode(h)
      \/ HksCoreInit(t)
    <2>1. CASE Arrive(t)
        BY <2>1 DEF Arrive, CallInit, CallSession, CallRemove, Call
    <2>2. CASE Work(t)
        BY <2>2 DEF Work, InitFails,
            HksCoreInitFail, CreateOperation, DeleteFirstTimeOutBatchOperation,
            DeleteForTokenIdIfExceedLimit, DeleteFirstAbortableOperation, EnforceLimit,
            AddOperation, DeleteKeyNodeAndDecreaseGlobalCount, QueryOperationAndMarkInUse,
            ChecksPass, ChecksFail, FinishWithOtherToken, GetParamsForUpdateAndFinish,
            HksCoreUpdateSucceeds, HksCoreUpdateFails, HksCoreFinishOrAbort, CoreDelete,
            MarkOperationUnUse, DeleteOperation, DeleteSessionByProcessInfo, DeleteSession
    <2> QED BY <2>1, <2>2
<1>3. g_keyNodeList \subseteq NodeIds /\ keyNode \in [NodeIds -> HuksKeyNode]
    BY NodesFinite DEF Inv, NodeInv, NodeTypeOK
<1>4. /\ g_keyNodeList' \subseteq g_keyNodeList
      /\ \A n \in g_keyNodeList' : keyNode'[n].token = keyNode[n].token
      /\ \A n \in NodeIds \ g_keyNodeList' :
            keyNode'[n].token = keyNode[n].token \/ keyNode'[n].token = INVALID_TOKEN_ID
      /\ \A n \in g_keyNodeList \ g_keyNodeList' : keyNode'[n].token = INVALID_TOKEN_ID
    <2>1. CASE UNCHANGED nodeVars
        BY <2>1 DEF nodeVars
    <2>2. CASE \E h : HksDeleteKeyNode(h)
        BY <1>3, <2>2 DEF HksDeleteKeyNode, Wiped, NewKeyNode
    <2>3. CASE HksCoreInit(t)
        <3>1. PICK m, b, d : HksAddBatchTimeToKeyNode(m, b, d)
            BY <2>3 DEF HksCoreInit
        <3> QED BY <1>3, <3>1 DEF HksAddBatchTimeToKeyNode, WriteKeyNode, HuksKeyNode
    <2> QED BY <1>2, <2>1, <2>2, <2>3
<1>5. FreeNodesBlank'
    BY <1>3, <1>4 DEF QuotaInv, FreeNodesBlank
<1>6. ASSUME NEW k \in Tokens
      PROVE  Cardinality(NodesOf(g_keyNodeList, k)') + Cardinality(Publishing(k)')
                <= MAX_KEY_NODES_EACH_TOKEN_ID + Cardinality(Threads) - 1
    <2>1. Publishing(k)' \subseteq Publishing(k)
        BY <1>1 DEF Publishing
    <2>2. NodesOf(g_keyNodeList, k)' \subseteq NodesOf(g_keyNodeList, k)
        BY <1>4 DEF NodesOf, GetTokenIdFromParamSet
    <2> QED BY <2>1, <2>2, QuotaKept DEF QuotaInv, NodesAndPending
<1> QED BY <1>5, <1>6 DEF QuotaInv, NodesAndPending

\* Every step keeps the count of nodes and makers.
LEMMA NextQuota ==
    ASSUME Inv, QuotaInv, [Next]_vars
    PROVE  QuotaInv'
<1>1. ASSUME NEW t \in Threads, Arrive(t) \/ Work(t) PROVE QuotaInv'
    BY <1>1, CreateQuota, PublishQuota, OtherQuota
<1>2. CASE Tick \/ UNCHANGED vars
    <2>1. UNCHANGED <<g_keyNodeList, keyNode, pc, req>>
        BY <1>2 DEF Tick, vars, nodeVars, threadVars
    <2> QED BY <2>1 DEF QuotaInv, NodesAndPending, FreeNodesBlank, NodesOf, Publishing,
                        GetTokenIdFromParamSet
<1> QED BY <1>1, <1>2 DEF Next

(* Counted with the nodes that are just being made, no token has more      *)
(* nodes than its limit and one for each other thread.                     *)
THEOREM NodesPending == Spec => []NodesAndPending
<1>1. Init => QuotaInv
    <2>1. SUFFICES ASSUME Init PROVE QuotaInv
        OBVIOUS
    <2>2. FreeNodesBlank
        BY <2>1 DEF Init, NodeInit, FreeNodesBlank, NewKeyNode
    <2>3. ASSUME NEW k \in Tokens
          PROVE  Cardinality(NodesOf(g_keyNodeList, k)) + Cardinality(Publishing(k))
                    <= MAX_KEY_NODES_EACH_TOKEN_ID + Cardinality(Threads) - 1
        <3>1. NodesOf(g_keyNodeList, k) = {} /\ Publishing(k) = {}
            BY <2>1 DEF Init, NodeInit, NodesOf, Publishing
        <3>2. Cardinality(Threads) \in Nat
            BY OperationLimits, FS_CardinalityType
        <3> QED BY <3>1, <3>2, FS_EmptySet, NodeLimits
    <2> QED BY <2>2, <2>3 DEF QuotaInv, NodesAndPending
<1>2. Inv /\ QuotaInv /\ [Next]_vars => Inv' /\ QuotaInv'
    BY NextInv, NextQuota
<1>3. QuotaInv => NodesAndPending
    BY DEF QuotaInv
<1> QED BY <1>1, <1>2, <1>3, InitInv, PTL DEF Spec

(* The engine never holds more nodes of a token than its limit and one for *)
(* each other thread.                                                      *)
THEOREM TokenNodes == Spec => []NodesPerToken
<1>1. Inv /\ NodesAndPending => NodesPerToken
    <2>1. SUFFICES ASSUME Inv, NodesAndPending, NEW k \in Tokens
                   PROVE  Cardinality(NodesOf(g_keyNodeList, k))
                            <= MAX_KEY_NODES_EACH_TOKEN_ID + Cardinality(Threads) - 1
        BY DEF NodesPerToken
    <2>2. PICK a, p, T, M : /\ a = Cardinality(NodesOf(g_keyNodeList, k))
                            /\ p = Cardinality(Publishing(k)) /\ T = Cardinality(Threads)
                            /\ M = MAX_KEY_NODES_EACH_TOKEN_ID
        OBVIOUS
    <2>3. a \in Nat /\ p \in Nat /\ T \in Nat /\ M \in Nat
        BY <2>1, <2>2, Counted, NodeLimits DEF Inv
    <2>4. a + p <= M + T - 1
        BY <2>1, <2>2 DEF NodesAndPending
    <2>5. a <= M + T - 1
        BY <2>3, <2>4
    <2> QED BY <2>2, <2>5
<1>2. Spec => []Inv
    BY InitInv, NextInv, PTL DEF Spec
<1> QED BY <1>1, <1>2, NodesPending, PTL

-----------------------------------------------------------------------------
(* Operations in use.  A request that returns without giving its operation *)
(* back leaves it in use for ever; HksServiceFinish does so when the token *)
(* is another one than that of the process that opened the session.        *)

\* The processes that call the service have one token each.
OneTokenEach ==
    \A c, d \in Callers : c.name = d.name /\ c.user = d.user => c.token = d.token

\* Then Finish does not meet an operation of another token.
LEMMA FinishFits ==
    ASSUME Inv, HandleInv, OneTokenEach, NEW t \in Threads
    PROVE  ~FinishWithOtherToken(t)
<1>1. SUFFICES ASSUME pc[t] = "checks", ~SameToken(t) PROVE FALSE
    BY DEF FinishWithOtherToken
<1>2. held[t] \in g_operationList
    BY <1>1 DEF Inv, ThreadInv, OperationPointersGood, HoldingLabels
<1>3. operation[held[t]].owner \in Callers /\ req[t].caller \in Callers
    BY <1>2, OperationsFinite
       DEF Inv, SessionInv, SessionTypeOK, HksOperation, ThreadTypeOK, Request
<1>4. IsSameProcess(req[t].caller, held[t])
    BY <1>1 DEF HandleInv, HeldFits
<1> QED BY <1>1, <1>3, <1>4 DEF OneTokenEach, IsSameProcess, SameToken

\* A step that marks no operation, of a thread that keeps what it holds.
LEMMA InUseKept ==
    ASSUME NEW t \in Threads, InUseMeansHeld, StepOf(t),
           \A o \in g_operationList' : operation'[o].isInUse =>
               o \in g_operationList /\ operation[o].isInUse,
           pc[t] \in HoldingLabels => pc'[t] \in HoldingLabels /\ held'[t] = held[t]
    PROVE  InUseMeansHeld'
<1>1. SUFFICES ASSUME NEW o \in g_operationList', operation'[o].isInUse
               PROVE  \E u \in Threads : pc'[u] \in HoldingLabels /\ held'[u] = o
    BY DEF InUseMeansHeld
<1>2. PICK u \in Threads : pc[u] \in HoldingLabels /\ held[u] = o
    BY <1>1 DEF InUseMeansHeld
<1>3. pc'[u] \in HoldingLabels /\ held'[u] = o
    BY <1>2 DEF StepOf, OthersSame
<1> QED BY <1>3

\* Every step of a thread leaves the operations in use with a holder.
LEMMA ThreadInUse ==
    ASSUME Inv, HandleInv, OneTokenEach, InUseMeansHeld, NEW t \in Threads, Arrive(t) \/ Work(t)
    PROVE  InUseMeansHeld'
<1>0. StepOf(t)
    BY ThreadSteps
<1>1. CASE \/ Arrive(t) \/ InitFails(t) \/ HksCreateKeyNode(t) \/ PublishKeyNode(t)
           \/ HksCoreInit(t) \/ HksCoreInitFail(t) \/ CreateOperation(t)
    <2>1. UNCHANGED <<g_operationList, operation>>
        BY <1>1 DEF Arrive, CallInit, CallSession, CallRemove, Call, InitFails, HksCreateKeyNode,
              PublishKeyNode, HksCoreInit, HksCoreInitFail, CreateOperation, sessionVars
    <2>2. pc[t] \notin HoldingLabels
        BY <1>1 DEF Arrive, CallInit, CallSession, CallRemove, Call, InitFails, HksCreateKeyNode,
              PublishKeyNode, HksCoreInit, HksCoreInitFail, CreateOperation, HoldingLabels
    <2> QED BY <1>0, <2>1, <2>2, InUseKept
<1>2. CASE \/ DeleteFirstTimeOutBatchOperation(t) \/ DeleteForTokenIdIfExceedLimit(t)
           \/ DeleteFirstAbortableOperation(t) \/ DeleteSessionByProcessInfo(t) \/ DeleteSession(t)
    <2>1. UNCHANGED <<g_operationList, operation>>
        BY <1>2 DEF DeleteFirstTimeOutBatchOperation, DeleteForTokenIdIfExceedLimit,
              DeleteFirstAbortableOperation, EnforceLimit, DeleteSessionByProcessInfo, DeleteSession
    <2>2. pc[t] \notin HoldingLabels
        BY <1>2 DEF DeleteFirstTimeOutBatchOperation, DeleteForTokenIdIfExceedLimit,
              DeleteFirstAbortableOperation, DeleteSessionByProcessInfo, DeleteSession, HoldingLabels
    <2> QED BY <1>0, <2>1, <2>2, InUseKept
<1>3. CASE AddOperation(t)
    <2> DEFINE n == operationsMade + 1
    <2>1. /\ g_operationList' = g_operationList \cup {n} /\ pc[t] \notin HoldingLabels
        BY <1>3 DEF AddOperation, AppendOperation, HoldingLabels
    <2>2. n \in OpIds /\ n \notin g_operationList /\ g_operationList \subseteq OpIds
        BY <1>3, OperationsFinite, OperationLimits
           DEF AddOperation, AppendOperation, Inv, SessionInv, SessionTypeOK, OpIds
    <2>3. /\ ~operation'[n].isInUse /\ \A o \in g_operationList : operation'[o] = operation[o]
        BY <1>3, <2>2 DEF AddOperation, AppendOperation, Inv, SessionInv, SessionTypeOK
    <2> HIDE DEF n
    <2> QED BY <1>0, <2>1, <2>3, InUseKept
<1>4. CASE DeleteKeyNodeAndDecreaseGlobalCount(t) \/ DeleteOperation(t)
    <2>1. pc[t] \notin HoldingLabels
        BY <1>4 DEF DeleteKeyNodeAndDecreaseGlobalCount, DeleteOperation, HoldingLabels
    <2>2. (\E o : FreeOperation(o)) \/ UNCHANGED <<g_operationList, operation>>
        BY <1>4 DEF DeleteKeyNodeAndDecreaseGlobalCount, DeleteOperation
    <2>3. \A o \in g_operationList' : o \in g_operationList /\ operation'[o] = operation[o]
        <3>1. g_operationList \subseteq OpIds /\ operation \in [OpIds -> HksOperation]
            BY OperationsFinite DEF Inv, SessionInv, SessionTypeOK
        <3> QED BY <2>2, <3>1 DEF FreeOperation
    <2> QED BY <1>0, <2>1, <2>3, InUseKept
<1>5. CASE \/ ChecksPass(t) \/ ChecksFail(t) \/ GetParamsForUpdateAndFinish(t)
           \/ HksCoreUpdateSucceeds(t) \/ HksCoreUpdateFails(t) \/ HksCoreFinishOrAbort(t)
           \/ CoreDelete(t)
    <2>1. /\ UNCHANGED <<g_operationList, operation, held>>
          /\ \E l \in {"coreQuery", "unuse", "unuseThenDelete", "coreRun", "coreDelete"} : Goto(t, l)
        BY <1>5 DEF ChecksPass, ChecksFail, GetParamsForUpdateAndFinish, HksCoreUpdateSucceeds,
                    HksCoreUpdateFails, HksCoreFinishOrAbort, CoreDelete, sessionVars
    <2>2. pc'[t] \in HoldingLabels
        BY <2>1, GotoFacts DEF Inv, HoldingLabels, Labels
    <2> QED BY <1>0, <2>1, <2>2, InUseKept
<1>6. CASE FinishWithOtherToken(t)
    BY <1>6, FinishFits
<1>7. CASE QueryOperationAndMarkInUse(t)
    <2>1. pc[t] = "query" /\ pc[t] \notin HoldingLabels
        BY <1>7 DEF QueryOperationAndMarkInUse, HoldingLabels
    <2>2. CASE UNCHANGED <<g_operationList, operation>>
        BY <1>0, <2>1, <2>2, InUseKept
    <2>3. CASE \E o : SetInUse(o, TRUE) /\ held' = [held EXCEPT ![t] = o] /\ Goto(t, "checks")
        <3>1. PICK o : SetInUse(o, TRUE) /\ held' = [held EXCEPT ![t] = o] /\ Goto(t, "checks")
            BY <2>3
        <3>2. held'[t] = o /\ pc'[t] \in HoldingLabels
            BY <3>1, GotoFacts DEF Inv, ThreadTypeOK, HoldingLabels, Labels
        <3>3. /\ g_operationList' = g_operationList
              /\ \A p \in g_operationList : p # o => operation'[p] = operation[p]
            BY <3>1, OperationsFinite DEF SetInUse, Inv, SessionInv, SessionTypeOK
        <3>4. ASSUME NEW p \in g_operationList', operation'[p].isInUse, p # o
              PROVE  \E u \in Threads : pc'[u] \in HoldingLabels /\ held'[u] = p
            <4>1. PICK u \in Threads : pc[u] \in HoldingLabels /\ held[u] = p
                BY <3>3, <3>4 DEF InUseMeansHeld
            <4>2. u # t
                BY <2>1, <4>1
            <4>3. pc'[u] \in HoldingLabels /\ held'[u] = p
                BY <1>0, <4>1, <4>2 DEF StepOf, OthersSame
            <4> QED BY <4>3
        <3> QED BY <3>2, <3>4 DEF InUseMeansHeld
    <2> QED BY <1>7, <2>2, <2>3 DEF QueryOperationAndMarkInUse
<1>8. CASE MarkOperationUnUse(t)
    <2>1. pc[t] \in HoldingLabels /\ SetInUse(held[t], FALSE)
        BY <1>8 DEF MarkOperationUnUse, HoldingLabels
    <2>2. held[t] \in g_operationList
        BY <2>1 DEF Inv, ThreadInv, OperationPointersGood
    <2>3. /\ g_operationList' = g_operationList /\ ~operation'[held[t]].isInUse
          /\ \A p \in g_operationList : p # held[t] => operation'[p] = operation[p]
        BY <2>1, <2>2, OperationsFinite DEF SetInUse, Inv, SessionInv, SessionTypeOK, HksOperation
    <2>4. ASSUME NEW p \in g_operationList', operation'[p].isInUse
          PROVE  \E u \in Threads : pc'[u] \in HoldingLabels /\ held'[u] = p
        <3>1. p # held[t] /\ operation[p].isInUse /\ p \in g_operationList
            BY <2>3, <2>4
        <3>2. PICK u \in Threads : pc[u] \in HoldingLabels /\ held[u] = p
            BY <3>1 DEF InUseMeansHeld
        <3>3. pc'[u] \in HoldingLabels /\ held'[u] = p
            BY <1>0, <3>1, <3>2 DEF StepOf, OthersSame
        <3> QED BY <3>3
    <2> QED BY <2>4 DEF InUseMeansHeld
<1> QED BY <1>1, <1>2, <1>3, <1>4, <1>5, <1>6, <1>7, <1>8 DEF Work

(* When every process has one token, an operation that is marked in use    *)
(* belongs to a running request: no client can lose its session to a flag  *)
(* that nobody resets.                                                     *)
THEOREM InUseHeld ==
    ASSUME OneTokenEach
    PROVE  Spec => []InUseMeansHeld
<1>1. Init => InUseMeansHeld
    BY DEF Init, SessionInit, InUseMeansHeld
<1>2. Inv /\ HandleInv /\ InUseMeansHeld /\ [Next]_vars => InUseMeansHeld'
    <2>1. SUFFICES ASSUME Inv, HandleInv, InUseMeansHeld, [Next]_vars PROVE InUseMeansHeld'
        OBVIOUS
    <2>2. CASE Tick \/ UNCHANGED vars
        <3>1. UNCHANGED <<g_operationList, operation, pc, held>>
            BY <2>2 DEF Tick, vars, sessionVars, threadVars
        <3> QED BY <2>1, <3>1 DEF InUseMeansHeld
    <2> QED BY <2>1, <2>2, ThreadInUse DEF Next
<1>3. Spec => []Inv
    BY InitInv, NextInv, PTL DEF Spec
<1> QED BY <1>1, <1>2, <1>3, HandleInvariant, PTL DEF Spec
=============================================================================

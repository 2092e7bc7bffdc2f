-------------------------- MODULE ThreeStageProofs --------------------------
(***************************************************************************)
(* Proofs about three-stage sessions.  The argument is one inductive       *)
(* invariant: g_lock is owned by the thread inside AddOperation or         *)
(* DeleteSessionByProcessInfo (LockHeld); so whoever holds it may rely on  *)
(* what it found in the list (RoomMade) and on its victim staying idle;    *)
(* isInUse protects the pointers used outside the lock                     *)
(* (OperationPointersGood).  The lemmas follow the layers: the engine's    *)
(* list, the service's list, threads, then one lemma per group of actions. *)
(***************************************************************************)
EXTENDS ThreeStage, FiniteSetTheorems, WellFoundedInduction, TLAPS

\* A non-empty set of numbers has a least element, and Min is it: the list
\* searches, which take the first match, find a member.
LEMMA MinInSet ==
    ASSUME NEW S \in SUBSET Nat, S # {}
    PROVE  Min(S) \in S /\ \A y \in S : Min(S) <= y
<1> DEFINE R == {ss \in Nat \X Nat : ss[1] < ss[2]}
<1>1. IsWellFoundedOn(R, Nat)
    BY NatLessThanWellFounded, Zenon DEF OpToRel
<1>2. PICK x \in S : \A y \in S : ~(<<y, x>> \in R)
    <2> HIDE DEF R
    <2> QED BY <1>1, WFMin
<1>3. ASSUME NEW y \in S PROVE x <= y
    <2>1. x \in Nat /\ y \in Nat
        OBVIOUS
    <2>2. <<y, x>> \in R <=> y < x
        BY <2>1
    <2> QED BY <1>2, <2>1, <2>2
<1> QED BY <1>3 DEF Min

\* FirstOf takes one element of a non-empty set, none of an empty one.
LEMMA FirstOfSet ==
    ASSUME NEW S \in SUBSET Nat
    PROVE  /\ FirstOf(S) \subseteq S
           /\ IsFiniteSet(FirstOf(S))
           /\ Cardinality(FirstOf(S)) = IF S = {} THEN 0 ELSE 1
<1>1. CASE S = {}
    BY <1>1, FS_EmptySet DEF FirstOf
<1>2. CASE S # {}
    <2>1. FirstOf(S) = {Min(S)} /\ Min(S) \in S
        BY <1>2, MinInSet DEF FirstOf
    <2> QED BY <1>2, <2>1, FS_Singleton
<1> QED BY <1>1, <1>2

-----------------------------------------------------------------------------
(* The engine's list. *)

NodeInv == NodeTypeOK /\ NodeCountExact

\* The engine's list is a finite set of node numbers.
LEMMA NodesFinite ==
    ASSUME NodeInv
    PROVE  /\ IsFiniteSet(g_keyNodeList)
           /\ g_keyNodeList \subseteq NodeIds
           /\ NodeIds \subseteq Nat
<1>1. nodesMade \in Nat /\ nodesMade <= MaxNodes /\ g_keyNodeList \subseteq 1 .. nodesMade
    BY NodeLimits DEF NodeInv, NodeTypeOK
<1>2. IsFiniteSet(1 .. nodesMade)
    BY <1>1, FS_Interval
<1>3. IsFiniteSet(g_keyNodeList)
    BY <1>1, <1>2, FS_Subset
<1> QED BY <1>1, <1>3, NodeLimits DEF NodeIds

\* Taking out the empty or one-element set FirstOf(T) keeps count and list
\* in step.
LEMMA RemoveFirst ==
    ASSUME NEW S \in SUBSET Nat, IsFiniteSet(S), NEW T \in SUBSET S
    PROVE  /\ IsFiniteSet(S \ FirstOf(T))
           /\ Cardinality(S \ FirstOf(T)) = Cardinality(S) - Cardinality(FirstOf(T))
           /\ Cardinality(S \ FirstOf(T)) \in Nat
           /\ Cardinality(FirstOf(T)) = IF T = {} THEN 0 ELSE 1
<1>1. T \in SUBSET Nat
    OBVIOUS
<1>2. FirstOf(T) \subseteq T /\ Cardinality(FirstOf(T)) = IF T = {} THEN 0 ELSE 1
    BY <1>1, FirstOfSet
<1>3. S \cap FirstOf(T) = FirstOf(T)
    BY <1>2
<1> QED BY <1>2, <1>3, FS_Difference, FS_CardinalityType

\* AddKeyNode's three evictions and its append keep counter and list in step
\* and leave the list within MAX_KEY_NODES_COUNT.
LEMMA AddKeyNodeInv ==
    ASSUME NodeInv, NEW token \in Tokens, NEW n, AddKeyNode(token, n)
    PROVE  NodeInv'
<1> DEFINE timedOut == DeleteFirstTimeOutBatchKeyNode(g_keyNodeList, g_keyNodeCount, n)
           l1 == g_keyNodeList \ timedOut
           c1 == g_keyNodeCount - Cardinality(timedOut)
           excess == DeleteKeyNodeForTokenIdIfExceedLimit(l1, c1, token)
           l2 == l1 \ excess
           c2 == c1 - Cardinality(excess)
           oldest == DeleteFirstKeyNode(l2, c2)
           l3 == l2 \ oldest
           c3 == c2 - Cardinality(oldest)
<1>1. g_keyNodeCount = Cardinality(g_keyNodeList) /\ g_keyNodeCount <= MAX_KEY_NODES_COUNT
    BY DEF NodeInv, NodeCountExact
<1>2. /\ IsFiniteSet(l1) /\ l1 \subseteq g_keyNodeList
      /\ c1 = Cardinality(l1) /\ c1 \in Nat /\ c1 <= g_keyNodeCount
    <2>1. \E T \in SUBSET g_keyNodeList : timedOut = FirstOf(T)
        BY DEF DeleteFirstTimeOutBatchKeyNode, FirstOf
    <2> HIDE DEF timedOut
    <2>2. g_keyNodeList \in SUBSET Nat /\ IsFiniteSet(g_keyNodeList)
        BY NodesFinite
    <2>3. Cardinality(g_keyNodeList) \in Nat
        BY <2>2, FS_CardinalityType
    <2> QED BY <1>1, <2>1, <2>2, <2>3, RemoveFirst
<1>3. /\ IsFiniteSet(l2) /\ l2 \subseteq l1
      /\ c2 = Cardinality(l2) /\ c2 \in Nat /\ c2 <= c1
    <2> HIDE DEF l1, c1
    <2>1. \E T \in SUBSET l1 : excess = FirstOf(T)
        BY DEF DeleteKeyNodeForTokenIdIfExceedLimit, FirstOf, NodesOf
    <2> HIDE DEF excess
    <2> QED BY <1>2, <2>1, NodesFinite, RemoveFirst
<1>4. /\ IsFiniteSet(l3) /\ l3 \subseteq l2
      /\ c3 = Cardinality(l3) /\ c3 \in Nat /\ c3 < MAX_KEY_NODES_COUNT
    <2> HIDE DEF l2, c2
    <2>1. CASE c2 < MAX_KEY_NODES_COUNT
        <3>1. oldest = FirstOf({})
            BY <2>1 DEF DeleteFirstKeyNode, FirstOf
        <3> HIDE DEF oldest
        <3> QED BY <1>2, <1>3, <2>1, <3>1, NodesFinite, RemoveFirst
    <2>2. CASE ~(c2 < MAX_KEY_NODES_COUNT)
        <3>1. oldest = FirstOf(l2)
            BY <2>2 DEF DeleteFirstKeyNode
        <3>2. l2 # {}
            BY <1>3, <2>2, NodeLimits, FS_EmptySet
        <3> HIDE DEF oldest
        <3> QED BY <1>1, <1>2, <1>3, <2>2, <3>1, <3>2, NodesFinite, NodeLimits, RemoveFirst
    <2> QED BY <2>1, <2>2
<1>5. /\ nodesMade < MaxNodes /\ nodesMade' = nodesMade + 1
      /\ g_keyNodeList' = l3 \cup {nodesMade + 1}
      /\ g_keyNodeCount' = c3 + 1
      /\ keyNode' = Wiped(timedOut \cup excess \cup oldest)
    BY DEF AddKeyNode
<1> HIDE DEF timedOut, l1, c1, excess, l2, c2, oldest, l3, c3
<1>6. l3 \subseteq 1 .. nodesMade /\ nodesMade \in 0 .. MaxNodes /\ keyNode \in [NodeIds -> HuksKeyNode]
    BY <1>2, <1>3, <1>4 DEF NodeInv, NodeTypeOK
<1>7. keyNode' \in [NodeIds -> HuksKeyNode]
    BY <1>5, <1>6 DEF Wiped, NewKeyNode, HuksKeyNode
<1>8. NodeTypeOK'
    <2>1. nodesMade' \in 0 .. MaxNodes /\ g_keyNodeList' \subseteq 1 .. nodesMade'
        BY <1>5, <1>6, NodeLimits
    <2>2. g_keyNodeCount' \in Nat
        BY <1>4, <1>5
    <2> QED BY <1>7, <2>1, <2>2 DEF NodeTypeOK
<1>9. NodeCountExact'
    <2>1. nodesMade + 1 \notin l3
        BY <1>6, NodeLimits
    <2>2. Cardinality(g_keyNodeList') = c3 + 1
        BY <1>4, <1>5, <2>1, FS_AddElement
    <2>3. c3 + 1 <= MAX_KEY_NODES_COUNT
        BY <1>4, NodeLimits
    <2> QED BY <1>5, <2>2, <2>3 DEF NodeCountExact
<1> QED BY <1>8, <1>9 DEF NodeInv

\* HksDeleteKeyNode keeps counter and list in step, also for a handle that
\* is not there.
LEMMA DeleteKeyNodeInv ==
    ASSUME NodeInv, NEW h, HksDeleteKeyNode(h)
    PROVE  NodeInv'
<1>1. /\ IsFiniteSet(g_keyNodeList)
      /\ Cardinality(g_keyNodeList \ {h}) =
            Cardinality(g_keyNodeList) - Cardinality(g_keyNodeList \cap {h})
      /\ Cardinality(g_keyNodeList \ {h}) \in Nat
      /\ Cardinality(g_keyNodeList \ {h}) <= Cardinality(g_keyNodeList)
    BY NodesFinite, FS_Difference, FS_CardinalityType, FS_Subset
<1>2. keyNode' \in [NodeIds -> HuksKeyNode]
    BY DEF NodeInv, NodeTypeOK, HksDeleteKeyNode, Wiped, NewKeyNode, HuksKeyNode
<1>3. NodeTypeOK'
    BY <1>1, <1>2 DEF NodeInv, NodeTypeOK, NodeCountExact, HksDeleteKeyNode, HksQueryKeyNode
<1>4. NodeCountExact'
    BY <1>1, NodeLimits DEF NodeInv, NodeTypeOK, NodeCountExact, HksDeleteKeyNode, HksQueryKeyNode
<1> QED BY <1>3, <1>4 DEF NodeInv

\* Writing through a key node pointer, good or dangling, does not disturb the
\* list.
LEMMA WriteKeyNodeInv ==
    ASSUME NodeInv, NEW m, NEW c \in HuksKeyNode, WriteKeyNode(m, c)
    PROVE  NodeInv'
BY DEF NodeInv, NodeTypeOK, NodeCountExact, WriteKeyNode

\* A step of the service alone does not disturb the engine's list.
LEMMA UnchangedNodesInv ==
    ASSUME NodeInv, UNCHANGED nodeVars
    PROVE  NodeInv'
BY DEF NodeInv, NodeTypeOK, NodeCountExact, nodeVars

-----------------------------------------------------------------------------
(* The service's list. *)

SessionInv == SessionTypeOK /\ SessionLimits

\* The service's list is a finite set of operation numbers.
LEMMA OperationsFinite ==
    ASSUME SessionInv
    PROVE  /\ IsFiniteSet(g_operationList)
           /\ g_operationList \subseteq OpIds
           /\ g_operationList \subseteq Nat
           /\ OpIds \subseteq Nat
<1>1. /\ operationsMade \in Nat /\ operationsMade <= MaxOperations
      /\ g_operationList \subseteq 1 .. operationsMade
    BY OperationLimits DEF SessionInv, SessionTypeOK
<1>2. IsFiniteSet(1 .. operationsMade)
    BY <1>1, FS_Interval
<1>3. IsFiniteSet(g_operationList)
    BY <1>1, <1>2, FS_Subset
<1> QED BY <1>1, <1>3, OperationLimits DEF OpIds

\* A token's operations are counted by a number not above g_operationCount.
LEMMA OpsOfTokenFinite ==
    ASSUME SessionInv, NEW k
    PROVE  /\ IsFiniteSet(OpsOfToken(k))
           /\ Cardinality(OpsOfToken(k)) \in Nat
           /\ Cardinality(OpsOfToken(k)) <= g_operationCount
<1>1. OpsOfToken(k) \subseteq g_operationList
    BY DEF OpsOfToken
<1>2. g_operationCount = Cardinality(g_operationList)
    BY DEF SessionInv, SessionLimits
<1> QED BY <1>1, <1>2, OperationsFinite, FS_Subset, FS_CardinalityType

\* Nothing but isInUse of one operation, or the lock, changes.
LEMMA SetInUseInv ==
    ASSUME SessionInv, NEW o, NEW b \in BOOLEAN, SetInUse(o, b),
           g_lock' \in Threads \cup {None}
    PROVE  /\ SessionInv'
           /\ \A k : OpsOfToken(k)' = OpsOfToken(k)
<1>1. operation' \in [OpIds -> HksOperation]
    BY DEF SessionInv, SessionTypeOK, SetInUse, HksOperation
<1>2. ASSUME NEW p \in OpIds PROVE operation'[p].owner = operation[p].owner
    BY DEF SessionInv, SessionTypeOK, SetInUse, HksOperation
<1>3. ASSUME NEW k PROVE OpsOfToken(k)' = OpsOfToken(k)
    BY <1>2, OperationsFinite DEF OpsOfToken, SetInUse
<1>4. SessionTypeOK'
    BY <1>1 DEF SessionInv, SessionTypeOK, SetInUse
<1>5. SessionLimits'
    BY <1>3 DEF SessionInv, SessionLimits, SetInUse
<1> QED BY <1>3, <1>4, <1>5 DEF SessionInv

\* Taking or releasing g_lock does not disturb the operation list.
LEMMA SameListInv ==
    ASSUME SessionInv, g_lock' \in Threads \cup {None},
           UNCHANGED <<g_operationList, g_operationCount, operation, operationsMade>>
    PROVE  /\ SessionInv'
           /\ \A k : OpsOfToken(k)' = OpsOfToken(k)
<1>1. ASSUME NEW k PROVE OpsOfToken(k)' = OpsOfToken(k)
    BY DEF OpsOfToken
<1> QED BY <1>1 DEF SessionInv, SessionTypeOK, SessionLimits

\* Freeing an operation of the list keeps the limits and lowers both counts.
LEMMA FreeOperationInv ==
    ASSUME SessionInv, NEW o \in g_operationList, FreeOperation(o),
           g_lock' \in Threads \cup {None}
    PROVE  /\ SessionInv'
           /\ g_operationCount' = g_operationCount - 1
           /\ \A k : OpsOfToken(k)' = OpsOfToken(k) \ {o}
           /\ \A k : Cardinality(OpsOfToken(k)') \in Nat
           /\ \A k : Cardinality(OpsOfToken(k)') <= Cardinality(OpsOfToken(k))
           /\ \A k : o \in OpsOfToken(k) =>
                  Cardinality(OpsOfToken(k)') = Cardinality(OpsOfToken(k)) - 1
<1>1. o \in OpIds /\ g_operationList \subseteq OpIds /\ IsFiniteSet(g_operationList)
    BY OperationsFinite
<1>2. Freed \in HksOperation
    BY OperationLimits DEF Freed, HksOperation
<1>3. /\ operation' \in [OpIds -> HksOperation]
      /\ \A p \in g_operationList \ {o} : operation'[p] = operation[p]
    BY <1>1, <1>2 DEF SessionInv, SessionTypeOK, FreeOperation
<1>4. g_operationList' = g_operationList \ {o} /\ g_operationCount' = g_operationCount - 1
    BY DEF FreeOperation
<1>5. g_operationCount' = Cardinality(g_operationList') /\ g_operationCount' \in Nat
    <2>1. /\ IsFiniteSet(g_operationList \ {o})
          /\ Cardinality(g_operationList \ {o}) = Cardinality(g_operationList) - 1
        BY <1>1, FS_RemoveElement
    <2>2. Cardinality(g_operationList \ {o}) \in Nat
        BY <2>1, FS_CardinalityType
    <2> QED BY <1>4, <2>1, <2>2 DEF SessionInv, SessionLimits
<1>6. ASSUME NEW k PROVE OpsOfToken(k)' = OpsOfToken(k) \ {o}
    BY <1>3, <1>4 DEF OpsOfToken
<1>7. ASSUME NEW k
      PROVE  /\ Cardinality(OpsOfToken(k)') \in Nat
             /\ Cardinality(OpsOfToken(k)') <= Cardinality(OpsOfToken(k))
             /\ o \in OpsOfToken(k) =>
                  Cardinality(OpsOfToken(k)') = Cardinality(OpsOfToken(k)) - 1
    <2>1. IsFiniteSet(OpsOfToken(k)) /\ Cardinality(OpsOfToken(k)) \in Nat
        BY OpsOfTokenFinite
    <2>2. /\ IsFiniteSet(OpsOfToken(k) \ {o})
          /\ Cardinality(OpsOfToken(k) \ {o}) =
               IF o \in OpsOfToken(k) THEN Cardinality(OpsOfToken(k)) - 1
               ELSE Cardinality(OpsOfToken(k))
        BY <2>1, FS_RemoveElement
    <2>3. Cardinality(OpsOfToken(k) \ {o}) \in Nat
        BY <2>2, FS_CardinalityType
    <2> QED BY <1>6, <2>1, <2>2, <2>3
<1>8. SessionTypeOK'
    BY <1>3, <1>4, <1>5 DEF SessionInv, SessionTypeOK, FreeOperation
<1>9. SessionLimits'
    <2>1. g_operationCount' <= MAX_OPERATIONS_COUNT
        BY <1>4, <1>5, OperationLimits DEF SessionInv, SessionLimits, SessionTypeOK
    <2>2. ASSUME NEW c \in Callers
          PROVE  Cardinality(OpsOfToken(c.token)') <= MAX_OPERATIONS_EACH_TOKEN_ID
        BY <1>7, OpsOfTokenFinite, OperationLimits DEF SessionInv, SessionLimits
    <2> QED BY <1>5, <2>1, <2>2 DEF SessionLimits
<1> QED BY <1>4, <1>6, <1>7, <1>8, <1>9 DEF SessionInv

\* Appending below both limits keeps them.
LEMMA AppendOperationInv ==
    ASSUME SessionInv, NEW c \in Callers, NEW h \in Nat, NEW b \in BOOLEAN,
           NEW d \in Nat, AppendOperation(c, h, b, d),
           g_operationCount < MAX_OPERATIONS_COUNT,
           Cardinality(OpsOfToken(c.token)) < MAX_OPERATIONS_EACH_TOKEN_ID,
           g_lock' \in Threads \cup {None}
    PROVE  /\ SessionInv'
           /\ g_operationList \subseteq g_operationList'
           /\ \A p \in g_operationList : operation'[p] = operation[p]
<1> DEFINE n == operationsMade + 1
           new == [owner |-> c, handle |-> h, isInUse |-> FALSE,
                   isBatchOperation |-> b, batchOperationTimestamp |-> d]
<1>1. /\ operationsMade \in Nat /\ operationsMade < MaxOperations
      /\ operationsMade' = n
      /\ g_operationList' = g_operationList \cup {n}
      /\ g_operationCount' = g_operationCount + 1
      /\ operation' = [operation EXCEPT ![n] = new]
    BY DEF AppendOperation, SessionInv, SessionTypeOK
<1>2. n \in OpIds /\ n \notin g_operationList /\ g_operationList \subseteq OpIds
    BY <1>1, OperationsFinite, OperationLimits DEF OpIds, SessionInv, SessionTypeOK
<1>3. new \in HksOperation
    BY DEF HksOperation
<1>4. operation \in [OpIds -> HksOperation]
    BY DEF SessionInv, SessionTypeOK
<1> HIDE DEF new
<1>5. /\ operation' \in [OpIds -> HksOperation]
      /\ operation'[n] = new
      /\ \A p \in g_operationList : operation'[p] = operation[p]
    BY <1>1, <1>2, <1>3, <1>4
<1>6. g_operationCount \in Nat /\ g_operationCount = Cardinality(g_operationList)
    BY DEF SessionInv, SessionTypeOK, SessionLimits
<1>7. g_operationCount' = Cardinality(g_operationList')
    BY <1>1, <1>2, <1>6, OperationsFinite, FS_AddElement
<1>8. SessionTypeOK'
    <2>1. operationsMade' \in 0 .. MaxOperations /\ g_operationList' \subseteq 1 .. operationsMade'
        BY <1>1, OperationLimits DEF SessionInv, SessionTypeOK
    <2> QED BY <1>1, <1>5, <1>6, <2>1 DEF SessionTypeOK
<1>9. ASSUME NEW e \in Callers
      PROVE  Cardinality(OpsOfToken(e.token)') <= MAX_OPERATIONS_EACH_TOKEN_ID
    <2>1. CASE e.token = c.token
        <3>1. OpsOfToken(e.token)' \subseteq OpsOfToken(c.token) \cup {n}
            BY <1>1, <1>5, <2>1 DEF OpsOfToken
        <3>2. /\ IsFiniteSet(OpsOfToken(c.token) \cup {n})
              /\ Cardinality(OpsOfToken(c.token) \cup {n}) <= MAX_OPERATIONS_EACH_TOKEN_ID
            <4>1. IsFiniteSet(OpsOfToken(c.token)) /\ Cardinality(OpsOfToken(c.token)) \in Nat
                BY OpsOfTokenFinite
            <4>2. /\ IsFiniteSet(OpsOfToken(c.token) \cup {n})
                  /\ Cardinality(OpsOfToken(c.token) \cup {n}) <= Cardinality(OpsOfToken(c.token)) + 1
                <5> HIDE DEF n
                <5>1. /\ IsFiniteSet(OpsOfToken(c.token) \cup {n})
                      /\ Cardinality(OpsOfToken(c.token) \cup {n}) =
                           IF n \in OpsOfToken(c.token) THEN Cardinality(OpsOfToken(c.token))
                           ELSE Cardinality(OpsOfToken(c.token)) + 1
                    BY <4>1, FS_AddElement, Zenon
                <5> QED BY <4>1, <5>1
            <4>3. Cardinality(OpsOfToken(c.token) \cup {n}) \in Nat
                BY <4>2, FS_CardinalityType
            <4> HIDE DEF n
            <4> QED BY <4>1, <4>2, <4>3, OperationLimits
        <3> QED BY <3>1, <3>2, FS_Subset, FS_CardinalityType, OperationLimits
    <2>2. CASE e.token # c.token
        <3>1. operation'[n].owner.token = c.token
            BY <1>5 DEF new
        <3>2. OpsOfToken(e.token)' = OpsOfToken(e.token)
            BY <1>1, <1>5, <2>2, <3>1 DEF OpsOfToken
        <3> QED BY <3>2 DEF SessionInv, SessionLimits
    <2> QED BY <2>1, <2>2
<1>10. g_operationCount' <= MAX_OPERATIONS_COUNT
    BY <1>1, <1>6, OperationLimits
<1> QED BY <1>1, <1>5, <1>7, <1>8, <1>9, <1>10 DEF SessionInv, SessionLimits

-----------------------------------------------------------------------------
(* Threads.  A step of thread t leaves the local variables of the others   *)
(* alone; the lemmas say which steps keep the locking discipline and the   *)
(* pointers, by what they do to the operation list.                        *)

ThreadTypeOK ==
    /\ now \in Nat
    /\ pc \in [Threads -> Labels]
    /\ req \in [Threads -> Request]
    /\ held \in [Threads -> {NULL} \cup OpIds]
    /\ victim \in [Threads -> {NULL} \cup OpIds]
    /\ ptr \in [Threads -> {NULL} \cup NodeIds]
    /\ usedAfterFree \in BOOLEAN

OthersSame(t) ==
    \A u \in Threads \ {t} :
        /\ pc'[u] = pc[u] /\ req'[u] = req[u]
        /\ held'[u] = held[u] /\ victim'[u] = victim[u]

\* What a step of t must establish for t itself.
RoomMadeFor(t) ==
    /\ \/ pc[t] \in {"countLimit", "append"}
       \/ pc[t] = "evict" /\ req[t].cont = "append"
       => Cardinality(OpsOfToken(req[t].caller.token)) < MAX_OPERATIONS_EACH_TOKEN_ID
    /\ pc[t] = "append" => g_operationCount < MAX_OPERATIONS_COUNT
    /\ pc[t] = "evict" /\ req[t].cont = "countLimit"
       => victim[t] \in OpsOfToken(req[t].caller.token)

VictimGood(t) ==
    pc[t] = "evict" =>
        /\ victim[t] \in g_operationList
        /\ Idle(victim[t])
        /\ req[t].cont \in LockedLabels \ {"evict"}

ThreadInv == LockHeld /\ OperationPointersGood /\ RoomMade

\* The operation list stays as it is and t does not own g_lock.
LEMMA QuietStep ==
    ASSUME SessionInv, ThreadTypeOK, ThreadInv, NEW t \in Threads, OthersSame(t),
           UNCHANGED sessionVars,
           pc[t] \notin LockedLabels, pc'[t] \notin LockedLabels,
           pc'[t] \in HoldingLabels => pc[t] \in HoldingLabels /\ held'[t] = held[t]
    PROVE  SessionInv' /\ ThreadInv'
<1>1. SessionInv' /\ \A k : OpsOfToken(k)' = OpsOfToken(k)
    BY SameListInv DEF sessionVars, SessionInv, SessionTypeOK
<1>2. LockHeld'
    BY DEF ThreadInv, LockHeld, OthersSame, sessionVars, LockedLabels
<1>3. OperationPointersGood'
    BY DEF ThreadInv, OperationPointersGood, OthersSame, sessionVars, LockedLabels, Idle
<1>4. RoomMade'
    BY <1>1 DEF ThreadInv, RoomMade, OthersSame, sessionVars, LockedLabels
<1> QED BY <1>1, <1>2, <1>3, <1>4 DEF ThreadInv

\* The operation list stays as it is; t owns g_lock, takes it or gives it back.
LEMMA LockStep ==
    ASSUME SessionInv, ThreadTypeOK, ThreadInv, NEW t \in Threads, OthersSame(t),
           UNCHANGED <<g_operationList, g_operationCount, operation, operationsMade>>,
           g_lock \in {t, None},
           g_lock' = (IF pc'[t] \in LockedLabels THEN t ELSE None),
           pc'[t] \notin HoldingLabels,
           VictimGood(t)', RoomMadeFor(t)'
    PROVE  SessionInv' /\ ThreadInv'
<1>1. SessionInv' /\ \A k : OpsOfToken(k)' = OpsOfToken(k)
    BY SameListInv
<1>2. \A u \in Threads \ {t} : pc[u] \notin LockedLabels
    BY OperationLimits DEF ThreadInv, LockHeld
<1>3. LockHeld'
    BY <1>2, OperationLimits DEF ThreadInv, LockHeld, OthersSame, VictimGood
<1>4. OperationPointersGood'
    BY DEF ThreadInv, OperationPointersGood, OthersSame, VictimGood, Idle
<1>5. RoomMade'
    BY <1>2 DEF OthersSame, LockedLabels, RoomMade, RoomMadeFor
<1> QED BY <1>1, <1>3, <1>4, <1>5 DEF ThreadInv

\* QueryOperationAndMarkInUse: t gets an idle operation while nobody owns g_lock.
LEMMA AcquireStep ==
    ASSUME SessionInv, ThreadTypeOK, ThreadInv, NEW t \in Threads, OthersSame(t),
           NEW o \in g_operationList, Idle(o), SetInUse(o, TRUE),
           g_lock = None, UNCHANGED g_lock,
           pc'[t] \in HoldingLabels, held'[t] = o
    PROVE  SessionInv' /\ ThreadInv'
<1>1. SessionInv' /\ \A k : OpsOfToken(k)' = OpsOfToken(k)
    BY SetInUseInv DEF SessionInv, SessionTypeOK
<1>2. \A u \in Threads : pc[u] \notin LockedLabels
    BY OperationLimits DEF ThreadInv, LockHeld
<1>3. \A u \in Threads : pc'[u] \notin LockedLabels
    BY <1>2 DEF OthersSame, LockedLabels, HoldingLabels
<1>4. LockHeld' /\ RoomMade'
    BY <1>3, OperationLimits DEF LockHeld, RoomMade, LockedLabels
<1>5. /\ operation'[o].isInUse
      /\ \A p \in g_operationList \ {o} : operation'[p] = operation[p]
      /\ g_operationList' = g_operationList
    BY OperationsFinite DEF SetInUse, SessionInv, SessionTypeOK, HksOperation
<1>6. \A u \in Threads : pc[u] \in HoldingLabels => held[u] # o
    BY DEF ThreadInv, OperationPointersGood, Idle
<1>7. OperationPointersGood'
    BY <1>3, <1>5, <1>6 DEF ThreadInv, OperationPointersGood, OthersSame, LockedLabels
<1> QED BY <1>1, <1>4, <1>7 DEF ThreadInv

\* MarkOperationUnUse: t gives its operation back, without g_lock.
LEMMA ReleaseStep ==
    ASSUME SessionInv, ThreadTypeOK, ThreadInv, NEW t \in Threads, OthersSame(t),
           pc[t] \in HoldingLabels, SetInUse(held[t], FALSE), UNCHANGED g_lock,
           pc'[t] \notin HoldingLabels \cup LockedLabels
    PROVE  SessionInv' /\ ThreadInv'
<1>1. SessionInv' /\ \A k : OpsOfToken(k)' = OpsOfToken(k)
    BY SetInUseInv DEF SessionInv, SessionTypeOK
<1>2. LockHeld'
    BY DEF ThreadInv, LockHeld, OthersSame, LockedLabels, HoldingLabels
<1>3. /\ \A p \in g_operationList \ {held[t]} : operation'[p] = operation[p]
      /\ g_operationList' = g_operationList
      /\ \A p \in g_operationList : ~operation[p].isInUse => ~operation'[p].isInUse
    BY OperationsFinite DEF SetInUse, SessionInv, SessionTypeOK, HksOperation
<1>4. OperationPointersGood'
    BY <1>3 DEF ThreadInv, OperationPointersGood, OthersSame, LockedLabels, Idle
<1>5. RoomMade'
    BY <1>1 DEF ThreadInv, RoomMade, OthersSame, SetInUse, LockedLabels, HoldingLabels
<1> QED BY <1>1, <1>2, <1>4, <1>5 DEF ThreadInv

\* An idle operation is freed by DeleteOperation, while nobody owns g_lock,
\* or by the owner of g_lock.
LEMMA FreeStep ==
    ASSUME SessionInv, ThreadTypeOK, ThreadInv, NEW t \in Threads, OthersSame(t),
           NEW o \in g_operationList, Idle(o), FreeOperation(o),
           g_lock \in {t, None}, UNCHANGED g_lock,
           g_lock = t <=> pc'[t] \in LockedLabels,
           pc'[t] \notin HoldingLabels, pc'[t] # "evict", RoomMadeFor(t)'
    PROVE  SessionInv' /\ ThreadInv'
<1>1. SessionInv'
    BY FreeOperationInv DEF SessionInv, SessionTypeOK
<1>2. \A u \in Threads \ {t} : pc[u] \notin LockedLabels
    BY OperationLimits DEF ThreadInv, LockHeld
<1>3. LockHeld'
    BY <1>2, OperationLimits DEF ThreadInv, LockHeld, OthersSame, LockedLabels
<1>4. /\ \A p \in g_operationList \ {o} : operation'[p] = operation[p]
      /\ g_operationList' = g_operationList \ {o}
    BY OperationsFinite DEF FreeOperation, SessionInv, SessionTypeOK
<1>5. \A u \in Threads : pc[u] \in HoldingLabels => held[u] # o
    BY DEF ThreadInv, OperationPointersGood, Idle
<1>6. OperationPointersGood'
    BY <1>2, <1>4, <1>5 DEF ThreadInv, OperationPointersGood, OthersSame, LockedLabels
<1>7. RoomMade'
    BY <1>2 DEF OthersSame, LockedLabels, RoomMade, RoomMadeFor
<1> QED BY <1>1, <1>3, <1>6, <1>7 DEF ThreadInv

\* AddOperation appends and gives g_lock back.
LEMMA AppendStep ==
    ASSUME SessionInv, ThreadTypeOK, ThreadInv, NEW t \in Threads, OthersSame(t),
           pc[t] = "append", g_lock' = None, pc'[t] = "idle",
           AppendOperation(req[t].caller, req[t].handle, req[t].batch, req[t].deadline)
    PROVE  SessionInv' /\ ThreadInv'
<1>1. /\ req[t].caller \in Callers /\ req[t].handle \in Nat
      /\ req[t].batch \in BOOLEAN /\ req[t].deadline \in Nat
    BY NodeLimits DEF ThreadTypeOK, Request, NULL, NodeIds
<1>2. /\ g_operationCount < MAX_OPERATIONS_COUNT
      /\ Cardinality(OpsOfToken(req[t].caller.token)) < MAX_OPERATIONS_EACH_TOKEN_ID
    BY DEF ThreadInv, RoomMade
<1>3. /\ SessionInv'
      /\ g_operationList \subseteq g_operationList'
      /\ \A p \in g_operationList : operation'[p] = operation[p]
    BY <1>1, <1>2, AppendOperationInv
<1>4. \A u \in Threads \ {t} : pc[u] \notin LockedLabels
    BY OperationLimits DEF ThreadInv, LockHeld, LockedLabels
<1>5. \A u \in Threads : pc'[u] \notin LockedLabels
    BY <1>4 DEF OthersSame, LockedLabels
<1>6. LockHeld' /\ RoomMade'
    BY <1>5, OperationLimits DEF LockHeld, RoomMade, LockedLabels
<1>7. OperationPointersGood'
    BY <1>3, <1>5 DEF ThreadInv, OperationPointersGood, OthersSame, LockedLabels, HoldingLabels
<1> QED BY <1>3, <1>6, <1>7 DEF ThreadInv

-----------------------------------------------------------------------------
(* The pieces that several actions are built from. *)

LocalsTypeOK ==
    /\ pc \in [Threads -> Labels]
    /\ req \in [Threads -> Request]
    /\ held \in [Threads -> {NULL} \cup OpIds]
    /\ victim \in [Threads -> {NULL} \cup OpIds]
    /\ ptr \in [Threads -> {NULL} \cup NodeIds]

\* An idle thread's locals are of the right type.
LEMMA NoRequestType ==
    /\ NoRequest \in Request
    /\ NoRequest.cont = "idle"
BY OperationLimits DEF NoRequest, Request, Calls, Labels, NULL

\* What starting a request does to the threads.
LEMMA CallFacts ==
    ASSUME ThreadTypeOK, NEW t \in Threads, NEW l \in Labels, NEW r \in Request, Call(t, l, r)
    PROVE  /\ LocalsTypeOK' /\ OthersSame(t) /\ pc[t] = "idle" /\ pc'[t] = l
BY DEF ThreadTypeOK, LocalsTypeOK, Call, Goto, OthersSame

\* What answering a request does to the threads.
LEMMA ReturnFacts ==
    ASSUME ThreadTypeOK, NEW t \in Threads, Return(t)
    PROVE  /\ LocalsTypeOK' /\ OthersSame(t) /\ pc'[t] = "idle"
<1>1. pc' \in [Threads -> Labels] /\ pc'[t] = "idle"
    BY DEF ThreadTypeOK, Return, Goto, Labels
<1>2. req' \in [Threads -> Request]
    BY NoRequestType DEF ThreadTypeOK, Return
<1>3. /\ held' \in [Threads -> {NULL} \cup OpIds]
      /\ victim' \in [Threads -> {NULL} \cup OpIds]
      /\ ptr' \in [Threads -> {NULL} \cup NodeIds]
    BY DEF ThreadTypeOK, Return
<1>4. OthersSame(t)
    BY DEF ThreadTypeOK, Return, Goto, OthersSame
<1> QED BY <1>1, <1>2, <1>3, <1>4 DEF LocalsTypeOK

\* What a jump does to the program counters.
LEMMA GotoFacts ==
    ASSUME ThreadTypeOK, NEW t \in Threads, NEW l \in Labels, Goto(t, l)
    PROVE  /\ pc' \in [Threads -> Labels] /\ pc'[t] = l
           /\ \A u \in Threads \ {t} : pc'[u] = pc[u]
BY DEF ThreadTypeOK, Goto

\* Choosing a victim: it is the first of the candidates.
LEMMA StartEvictFacts ==
    ASSUME NodeInv, SessionInv, ThreadTypeOK, NEW t \in Threads,
           NEW S \in SUBSET g_operationList, S # {}, NEW l \in LockedLabels \ {"evict"},
           StartEvict(t, S, l), UNCHANGED held
    PROVE  /\ LocalsTypeOK' /\ OthersSame(t) /\ pc'[t] = "evict"
           /\ victim'[t] = Min(S) /\ Min(S) \in S
           /\ req'[t].cont = l /\ req'[t].caller = req[t].caller
<1>1. Min(S) \in S /\ Min(S) \in OpIds
    BY OperationsFinite, MinInSet
<1> DEFINE o == Min(S)
           h == operation[o].handle
<1>0. PICK q \in {NULL} \cup HksQueryKeyNode(h) : ptr' = [ptr EXCEPT ![t] = q]
    BY DEF StartEvict
<1>2. q \in {NULL} \cup NodeIds
    BY NodesFinite DEF HksQueryKeyNode
<1>3. /\ victim' = [victim EXCEPT ![t] = o]
      /\ ptr' = [ptr EXCEPT ![t] = q]
      /\ req' = [req EXCEPT ![t].cont = l]
      /\ Goto(t, "evict")
    BY <1>0 DEF StartEvict
<1> HIDE DEF o
<1>4. /\ victim' \in [Threads -> {NULL} \cup OpIds] /\ victim'[t] = o
      /\ ptr' \in [Threads -> {NULL} \cup NodeIds]
      /\ held' \in [Threads -> {NULL} \cup OpIds]
    BY <1>1, <1>2, <1>3 DEF ThreadTypeOK, o
<1>5. l \in Labels /\ "evict" \in Labels
    BY DEF LockedLabels, Labels
<1>6. /\ req' \in [Threads -> Request] /\ req'[t].cont = l
      /\ req'[t].caller = req[t].caller
    BY <1>3, <1>5 DEF ThreadTypeOK, Request
<1>7. pc' \in [Threads -> Labels] /\ pc'[t] = "evict" /\ \A u \in Threads \ {t} : pc'[u] = pc[u]
    BY <1>3, <1>5, GotoFacts
<1>8. OthersSame(t)
    BY <1>3, <1>7 DEF OthersSame, ThreadTypeOK
<1> QED BY <1>1, <1>4, <1>6, <1>7, <1>8 DEF LocalsTypeOK, o

\* A dangling pointer reaches the number of a node, or NULL.
LEMMA DerefType ==
    ASSUME NodeInv, NEW n \in {NULL} \cup NodeIds, NEW m \in Deref(n)
    PROVE  m \in {NULL} \cup NodeIds
BY NodesFinite DEF Deref

\* A batch deadline is a time.
LEMMA DeadlineType ==
    ASSUME ThreadTypeOK, NEW b \in BOOLEAN
    PROVE  Deadline(b) \in Nat
BY TimeBounds DEF ThreadTypeOK, Deadline

-----------------------------------------------------------------------------
(* Every step preserves the invariant: one step per action.                *)

Inv == NodeInv /\ SessionInv /\ ThreadTypeOK /\ ThreadInv

\* The steps of HksCoreInit, which do not touch the operation list.
LEMMA InitStepsInv ==
    ASSUME Inv, NEW t \in Threads,
           \/ CallInit(t) \/ InitFails(t) \/ HksCreateKeyNode(t) \/ PublishKeyNode(t)
           \/ HksCoreInit(t) \/ HksCoreInitFail(t) \/ CreateOperation(t)
    PROVE  Inv'
<1> USE DEF Inv
<1>0. req[t] \in Request /\ req[t].caller.token \in Tokens /\ req[t].batch \in BOOLEAN
    BY TimeBounds DEF ThreadTypeOK, Request
<1>1. CASE CallInit(t)
    <2>1. PICK c \in Callers, b \in BatchModes :
              Call(t, "createKeyNode", [NoRequest EXCEPT !.caller = c, !.batch = b])
        BY <1>1 DEF CallInit
    <2>2. [NoRequest EXCEPT !.caller = c, !.batch = b] \in Request
        BY NoRequestType, TimeBounds DEF Request
    <2>3. LocalsTypeOK' /\ OthersSame(t) /\ pc[t] = "idle" /\ pc'[t] = "createKeyNode"
        BY <2>1, <2>2, CallFacts DEF Labels
    <2>4. UNCHANGED <<nodeVars, sessionVars, now, usedAfterFree>>
        BY <2>1 DEF Call
    <2>5. SessionInv' /\ ThreadInv'
        BY <2>3, <2>4, QuietStep DEF LockedLabels, HoldingLabels
    <2> QED BY <2>3, <2>4, <2>5, UnchangedNodesInv DEF ThreadTypeOK, LocalsTypeOK
<1>2. CASE InitFails(t)
    <2>1. LocalsTypeOK' /\ OthersSame(t) /\ pc[t] = "createKeyNode" /\ pc'[t] = "idle"
        BY <1>2, ReturnFacts DEF InitFails
    <2>2. UNCHANGED <<nodeVars, sessionVars, now, usedAfterFree>>
        BY <1>2 DEF InitFails
    <2>3. SessionInv' /\ ThreadInv'
        BY <2>1, <2>2, QuietStep DEF LockedLabels, HoldingLabels
    <2> QED BY <2>1, <2>2, <2>3, UnchangedNodesInv DEF ThreadTypeOK, LocalsTypeOK
<1>3. CASE HksCreateKeyNode(t)
    <2>1. NodeInv'
        BY <1>0, <1>3, AddKeyNodeInv DEF HksCreateKeyNode
    <2>2. /\ pc[t] = "createKeyNode" /\ pc'[t] = "publish" /\ pc' \in [Threads -> Labels]
          /\ \A u \in Threads \ {t} : pc'[u] = pc[u]
        BY <1>3, GotoFacts DEF HksCreateKeyNode, Labels
    <2>3. nodesMade + 1 \in NodeIds
        BY <1>3, NodeLimits DEF HksCreateKeyNode, AddKeyNode, NodeInv, NodeTypeOK, NodeIds
    <2>4. ThreadTypeOK' /\ OthersSame(t)
        BY <1>3, <2>2, <2>3 DEF HksCreateKeyNode, ThreadTypeOK, OthersSame
    <2>5. SessionInv' /\ ThreadInv'
        BY <1>3, <2>2, <2>4, QuietStep DEF HksCreateKeyNode, LockedLabels, HoldingLabels
    <2> QED BY <2>1, <2>4, <2>5
<1>4. CASE PublishKeyNode(t)
    <2>1. PICK m \in Deref(ptr[t]) : PublishRuntimeParamSet(m, req[t].caller.token)
        BY <1>4 DEF PublishKeyNode
    <2>2. NodeInv'
        <3>1. CASE m \in g_keyNodeList
            <4>1. [keyNode[m] EXCEPT !.token = req[t].caller.token] \in HuksKeyNode
                BY <1>0, <3>1, NodesFinite DEF NodeInv, NodeTypeOK, HuksKeyNode
            <4> QED BY <2>1, <4>1, WriteKeyNodeInv DEF PublishRuntimeParamSet
        <3>2. CASE m \notin g_keyNodeList
            BY <2>1, <3>2 DEF PublishRuntimeParamSet, WriteKeyNode, NodeInv, NodeTypeOK, NodeCountExact
        <3> QED BY <3>1, <3>2
    <2>3. /\ pc[t] = "publish" /\ pc'[t] = "coreInit" /\ pc' \in [Threads -> Labels]
          /\ \A u \in Threads \ {t} : pc'[u] = pc[u]
        BY <1>4, GotoFacts DEF PublishKeyNode, Labels
    <2>4. ThreadTypeOK' /\ OthersSame(t)
        BY <1>4, <2>3 DEF PublishKeyNode, Follow, ThreadTypeOK, OthersSame
    <2>5. SessionInv' /\ ThreadInv'
        BY <1>4, <2>3, <2>4, QuietStep DEF PublishKeyNode, LockedLabels, HoldingLabels
    <2> QED BY <2>2, <2>4, <2>5
<1>5. CASE HksCoreInit(t)
    <2>1. PICK m \in Deref(ptr[t]) :
            /\ HksAddBatchTimeToKeyNode(m, req[t].batch, Deadline(req[t].batch))
            /\ \/ /\ req' = [req EXCEPT ![t].handle = m]
                  /\ ptr' = [ptr EXCEPT ![t] = NULL]
                  /\ Goto(t, "createOperation")
               \/ /\ ptr' = [ptr EXCEPT ![t] = m]
                  /\ Goto(t, "coreInitFail")
                  /\ UNCHANGED req
        BY <1>5 DEF HksCoreInit
    <2>2. NodeInv'
        <3>1. CASE m \in g_keyNodeList
            <4>1. [keyNode[m] EXCEPT !.isBatchOperation = req[t].batch,
                     !.batchOperationTimestamp = Deadline(req[t].batch)] \in HuksKeyNode
                BY <1>0, <3>1, NodesFinite, DeadlineType DEF NodeInv, NodeTypeOK, HuksKeyNode
            <4> QED BY <2>1, <4>1, WriteKeyNodeInv DEF HksAddBatchTimeToKeyNode
        <3>2. CASE m \notin g_keyNodeList
            BY <2>1, <3>2 DEF HksAddBatchTimeToKeyNode, WriteKeyNode, NodeInv, NodeTypeOK, NodeCountExact
        <3> QED BY <3>1, <3>2
    <2>3. m \in {NULL} \cup NodeIds
        BY DerefType DEF ThreadTypeOK
    <2>4. /\ pc[t] = "coreInit" /\ pc'[t] \in {"createOperation", "coreInitFail"}
          /\ pc' \in [Threads -> Labels]
          /\ \A u \in Threads \ {t} : pc'[u] = pc[u]
        BY <1>5, <2>1, GotoFacts DEF HksCoreInit, Labels
    <2>5. req' \in [Threads -> Request] /\ \A u \in Threads \ {t} : req'[u] = req[u]
        BY <2>1, <2>3 DEF ThreadTypeOK, Request
    <2>6. ptr' \in [Threads -> {NULL} \cup NodeIds]
        BY <2>1, <2>3 DEF ThreadTypeOK
    <2>7. ThreadTypeOK' /\ OthersSame(t)
        BY <1>5, <2>4, <2>5, <2>6 DEF HksCoreInit, Follow, ThreadTypeOK, OthersSame
    <2>8. SessionInv' /\ ThreadInv'
        BY <1>5, <2>4, <2>7, QuietStep DEF HksCoreInit, LockedLabels, HoldingLabels
    <2> QED BY <2>2, <2>7, <2>8
<1>6. CASE HksCoreInitFail(t)
    <2>1. LocalsTypeOK' /\ OthersSame(t) /\ pc[t] = "coreInitFail" /\ pc'[t] = "idle"
        BY <1>6, ReturnFacts DEF HksCoreInitFail
    <2>2. UNCHANGED <<sessionVars, now, usedAfterFree>> /\ NodeInv'
        BY <1>6, DeleteKeyNodeInv DEF HksCoreInitFail
    <2>3. SessionInv' /\ ThreadInv'
        BY <2>1, <2>2, QuietStep DEF LockedLabels, HoldingLabels
    <2> QED BY <2>1, <2>2, <2>3 DEF ThreadTypeOK, LocalsTypeOK
<1>7. CASE CreateOperation(t)
    <2>1. pc[t] = "createOperation" /\ UNCHANGED <<nodeVars, sessionVars, now, usedAfterFree>>
        BY <1>7 DEF CreateOperation
    <2>2. LocalsTypeOK' /\ OthersSame(t) /\ pc'[t] \in {"timeOut", "idle"}
        <3>1. CASE Return(t)
            BY <3>1, ReturnFacts
        <3>2. CASE /\ req' = [req EXCEPT ![t].deadline = Deadline(req[t].batch)]
                   /\ Goto(t, "timeOut")
                   /\ UNCHANGED <<held, victim, ptr>>
            <4>1. /\ pc'[t] = "timeOut" /\ pc' \in [Threads -> Labels]
                  /\ \A u \in Threads \ {t} : pc'[u] = pc[u]
                BY <3>2, GotoFacts DEF Labels
            <4>2. req' \in [Threads -> Request] /\ \A u \in Threads \ {t} : req'[u] = req[u]
                BY <1>0, <3>2, DeadlineType DEF ThreadTypeOK, Request
            <4> QED BY <3>2, <4>1, <4>2 DEF ThreadTypeOK, LocalsTypeOK, OthersSame
        <3> QED BY <1>7, <3>1, <3>2 DEF CreateOperation
    <2>3. SessionInv' /\ ThreadInv'
        BY <2>1, <2>2, QuietStep DEF LockedLabels, HoldingLabels
    <2> QED BY <2>1, <2>2, <2>3, UnchangedNodesInv DEF ThreadTypeOK, LocalsTypeOK
<1> QED BY <1>1, <1>2, <1>3, <1>4, <1>5, <1>6, <1>7

\* One limit of AddOperation, for both of its uses.
LEMMA EnforceLimitInv ==
    ASSUME Inv, NEW t \in Threads, pc[t] \in {"tokenLimit", "countLimit"},
           NEW exceeded \in BOOLEAN, NEW abortable \in SUBSET g_operationList,
           \A o \in abortable : Idle(o),
           NEW l \in {"countLimit", "append"}, EnforceLimit(t, exceeded, abortable, l),
           l = "append" <=> pc[t] = "countLimit",
           pc[t] = "tokenLimit" =>
               /\ exceeded = TokenExceedsLimit(req[t].caller.token)
               /\ abortable = AbortableForToken(req[t].caller.token),
           pc[t] = "countLimit" => exceeded = (g_operationCount >= MAX_OPERATIONS_COUNT)
    PROVE  Inv'
<1> USE DEF Inv
<1> DEFINE k == req[t].caller.token
<1>1. g_lock = t
    BY DEF ThreadInv, LockHeld, LockedLabels
<1>2. UNCHANGED <<nodeVars, g_operationList, g_operationCount, operation, operationsMade,
                  now, usedAfterFree>>
    BY DEF EnforceLimit
<1>3. /\ Cardinality(OpsOfToken(k)) \in Nat /\ Cardinality(OpsOfToken(k)) <= g_operationCount
      /\ g_operationCount \in Nat
      /\ g_operationCount <= MAX_OPERATIONS_COUNT
      /\ pc[t] = "countLimit" => Cardinality(OpsOfToken(k)) < MAX_OPERATIONS_EACH_TOKEN_ID
    BY OpsOfTokenFinite DEF SessionInv, SessionTypeOK, SessionLimits, ThreadInv, RoomMade
<1>4. OpsOfToken(k)' = {o \in g_operationList : operation[o].owner.token = k'}
    BY <1>2 DEF OpsOfToken
<1>5. CASE ~exceeded /\ Goto(t, l) /\ UNCHANGED <<g_lock, req, held, victim, ptr>>
    <2>1. /\ pc'[t] = l /\ pc' \in [Threads -> Labels]
          /\ \A u \in Threads \ {t} : pc'[u] = pc[u]
        BY <1>5, GotoFacts DEF Labels
    <2>2. LocalsTypeOK' /\ OthersSame(t)
        BY <1>5, <2>1 DEF ThreadTypeOK, LocalsTypeOK, OthersSame
    <2>3. Cardinality(OpsOfToken(k)) < MAX_OPERATIONS_EACH_TOKEN_ID
        <3>1. CASE pc[t] = "countLimit"
            BY <1>3, <3>1
        <3>2. CASE pc[t] = "tokenLimit"
            <4>1. ~TokenExceedsLimit(k)
                BY <1>5, <3>2
            <4> HIDE DEF k
            <4> QED BY <1>3, <4>1, OperationLimits DEF TokenExceedsLimit
        <3> QED BY <3>1, <3>2
    <2>4. l = "append" => g_operationCount < MAX_OPERATIONS_COUNT
        BY <1>3, <1>5, OperationLimits
    <2>5. RoomMadeFor(t)'
        BY <1>2, <1>5, <2>1, <2>3, <2>4 DEF RoomMadeFor, OpsOfToken
    <2>6. SessionInv' /\ ThreadInv'
        BY <1>1, <1>2, <1>5, <2>1, <2>2, <2>5, LockStep DEF LockedLabels, HoldingLabels, VictimGood
    <2> QED BY <1>2, <2>2, <2>6, UnchangedNodesInv DEF ThreadTypeOK, LocalsTypeOK
<1>6. CASE exceeded /\ abortable # {} /\ StartEvict(t, abortable, l) /\ UNCHANGED <<g_lock, held>>
    <2>1. /\ LocalsTypeOK' /\ OthersSame(t) /\ pc'[t] = "evict"
          /\ victim'[t] = Min(abortable) /\ Min(abortable) \in abortable
          /\ req'[t].cont = l /\ req'[t].caller = req[t].caller
        BY <1>6, StartEvictFacts DEF LockedLabels
    <2>2. VictimGood(t)'
        BY <1>2, <2>1 DEF VictimGood, Idle, LockedLabels
    <2>3. RoomMadeFor(t)'
        <3>1. l = "append" => Cardinality(OpsOfToken(k)) < MAX_OPERATIONS_EACH_TOKEN_ID
            BY <1>3
        <3>2. l = "countLimit" => Min(abortable) \in OpsOfToken(k)
            BY <2>1 DEF AbortableForToken
        <3> QED BY <1>2, <2>1, <3>1, <3>2 DEF RoomMadeFor, OpsOfToken
    <2>4. SessionInv' /\ ThreadInv'
        BY <1>1, <1>2, <1>6, <2>1, <2>2, <2>3, LockStep DEF LockedLabels, HoldingLabels
    <2> QED BY <1>2, <2>1, <2>4, UnchangedNodesInv DEF ThreadTypeOK, LocalsTypeOK
<1>7. CASE Unlock /\ Return(t)
    <2>1. LocalsTypeOK' /\ OthersSame(t) /\ pc'[t] = "idle"
        BY <1>7, ReturnFacts
    <2>2. VictimGood(t)' /\ RoomMadeFor(t)'
        BY <2>1 DEF VictimGood, RoomMadeFor
    <2>3. SessionInv' /\ ThreadInv'
        BY <1>1, <1>2, <1>7, <2>1, <2>2, LockStep DEF LockedLabels, HoldingLabels, Unlock
    <2> QED BY <1>2, <2>1, <2>3, UnchangedNodesInv DEF ThreadTypeOK, LocalsTypeOK
<1> QED BY <1>5, <1>6, <1>7 DEF EnforceLimit

\* The steps of AddOperation and of an eviction, under g_lock.
LEMMA AddStepsInv ==
    ASSUME Inv, NEW t \in Threads,
           \/ DeleteFirstTimeOutBatchOperation(t) \/ DeleteForTokenIdIfExceedLimit(t)
           \/ DeleteFirstAbortableOperation(t) \/ AddOperation(t)
           \/ DeleteKeyNodeAndDecreaseGlobalCount(t)
    PROVE  Inv'
<1> USE DEF Inv
<1>1. CASE DeleteFirstTimeOutBatchOperation(t)
    <2> DEFINE S == TimedOutOperations(now)
    <2>1. /\ UNCHANGED <<nodeVars, g_operationList, g_operationCount, operation,
                         operationsMade, now, held, usedAfterFree>>
          /\ g_lock = None /\ g_lock' = t
        BY <1>1 DEF DeleteFirstTimeOutBatchOperation, Lock
    <2>2. S \in SUBSET g_operationList /\ \A o \in S : Idle(o)
        BY DEF TimedOutOperations
    <2>3. /\ LocalsTypeOK' /\ OthersSame(t) /\ pc'[t] \in {"evict", "tokenLimit"}
          /\ VictimGood(t)' /\ RoomMadeFor(t)'
        <3>1. CASE S # {} /\ StartEvict(t, S, "tokenLimit")
            <4> HIDE DEF S
            <4>1. /\ LocalsTypeOK' /\ OthersSame(t) /\ pc'[t] = "evict"
                  /\ victim'[t] = Min(S) /\ Min(S) \in S
                  /\ req'[t].cont = "tokenLimit"
                BY <2>1, <2>2, <3>1, StartEvictFacts DEF LockedLabels
            <4> QED BY <2>1, <2>2, <4>1 DEF VictimGood, RoomMadeFor, Idle, LockedLabels
        <3>2. CASE Goto(t, "tokenLimit") /\ UNCHANGED <<req, victim, ptr>>
            <4>1. /\ pc'[t] = "tokenLimit" /\ pc' \in [Threads -> Labels]
                  /\ \A u \in Threads \ {t} : pc'[u] = pc[u]
                BY <3>2, GotoFacts DEF Labels
            <4> QED BY <2>1, <3>2, <4>1 DEF ThreadTypeOK, LocalsTypeOK, OthersSame, VictimGood, RoomMadeFor
        <3> QED BY <1>1, <3>1, <3>2 DEF DeleteFirstTimeOutBatchOperation
    <2>4. SessionInv' /\ ThreadInv'
        BY <2>1, <2>3, LockStep DEF LockedLabels, HoldingLabels
    <2> QED BY <2>1, <2>3, <2>4, UnchangedNodesInv DEF ThreadTypeOK, LocalsTypeOK
<1>2. CASE DeleteForTokenIdIfExceedLimit(t)
    <2>1. AbortableForToken(req[t].caller.token) \in SUBSET g_operationList
        BY DEF AbortableForToken, OpsOfToken
    <2>2. \A o \in AbortableForToken(req[t].caller.token) : Idle(o)
        BY DEF AbortableForToken
    <2>3. TokenExceedsLimit(req[t].caller.token) \in BOOLEAN
        BY DEF TokenExceedsLimit
    <2> QED BY <1>2, <2>1, <2>2, <2>3, EnforceLimitInv DEF DeleteForTokenIdIfExceedLimit
<1>3. CASE DeleteFirstAbortableOperation(t)
    <2>1. AbortableOperations \in SUBSET g_operationList /\ \A o \in AbortableOperations : Idle(o)
        BY DEF AbortableOperations
    <2>2. (g_operationCount >= MAX_OPERATIONS_COUNT) \in BOOLEAN
        OBVIOUS
    <2> QED BY <1>3, <2>1, <2>2, EnforceLimitInv DEF DeleteFirstAbortableOperation
<1>4. CASE AddOperation(t)
    <2>1. /\ LocalsTypeOK' /\ OthersSame(t) /\ pc'[t] = "idle"
          /\ UNCHANGED <<nodeVars, now, usedAfterFree>>
        BY <1>4, ReturnFacts DEF AddOperation
    <2>2. SessionInv' /\ ThreadInv'
        BY <1>4, <2>1, AppendStep DEF AddOperation, Unlock
    <2> QED BY <2>1, <2>2, UnchangedNodesInv DEF ThreadTypeOK, LocalsTypeOK
<1>5. CASE DeleteKeyNodeAndDecreaseGlobalCount(t)
    <2> DEFINE o == victim[t]
               l == req[t].cont
    <2>1. /\ pc[t] = "evict" /\ FreeOperation(o) /\ Goto(t, l)
          /\ ptr' = [ptr EXCEPT ![t] = NULL]
          /\ UNCHANGED <<g_lock, now, req, held, victim>>
        BY <1>5 DEF DeleteKeyNodeAndDecreaseGlobalCount
    <2>2. NodeInv' /\ usedAfterFree' \in BOOLEAN
        <3>1. CASE ptr[t] = NULL
            BY <1>5, <3>1, UnchangedNodesInv DEF DeleteKeyNodeAndDecreaseGlobalCount, ThreadTypeOK
        <3>2. CASE ptr[t] # NULL
            BY <1>5, <3>2, DeleteKeyNodeInv DEF DeleteKeyNodeAndDecreaseGlobalCount, Follow
        <3> QED BY <3>1, <3>2
    <2>3. /\ o \in g_operationList /\ Idle(o) /\ l \in LockedLabels \ {"evict"}
          /\ g_lock = t
        BY <2>1 DEF ThreadInv, OperationPointersGood, LockHeld, LockedLabels
    <2>4. /\ pc'[t] = l /\ pc' \in [Threads -> Labels]
          /\ \A u \in Threads \ {t} : pc'[u] = pc[u]
        BY <2>1, <2>3, GotoFacts DEF LockedLabels, Labels
    <2>5. ThreadTypeOK' /\ OthersSame(t)
        BY <2>1, <2>2, <2>4 DEF ThreadTypeOK, OthersSame
    <2>6. RoomMadeFor(t)'
        <3> DEFINE k == req[t].caller.token
        <3>1. /\ g_operationCount' = g_operationCount - 1
              /\ Cardinality(OpsOfToken(k)') <= Cardinality(OpsOfToken(k))
              /\ o \in OpsOfToken(k) =>
                   Cardinality(OpsOfToken(k)') = Cardinality(OpsOfToken(k)) - 1
            BY <2>1, <2>3, FreeOperationInv DEF SessionInv, SessionTypeOK
        <3>2. k' = k /\ Cardinality(OpsOfToken(k)) \in Nat
            BY <2>1, OpsOfTokenFinite
        <3>4. Cardinality(OpsOfToken(k)') \in Nat
            BY <2>1, <2>3, FreeOperationInv DEF SessionInv, SessionTypeOK
        <3>5. Cardinality(OpsOfToken(k)) <= MAX_OPERATIONS_EACH_TOKEN_ID
              /\ g_operationCount <= MAX_OPERATIONS_COUNT /\ g_operationCount \in Nat
            BY DEF SessionInv, SessionTypeOK, SessionLimits, ThreadTypeOK, Request
        <3>6. /\ l = "append" => Cardinality(OpsOfToken(k)) < MAX_OPERATIONS_EACH_TOKEN_ID
              /\ l = "countLimit" => o \in OpsOfToken(k)
            BY <2>1 DEF ThreadInv, RoomMade
        <3>7. l \in {"countLimit", "append"} =>
                 Cardinality(OpsOfToken(k)') < MAX_OPERATIONS_EACH_TOKEN_ID
            BY <3>1, <3>2, <3>4, <3>5, <3>6, OperationLimits
        <3>8. g_operationCount' < MAX_OPERATIONS_COUNT
            BY <3>1, <3>5, OperationLimits
        <3> QED BY <2>1, <2>3, <2>4, <3>2, <3>7, <3>8 DEF RoomMadeFor
    <2>7. SessionInv' /\ ThreadInv'
        BY <2>1, <2>3, <2>4, <2>5, <2>6, FreeStep DEF LockedLabels, HoldingLabels
    <2> QED BY <2>2, <2>5, <2>7
<1> QED BY <1>1, <1>2, <1>3, <1>4, <1>5

\* The steps of a session request from its query to its engine call: they
\* take one idle operation and touch nothing else of the list.
LEMMA SessionStepsInv ==
    ASSUME Inv, NEW t \in Threads,
           \/ CallSession(t) \/ QueryOperationAndMarkInUse(t)
           \/ ChecksPass(t) \/ ChecksFail(t) \/ FinishWithOtherToken(t)
           \/ GetParamsForUpdateAndFinish(t) \/ HksCoreUpdateSucceeds(t)
           \/ HksCoreUpdateFails(t) \/ HksCoreFinishOrAbort(t) \/ CoreDelete(t)
    PROVE  Inv'
<1> USE DEF Inv
<1>0. req[t] \in Request /\ req[t].handle \in {NULL} \cup NodeIds
    BY DEF ThreadTypeOK, Request
<1>1. CASE CallSession(t)
    <2>1. PICK call \in ClientCalls \cap {"update", "finish", "abort"},
               c \in Callers, h \in 1 .. nodesMade :
              Call(t, "query", [NoRequest EXCEPT !.call = call, !.caller = c, !.handle = h])
        BY <1>1 DEF CallSession
    <2>2. h \in NodeIds /\ call \in Calls
        BY NodeLimits DEF NodeInv, NodeTypeOK, NodeIds, Calls
    <2>3. [NoRequest EXCEPT !.call = call, !.caller = c, !.handle = h] \in Request
        BY <2>2, NoRequestType DEF Request
    <2>4. LocalsTypeOK' /\ OthersSame(t) /\ pc[t] = "idle" /\ pc'[t] = "query"
        BY <2>1, <2>3, CallFacts DEF Labels
    <2>5. UNCHANGED <<nodeVars, sessionVars, now, usedAfterFree>>
        BY <2>1 DEF Call
    <2>6. SessionInv' /\ ThreadInv'
        BY <2>4, <2>5, QuietStep DEF LockedLabels, HoldingLabels
    <2> QED BY <2>4, <2>5, <2>6, UnchangedNodesInv DEF ThreadTypeOK, LocalsTypeOK
<1>2. CASE QueryOperationAndMarkInUse(t)
    <2> DEFINE found == Matching(req[t].caller, req[t].handle)
    <2>1. /\ pc[t] = "query" /\ g_lock = None
          /\ UNCHANGED <<nodeVars, g_lock, now, usedAfterFree>>
        BY <1>2 DEF QueryOperationAndMarkInUse
    <2>2. found \in SUBSET g_operationList
        BY DEF Matching, OpsWithHandle
    <2>3. CASE /\ found # {} /\ Idle(Min(found)) /\ SetInUse(Min(found), TRUE)
               /\ held' = [held EXCEPT ![t] = Min(found)]
               /\ Goto(t, "checks") /\ UNCHANGED <<req, victim, ptr>>
        <3> HIDE DEF found
        <3>1. Min(found) \in g_operationList /\ Min(found) \in OpIds
            BY <2>2, <2>3, OperationsFinite, MinInSet
        <3>2. /\ pc'[t] = "checks" /\ pc' \in [Threads -> Labels]
              /\ \A u \in Threads \ {t} : pc'[u] = pc[u]
            BY <2>3, GotoFacts DEF Labels
        <3>3. /\ ThreadTypeOK' /\ OthersSame(t) /\ held'[t] = Min(found)
            BY <2>1, <2>3, <3>1, <3>2 DEF ThreadTypeOK, OthersSame
        <3>4. SessionInv' /\ ThreadInv'
            BY <2>1, <2>3, <3>1, <3>2, <3>3, AcquireStep DEF HoldingLabels
        <3> QED BY <2>1, <3>3, <3>4, UnchangedNodesInv
    <2>4. CASE /\ Return(t)
               /\ UNCHANGED <<g_operationList, g_operationCount, operation, operationsMade>>
        <3>1. LocalsTypeOK' /\ OthersSame(t) /\ pc'[t] = "idle"
            BY <2>4, ReturnFacts
        <3>2. SessionInv' /\ ThreadInv'
            BY <2>1, <2>4, <3>1, QuietStep DEF LockedLabels, HoldingLabels, sessionVars
        <3> QED BY <2>1, <3>1, <3>2, UnchangedNodesInv DEF ThreadTypeOK, LocalsTypeOK
    <2> QED BY <1>2, <2>3, <2>4 DEF QueryOperationAndMarkInUse
<1>3. CASE ChecksPass(t) \/ ChecksFail(t)
    <2>1. /\ pc[t] = "checks"
          /\ \E l \in {"coreQuery", "unuse", "unuseThenDelete"} : Goto(t, l)
          /\ UNCHANGED <<nodeVars, sessionVars, now, req, held, victim, ptr, usedAfterFree>>
        BY <1>3 DEF ChecksPass, ChecksFail
    <2>2. /\ pc'[t] \in HoldingLabels \ LockedLabels /\ pc' \in [Threads -> Labels]
          /\ \A u \in Threads \ {t} : pc'[u] = pc[u]
        BY <2>1, GotoFacts DEF Labels, HoldingLabels, LockedLabels
    <2>3. ThreadTypeOK' /\ OthersSame(t)
        BY <2>1, <2>2 DEF ThreadTypeOK, OthersSame
    <2>4. SessionInv' /\ ThreadInv'
        BY <2>1, <2>2, <2>3, QuietStep DEF LockedLabels, HoldingLabels
    <2> QED BY <2>1, <2>3, <2>4, UnchangedNodesInv
<1>4. CASE FinishWithOtherToken(t)
    <2>1. LocalsTypeOK' /\ OthersSame(t) /\ pc[t] = "checks" /\ pc'[t] = "idle"
        BY <1>4, ReturnFacts DEF FinishWithOtherToken
    <2>2. UNCHANGED <<nodeVars, sessionVars, now, usedAfterFree>>
        BY <1>4 DEF FinishWithOtherToken
    <2>3. SessionInv' /\ ThreadInv'
        BY <2>1, <2>2, QuietStep DEF LockedLabels, HoldingLabels
    <2> QED BY <2>1, <2>2, <2>3, UnchangedNodesInv DEF ThreadTypeOK, LocalsTypeOK
<1>5. CASE \/ GetParamsForUpdateAndFinish(t) \/ HksCoreUpdateSucceeds(t)
           \/ HksCoreUpdateFails(t) \/ HksCoreFinishOrAbort(t) \/ CoreDelete(t)
    <2>1. /\ pc[t] \in {"coreQuery", "coreRun", "coreDelete"}
          /\ \E l \in {"coreRun", "coreDelete", "unuse", "unuseThenDelete"} : Goto(t, l)
          /\ UNCHANGED <<sessionVars, now, req, held, victim>>
        BY <1>5 DEF GetParamsForUpdateAndFinish, HksCoreUpdateSucceeds, HksCoreUpdateFails,
                    HksCoreFinishOrAbort, CoreDelete
    <2>2. NodeInv'
        <3>1. CASE CoreDelete(t)
            BY <3>1, DeleteKeyNodeInv DEF CoreDelete
        <3>2. CASE ~CoreDelete(t)
            BY <1>5, <3>2, UnchangedNodesInv
               DEF GetParamsForUpdateAndFinish, HksCoreUpdateSucceeds, HksCoreUpdateFails,
                   HksCoreFinishOrAbort
        <3> QED BY <3>1, <3>2
    <2>3. usedAfterFree' \in BOOLEAN
        BY <1>5 DEF GetParamsForUpdateAndFinish, HksCoreUpdateSucceeds, HksCoreUpdateFails,
                    HksCoreFinishOrAbort, CoreDelete, Follow, ThreadTypeOK
    <2>4. ptr' \in [Threads -> {NULL} \cup NodeIds]
        <3>1. ptr[t] \in {NULL} \cup NodeIds
            BY DEF ThreadTypeOK
        <3>2. CASE HksCoreUpdateFails(t)
            <4>1. PICK h \in {req[t].handle} \cup Deref(ptr[t]) : ptr' = [ptr EXCEPT ![t] = h]
                BY <3>2 DEF HksCoreUpdateFails
            <4>2. h \in {NULL} \cup NodeIds
                BY <1>0, <3>1, <4>1, DerefType
            <4> QED BY <4>1, <4>2 DEF ThreadTypeOK
        <3>3. CASE ~HksCoreUpdateFails(t)
            BY <1>0, <1>5, <3>3 DEF GetParamsForUpdateAndFinish, HksCoreUpdateSucceeds,
                   HksCoreFinishOrAbort, CoreDelete, ThreadTypeOK
        <3> QED BY <3>2, <3>3
    <2>5. /\ pc'[t] \in HoldingLabels \ LockedLabels /\ pc' \in [Threads -> Labels]
          /\ \A u \in Threads \ {t} : pc'[u] = pc[u]
        BY <2>1, GotoFacts DEF Labels, HoldingLabels, LockedLabels
    <2>6. ThreadTypeOK' /\ OthersSame(t)
        BY <2>1, <2>3, <2>4, <2>5 DEF ThreadTypeOK, OthersSame
    <2>7. SessionInv' /\ ThreadInv'
        BY <2>1, <2>5, <2>6, QuietStep DEF LockedLabels, HoldingLabels
    <2> QED BY <2>2, <2>6, <2>7
<1> QED BY <1>1, <1>2, <1>3, <1>4, <1>5

\* The steps that give an operation back, and those that take it out of the
\* list when its session has ended.
LEMMA ReleaseStepsInv ==
    ASSUME Inv, NEW t \in Threads, MarkOperationUnUse(t) \/ DeleteOperation(t)
    PROVE  Inv'
<1> USE DEF Inv
<1>1. CASE MarkOperationUnUse(t)
    <2>1. /\ pc[t] \in {"unuse", "unuseThenDelete"} /\ SetInUse(held[t], FALSE)
          /\ UNCHANGED <<nodeVars, g_lock, now, usedAfterFree>>
        BY <1>1 DEF MarkOperationUnUse
    <2>2. LocalsTypeOK' /\ OthersSame(t) /\ pc'[t] \in {"idle", "deleteOperation"}
        <3>1. CASE Return(t)
            BY <3>1, ReturnFacts
        <3>2. CASE /\ held' = [held EXCEPT ![t] = NULL]
                   /\ Goto(t, "deleteOperation")
                   /\ UNCHANGED <<req, victim, ptr>>
            <4>1. /\ pc'[t] = "deleteOperation" /\ pc' \in [Threads -> Labels]
                  /\ \A u \in Threads \ {t} : pc'[u] = pc[u]
                BY <3>2, GotoFacts DEF Labels
            <4> QED BY <3>2, <4>1 DEF ThreadTypeOK, LocalsTypeOK, OthersSame
        <3> QED BY <1>1, <3>1, <3>2 DEF MarkOperationUnUse
    <2>3. SessionInv' /\ ThreadInv'
        BY <2>1, <2>2, ReleaseStep DEF LockedLabels, HoldingLabels
    <2> QED BY <2>1, <2>2, <2>3, UnchangedNodesInv DEF ThreadTypeOK, LocalsTypeOK
<1>2. CASE DeleteOperation(t)
    <2> DEFINE found == OpsWithHandle(req[t].handle)
    <2>1. /\ pc[t] = "deleteOperation" /\ g_lock = None
          /\ UNCHANGED <<nodeVars, g_lock, now, usedAfterFree>>
          /\ LocalsTypeOK' /\ OthersSame(t) /\ pc'[t] = "idle"
        BY <1>2, ReturnFacts DEF DeleteOperation
    <2>2. SessionInv' /\ ThreadInv'
        <3>1. CASE found # {} /\ Idle(Min(found))
            <4>1. found \in SUBSET g_operationList
                BY DEF OpsWithHandle
            <4>2. FreeOperation(Min(found))
                BY <1>2, <3>1 DEF DeleteOperation
            <4> HIDE DEF found
            <4>3. Min(found) \in g_operationList
                BY <3>1, <4>1, OperationsFinite, MinInSet
            <4>4. RoomMadeFor(t)'
                BY <2>1 DEF RoomMadeFor
            <4>5. g_lock = t <=> pc'[t] \in LockedLabels
                BY <2>1, OperationLimits DEF LockedLabels
            <4> QED BY <2>1, <3>1, <4>2, <4>3, <4>4, <4>5, FreeStep DEF HoldingLabels
        <3>2. CASE ~(found # {} /\ Idle(Min(found)))
            <4>1. UNCHANGED sessionVars
                BY <1>2, <2>1, <3>2 DEF DeleteOperation, sessionVars
            <4> QED BY <2>1, <4>1, QuietStep DEF LockedLabels, HoldingLabels
        <3> QED BY <3>1, <3>2
    <2> QED BY <2>1, <2>2, UnchangedNodesInv DEF ThreadTypeOK, LocalsTypeOK
<1> QED BY <1>1, <1>2

\* The steps of DeleteSessionByProcessInfo.
LEMMA SweepStepsInv ==
    ASSUME Inv, NEW t \in Threads,
           CallRemove(t) \/ DeleteSessionByProcessInfo(t) \/ DeleteSession(t)
    PROVE  Inv'
<1> USE DEF Inv
<1>1. CASE CallRemove(t)
    <2>1. PICK call \in ClientCalls \cap {"removeProcess", "removeUser"}, c \in Callers :
              Call(t, "lockSweep", [NoRequest EXCEPT !.call = call, !.caller = c])
        BY <1>1 DEF CallRemove
    <2>2. [NoRequest EXCEPT !.call = call, !.caller = c] \in Request
        BY NoRequestType DEF Request, Calls
    <2>3. LocalsTypeOK' /\ OthersSame(t) /\ pc[t] = "idle" /\ pc'[t] = "lockSweep"
        BY <2>1, <2>2, CallFacts DEF Labels
    <2>4. UNCHANGED <<nodeVars, sessionVars, now, usedAfterFree>>
        BY <2>1 DEF Call
    <2>5. SessionInv' /\ ThreadInv'
        BY <2>3, <2>4, QuietStep DEF LockedLabels, HoldingLabels
    <2> QED BY <2>3, <2>4, <2>5, UnchangedNodesInv DEF ThreadTypeOK, LocalsTypeOK
<1>2. CASE DeleteSessionByProcessInfo(t)
    <2>1. /\ g_lock = None /\ g_lock' = t
          /\ UNCHANGED <<nodeVars, g_operationList, g_operationCount, operation,
                         operationsMade, now, req, held, victim, ptr, usedAfterFree>>
        BY <1>2 DEF DeleteSessionByProcessInfo, Lock
    <2>2. /\ pc'[t] = "sweep" /\ pc' \in [Threads -> Labels]
          /\ \A u \in Threads \ {t} : pc'[u] = pc[u]
        BY <1>2, GotoFacts DEF DeleteSessionByProcessInfo, Labels
    <2>3. ThreadTypeOK' /\ OthersSame(t)
        BY <2>1, <2>2 DEF ThreadTypeOK, OthersSame
    <2>4. VictimGood(t)' /\ RoomMadeFor(t)'
        BY <2>2 DEF VictimGood, RoomMadeFor
    <2>5. SessionInv' /\ ThreadInv'
        BY <2>1, <2>2, <2>3, <2>4, LockStep DEF LockedLabels, HoldingLabels
    <2> QED BY <2>1, <2>3, <2>5, UnchangedNodesInv
<1>3. CASE DeleteSession(t)
    <2> DEFINE rest == {o \in g_operationList : o > victim[t]}
    <2>1. /\ pc[t] = "sweep"
          /\ UNCHANGED <<nodeVars, g_operationList, g_operationCount, operation,
                         operationsMade, now, usedAfterFree>>
        BY <1>3 DEF DeleteSession
    <2>2. g_lock = t
        BY <2>1 DEF ThreadInv, LockHeld, LockedLabels
    <2>3. rest \in SUBSET g_operationList
        OBVIOUS
    <2>4. CASE Unlock /\ Return(t)
        <3>1. LocalsTypeOK' /\ OthersSame(t) /\ pc'[t] = "idle"
            BY <2>4, ReturnFacts
        <3>2. VictimGood(t)' /\ RoomMadeFor(t)'
            BY <3>1 DEF VictimGood, RoomMadeFor
        <3>3. SessionInv' /\ ThreadInv'
            BY <2>1, <2>2, <2>4, <3>1, <3>2, LockStep DEF LockedLabels, HoldingLabels, Unlock
        <3> QED BY <2>1, <3>1, <3>3, UnchangedNodesInv DEF ThreadTypeOK, LocalsTypeOK
    <2>5. CASE /\ rest # {} /\ Idle(Min(rest))
               /\ StartEvict(t, rest, "sweep") /\ UNCHANGED <<g_lock, held>>
        <3> HIDE DEF rest
        <3>1. /\ LocalsTypeOK' /\ OthersSame(t) /\ pc'[t] = "evict"
              /\ victim'[t] = Min(rest) /\ Min(rest) \in rest
              /\ req'[t].cont = "sweep"
            BY <2>3, <2>5, StartEvictFacts DEF LockedLabels
        <3>2. VictimGood(t)' /\ RoomMadeFor(t)'
            BY <2>1, <2>3, <2>5, <3>1 DEF VictimGood, RoomMadeFor, Idle, LockedLabels
        <3>3. SessionInv' /\ ThreadInv'
            BY <2>1, <2>2, <2>5, <3>1, <3>2, LockStep DEF LockedLabels, HoldingLabels
        <3> QED BY <2>1, <3>1, <3>3, UnchangedNodesInv DEF ThreadTypeOK, LocalsTypeOK
    <2>6. CASE /\ rest # {} /\ victim' = [victim EXCEPT ![t] = Min(rest)]
               /\ UNCHANGED <<g_lock, pc, req, held, ptr>>
        <3> HIDE DEF rest
        <3>1. Min(rest) \in OpIds
            BY <2>3, <2>6, OperationsFinite, MinInSet
        <3>2. ThreadTypeOK' /\ OthersSame(t)
            BY <2>1, <2>6, <3>1 DEF ThreadTypeOK, OthersSame
        <3>3. VictimGood(t)' /\ RoomMadeFor(t)'
            BY <2>1, <2>6 DEF VictimGood, RoomMadeFor
        <3>4. SessionInv' /\ ThreadInv'
            BY <2>1, <2>2, <2>6, <3>2, <3>3, LockStep DEF LockedLabels, HoldingLabels
        <3> QED BY <2>1, <3>2, <3>4, UnchangedNodesInv
    <2> QED BY <1>3, <2>4, <2>5, <2>6 DEF DeleteSession, SessionOf
<1> QED BY <1>1, <1>2, <1>3

\* A tick of the clock and a stuttering step leave everything else alone.
LEMMA QuietTimeInv ==
    ASSUME Inv, UNCHANGED <<nodeVars, sessionVars, threadVars, usedAfterFree>>, now' \in Nat
    PROVE  Inv'
<1> USE DEF Inv
<1>1. UNCHANGED <<pc, req, held, victim, ptr, g_lock, g_operationList, g_operationCount,
                  operation, operationsMade>>
    BY DEF threadVars, sessionVars
<1>2. SessionInv' /\ \A k : OpsOfToken(k)' = OpsOfToken(k)
    BY <1>1, SameListInv DEF SessionInv, SessionTypeOK
<1>3. LockHeld' /\ OperationPointersGood'
    BY <1>1 DEF ThreadInv, LockHeld, OperationPointersGood, Idle
<1>4. RoomMade'
    BY <1>1, <1>2 DEF ThreadInv, RoomMade
<1>5. ThreadTypeOK'
    BY <1>1 DEF ThreadTypeOK
<1> QED BY <1>2, <1>3, <1>4, <1>5, UnchangedNodesInv DEF ThreadInv

\* The lists are empty and every thread is idle when the service starts.
LEMMA InitInv ==
    ASSUME Init PROVE Inv
<1> USE DEF Init
<1>1. NodeInv
    <2>1. [n \in NodeIds |-> NewKeyNode] \in [NodeIds -> HuksKeyNode]
        BY DEF NewKeyNode, HuksKeyNode
    <2> QED BY <2>1, NodeLimits, FS_EmptySet
            DEF NodeInv, NodeTypeOK, NodeCountExact, NodeInit
<1>2. SessionInv
    <2>1. Freed \in HksOperation
        BY OperationLimits DEF Freed, HksOperation
    <2>2. SessionTypeOK
        BY <2>1, OperationLimits DEF SessionInit, SessionTypeOK
    <2>3. \A k : OpsOfToken(k) = {}
        BY DEF OpsOfToken, SessionInit
    <2>4. SessionLimits
        BY <2>3, OperationLimits, FS_EmptySet DEF SessionLimits, SessionInit
    <2> QED BY <2>2, <2>4 DEF SessionInv
<1>3. ThreadTypeOK
    BY NoRequestType DEF ThreadTypeOK, Labels
<1>4. ThreadInv
    BY OperationLimits DEF ThreadInv, LockHeld, OperationPointersGood, RoomMade, SessionInit,
        LockedLabels, HoldingLabels
<1> QED BY <1>1, <1>2, <1>3, <1>4 DEF Inv

\* Every step of the specification preserves the invariant.
LEMMA NextInv ==
    ASSUME Inv, [Next]_vars PROVE Inv'
<1>1. CASE Tick
    BY <1>1, QuietTimeInv DEF Tick, Inv, ThreadTypeOK
<1>2. CASE UNCHANGED vars
    BY <1>2, QuietTimeInv DEF vars, Inv, ThreadTypeOK
<1>3. ASSUME NEW t \in Threads, Arrive(t) \/ Work(t) PROVE Inv'
    BY <1>3, InitStepsInv, AddStepsInv, SessionStepsInv, ReleaseStepsInv, SweepStepsInv
       DEF Arrive, Work
<1> QED BY <1>1, <1>2, <1>3 DEF Next

\* The proof's grouping of the invariant and the specification's are the same.
LEMMA InvGroups == Inv <=> InductiveInvariant
BY DEF Inv, NodeInv, SessionInv, ThreadTypeOK, ThreadInv, InductiveInvariant, TypeOK

-----------------------------------------------------------------------------
(* Theorems. *)

(* In every behaviour of the service, for any number of threads, callers,  *)
(* operations and key nodes and any limits: both counters agree with their *)
(* lists, both lists keep their limits, g_lock is owned by whoever is      *)
(* inside AddOperation or DeleteSessionByProcessInfo, and the pointers     *)
(* into the operation list are good.                                       *)
THEOREM Safety == Spec => []InductiveInvariant
<1>1. Spec => []Inv
    BY InitInv, NextInv, PTL DEF Spec
<1> QED BY <1>1, InvGroups, PTL

(* Every variable of the service keeps its type.                           *)
THEOREM TypeCorrect == Spec => []TypeOK
BY Safety, PTL DEF InductiveInvariant

(* No request of HksServiceUpdate, HksServiceFinish or HksServiceAbort     *)
(* ever writes through a pointer to an operation that was freed, or that   *)
(* another request has got too, and no eviction frees an operation twice   *)
(* or one that is in use.                                                  *)
THEOREM PointersGood == Spec => []OperationPointersGood
BY Safety, PTL DEF InductiveInvariant

(* AddOperation's limits hold for the list and for every token, and        *)
(* g_operationCount is the length of the list.                             *)
THEOREM LimitsKept == Spec => []SessionLimits
BY Safety, PTL DEF InductiveInvariant

(* g_keyNodeCount is the length of the engine's list, which never exceeds  *)
(* MAX_KEY_NODES_COUNT.                                                    *)
THEOREM NodeCountKept == Spec => []NodeCountExact
BY Safety, PTL DEF InductiveInvariant

-----------------------------------------------------------------------------
(* Refinement.  Four kinds of steps change the operation list; each is an  *)
(* action of the abstract specification, and all other steps stutter.      *)

AbsStep == [Abstract!AbsNext]_(Abstract!absVars)

\* A step that leaves the operations alone is not visible.
LEMMA HiddenStep ==
    ASSUME UNCHANGED <<g_operationList, operation, operationsMade>>
    PROVE  AbsStep
BY DEF AbsStep, Abstract!absVars

\* An idle operation is marked in use: Acquire.
LEMMA AcquireAbs ==
    ASSUME SessionInv, NEW o \in g_operationList, Idle(o), SetInUse(o, TRUE)
    PROVE  AbsStep
<1>1. /\ \A p \in g_operationList : operation'[p].owner = operation[p].owner
      /\ \A p \in g_operationList \ {o} : operation'[p].isInUse = operation[p].isInUse
      /\ operation'[o].isInUse /\ ~operation[o].isInUse
      /\ g_operationList' = g_operationList /\ operationsMade' = operationsMade
    BY OperationsFinite DEF SetInUse, SessionInv, SessionTypeOK, HksOperation, Idle
<1>2. Abstract!Acquire(o)
    BY <1>1 DEF Abstract!Acquire
<1> QED BY <1>2 DEF AbsStep, Abstract!AbsNext

\* A request gives its operation back: Release.
LEMMA ReleaseAbs ==
    ASSUME SessionInv, NEW o \in g_operationList, operation[o].isInUse, SetInUse(o, FALSE)
    PROVE  AbsStep
<1>1. /\ \A p \in g_operationList : operation'[p].owner = operation[p].owner
      /\ \A p \in g_operationList \ {o} : operation'[p].isInUse = operation[p].isInUse
      /\ ~operation'[o].isInUse
      /\ g_operationList' = g_operationList /\ operationsMade' = operationsMade
    BY OperationsFinite DEF SetInUse, SessionInv, SessionTypeOK, HksOperation
<1>2. Abstract!Release(o)
    BY <1>1 DEF Abstract!Release
<1> QED BY <1>2 DEF AbsStep, Abstract!AbsNext

\* An idle operation is freed: Close.
LEMMA CloseAbs ==
    ASSUME SessionInv, NEW o \in g_operationList, Idle(o), FreeOperation(o)
    PROVE  AbsStep
<1>1. /\ \A p \in g_operationList \ {o} : operation'[p] = operation[p]
      /\ ~operation[o].isInUse
      /\ g_operationList' = g_operationList \ {o} /\ operationsMade' = operationsMade
    BY OperationsFinite DEF FreeOperation, SessionInv, SessionTypeOK, Idle
<1>2. Abstract!Close(o)
    BY <1>1 DEF Abstract!Close
<1> QED BY <1>2 DEF AbsStep, Abstract!AbsNext

\* AddOperation appends within both limits: Open.
LEMMA OpenAbs ==
    ASSUME Inv, NEW t \in Threads, AddOperation(t)
    PROVE  AbsStep
<1> DEFINE n == operationsMade + 1
<1>1. PICK k \in Tokens : k = req[t].caller.token
    BY TimeBounds DEF Inv, ThreadTypeOK, Request
<1>2. /\ g_operationCount < MAX_OPERATIONS_COUNT
      /\ Cardinality(OpsOfToken(k)) < MAX_OPERATIONS_EACH_TOKEN_ID
      /\ g_operationCount = Cardinality(g_operationList)
    BY <1>1 DEF AddOperation, Inv, ThreadInv, RoomMade, SessionInv, SessionLimits
<1>3. /\ operationsMade' = n /\ g_operationList' = g_operationList \cup {n}
      /\ n \in OpIds /\ n \notin g_operationList
    BY OperationLimits DEF AddOperation, AppendOperation, Inv, SessionInv, SessionTypeOK, OpIds
<1>4. /\ operation'[n].owner = req[t].caller /\ ~operation'[n].isInUse
      /\ \A p \in g_operationList : operation'[p] = operation[p]
    BY <1>3, OperationsFinite DEF AddOperation, AppendOperation, Inv, SessionInv, SessionTypeOK
<1> HIDE DEF n
<1>5. {s \in g_operationList : [o \in g_operationList |-> operation[o].owner.token][s] = k}
        = OpsOfToken(k)
    BY DEF OpsOfToken
<1>6. Abstract!Open(k)
    <2>1. [o \in g_operationList' |-> operation'[o].owner.token]
            = [s \in g_operationList' |->
                  IF s = n THEN k
                  ELSE [o \in g_operationList |-> operation[o].owner.token][s]]
        BY <1>1, <1>3, <1>4
    <2>2. {o \in g_operationList' : operation'[o].isInUse}
            = {o \in g_operationList : operation[o].isInUse}
        BY <1>3, <1>4
    <2>3. operationsMade' = operationsMade + 1 /\ n = operationsMade'
        BY <1>3 DEF n
    <2>4. \A S : Abstract!Cardinality(S) = Cardinality(S)
        BY DEF Cardinality, Abstract!Cardinality, IsFiniteSet, Abstract!IsFiniteSet
    <2> QED BY <1>2, <1>3, <1>5, <2>1, <2>2, <2>3, <2>4 DEF Abstract!Open
<1> QED BY <1>1, <1>6 DEF AbsStep, Abstract!AbsNext

\* Every step of a thread is one of these.
LEMMA ThreadAbs ==
    ASSUME Inv, NEW t \in Threads, Arrive(t) \/ Work(t)
    PROVE  AbsStep
<1>1. CASE Arrive(t)
    BY <1>1, HiddenStep DEF Arrive, CallInit, CallSession, CallRemove, Call, sessionVars
<1>2. CASE \/ InitFails(t) \/ HksCreateKeyNode(t) \/ PublishKeyNode(t) \/ HksCoreInit(t)
           \/ HksCoreInitFail(t) \/ CreateOperation(t)
    BY <1>2, HiddenStep DEF InitFails, HksCreateKeyNode, PublishKeyNode, HksCoreInit,
        HksCoreInitFail, CreateOperation, sessionVars
<1>3. CASE \/ DeleteFirstTimeOutBatchOperation(t) \/ DeleteForTokenIdIfExceedLimit(t)
           \/ DeleteFirstAbortableOperation(t) \/ DeleteSessionByProcessInfo(t)
           \/ DeleteSession(t)
    BY <1>3, HiddenStep DEF DeleteFirstTimeOutBatchOperation, DeleteForTokenIdIfExceedLimit,
        DeleteFirstAbortableOperation, EnforceLimit, DeleteSessionByProcessInfo, DeleteSession
<1>4. CASE AddOperation(t)
    BY <1>4, OpenAbs
<1>5. CASE DeleteKeyNodeAndDecreaseGlobalCount(t)
    <2>1. pc[t] = "evict" /\ FreeOperation(victim[t])
        BY <1>5 DEF DeleteKeyNodeAndDecreaseGlobalCount
    <2>2. victim[t] \in g_operationList /\ Idle(victim[t])
        BY <2>1 DEF Inv, ThreadInv, OperationPointersGood
    <2> QED BY <2>1, <2>2, CloseAbs DEF Inv
<1>6. CASE QueryOperationAndMarkInUse(t)
    <2> DEFINE found == Matching(req[t].caller, req[t].handle)
    <2>1. found \in SUBSET g_operationList
        BY DEF Matching, OpsWithHandle
    <2>2. CASE found # {} /\ Idle(Min(found)) /\ SetInUse(Min(found), TRUE)
        <3> HIDE DEF found
        <3>1. Min(found) \in g_operationList
            BY <2>1, <2>2, OperationsFinite, MinInSet DEF Inv
        <3> QED BY <2>2, <3>1, AcquireAbs DEF Inv
    <2>3. CASE UNCHANGED <<g_operationList, operation, operationsMade>>
        BY <2>3, HiddenStep
    <2> QED BY <1>6, <2>2, <2>3 DEF QueryOperationAndMarkInUse
<1>7. CASE \/ ChecksPass(t) \/ ChecksFail(t) \/ FinishWithOtherToken(t)
           \/ GetParamsForUpdateAndFinish(t) \/ HksCoreUpdateSucceeds(t)
           \/ HksCoreUpdateFails(t) \/ HksCoreFinishOrAbort(t) \/ CoreDelete(t)
    BY <1>7, HiddenStep DEF ChecksPass, ChecksFail, FinishWithOtherToken,
        GetParamsForUpdateAndFinish, HksCoreUpdateSucceeds, HksCoreUpdateFails,
        HksCoreFinishOrAbort, CoreDelete, sessionVars
<1>8. CASE MarkOperationUnUse(t)
    <2>1. pc[t] \in HoldingLabels /\ SetInUse(held[t], FALSE)
        BY <1>8 DEF MarkOperationUnUse, HoldingLabels
    <2>2. held[t] \in g_operationList /\ operation[held[t]].isInUse
        BY <2>1 DEF Inv, ThreadInv, OperationPointersGood
    <2> QED BY <2>1, <2>2, ReleaseAbs DEF Inv
<1>9. CASE DeleteOperation(t)
    <2> DEFINE found == OpsWithHandle(req[t].handle)
    <2>1. found \in SUBSET g_operationList
        BY DEF OpsWithHandle
    <2>2. CASE found # {} /\ Idle(Min(found)) /\ FreeOperation(Min(found))
        <3> HIDE DEF found
        <3>1. Min(found) \in g_operationList
            BY <2>1, <2>2, OperationsFinite, MinInSet DEF Inv
        <3> QED BY <2>2, <3>1, CloseAbs DEF Inv
    <2>3. CASE UNCHANGED <<g_operationList, operation, operationsMade>>
        BY <2>3, HiddenStep
    <2> QED BY <1>9, <2>2, <2>3 DEF DeleteOperation
<1> QED BY <1>1, <1>2, <1>3, <1>4, <1>5, <1>6, <1>7, <1>8, <1>9 DEF Work

(* The service's operation list implements the abstract sessions: whatever *)
(* the threads' interleaving, sessions are opened within the limits, used  *)
(* by one request at a time, and closed - by their own request, by         *)
(* eviction or by a sweep - only while no request uses them.               *)
THEOREM Refinement == Spec => ImplementsSessions
<1>1. Init => Abstract!AbsInit
    BY DEF Init, SessionInit, Abstract!AbsInit
<1>2. Inv /\ [Next]_vars => AbsStep
    <2>1. CASE Tick
        BY <2>1, HiddenStep DEF Tick, sessionVars
    <2>2. CASE UNCHANGED vars
        BY <2>2, HiddenStep DEF vars, sessionVars
    <2> QED BY <2>1, <2>2, ThreadAbs DEF Next
<1>3. Spec => []Inv
    BY InitInv, NextInv, PTL DEF Spec
<1> QED BY <1>1, <1>2, <1>3, PTL DEF Spec, ImplementsSessions, Abstract!AbsSpec, AbsStep
=============================================================================

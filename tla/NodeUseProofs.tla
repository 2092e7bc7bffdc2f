---------------------------- MODULE NodeUseProofs ----------------------------
(***************************************************************************)
(* Proofs about sessions in use: when Init finds an operation it may       *)
(* evict, and when the key node a request works on stays in the engine's   *)
(* list.                                                                   *)
(***************************************************************************)
EXTENDS HandleProofs

-----------------------------------------------------------------------------
(* Init is not refused.  A request holds at most one operation, so as many *)
(* operations as there are threads cannot all be in use when one of the    *)
(* threads holds none.                                                     *)

\* The limits of the service are not below the number of its threads.
RoomForThreads ==
    /\ Cardinality(Threads) <= MAX_OPERATIONS_COUNT
    /\ Cardinality(Threads) <= MAX_OPERATIONS_EACH_TOKEN_ID

\* One operation is idle among as many as there are threads.
LEMMA SomeIdle ==
    ASSUME Inv, InUseMeansHeld, NEW t \in Threads, pc[t] \notin HoldingLabels,
           NEW S \in SUBSET g_operationList, Cardinality(S) >= Cardinality(Threads)
    PROVE  \E o \in S : Idle(o)
<1>1. SUFFICES ASSUME \A o \in S : operation[o].isInUse PROVE FALSE
    BY DEF Idle
<1> DEFINE f == [o \in S |-> CHOOSE u \in Threads : pc[u] \in HoldingLabels /\ held[u] = o]
<1>2. ASSUME NEW o \in S
      PROVE  f[o] \in Threads /\ pc[f[o]] \in HoldingLabels /\ held[f[o]] = o
    BY <1>1 DEF InUseMeansHeld
<1>3. f \in [S -> Threads \ {t}]
    BY <1>2
<1>4. \A o, p \in S : f[o] = f[p] => o = p
    BY <1>2
<1> HIDE DEF f
<1>5. f \in Injection(S, Threads \ {t})
    BY <1>3, <1>4 DEF Injection, IsInjective
<1>6. IsFiniteSet(Threads) /\ Cardinality(Threads) \in Nat
    BY OperationLimits, FS_CardinalityType
<1>7. IsFiniteSet(Threads \ {t}) /\ Cardinality(Threads \ {t}) = Cardinality(Threads) - 1
    BY <1>6, FS_RemoveElement
<1>8. Cardinality(S) <= Cardinality(Threads \ {t}) /\ IsFiniteSet(S)
    BY <1>5, <1>7, FS_Injection
<1>9. Cardinality(S) \in Nat
    BY <1>8, FS_CardinalityType
<1> QED BY <1>6, <1>7, <1>8, <1>9

\* Neither limit finds all its operations in use.
LEMMA NotRefused ==
    ASSUME Inv, InUseMeansHeld, RoomForThreads, NEW t \in Threads,
           pc[t] \in {"tokenLimit", "countLimit"}, Arrive(t) \/ Work(t)
    PROVE  pc'[t] # "idle"
<1>1. pc[t] \notin HoldingLabels
    BY DEF HoldingLabels
<1>2. DeleteForTokenIdIfExceedLimit(t) \/ DeleteFirstAbortableOperation(t)
    BY DEF Arrive, CallInit, CallSession, CallRemove, Call, Work, InitFails, HksCreateKeyNode,
           PublishKeyNode, HksCoreInit, HksCoreInitFail, CreateOperation,
           DeleteFirstTimeOutBatchOperation, AddOperation, DeleteKeyNodeAndDecreaseGlobalCount,
           QueryOperationAndMarkInUse, ChecksPass, ChecksFail, FinishWithOtherToken,
           GetParamsForUpdateAndFinish, HksCoreUpdateSucceeds, HksCoreUpdateFails,
           HksCoreFinishOrAbort, CoreDelete, MarkOperationUnUse, DeleteOperation,
           DeleteSessionByProcessInfo, DeleteSession
<1>3. /\ Cardinality(Threads) \in Nat /\ IsFiniteSet(g_operationList)
      /\ g_operationCount = Cardinality(g_operationList)
    BY OperationLimits, OperationsFinite, FS_CardinalityType DEF Inv, SessionInv, SessionLimits
<1>4. ASSUME NEW k, TokenExceedsLimit(k) PROVE AbortableForToken(k) # {}
    <2>1. OpsOfToken(k) \in SUBSET g_operationList
        BY DEF OpsOfToken
    <2>2. Cardinality(OpsOfToken(k)) \in Nat
        BY <1>3, <2>1, FS_Subset, FS_CardinalityType
    <2>3. Cardinality(OpsOfToken(k)) >= Cardinality(Threads)
        BY <1>3, <1>4, <2>2, OperationLimits DEF TokenExceedsLimit, RoomForThreads
    <2>4. \E o \in OpsOfToken(k) : Idle(o)
        BY <1>1, <2>1, <2>3, SomeIdle
    <2> QED BY <2>4 DEF AbortableForToken
<1>5. ASSUME g_operationCount >= MAX_OPERATIONS_COUNT PROVE AbortableOperations # {}
    <2>1. Cardinality(g_operationList) \in Nat
        BY <1>3, FS_CardinalityType
    <2>2. Cardinality(g_operationList) >= Cardinality(Threads)
        BY <1>3, <1>5, <2>1, OperationLimits DEF RoomForThreads
    <2>3. \E o \in g_operationList : Idle(o)
        BY <1>1, <2>2, SomeIdle
    <2> QED BY <2>3 DEF AbortableOperations
<1>6. \E l \in {"countLimit", "append", "evict"} : Goto(t, l)
    BY <1>2, <1>4, <1>5 DEF DeleteForTokenIdIfExceedLimit, DeleteFirstAbortableOperation,
                            EnforceLimit, StartEvict
<1> QED BY <1>6, GotoFacts DEF Inv, Labels

(* With limits that are not below the number of threads, and one token for *)
(* each process, AddOperation never answers that the limit is reached:     *)
(* DeleteForTokenIdIfExceedLimit and DeleteFirstAbortableOperation always  *)
(* find an operation that no request is using.                             *)
THEOREM NeverRefused ==
    ASSUME OneTokenEach, RoomForThreads
    PROVE  Spec => InitNeverRefused
<1> DEFINE NoneRefused == \A t \in Threads : pc[t] \in {"tokenLimit", "countLimit"} => pc'[t] # "idle"
<1>1. Inv /\ InUseMeansHeld /\ [Next]_vars => [NoneRefused]_vars
    <2>1. SUFFICES ASSUME Inv, InUseMeansHeld, [Next]_vars, vars' # vars,
                          NEW t \in Threads, pc[t] \in {"tokenLimit", "countLimit"}
                   PROVE  pc'[t] # "idle"
        OBVIOUS
    <2>2. CASE Tick
        BY <2>1, <2>2 DEF Tick, threadVars
    <2>3. ASSUME NEW u \in Threads, Arrive(u) \/ Work(u) PROVE pc'[t] # "idle"
        <3>1. CASE u = t
            BY <2>1, <2>3, <3>1, NotRefused
        <3>2. CASE u # t
            <4>1. StepOf(u)
                BY <2>1, <2>3, ThreadSteps
            <4> QED BY <2>1, <3>2, <4>1 DEF StepOf, OthersSame
        <3> QED BY <3>1, <3>2
    <2> QED BY <2>1, <2>2, <2>3 DEF Next
<1>2. Spec => []Inv
    BY InitInv, NextInv, PTL DEF Spec
<1> QED BY <1>1, <1>2, InUseHeld, PTL DEF Spec, InitNeverRefused

-----------------------------------------------------------------------------
(* Handles have one owner. *)

\* Thread t owns nothing after the step, or what it owned, or a new handle.
OwnKept(t) ==
    \/ ~Owner(t)'
    \/ Owner(t) /\ Owner(t)' /\ Own(t)' = Own(t)
    \/ Owner(t)' /\ Own(t)' = nodesMade + 1 /\ nodesMade' = nodesMade + 1

\* What another thread owns does not change.
LEMMA OthersOwn ==
    ASSUME NEW t \in Threads, StepOf(t), NEW u \in Threads \ {t}
    PROVE  (Owner(u)' <=> Owner(u)) /\ Own(u)' = Own(u)
<1>1. /\ Making(u)' <=> Making(u)
      /\ Binding(u)' <=> Binding(u)
      /\ pc'[u] = pc[u] /\ req'[u] = req[u] /\ ptr'[u] = ptr[u]
    BY OthersName
<1> QED BY <1>1 DEF Owner, Own

\* Handles stay apart through a step that appends no operation.
LEMMA ApartKept ==
    ASSUME Inv, NEW t \in Threads, HandlesApart, StepOf(t), OperationsKept, OwnKept(t),
           nodesMade' \in Nat, nodesMade <= nodesMade'
    PROVE  HandlesApart'
<1>1. nodesMade \in Nat
    BY NodeLimits DEF Inv, NodeInv, NodeTypeOK
<1>2. ASSUME NEW o \in g_operationList'
      PROVE  o \in g_operationList /\ operation'[o].handle = operation[o].handle
    BY DEF OperationsKept, SameOperation
<1>3. ASSUME NEW u \in Threads, Owner(u)'
      PROVE  \/ Owner(u) /\ Own(u)' = Own(u)
             \/ u = t /\ Own(u)' = nodesMade + 1 /\ nodesMade' = nodesMade + 1
    <2>1. CASE u = t
        BY <1>3, <2>1 DEF OwnKept
    <2>2. CASE u # t
        BY <1>3, <2>2, OthersOwn
    <2> QED BY <2>1, <2>2
<1>4. ASSUME NEW u \in Threads, Owner(u)' PROVE Own(u)' \in 1 .. nodesMade'
    <2>1. CASE Owner(u) /\ Own(u)' = Own(u)
        BY <1>1, <2>1 DEF HandlesApart
    <2>2. CASE Own(u)' = nodesMade + 1 /\ nodesMade' = nodesMade + 1
        BY <1>1, <2>2
    <2> QED BY <1>3, <1>4, <2>1, <2>2
<1>5. ASSUME NEW u \in Threads, Owner(u)', NEW o \in g_operationList'
      PROVE  operation'[o].handle # Own(u)'
    <2>1. operation[o].handle \in 1 .. nodesMade /\ operation'[o].handle = operation[o].handle
        BY <1>2 DEF HandlesApart
    <2>2. CASE Owner(u) /\ Own(u)' = Own(u)
        BY <1>2, <2>2 DEF HandlesApart
    <2>3. CASE Own(u)' = nodesMade + 1
        BY <1>1, <2>1, <2>3
    <2> QED BY <1>3, <1>5, <2>2, <2>3
<1>6. ASSUME NEW u \in Threads, NEW v \in Threads \ {u}, Owner(u)', Owner(v)'
      PROVE  Own(v)' # Own(u)'
    <2>1. CASE Owner(u) /\ Own(u)' = Own(u) /\ Owner(v) /\ Own(v)' = Own(v)
        BY <2>1 DEF HandlesApart
    <2>2. ASSUME NEW x \in Threads, NEW y \in Threads, Owner(x), Own(x)' = Own(x),
                 Own(y)' = nodesMade + 1
          PROVE  Own(x)' # Own(y)'
        <3>1. Own(x) \in 1 .. nodesMade
            BY <2>2 DEF HandlesApart
        <3> QED BY <1>1, <2>2, <3>1
    <2> QED BY <1>3, <1>6, <2>1, <2>2
<1>7. ASSUME NEW o \in g_operationList' PROVE operation'[o].handle \in 1 .. nodesMade'
    <2>1. operation[o].handle \in 1 .. nodesMade /\ operation'[o].handle = operation[o].handle
        BY <1>2 DEF HandlesApart
    <2> QED BY <1>1, <2>1
<1>8. \A o, p \in g_operationList' : operation'[o].handle = operation'[p].handle => o = p
    BY <1>2 DEF HandlesApart
<1> QED BY <1>4, <1>5, <1>6, <1>7, <1>8 DEF HandlesApart

\* AddOperation: the handle passes from the request to the operation.
LEMMA AppendApart ==
    ASSUME Inv, NEW t \in Threads, HandlesApart, AddOperation(t)
    PROVE  HandlesApart'
<1> DEFINE n == operationsMade + 1
<1>1. pc[t] = "append" /\ StepOf(t) /\ pc'[t] = "idle" /\ nodesMade' = nodesMade
    BY ReturnLocal DEF AddOperation, Inv, nodeVars
<1>2. Owner(t) /\ Own(t) = req[t].handle /\ ~Owner(t)'
    BY <1>1 DEF Owner, Own, Binding, Making
<1>3. n \in OpIds /\ n \notin g_operationList /\ g_operationList \subseteq OpIds
    BY OperationsFinite, OperationLimits
       DEF AddOperation, AppendOperation, Inv, SessionInv, SessionTypeOK, OpIds
<1>4. /\ g_operationList' = g_operationList \cup {n} /\ operation'[n].handle = req[t].handle
      /\ \A o \in g_operationList : operation'[o] = operation[o]
    BY <1>3 DEF AddOperation, AppendOperation, Inv, SessionInv, SessionTypeOK
<1> HIDE DEF n
<1>5. ASSUME NEW u \in Threads, Owner(u)' PROVE u # t /\ Owner(u) /\ Own(u)' = Own(u)
    BY <1>1, <1>2, <1>5, OthersOwn
<1>6. ASSUME NEW u \in Threads, Owner(u)'
      PROVE  /\ Own(u)' \in 1 .. nodesMade'
             /\ \A o \in g_operationList' : operation'[o].handle # Own(u)'
             /\ \A v \in Threads \ {u} : Owner(v)' => Own(v)' # Own(u)'
    <2>1. u # t /\ Owner(u) /\ Own(u)' = Own(u)
        BY <1>5, <1>6
    <2>2. Own(t) # Own(u)
        BY <1>2, <2>1 DEF HandlesApart
    <2>3. \A v \in Threads \ {u} : Owner(v)' => Own(v)' # Own(u)'
        BY <1>5, <2>1 DEF HandlesApart
    <2> QED BY <1>1, <1>2, <1>4, <2>1, <2>2, <2>3 DEF HandlesApart
<1>7. \A o \in g_operationList' : operation'[o].handle \in 1 .. nodesMade'
    BY <1>1, <1>2, <1>4 DEF HandlesApart
<1>8. \A o, p \in g_operationList' : operation'[o].handle = operation'[p].handle => o = p
    BY <1>2, <1>3, <1>4 DEF HandlesApart
<1> QED BY <1>6, <1>7, <1>8 DEF HandlesApart

-----------------------------------------------------------------------------
(* Nodes in use. *)

\* A thread that counts on its node being in the list.
Relies(u) ==
    \/ pc[u] \in {"publish", "coreInit", "coreRun"}
    \/ pc[u] = "evict" /\ ptr[u] # NULL

\* Thread t is about to take node d out.
Deletes(t, d) ==
    \/ pc[t] \in {"coreInitFail", "coreDelete"} /\ d = ptr[t]
    \/ pc[t] = "evict" /\ d = operation[victim[t]].handle

\* Such a node is in the list.
LEMMA ReliedIsLive ==
    ASSUME NodeUseInv, NEW u \in Threads, Relies(u)
    PROVE  ptr[u] \in g_keyNodeList
BY DEF NodeUseInv, KeyNodeInUseIsLive, DeletesOwn, Relies

\* No thread takes out the node that another one counts on.
LEMMA NotMine ==
    ASSUME Inv, HandleInv, NodeUseInv, NEW t \in Threads, NEW u \in Threads \ {t},
           Relies(u), NEW d, Deletes(t, d)
    PROVE  ptr[u] # d
<1> USE DEF Inv, ThreadInv
<1>1. \/ pc[t] = "coreInitFail" /\ Owner(t) /\ Own(t) = d
      \/ pc[t] = "coreDelete" /\ held[t] \in g_operationList /\ d = operation[held[t]].handle
           /\ operation[held[t]].isInUse
      \/ pc[t] = "evict" /\ victim[t] \in g_operationList /\ d = operation[victim[t]].handle
           /\ Idle(victim[t])
    BY DEF Deletes, Owner, Own, Binding, NodeUseInv, DeletesOwn, OperationPointersGood, HoldingLabels
<1>2. \/ pc[u] \in {"publish", "coreInit"} /\ Owner(u) /\ Own(u) = ptr[u]
      \/ pc[u] = "coreRun" /\ held[u] \in g_operationList /\ ptr[u] = operation[held[u]].handle
           /\ operation[held[u]].isInUse
      \/ pc[u] = "evict" /\ victim[u] \in g_operationList /\ ptr[u] = operation[victim[u]].handle
           /\ Idle(victim[u])
    BY DEF Relies, Owner, Own, Making, Binding, NodeUseInv, DeletesOwn, HandleInv, HeldFits,
           OperationPointersGood, HoldingLabels
<1>3. HandlesApart
    BY DEF NodeUseInv
<1>4. CASE Owner(t) /\ Own(t) = d
    BY <1>2, <1>3, <1>4 DEF HandlesApart
<1>5. CASE Owner(u) /\ Own(u) = ptr[u]
    BY <1>1, <1>3, <1>5 DEF HandlesApart
<1>6. CASE pc[t] = "coreDelete" /\ pc[u] = "coreRun"
    <2>1. held[t] # held[u]
        BY <1>6 DEF OperationPointersGood, HoldingLabels
    <2> QED BY <1>1, <1>2, <1>3, <1>6, <2>1 DEF HandlesApart
<1>7. CASE pc[t] = "coreDelete" /\ pc[u] = "evict"
    <2>1. held[t] # victim[u]
        BY <1>1, <1>2, <1>7 DEF Idle
    <2> QED BY <1>1, <1>2, <1>3, <1>7, <2>1 DEF HandlesApart
<1>8. CASE pc[t] = "evict" /\ pc[u] = "coreRun"
    <2>1. victim[t] # held[u]
        BY <1>1, <1>2, <1>8 DEF Idle
    <2> QED BY <1>1, <1>2, <1>3, <1>8, <2>1 DEF HandlesApart
<1>9. CASE pc[t] = "evict" /\ pc[u] = "evict"
    BY <1>9 DEF LockHeld, LockedLabels
<1> QED BY <1>1, <1>2, <1>4, <1>5, <1>6, <1>7, <1>8, <1>9

\* When AddKeyNode evicts nothing, a step takes out at most the node that its
\* thread is about to delete.
LEMMA NodesTaken ==
    ASSUME Inv, NEW t \in Threads, Arrive(t) \/ Work(t),
           pc[t] = "createKeyNode" /\ pc'[t] = "publish" => g_keyNodeList \subseteq g_keyNodeList'
    PROVE  \/ g_keyNodeList \subseteq g_keyNodeList'
           \/ \E d : Deletes(t, d) /\ g_keyNodeList' = g_keyNodeList \ {d}
<1>1. CASE \/ Arrive(t) \/ InitFails(t) \/ CreateOperation(t)
           \/ DeleteFirstTimeOutBatchOperation(t) \/ DeleteForTokenIdIfExceedLimit(t)
           \/ DeleteFirstAbortableOperation(t) \/ AddOperation(t)
    BY <1>1 DEF Arrive, CallInit, CallSession, CallRemove, Call, InitFails, CreateOperation,
           DeleteFirstTimeOutBatchOperation, DeleteForTokenIdIfExceedLimit,
           DeleteFirstAbortableOperation, EnforceLimit, AddOperation, nodeVars
<1>2. CASE \/ QueryOperationAndMarkInUse(t) \/ ChecksPass(t)
           \/ ChecksFail(t) \/ FinishWithOtherToken(t)
           \/ GetParamsForUpdateAndFinish(t) \/ HksCoreUpdateSucceeds(t)
           \/ HksCoreUpdateFails(t) \/ HksCoreFinishOrAbort(t)
           \/ MarkOperationUnUse(t) \/ DeleteOperation(t)
           \/ DeleteSessionByProcessInfo(t) \/ DeleteSession(t)
    BY <1>2 DEF QueryOperationAndMarkInUse, ChecksPass, ChecksFail, FinishWithOtherToken,
           GetParamsForUpdateAndFinish, HksCoreUpdateSucceeds, HksCoreUpdateFails,
           HksCoreFinishOrAbort, MarkOperationUnUse, DeleteOperation,
           DeleteSessionByProcessInfo, DeleteSession, nodeVars
<1>3. CASE HksCreateKeyNode(t)
    <2>1. pc[t] = "createKeyNode" /\ Goto(t, "publish")
        BY <1>3 DEF HksCreateKeyNode
    <2> QED BY <2>1, GotoFacts DEF Inv, Labels
<1>4. CASE PublishKeyNode(t) \/ HksCoreInit(t)
    BY <1>4 DEF PublishKeyNode, HksCoreInit, PublishRuntimeParamSet, HksAddBatchTimeToKeyNode,
                WriteKeyNode
<1>5. CASE HksCoreInitFail(t) \/ CoreDelete(t)
    BY <1>5 DEF HksCoreInitFail, CoreDelete, HksDeleteKeyNode, Deletes
<1>6. CASE DeleteKeyNodeAndDecreaseGlobalCount(t)
    BY <1>6 DEF DeleteKeyNodeAndDecreaseGlobalCount, HksDeleteKeyNode, Deletes, nodeVars
<1> QED BY <1>1, <1>2, <1>3, <1>4, <1>5, <1>6 DEF Work

\* Every pointer that is followed is good.
LEMMA NothingDangles ==
    ASSUME NodeUseInv, NEW t \in Threads, Arrive(t) \/ Work(t)
    PROVE  ~usedAfterFree'
<1>1. ~usedAfterFree
    BY DEF NodeUseInv
<1>2. ASSUME Follow(t), Relies(t) PROVE ~usedAfterFree'
    BY <1>1, <1>2, ReliedIsLive DEF Follow
<1>3. CASE \/ PublishKeyNode(t) \/ HksCoreInit(t) \/ HksCoreUpdateSucceeds(t)
           \/ HksCoreUpdateFails(t) \/ HksCoreFinishOrAbort(t)
    BY <1>2, <1>3 DEF PublishKeyNode, HksCoreInit, HksCoreUpdateSucceeds, HksCoreUpdateFails,
                      HksCoreFinishOrAbort, Relies
<1>4. CASE DeleteKeyNodeAndDecreaseGlobalCount(t)
    BY <1>1, <1>2, <1>4 DEF DeleteKeyNodeAndDecreaseGlobalCount, Relies
<1>5. CASE UNCHANGED usedAfterFree
    BY <1>1, <1>5
<1> QED BY <1>3, <1>4, <1>5
        DEF Arrive, CallInit, CallSession, CallRemove, Call, Work, InitFails, HksCreateKeyNode,
            HksCoreInitFail, CreateOperation, DeleteFirstTimeOutBatchOperation,
            DeleteForTokenIdIfExceedLimit, DeleteFirstAbortableOperation, EnforceLimit,
            AddOperation, QueryOperationAndMarkInUse, ChecksPass, ChecksFail,
            FinishWithOtherToken, GetParamsForUpdateAndFinish, CoreDelete, MarkOperationUnUse,
            DeleteOperation, DeleteSessionByProcessInfo, DeleteSession

\* Only HksCoreInit leads to the deletion of a node that was never handed out.
LEMMA FailsInCoreInit ==
    ASSUME Inv, NEW t \in Threads, Arrive(t) \/ Work(t), ~HksCoreInit(t)
    PROVE  pc'[t] # "coreInitFail"
<1> DEFINE L == Labels \ {"coreInitFail"}
<1>1. ASSUME NEW l \in L, Goto(t, l) PROVE pc'[t] # "coreInitFail"
    BY <1>1, GotoFacts DEF Inv
<1>2. CASE \/ Arrive(t) \/ InitFails(t) \/ HksCreateKeyNode(t) \/ PublishKeyNode(t)
           \/ HksCoreInitFail(t) \/ CreateOperation(t) \/ AddOperation(t)
    <2>1. \E l \in {"createKeyNode", "query", "lockSweep", "idle", "publish", "coreInit", "timeOut"} :
             Goto(t, l)
        BY <1>2 DEF Arrive, CallInit, CallSession, CallRemove, Call, InitFails, HksCreateKeyNode,
               PublishKeyNode, HksCoreInitFail, CreateOperation, AddOperation, Return
    <2> QED BY <1>1, <2>1 DEF Labels
<1>3. CASE \/ DeleteFirstTimeOutBatchOperation(t) \/ DeleteForTokenIdIfExceedLimit(t)
           \/ DeleteFirstAbortableOperation(t) \/ DeleteSessionByProcessInfo(t)
    <2>1. \E l \in {"evict", "tokenLimit", "countLimit", "append", "idle", "sweep"} : Goto(t, l)
        BY <1>3 DEF DeleteFirstTimeOutBatchOperation, DeleteForTokenIdIfExceedLimit,
               DeleteFirstAbortableOperation, DeleteSessionByProcessInfo, EnforceLimit,
               StartEvict, Return
    <2> QED BY <1>1, <2>1 DEF Labels
<1>4. CASE \/ QueryOperationAndMarkInUse(t) \/ ChecksPass(t) \/ ChecksFail(t)
           \/ FinishWithOtherToken(t) \/ GetParamsForUpdateAndFinish(t)
           \/ HksCoreUpdateSucceeds(t) \/ HksCoreUpdateFails(t) \/ HksCoreFinishOrAbort(t)
           \/ CoreDelete(t) \/ MarkOperationUnUse(t) \/ DeleteOperation(t)
    <2>1. \E l \in {"checks", "idle", "coreQuery", "unuse", "unuseThenDelete", "coreRun",
                    "coreDelete", "deleteOperation"} : Goto(t, l)
        BY <1>4 DEF QueryOperationAndMarkInUse, ChecksPass, ChecksFail, FinishWithOtherToken,
               GetParamsForUpdateAndFinish, HksCoreUpdateSucceeds, HksCoreUpdateFails,
               HksCoreFinishOrAbort, CoreDelete, MarkOperationUnUse, DeleteOperation, Return
    <2> QED BY <1>1, <2>1 DEF Labels
<1>5. CASE DeleteSession(t)
    <2>1. CASE \E l \in {"idle", "evict"} : Goto(t, l)
        BY <1>1, <2>1 DEF Labels
    <2>2. CASE pc[t] = "sweep" /\ UNCHANGED pc
        BY <2>2
    <2> QED BY <1>5, <2>1, <2>2 DEF DeleteSession, StartEvict, Return
<1>6. CASE DeleteKeyNodeAndDecreaseGlobalCount(t)
    <2>1. pc[t] = "evict" /\ Goto(t, req[t].cont)
        BY <1>6 DEF DeleteKeyNodeAndDecreaseGlobalCount
    <2>2. req[t].cont \in L
        BY <2>1 DEF Inv, ThreadInv, LockHeld, LockedLabels, Labels
    <2> QED BY <1>1, <2>1, <2>2
<1> QED BY <1>2, <1>3, <1>4, <1>5, <1>6 DEF Work

\* What a thread owns after its step.
LEMMA OwnSteps ==
    ASSUME Inv, NodeUseInv, NEW t \in Threads, Arrive(t) \/ Work(t), ~AddOperation(t)
    PROVE  /\ OwnKept(t) /\ OperationsKept
           /\ nodesMade' \in Nat /\ nodesMade <= nodesMade'
<1>0. nodesMade \in Nat
    BY NodeLimits DEF Inv, NodeInv, NodeTypeOK
<1>1. CASE StepKeeps(t) /\ ~HksCoreInit(t)
    <2>1. pc'[t] # "coreInitFail"
        BY <1>1, FailsInCoreInit
    <2>2. OwnKept(t)
        <3>1. CASE ~Making(t)' /\ ~Binding(t)'
            BY <2>1, <3>1 DEF OwnKept, Owner
        <3>2. CASE Binding(t) /\ Binding(t)' /\ req'[t].handle = req[t].handle
            BY <3>2 DEF OwnKept, Owner, Own
        <3>3. CASE pc'[t] = "publish" /\ ptr'[t] = nodesMade + 1 /\ nodesMade' = nodesMade + 1
            BY <3>3 DEF OwnKept, Owner, Own, Making, Binding
        <3> QED BY <1>1, <3>1, <3>2, <3>3 DEF StepKeeps, NamesKept
    <2> QED BY <1>1, <2>2 DEF StepKeeps, NodesKept
<1>2. CASE PublishKeyNode(t)
    <2>1. /\ pc[t] = "publish" /\ pc'[t] = "coreInit" /\ ptr'[t] = ptr[t]
          /\ UNCHANGED sessionVars /\ nodesMade' = nodesMade
        BY <1>2, GotoLocal DEF PublishKeyNode, PublishRuntimeParamSet, WriteKeyNode, Inv
    <2>2. OwnKept(t)
        BY <2>1 DEF OwnKept, Owner, Own, Making, Binding
    <2> QED BY <1>0, <2>1, <2>2, SameOperationsKept DEF sessionVars
<1>3. CASE HksCoreInit(t)
    <2>1. pc[t] = "coreInit" /\ UNCHANGED sessionVars /\ nodesMade' = nodesMade
        BY <1>3 DEF HksCoreInit, HksAddBatchTimeToKeyNode, WriteKeyNode
    <2>2. Deref(ptr[t]) = {ptr[t]}
        BY <1>3, NothingDangles, GoodPointer DEF HksCoreInit
    <2>3. Owner(t) /\ Own(t) = ptr[t]
        BY <2>1 DEF Owner, Own, Making, Binding
    <2>4. CASE req' = [req EXCEPT ![t].handle = ptr[t]] /\ Goto(t, "createOperation")
        <3>1. pc'[t] = "createOperation" /\ req'[t].handle = ptr[t]
            BY <2>4, GotoFacts DEF Inv, ThreadTypeOK, Labels, Request
        <3> QED BY <1>0, <2>1, <2>3, <3>1, SameOperationsKept
                DEF OwnKept, Owner, Own, Binding, sessionVars
    <2>5. CASE ptr' = [ptr EXCEPT ![t] = ptr[t]] /\ Goto(t, "coreInitFail")
        <3>1. pc'[t] = "coreInitFail" /\ ptr'[t] = ptr[t]
            BY <2>5, GotoFacts DEF Inv, ThreadTypeOK, Labels
        <3> QED BY <1>0, <2>1, <2>3, <3>1, SameOperationsKept
                DEF OwnKept, Owner, Own, Binding, sessionVars
    <2> QED BY <1>3, <2>2, <2>4, <2>5 DEF HksCoreInit
<1> QED BY <1>1, <1>2, <1>3, ThreadSteps

\* Choosing a victim: the pointer is to its node, or there is none.
LEMMA EvictOwn ==
    ASSUME Inv, NEW t \in Threads, NEW S, NEW l, StartEvict(t, S, l),
           UNCHANGED <<g_keyNodeList, operation>>
    PROVE  /\ pc'[t] = "evict"
           /\ ptr'[t] # NULL => ptr'[t] = operation'[victim'[t]].handle /\ ptr'[t] \in g_keyNodeList'
<1>1. PICK o : o = Min(S)
    OBVIOUS
<1>2. PICK h : h = operation[o].handle
    OBVIOUS
<1>3. /\ victim' = [victim EXCEPT ![t] = o]
      /\ \E p \in {NULL} \cup HksQueryKeyNode(h) : ptr' = [ptr EXCEPT ![t] = p]
      /\ Goto(t, "evict")
    BY <1>1, <1>2 DEF StartEvict
<1>4. pc'[t] = "evict" /\ victim'[t] = o
    BY <1>3, GotoFacts DEF Inv, ThreadTypeOK, Labels
<1>5. ptr'[t] \in {NULL} \cup HksQueryKeyNode(h)
    BY <1>3 DEF Inv, ThreadTypeOK
<1>6. ptr'[t] # NULL => ptr'[t] = h /\ h \in g_keyNodeList
    BY <1>5 DEF HksQueryKeyNode
<1> QED BY <1>2, <1>4, <1>6

\* The thread that makes the step has a good pointer after it.
LEMMA OwnUse ==
    ASSUME Inv, HandleInv, NodeUseInv, NEW t \in Threads, Arrive(t) \/ Work(t)
    PROVE  (Relies(t)' => ptr'[t] \in g_keyNodeList') /\ DeletesOwn(t)'
<1> DEFINE Q == Labels \ {"publish", "coreInit", "coreRun", "coreDelete", "evict"}
<1>0. ASSUME pc'[t] \in Q PROVE (Relies(t)' => ptr'[t] \in g_keyNodeList') /\ DeletesOwn(t)'
    BY <1>0 DEF Relies, DeletesOwn
<1>1. ASSUME NEW l \in Q, Goto(t, l) PROVE pc'[t] \in Q
    BY <1>1, GotoFacts DEF Inv
<1>2. CASE \/ Arrive(t) \/ InitFails(t) \/ HksCoreInit(t) \/ HksCoreInitFail(t)
           \/ CreateOperation(t) \/ AddOperation(t) \/ DeleteSessionByProcessInfo(t)
    <2>1. \E l \in {"createKeyNode", "query", "lockSweep", "idle", "createOperation",
                    "coreInitFail", "timeOut", "sweep"} : Goto(t, l)
        BY <1>2 DEF Arrive, CallInit, CallSession, CallRemove, Call, InitFails, HksCoreInit,
               HksCoreInitFail, CreateOperation, AddOperation, DeleteSessionByProcessInfo, Return
    <2> QED BY <1>0, <1>1, <2>1 DEF Labels
<1>3. CASE \/ QueryOperationAndMarkInUse(t) \/ ChecksPass(t) \/ ChecksFail(t)
           \/ FinishWithOtherToken(t) \/ HksCoreUpdateSucceeds(t)
           \/ CoreDelete(t) \/ MarkOperationUnUse(t) \/ DeleteOperation(t)
    <2>1. \E l \in {"checks", "idle", "coreQuery", "unuse", "unuseThenDelete",
                    "deleteOperation"} : Goto(t, l)
        BY <1>3 DEF QueryOperationAndMarkInUse, ChecksPass, ChecksFail, FinishWithOtherToken,
               HksCoreUpdateSucceeds, CoreDelete, MarkOperationUnUse, DeleteOperation, Return
    <2> QED BY <1>0, <1>1, <2>1 DEF Labels
<1>4. CASE HksCreateKeyNode(t)
    <2>1. pc'[t] = "publish" /\ ptr'[t] = nodesMade + 1
        BY <1>4, GotoPtrLocal DEF HksCreateKeyNode, Inv
    <2>2. req[t].caller.token \in Tokens
        BY TimeBounds DEF Inv, ThreadTypeOK, Request
    <2>3. nodesMade + 1 \in g_keyNodeList'
        BY <1>4, <2>2, AddKeyNodeKeeps DEF HksCreateKeyNode, Inv
    <2> QED BY <2>1, <2>3 DEF DeletesOwn
<1>5. CASE PublishKeyNode(t)
    <2>1. pc[t] = "publish" /\ pc'[t] = "coreInit" /\ ptr'[t] = ptr[t] /\ UNCHANGED g_keyNodeList
        BY <1>5, GotoLocal DEF PublishKeyNode, PublishRuntimeParamSet, WriteKeyNode, Inv
    <2>2. ptr[t] \in g_keyNodeList
        BY <2>1, ReliedIsLive DEF Relies
    <2> QED BY <2>1, <2>2 DEF DeletesOwn
<1>6. CASE GetParamsForUpdateAndFinish(t)
    <2>1. CASE Goto(t, "unuseThenDelete")
        BY <1>0, <1>1, <2>1 DEF Labels
    <2>2. CASE /\ HksQueryKeyNode(req[t].handle) # {} /\ Goto(t, "coreRun")
               /\ ptr' = [ptr EXCEPT ![t] = req[t].handle]
        <3>1. pc'[t] = "coreRun" /\ ptr'[t] = req[t].handle
            BY <2>2, GotoFacts DEF Inv, ThreadTypeOK, Labels
        <3>2. req[t].handle \in g_keyNodeList'
            BY <1>6, <2>2 DEF HksQueryKeyNode, GetParamsForUpdateAndFinish, nodeVars
        <3> QED BY <3>1, <3>2 DEF DeletesOwn
    <2> QED BY <1>6, <2>1, <2>2 DEF GetParamsForUpdateAndFinish
<1>7. CASE HksCoreUpdateFails(t) \/ HksCoreFinishOrAbort(t)
    <2>1. pc[t] = "coreRun" /\ Goto(t, "coreDelete") /\ UNCHANGED <<sessionVars, held>>
        BY <1>7 DEF HksCoreUpdateFails, HksCoreFinishOrAbort
    <2>2. ptr[t] \in g_keyNodeList /\ ptr[t] = req[t].handle
        BY <2>1, ReliedIsLive DEF Relies, HandleInv, HeldFits
    <2>3. ptr[t] = operation[held[t]].handle
        BY <2>1, <2>2 DEF HandleInv, HeldFits
    <2>4. ptr'[t] = ptr[t]
        <3>1. CASE HksCoreFinishOrAbort(t)
            BY <3>1 DEF HksCoreFinishOrAbort
        <3>2. CASE HksCoreUpdateFails(t)
            <4>1. Deref(ptr[t]) = {ptr[t]}
                BY <2>2 DEF Deref
            <4>2. ptr' = [ptr EXCEPT ![t] = ptr[t]]
                BY <2>2, <3>2, <4>1 DEF HksCoreUpdateFails
            <4> QED BY <4>2 DEF Inv, ThreadTypeOK
        <3> QED BY <1>7, <3>1, <3>2
    <2>5. pc'[t] = "coreDelete"
        BY <2>1, GotoFacts DEF Inv, Labels
    <2>6. ptr'[t] = operation'[held'[t]].handle
        BY <2>1, <2>3, <2>4 DEF sessionVars
    <2> QED BY <2>5, <2>6 DEF Relies, DeletesOwn
<1>8. CASE \/ DeleteFirstTimeOutBatchOperation(t) \/ DeleteForTokenIdIfExceedLimit(t)
           \/ DeleteFirstAbortableOperation(t) \/ DeleteSession(t)
    <2>1. UNCHANGED <<g_keyNodeList, operation>>
        BY <1>8 DEF DeleteFirstTimeOutBatchOperation, DeleteForTokenIdIfExceedLimit,
                DeleteFirstAbortableOperation, EnforceLimit, DeleteSession, nodeVars
    <2>2. CASE \E S, l : StartEvict(t, S, l)
        <3>1. /\ pc'[t] = "evict"
              /\ ptr'[t] # NULL =>
                   ptr'[t] = operation'[victim'[t]].handle /\ ptr'[t] \in g_keyNodeList'
            BY <2>1, <2>2, EvictOwn
        <3> QED BY <3>1 DEF Relies, DeletesOwn
    <2>3. CASE \E l \in {"tokenLimit", "countLimit", "append", "idle"} : Goto(t, l)
        BY <1>0, <1>1, <2>3 DEF Labels
    <2>4. CASE pc[t] = "sweep" /\ UNCHANGED pc
        BY <1>0, <2>4 DEF Labels
    <2> QED BY <1>8, <2>2, <2>3, <2>4
            DEF DeleteFirstTimeOutBatchOperation, DeleteForTokenIdIfExceedLimit,
                DeleteFirstAbortableOperation, EnforceLimit, DeleteSession, Return
<1>9. CASE DeleteKeyNodeAndDecreaseGlobalCount(t)
    <2>1. pc[t] = "evict" /\ Goto(t, req[t].cont)
        BY <1>9 DEF DeleteKeyNodeAndDecreaseGlobalCount
    <2>2. req[t].cont \in Q
        BY <2>1 DEF Inv, ThreadInv, LockHeld, LockedLabels, Labels
    <2> QED BY <1>0, <1>1, <2>1, <2>2
<1> QED BY <1>2, <1>3, <1>4, <1>5, <1>6, <1>7, <1>8, <1>9 DEF Work

\* Every step of a thread, when AddKeyNode evicts nothing.
LEMMA ThreadUse ==
    ASSUME Inv, Inv', HandleInv, NodeUseInv, NEW t \in Threads, Arrive(t) \/ Work(t),
           pc[t] = "createKeyNode" /\ pc'[t] = "publish" => g_keyNodeList \subseteq g_keyNodeList'
    PROVE  NodeUseInv'
<1>1. StepOf(t) /\ \A o \in g_operationList \cap g_operationList' : SameOperation(o)
    BY ThreadSteps
<1>2. HandlesApart'
    <2>1. CASE AddOperation(t)
        BY <2>1, AppendApart DEF NodeUseInv
    <2>2. CASE ~AddOperation(t)
        BY <1>1, <2>2, OwnSteps, ApartKept DEF NodeUseInv
    <2> QED BY <2>1, <2>2
<1>3. ASSUME NEW u \in Threads, Relies(u)' PROVE ptr'[u] \in g_keyNodeList'
    <2>1. CASE u = t
        BY <1>3, <2>1, OwnUse
    <2>2. CASE u # t
        <3>1. Relies(u) /\ ptr'[u] = ptr[u]
            BY <1>1, <1>3, <2>2 DEF StepOf, OthersSame, Relies
        <3>2. ptr[u] \in g_keyNodeList
            BY <3>1, ReliedIsLive
        <3>3. CASE g_keyNodeList \subseteq g_keyNodeList'
            BY <3>1, <3>2, <3>3
        <3>4. CASE \E d : Deletes(t, d) /\ g_keyNodeList' = g_keyNodeList \ {d}
            <4>1. PICK d : Deletes(t, d) /\ g_keyNodeList' = g_keyNodeList \ {d}
                BY <3>4
            <4>2. ptr[u] # d
                BY <2>2, <3>1, <4>1, NotMine
            <4> QED BY <3>1, <3>2, <4>1, <4>2
        <3> QED BY <3>3, <3>4, NodesTaken
    <2> QED BY <2>1, <2>2
<1>4. KeyNodeInUseIsLive'
    BY <1>3 DEF KeyNodeInUseIsLive, Relies
<1>5. ASSUME NEW u \in Threads PROVE DeletesOwn(u)'
    <2>1. CASE u = t
        BY <2>1, OwnUse
    <2>2. CASE u # t
        <3>1. /\ pc'[u] = pc[u] /\ ptr'[u] = ptr[u] /\ held'[u] = held[u] /\ victim'[u] = victim[u]
            BY <1>1, <2>2 DEF StepOf, OthersSame
        <3>2. ASSUME pc[u] = "coreDelete" PROVE ptr'[u] = operation'[held'[u]].handle
            <4>1. held[u] \in g_operationList /\ held'[u] \in g_operationList'
                BY <3>1, <3>2 DEF Inv, ThreadInv, OperationPointersGood, HoldingLabels
            <4>2. operation'[held[u]].handle = operation[held[u]].handle
                BY <1>1, <3>1, <4>1 DEF SameOperation
            <4> QED BY <3>1, <3>2, <4>2 DEF NodeUseInv, DeletesOwn
        <3>3. ASSUME pc[u] = "evict", ptr[u] # NULL
              PROVE  ptr'[u] = operation'[victim'[u]].handle /\ ptr'[u] \in g_keyNodeList'
            <4>1. victim[u] \in g_operationList /\ victim'[u] \in g_operationList'
                BY <3>1, <3>3 DEF Inv, ThreadInv, OperationPointersGood
            <4>2. operation'[victim[u]].handle = operation[victim[u]].handle
                BY <1>1, <3>1, <4>1 DEF SameOperation
            <4>3. ptr'[u] \in g_keyNodeList'
                BY <1>3, <3>1, <3>3 DEF Relies
            <4> QED BY <3>1, <3>3, <4>2, <4>3 DEF NodeUseInv, DeletesOwn
        <3> QED BY <3>1, <3>2, <3>3 DEF DeletesOwn
    <2> QED BY <2>1, <2>2
<1>6. ~usedAfterFree'
    BY NothingDangles
<1> QED BY <1>2, <1>4, <1>5, <1>6 DEF NodeUseInv

\* The clock and a stuttering step.
LEMMA StillUse ==
    ASSUME NodeUseInv, UNCHANGED <<nodeVars, sessionVars, threadVars, usedAfterFree>>
    PROVE  NodeUseInv'
<1>1. UNCHANGED <<g_keyNodeList, nodesMade, g_operationList, operation>>
    BY DEF nodeVars, sessionVars
<1>2. UNCHANGED <<pc, req, held, victim, ptr>>
    BY DEF threadVars
<1>3. ASSUME NEW t \in Threads
      PROVE  /\ Owner(t)' <=> Owner(t)
             /\ Own(t)' = Own(t)
             /\ DeletesOwn(t)'
    BY <1>1, <1>2 DEF Owner, Own, Making, Binding, DeletesOwn, NodeUseInv
<1>4. HandlesApart'
    BY <1>1, <1>3 DEF HandlesApart, NodeUseInv
<1>5. KeyNodeInUseIsLive'
    BY <1>1, <1>2 DEF KeyNodeInUseIsLive, NodeUseInv
<1> QED BY <1>3, <1>4, <1>5 DEF NodeUseInv

(* In every behaviour in which AddKeyNode finds room for its node, no      *)
(* request of Init, Update, Finish or Abort works on a key node that was   *)
(* freed: the engine's eviction is the only step that takes a node away    *)
(* from the request that is using it.                                      *)
THEOREM NodesInUseLive == Spec /\ NothingEvicted => []NodeUseInv
<1> DEFINE Kept == \A t \in Threads : pc[t] = "createKeyNode" /\ pc'[t] = "publish" =>
                       g_keyNodeList \subseteq g_keyNodeList'
<1>1. Init => NodeUseInv
    BY DEF Init, NodeInit, SessionInit, NodeUseInv, KeyNodeInUseIsLive, HandlesApart, DeletesOwn,
           Owner, Making, Binding
<1>2. Inv /\ HandleInv /\ NodeUseInv /\ [Next]_vars /\ [Kept]_vars => NodeUseInv'
    <2>1. SUFFICES ASSUME Inv, HandleInv, NodeUseInv, [Next]_vars, [Kept]_vars PROVE NodeUseInv'
        OBVIOUS
    <2>2. Inv'
        BY <2>1, NextInv
    <2>3. CASE Tick \/ UNCHANGED vars
        BY <2>1, <2>3, StillUse DEF Tick, vars
    <2>4. ASSUME NEW t \in Threads, Arrive(t) \/ Work(t), ~UNCHANGED vars PROVE NodeUseInv'
        BY <2>1, <2>2, <2>4, ThreadUse
    <2> QED BY <2>1, <2>3, <2>4 DEF Next
<1>3. Spec => []Inv
    BY InitInv, NextInv, PTL DEF Spec
<1> QED BY <1>1, <1>2, <1>3, HandleInvariant, PTL DEF Spec, NothingEvicted

\* AddKeyNode takes nothing out of a list that is below its limits.
LEMMA RoomForNodes ==
    ASSUME Inv, MaxNodes <= MAX_KEY_NODES_COUNT, MaxNodes <= MAX_KEY_NODES_EACH_TOKEN_ID,
           NEW token, AddKeyNode(token, now)
    PROVE  g_keyNodeList \subseteq g_keyNodeList'
<1>1. /\ nodesMade \in Nat /\ MaxNodes \in Nat /\ nodesMade < MaxNodes
      /\ MAX_KEY_NODES_COUNT \in Nat /\ MAX_KEY_NODES_EACH_TOKEN_ID \in Nat
    BY NodeLimits DEF Inv, NodeInv, NodeTypeOK, AddKeyNode
<1>2. g_keyNodeCount \in Nat /\ g_keyNodeCount <= nodesMade
    <2>1. IsFiniteSet(1 .. nodesMade) /\ Cardinality(1 .. nodesMade) = nodesMade
        BY <1>1, FS_Interval
    <2>2. Cardinality(g_keyNodeList) <= nodesMade
        BY <2>1, FS_Subset DEF Inv, NodeInv, NodeTypeOK
    <2> QED BY <2>2 DEF Inv, NodeInv, NodeTypeOK, NodeCountExact
<1>3. g_keyNodeCount < MAX_KEY_NODES_COUNT /\ g_keyNodeCount < MAX_KEY_NODES_EACH_TOKEN_ID
    BY <1>1, <1>2
<1>4. DeleteFirstTimeOutBatchKeyNode(g_keyNodeList, g_keyNodeCount, now) = {}
    BY <1>3 DEF DeleteFirstTimeOutBatchKeyNode
<1>5. g_keyNodeList \ {} = g_keyNodeList /\ g_keyNodeCount - Cardinality({}) = g_keyNodeCount
    BY <1>2, FS_EmptySet
<1>6. DeleteKeyNodeForTokenIdIfExceedLimit(g_keyNodeList, g_keyNodeCount, token) = {}
    BY <1>3 DEF DeleteKeyNodeForTokenIdIfExceedLimit
<1>7. DeleteFirstKeyNode(g_keyNodeList, g_keyNodeCount) = {}
    BY <1>3 DEF DeleteFirstKeyNode
<1> QED BY <1>4, <1>5, <1>6, <1>7 DEF AddKeyNode

(* As long as no more nodes are made than the engine's limits admit, every *)
(* request keeps the key node it works on: nothing but the limits ever     *)
(* frees a node that is in use.                                            *)
THEOREM InUseLive ==
    ASSUME MaxNodes <= MAX_KEY_NODES_COUNT, MaxNodes <= MAX_KEY_NODES_EACH_TOKEN_ID
    PROVE  Spec => []KeyNodeInUseIsLive
<1> DEFINE Kept == \A t \in Threads : pc[t] = "createKeyNode" /\ pc'[t] = "publish" =>
                       g_keyNodeList \subseteq g_keyNodeList'
<1>1. Inv /\ [Next]_vars => [Kept]_vars
    <2>1. SUFFICES ASSUME Inv, [Next]_vars, ~UNCHANGED vars, NEW t \in Threads,
                          pc[t] = "createKeyNode", pc'[t] = "publish"
                   PROVE  g_keyNodeList \subseteq g_keyNodeList'
        OBVIOUS
    <2>2. ~Tick
        BY <2>1 DEF Tick, threadVars
    <2>3. PICK u \in Threads : Arrive(u) \/ Work(u)
        BY <2>1, <2>2 DEF Next
    <2>4. u = t
        <3>1. StepOf(u)
            BY <2>1, <2>3, ThreadSteps
        <3> QED BY <2>1, <3>1 DEF StepOf, OthersSame
    <2>5. HksCreateKeyNode(t) \/ InitFails(t)
        BY <2>1, <2>3, <2>4
           DEF Arrive, CallInit, CallSession, CallRemove, Call, Work,
               PublishKeyNode, HksCoreInit, HksCoreInitFail, CreateOperation,
               DeleteFirstTimeOutBatchOperation, DeleteForTokenIdIfExceedLimit,
               DeleteFirstAbortableOperation, EnforceLimit, AddOperation,
               DeleteKeyNodeAndDecreaseGlobalCount,
               QueryOperationAndMarkInUse, ChecksPass, ChecksFail, FinishWithOtherToken,
               GetParamsForUpdateAndFinish, HksCoreUpdateSucceeds, HksCoreUpdateFails,
               HksCoreFinishOrAbort, CoreDelete, MarkOperationUnUse, DeleteOperation,
               DeleteSessionByProcessInfo, DeleteSession
    <2>6. ~InitFails(t)
        BY <2>1 DEF InitFails, Return, Goto, Inv, ThreadInv, ThreadTypeOK
    <2> QED BY <2>1, <2>5, <2>6, RoomForNodes DEF HksCreateKeyNode
<1>2. Spec => []Inv
    BY InitInv, NextInv, PTL DEF Spec
<1>3. Spec => NothingEvicted
    BY <1>1, <1>2, PTL DEF Spec, NothingEvicted
<1>4. NodeUseInv => KeyNodeInUseIsLive
    BY DEF NodeUseInv
<1> QED BY <1>3, <1>4, NodesInUseLive, PTL
=============================================================================

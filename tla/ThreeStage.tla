----------------------------- MODULE ThreeStage -----------------------------
(***************************************************************************)
(* Three-stage sessions: HksServiceInit, HksServiceUpdate,                 *)
(* HksServiceFinish and HksServiceAbort (hks_client_service.c) on top of   *)
(* the service's operation list, and HksCoreInit, HksCoreUpdate,           *)
(* HksCoreFinish and HksCoreAbort                                          *)
(* (hks_core_service_key_operate_three_stage.c) on top of the engine's     *)
(* list of key nodes.  Requests run on several threads at once; a step is  *)
(* what a thread does between two points where another thread can see or   *)
(* change shared state.  Package and user removal events sweep the list    *)
(* with DeleteSessionByProcessInfo on a thread of their own.               *)
(*                                                                         *)
(* Data (keys, texts, results) is left out: a check or a cryptographic     *)
(* computation may succeed or fail.                                        *)
(***************************************************************************)
EXTENDS KeyNodes, SessionManager

CONSTANTS
    ClientCalls,   \* the calls clients make: a set of Calls
    BatchModes,    \* whether their Inits ask for a batch session
    BatchTimeout,  \* lifetime of a batch session, in ticks
    MaxTime        \* bound: ticks of the clock in a run

ASSUME TimeBounds ==
    /\ BatchTimeout \in Nat
    /\ MaxTime \in Nat
    /\ BatchModes \subseteq BOOLEAN
    /\ \A c \in Callers : c.token \in Tokens

VARIABLES
    now,       \* HksElapsedRealTime
    pc,        \* thread -> where its request stands
    req,       \* thread -> the request: arguments and local variables
    held,      \* thread -> operation pointer got from the query; 0 is NULL
    victim,    \* thread -> operation being evicted, or the sweep's cursor
    ptr,       \* thread -> key node pointer or handle in the engine; 0 is NULL
    usedAfterFree \* history: some thread has followed a pointer to a freed node

threadVars == <<pc, req, held, victim, ptr>>
vars == <<nodeVars, sessionVars, now, threadVars, usedAfterFree>>

NULL == 0

Calls == {"init", "update", "finish", "abort", "removeProcess", "removeUser"}

Labels ==
    {"idle",
     \* HksServiceInit
     "createKeyNode", "publish", "coreInit", "coreInitFail", "createOperation",
     "timeOut", "tokenLimit", "countLimit", "append", "evict",
     \* HksServiceUpdate, Finish, Abort
     "query", "checks", "coreQuery", "coreRun", "coreDelete",
     "unuse", "unuseThenDelete", "deleteOperation",
     \* HksServiceDeleteProcessInfo
     "lockSweep", "sweep"}

\* A thread at one of these labels owns g_lock.
LockedLabels == {"tokenLimit", "countLimit", "append", "evict", "sweep"}

\* A thread at one of these labels holds an operation it marked in use.
HoldingLabels ==
    {"checks", "coreQuery", "coreRun", "coreDelete", "unuse", "unuseThenDelete"}

Request ==
    [call : Calls, caller : Callers, handle : {NULL} \cup NodeIds, batch : BOOLEAN,
     deadline : Nat, cont : Labels]

\* What a thread between two requests has in its local variables.
NoRequest ==
    [call |-> "init", caller |-> CHOOSE c \in Callers : TRUE, handle |-> NULL,
     batch |-> FALSE, deadline |-> 0, cont |-> "idle"]

TypeOK ==
    /\ NodeTypeOK
    /\ SessionTypeOK
    /\ now \in Nat
    /\ pc \in [Threads -> Labels]
    /\ req \in [Threads -> Request]
    /\ held \in [Threads -> {NULL} \cup OpIds]
    /\ victim \in [Threads -> {NULL} \cup OpIds]
    /\ ptr \in [Threads -> {NULL} \cup NodeIds]
    /\ usedAfterFree \in BOOLEAN

Init ==
    /\ NodeInit
    /\ SessionInit
    /\ now = 0
    /\ pc = [t \in Threads |-> "idle"]
    /\ req = [t \in Threads |-> NoRequest]
    /\ held = [t \in Threads |-> NULL]
    /\ victim = [t \in Threads |-> NULL]
    /\ ptr = [t \in Threads |-> NULL]
    /\ usedAfterFree = FALSE

-----------------------------------------------------------------------------
Goto(t, l) == pc' = [pc EXCEPT ![t] = l]

Call(t, l, r) ==
    /\ pc[t] = "idle"
    /\ Goto(t, l)
    /\ req' = [req EXCEPT ![t] = r]
    /\ UNCHANGED <<nodeVars, sessionVars, now, held, victim, ptr, usedAfterFree>>

\* The request is answered; nothing of it stays with the thread.
Return(t) ==
    /\ Goto(t, "idle")
    /\ req' = [req EXCEPT ![t] = NoRequest]
    /\ held' = [held EXCEPT ![t] = NULL]
    /\ victim' = [victim EXCEPT ![t] = NULL]
    /\ ptr' = [ptr EXCEPT ![t] = NULL]

\* Thread t follows its pointer into the engine's memory.
Follow(t) == usedAfterFree' = (usedAfterFree \/ ptr[t] \notin g_keyNodeList)

Deadline(batch) == IF batch THEN now + BatchTimeout ELSE 0

-----------------------------------------------------------------------------
(* HksServiceInit: the engine's half, HksCoreInit.                         *)

CallInit(t) ==
    \E c \in Callers, b \in BatchModes :
        Call(t, "createKeyNode", [NoRequest EXCEPT !.caller = c, !.batch = b])

\* The checks, the key from storage or HksCreateKeyNode before AddKeyNode fail.
InitFails(t) ==
    /\ pc[t] = "createKeyNode"
    /\ Return(t)
    /\ UNCHANGED <<nodeVars, sessionVars, now, usedAfterFree>>

HksCreateKeyNode(t) ==
    /\ pc[t] = "createKeyNode"
    /\ AddKeyNode(req[t].caller.token, now)
    /\ ptr' = [ptr EXCEPT ![t] = nodesMade + 1]
    /\ Goto(t, "publish")
    /\ UNCHANGED <<sessionVars, now, req, held, victim, usedAfterFree>>

\* The node is in the list already when it gets its parameter sets.
PublishKeyNode(t) ==
    /\ pc[t] = "publish"
    /\ \E m \in Deref(ptr[t]) : PublishRuntimeParamSet(m, req[t].caller.token)
    /\ Follow(t)
    /\ Goto(t, "coreInit")
    /\ UNCHANGED <<sessionVars, now, req, held, victim, ptr>>

\* HksAddBatchTimeToKeyNode, then the checks and the algorithm's init; the
\* handle goes to the client as the node's memory has it.
HksCoreInit(t) ==
    /\ pc[t] = "coreInit"
    /\ \E m \in Deref(ptr[t]) :
          /\ HksAddBatchTimeToKeyNode(m, req[t].batch, Deadline(req[t].batch))
          /\ \/ /\ req' = [req EXCEPT ![t].handle = m]
                /\ ptr' = [ptr EXCEPT ![t] = NULL]
                /\ Goto(t, "createOperation")
             \/ /\ ptr' = [ptr EXCEPT ![t] = m]
                /\ Goto(t, "coreInitFail")
                /\ UNCHANGED req
    /\ Follow(t)
    /\ UNCHANGED <<sessionVars, now, held, victim>>

HksCoreInitFail(t) ==
    /\ pc[t] = "coreInitFail"
    /\ HksDeleteKeyNode(ptr[t])
    /\ Return(t)
    /\ UNCHANGED <<sessionVars, now, usedAfterFree>>

-----------------------------------------------------------------------------
(* HksServiceInit: the service's half, CreateOperation and AddOperation.   *)

\* Slip: the timeout is taken for the deadline.
CreateOperationNoClock(t) ==
    /\ pc[t] = "createOperation"
    /\ \/ /\ req' = [req EXCEPT ![t].deadline = BatchTimeout]
          /\ Goto(t, "timeOut")
          /\ UNCHANGED <<held, victim, ptr>>
       \/ Return(t)
    /\ UNCHANGED <<nodeVars, sessionVars, now, usedAfterFree>>

\* The deadline is taken before g_lock is.  Out of memory leaves the key
\* node without an operation.
CreateOperation(t) ==
    /\ pc[t] = "createOperation"
    /\ \/ /\ req' = [req EXCEPT ![t].deadline = Deadline(req[t].batch)]
          /\ Goto(t, "timeOut")
          /\ UNCHANGED <<held, victim, ptr>>
       \/ Return(t)
    /\ UNCHANGED <<nodeVars, sessionVars, now, usedAfterFree>>

\* Choose the first of S as the victim and look its key node up, as
\* HksCoreAbort does; resume at l when it is gone.  Without the memory for
\* its arguments DeleteKeyNode returns before it reaches the engine, and
\* the key node stays behind.
StartEvict(t, S, l) ==
    LET o == Min(S)
        h == operation[o].handle
    IN  /\ victim' = [victim EXCEPT ![t] = o]
        /\ \E p \in {NULL} \cup HksQueryKeyNode(h) : ptr' = [ptr EXCEPT ![t] = p]
        /\ req' = [req EXCEPT ![t].cont = l]
        /\ Goto(t, "evict")

\* The rest of DeleteKeyNodeAndDecreaseGlobalCount, under g_lock.
DeleteKeyNodeAndDecreaseGlobalCount(t) ==
    /\ pc[t] = "evict"
    /\ IF ptr[t] = NULL
       THEN UNCHANGED <<nodeVars, usedAfterFree>>
       ELSE HksDeleteKeyNode(operation[victim[t]].handle) /\ Follow(t)
    /\ FreeOperation(victim[t])
    /\ ptr' = [ptr EXCEPT ![t] = NULL]
    /\ Goto(t, req[t].cont)
    /\ UNCHANGED <<g_lock, now, req, held, victim>>

\* AddOperation takes g_lock and lets DeleteFirstTimeOutBatchOperation run.
DeleteFirstTimeOutBatchOperation(t) ==
    /\ pc[t] = "timeOut"
    /\ Lock(t)
    /\ \/ /\ TimedOutOperations(now) # {}
          /\ StartEvict(t, TimedOutOperations(now), "tokenLimit")
       \/ /\ TimedOutOperations(now) = {}
          /\ Goto(t, "tokenLimit")
          /\ UNCHANGED <<req, victim, ptr>>
    /\ UNCHANGED <<nodeVars, g_operationList, g_operationCount, operation,
                   operationsMade, now, held, usedAfterFree>>

\* Slip: the refusal returns without HksMutexUnlock.
EnforceLimitNoUnlock(t, exceeded, abortable, l) ==
    /\ \/ /\ ~exceeded
          /\ Goto(t, l)
          /\ UNCHANGED <<req, held, victim, ptr>>
       \/ /\ exceeded
          /\ abortable # {}
          /\ StartEvict(t, abortable, l)
          /\ UNCHANGED held
       \/ /\ exceeded
          /\ abortable = {}
          /\ Return(t)
    /\ UNCHANGED <<nodeVars, sessionVars, now, usedAfterFree>>

\* A limit of AddOperation: room below it, an idle operation to evict, or
\* HKS_ERROR_SESSION_REACHED_LIMIT, which leaves the key node behind.
EnforceLimit(t, exceeded, abortable, l) ==
    /\ \/ /\ ~exceeded
          /\ Goto(t, l)
          /\ UNCHANGED <<g_lock, req, held, victim, ptr>>
       \/ /\ exceeded
          /\ abortable # {}
          /\ StartEvict(t, abortable, l)
          /\ UNCHANGED <<g_lock, held>>
       \/ /\ exceeded
          /\ abortable = {}
          /\ Unlock
          /\ Return(t)
    /\ UNCHANGED <<nodeVars, g_operationList, g_operationCount, operation,
                   operationsMade, now, usedAfterFree>>

DeleteForTokenIdIfExceedLimit(t) ==
    /\ pc[t] = "tokenLimit"
    /\ EnforceLimit(t, TokenExceedsLimit(req[t].caller.token),
                    AbortableForToken(req[t].caller.token), "countLimit")

DeleteFirstAbortableOperation(t) ==
    /\ pc[t] = "countLimit"
    /\ EnforceLimit(t, g_operationCount >= MAX_OPERATIONS_COUNT,
                    AbortableOperations, "append")

AddOperation(t) ==
    /\ pc[t] = "append"
    /\ AppendOperation(req[t].caller, req[t].handle, req[t].batch, req[t].deadline)
    /\ Unlock
    /\ Return(t)
    /\ UNCHANGED <<nodeVars, now, usedAfterFree>>

-----------------------------------------------------------------------------
(* HksServiceUpdate, HksServiceFinish and HksServiceAbort.                 *)

CallSession(t) ==
    \E call \in ClientCalls \cap {"update", "finish", "abort"}, c \in Callers, h \in 1 .. nodesMade :
        Call(t, "query", [NoRequest EXCEPT !.call = call, !.caller = c, !.handle = h])

QueryOperationAndMarkInUse(t) ==
    LET found == Matching(req[t].caller, req[t].handle)
    IN  /\ pc[t] = "query"
        /\ g_lock = None
        /\ \/ /\ found # {}
              /\ Idle(Min(found))
              /\ SetInUse(Min(found), TRUE)
              /\ held' = [held EXCEPT ![t] = Min(found)]
              /\ Goto(t, "checks")
              /\ UNCHANGED <<req, victim, ptr>>
           \/ /\ found # {} => ~Idle(Min(found))
              /\ Return(t)
              /\ UNCHANGED <<g_operationList, g_operationCount, operation,
                             operationsMade>>
        /\ UNCHANGED <<nodeVars, g_lock, now, usedAfterFree>>

SameToken(t) == operation[held[t]].owner.token = req[t].caller.token

\* HksServiceCheckBatchUpdateTime fails.
BatchTimedOut(t) ==
    /\ operation[held[t]].isBatchOperation
    /\ operation[held[t]].batchOperationTimestamp < now

\* Slip: the tokens are not compared.
ChecksPassAnyToken(t) ==
    /\ pc[t] = "checks"
    /\ req[t].call = "update" => ~BatchTimedOut(t)
    /\ Goto(t, "coreQuery")
    /\ UNCHANGED <<nodeVars, sessionVars, now, req, held, victim, ptr, usedAfterFree>>

\* Update and Finish compare access tokens, Abort does not; only Update
\* looks at the batch deadline.
ChecksPass(t) ==
    /\ pc[t] = "checks"
    /\ req[t].call # "abort" => SameToken(t)
    /\ req[t].call = "update" => ~BatchTimedOut(t)
    /\ Goto(t, "coreQuery")
    /\ UNCHANGED <<nodeVars, sessionVars, now, req, held, victim, ptr, usedAfterFree>>

\* Slip: a failed check returns and forgets the operation.
ChecksFailAndReturn(t) ==
    /\ pc[t] = "checks"
    /\ Return(t)
    /\ UNCHANGED <<nodeVars, sessionVars, now, usedAfterFree>>

\* Update gives the operation back after a token or permission error and
\* ends it after a timeout; Abort keeps it after a permission error; Finish
\* ends it.  The key node is not touched.
ChecksFail(t) ==
    /\ pc[t] = "checks"
    /\ \/ /\ req[t].call = "abort"
          /\ Goto(t, "unuse")
       \/ /\ req[t].call = "update" /\ ~(SameToken(t) /\ BatchTimedOut(t))
          /\ Goto(t, "unuse")
       \/ /\ req[t].call = "update" /\ SameToken(t) /\ BatchTimedOut(t)
          /\ Goto(t, "unuseThenDelete")
       \/ /\ req[t].call = "finish" /\ SameToken(t)
          /\ Goto(t, "unuseThenDelete")
    /\ UNCHANGED <<nodeVars, sessionVars, now, req, held, victim, ptr, usedAfterFree>>

\* AppendAndQueryInFinish returns before it hands the operation out, so
\* HksServiceFinish does not know that there is one to give back.
FinishWithOtherToken(t) ==
    /\ pc[t] = "checks"
    /\ req[t].call = "finish"
    /\ ~SameToken(t)
    /\ Return(t)
    /\ UNCHANGED <<nodeVars, sessionVars, now, usedAfterFree>>

\* The engine looks the handle up; a refused parameter set or a missing
\* node ends the engine's work, and the session.
GetParamsForUpdateAndFinish(t) ==
    /\ pc[t] = "coreQuery"
    /\ \/ /\ HksQueryKeyNode(req[t].handle) # {}
          /\ ptr' = [ptr EXCEPT ![t] = req[t].handle]
          /\ Goto(t, "coreRun")
       \/ /\ Goto(t, "unuseThenDelete")
          /\ UNCHANGED ptr
    /\ UNCHANGED <<nodeVars, sessionVars, now, req, held, victim, usedAfterFree>>

\* HksBatchUpdate refuses a batch node that is out of time.
HksCoreUpdateSucceeds(t) ==
    /\ pc[t] = "coreRun"
    /\ req[t].call = "update"
    /\ \E m \in Deref(ptr[t]) :
          m \in g_keyNodeList /\ keyNode[m].isBatchOperation => keyNode[m].batchOperationTimestamp >= now
    /\ Follow(t)
    /\ ptr' = [ptr EXCEPT ![t] = NULL]
    /\ Goto(t, "unuse")
    /\ UNCHANGED <<nodeVars, sessionVars, now, req, held, victim>>

\* Some failures delete the handle of the request, the last one the handle
\* that the node's memory shows.
HksCoreUpdateFails(t) ==
    /\ pc[t] = "coreRun"
    /\ req[t].call = "update"
    /\ \E h \in {req[t].handle} \cup Deref(ptr[t]) : ptr' = [ptr EXCEPT ![t] = h]
    /\ Follow(t)
    /\ Goto(t, "coreDelete")
    /\ UNCHANGED <<nodeVars, sessionVars, now, req, held, victim>>

\* Every way through HksCoreFinish and HksCoreAbort deletes the node.
HksCoreFinishOrAbort(t) ==
    /\ pc[t] = "coreRun"
    /\ req[t].call \in {"finish", "abort"}
    /\ Follow(t)
    /\ Goto(t, "coreDelete")
    /\ UNCHANGED <<nodeVars, sessionVars, now, req, held, victim, ptr>>

CoreDelete(t) ==
    /\ pc[t] = "coreDelete"
    /\ HksDeleteKeyNode(ptr[t])
    /\ ptr' = [ptr EXCEPT ![t] = NULL]
    /\ Goto(t, "unuseThenDelete")
    /\ UNCHANGED <<sessionVars, now, req, held, victim, usedAfterFree>>

\* Slip: the flag is not reset.
MarkOperationStillInUse(t) ==
    /\ pc[t] \in {"unuse", "unuseThenDelete"}
    /\ IF pc[t] = "unuse"
       THEN Return(t)
       ELSE /\ held' = [held EXCEPT ![t] = NULL]
            /\ Goto(t, "deleteOperation")
            /\ UNCHANGED <<req, victim, ptr>>
    /\ UNCHANGED <<nodeVars, sessionVars, now, usedAfterFree>>

\* MarkOperationUnUse does not take g_lock.
MarkOperationUnUse(t) ==
    /\ pc[t] \in {"unuse", "unuseThenDelete"}
    /\ SetInUse(held[t], FALSE)
    /\ IF pc[t] = "unuse"
       THEN Return(t)
       ELSE /\ held' = [held EXCEPT ![t] = NULL]
            /\ Goto(t, "deleteOperation")
            /\ UNCHANGED <<req, victim, ptr>>
    /\ UNCHANGED <<nodeVars, g_lock, now, usedAfterFree>>

\* By handle alone, and not while somebody uses the operation again.
DeleteOperation(t) ==
    LET found == OpsWithHandle(req[t].handle)
    IN  /\ pc[t] = "deleteOperation"
        /\ g_lock = None
        /\ IF found # {} /\ Idle(Min(found))
           THEN FreeOperation(Min(found))
           ELSE UNCHANGED <<g_operationList, g_operationCount, operation,
                            operationsMade>>
        /\ Return(t)
        /\ UNCHANGED <<nodeVars, g_lock, now, usedAfterFree>>

-----------------------------------------------------------------------------
(* HksServiceDeleteProcessInfo: DeleteSessionByProcessInfo.                *)

CallRemove(t) ==
    \E call \in ClientCalls \cap {"removeProcess", "removeUser"}, c \in Callers :
        Call(t, "lockSweep", [NoRequest EXCEPT !.call = call, !.caller = c])

DeleteSessionByProcessInfo(t) ==
    /\ pc[t] = "lockSweep"
    /\ Lock(t)
    /\ Goto(t, "sweep")
    /\ UNCHANGED <<nodeVars, g_operationList, g_operationCount, operation,
                   operationsMade, now, req, held, victim, ptr, usedAfterFree>>

DeleteSession(t) ==
    LET rest == {o \in g_operationList : o > victim[t]}
        matches == SessionOf(req[t].caller, req[t].call = "removeUser", Min(rest))
    IN  /\ pc[t] = "sweep"
        /\ \/ /\ rest = {}
              /\ Unlock
              /\ Return(t)
           \/ /\ rest # {}
              /\ matches
              /\ StartEvict(t, rest, "sweep")
              /\ UNCHANGED <<g_lock, held>>
           \/ /\ rest # {}
              /\ ~matches
              /\ victim' = [victim EXCEPT ![t] = Min(rest)]
              /\ UNCHANGED <<g_lock, pc, req, held, ptr>>
        /\ UNCHANGED <<nodeVars, g_operationList, g_operationCount, operation,
                       operationsMade, now, usedAfterFree>>

-----------------------------------------------------------------------------
\* A request arrives on an idle thread.
Arrive(t) == CallInit(t) \/ CallSession(t) \/ CallRemove(t)

\* A thread goes on with its request.
Work(t) ==
    \/ InitFails(t) \/ HksCreateKeyNode(t) \/ PublishKeyNode(t)
    \/ HksCoreInit(t) \/ HksCoreInitFail(t) \/ CreateOperation(t)
    \/ DeleteFirstTimeOutBatchOperation(t) \/ DeleteForTokenIdIfExceedLimit(t)
    \/ DeleteFirstAbortableOperation(t) \/ AddOperation(t)
    \/ DeleteKeyNodeAndDecreaseGlobalCount(t)
    \/ QueryOperationAndMarkInUse(t) \/ ChecksPass(t)
    \/ ChecksFail(t) \/ FinishWithOtherToken(t)
    \/ GetParamsForUpdateAndFinish(t) \/ HksCoreUpdateSucceeds(t)
    \/ HksCoreUpdateFails(t) \/ HksCoreFinishOrAbort(t) \/ CoreDelete(t)
    \/ MarkOperationUnUse(t) \/ DeleteOperation(t)
    \/ DeleteSessionByProcessInfo(t) \/ DeleteSession(t)

Tick ==
    /\ now < MaxTime
    /\ now' = now + 1
    /\ UNCHANGED <<nodeVars, sessionVars, threadVars, usedAfterFree>>

Next == Tick \/ \E t \in Threads : Arrive(t) \/ Work(t)

Spec == Init /\ [][Next]_vars

(* A thread that has begun a request finishes it: every mutex is handed on *)
(* in the end to a thread that keeps asking (strong fairness), and no step *)
(* of a request waits for anything else.                                   *)
Fairness == \A t \in Threads : SF_vars(Work(t))

FairSpec == Spec /\ Fairness

-----------------------------------------------------------------------------
(* Properties.                                                             *)

(* Every HksOperation pointer a thread keeps outside g_lock is good: the   *)
(* operation has not been freed, is marked in use, and no second thread    *)
(* got it.  MarkOperationUnUse writes through that pointer without the     *)
(* lock, so this is what makes it safe.  A victim chosen for eviction is   *)
(* still there, and still unused, when it is freed.                        *)
OperationPointersGood ==
    /\ \A t \in Threads : pc[t] \in HoldingLabels =>
          /\ held[t] \in g_operationList
          /\ operation[held[t]].isInUse
          /\ \A u \in Threads \ {t} : pc[u] \in HoldingLabels => held[u] # held[t]
    /\ \A t \in Threads : pc[t] = "evict" =>
          /\ victim[t] \in g_operationList
          /\ Idle(victim[t])

(* g_lock is owned exactly by the thread that is inside AddOperation or    *)
(* DeleteSessionByProcessInfo, evictions included, and an eviction resumes *)
(* inside the same hold of the lock.                                       *)
LockHeld ==
    /\ \A t \in Threads : g_lock = t <=> pc[t] \in LockedLabels
    /\ \A t \in Threads :
          pc[t] = "evict" => req[t].cont \in LockedLabels \ {"evict"}

(* What AddOperation has established for its caller when it comes to each  *)
(* of its steps: no other thread spoils it, because none can append or     *)
(* free an operation while g_lock is held.                                 *)
RoomMade ==
    \A t \in Threads : LET token == req[t].caller.token IN
        /\ \/ pc[t] \in {"countLimit", "append"}
           \/ pc[t] = "evict" /\ req[t].cont = "append"
           => Cardinality(OpsOfToken(token)) < MAX_OPERATIONS_EACH_TOKEN_ID
        /\ pc[t] = "append" => g_operationCount < MAX_OPERATIONS_COUNT
        /\ pc[t] = "evict" /\ req[t].cont = "countLimit"
           => victim[t] \in OpsOfToken(token)

(* The inductive invariant behind the safety properties of the lists.      *)
InductiveInvariant ==
    /\ TypeOK
    /\ NodeCountExact
    /\ SessionLimits
    /\ LockHeld
    /\ OperationPointersGood
    /\ RoomMade

(* An operation marked in use belongs to a running request, so that it     *)
(* becomes free for eviction and for its client again.  Holds as long as   *)
(* no two callers of one process carry different tokens.                   *)
InUseMeansHeld ==
    \A o \in g_operationList : operation[o].isInUse =>
        \E t \in Threads : pc[t] \in HoldingLabels /\ held[t] = o

(* The engine counts a token's nodes through their runtimeParamSet, which  *)
(* HksCreateKeyNode sets after AddKeyNode let go of the mutex: nodes that  *)
(* are just being created escape the count.  The limit can be overrun by   *)
(* at most one node for each other thread.                                 *)
NodesPerToken ==
    \A k \in Tokens :
        Cardinality(NodesOf(g_keyNodeList, k))
            <= MAX_KEY_NODES_EACH_TOKEN_ID + Cardinality(Threads) - 1

(* A thread inside HksCoreInit, HksCoreUpdate, HksCoreFinish or            *)
(* HksCoreAbort uses a key node that is still in the list.  Holds as long  *)
(* as AddKeyNode has nothing to evict.                                     *)
KeyNodeInUseIsLive ==
    \A t \in Threads :
        pc[t] \in {"publish", "coreInit", "coreRun"} => ptr[t] \in g_keyNodeList

(* Update and Finish run on a key node that the caller's own token         *)
(* opened: handle, process and token were compared against the service's   *)
(* operation, several steps before the engine looked its own node up.      *)
OnlyOwnKeyNode ==
    ~usedAfterFree =>
        \A t \in Threads :
            /\ pc[t] = "coreRun"
            /\ req[t].call \in {"update", "finish"}
            /\ ptr[t] \in g_keyNodeList
            => keyNode[ptr[t]].token = req[t].caller.token

(* The engine's deadline of a batch session is never later than the        *)
(* service's, so a node left behind when the service drops a timed-out     *)
(* operation is one that DeleteFirstTimeOutBatchKeyNode may take.          *)
EngineDeadlineFirst ==
    ~usedAfterFree =>
        \A o \in g_operationList : LET h == operation[o].handle IN
            operation[o].isBatchOperation /\ h \in g_keyNodeList =>
                /\ keyNode[h].isBatchOperation
                /\ keyNode[h].batchOperationTimestamp
                      <= operation[o].batchOperationTimestamp

(* Why these two hold: as long as nobody has followed a dangling pointer,  *)
(* the thread that makes a key node is alone with it until its handle is   *)
(* known, and from then on node, request and operation agree.              *)
Making(t) == pc[t] \in {"publish", "coreInit"}
Binding(t) ==
    \/ pc[t] \in {"createOperation", "timeOut", "tokenLimit", "countLimit", "append"}
    \/ pc[t] = "evict" /\ req[t].cont # "sweep"

Names(t, n) ==
    \/ Making(t) /\ ptr[t] = n
    \/ Binding(t) /\ req[t].handle = n
Known(t, n) ==
    \/ \E o \in g_operationList : operation[o].handle = n
    \/ \E u \in Threads \ {t} : Names(u, n)
NodesMadeOnce ==
    /\ \A o \in g_operationList : operation[o].handle <= nodesMade
    /\ \A t \in Threads : Binding(t) => req[t].handle <= nodesMade
    /\ \A t \in Threads : Making(t) => ptr[t] \in 1 .. nodesMade /\ ~Known(t, ptr[t])

NodeIs(n, token, batch, deadline) ==
    n \in g_keyNodeList =>
        /\ keyNode[n].token = token
        /\ keyNode[n].isBatchOperation = batch
        /\ batch => keyNode[n].batchOperationTimestamp <= deadline
Due(t) == IF pc[t] = "createOperation" THEN now + BatchTimeout ELSE req[t].deadline
NodesFit ==
    /\ \A o \in g_operationList :
          NodeIs(operation[o].handle, operation[o].owner.token, operation[o].isBatchOperation,
                 operation[o].batchOperationTimestamp)
    /\ \A t \in Threads : Binding(t) =>
          NodeIs(req[t].handle, req[t].caller.token, req[t].batch, Due(t))
    /\ \A t \in Threads : pc[t] = "coreInit" /\ ptr[t] \in g_keyNodeList =>
          keyNode[ptr[t]].token = req[t].caller.token

(* The operation that a request holds is the one it asked for.             *)
HeldFits(t) ==
    /\ pc[t] \in {"checks", "coreQuery", "coreRun"} =>
          /\ operation[held[t]].handle = req[t].handle
          /\ IsSameProcess(req[t].caller, held[t])
    /\ pc[t] \in {"coreQuery", "coreRun"} /\ req[t].call # "abort" => SameToken(t)
    /\ pc[t] = "coreRun" => ptr[t] = req[t].handle

HandleInv ==
    /\ \A t \in Threads : HeldFits(t)
    /\ ~usedAfterFree => NodesMadeOnce /\ NodesFit

(* Why NodesPerToken holds: a node is taken out for each one that is added *)
(* above the limit, whoever still has to publish its own.                  *)
Publishing(k) == {t \in Threads : pc[t] = "publish" /\ req[t].caller.token = k}
NodesAndPending ==
    \A k \in Tokens :
        Cardinality(NodesOf(g_keyNodeList, k)) + Cardinality(Publishing(k))
            <= MAX_KEY_NODES_EACH_TOKEN_ID + Cardinality(Threads) - 1

(* Why KeyNodeInUseIsLive holds while AddKeyNode has nothing to evict: a   *)
(* handle belongs to one operation or to the one request that makes or     *)
(* gives up its node, so the one who deletes a node is the one who has it. *)
NothingEvicted ==
    [][\A t \in Threads : pc[t] = "createKeyNode" /\ pc'[t] = "publish" =>
          g_keyNodeList \subseteq g_keyNodeList']_vars

Owner(t) == Making(t) \/ Binding(t) \/ pc[t] = "coreInitFail"
Own(t) == IF Binding(t) THEN req[t].handle ELSE ptr[t]
HandlesApart ==
    /\ \A o, p \in g_operationList : operation[o].handle = operation[p].handle => o = p
    /\ \A o \in g_operationList : operation[o].handle \in 1 .. nodesMade
    /\ \A t \in Threads : Owner(t) =>
          /\ Own(t) \in 1 .. nodesMade
          /\ \A o \in g_operationList : operation[o].handle # Own(t)
          /\ \A u \in Threads \ {t} : Owner(u) => Own(u) # Own(t)
DeletesOwn(t) ==
    /\ pc[t] = "coreDelete" => ptr[t] = operation[held[t]].handle
    /\ pc[t] = "evict" /\ ptr[t] # NULL =>
          ptr[t] = operation[victim[t]].handle /\ ptr[t] \in g_keyNodeList

NodeUseInv ==
    /\ ~usedAfterFree
    /\ KeyNodeInUseIsLive
    /\ HandlesApart
    /\ \A t \in Threads : DeletesOwn(t)

(* AddOperation never answers HKS_ERROR_SESSION_REACHED_LIMIT: some        *)
(* operation is always idle when the limits are not below the number of    *)
(* threads and every in-use operation belongs to a running request.        *)
InitNeverRefused ==
    [][\A t \in Threads :
          pc[t] \in {"tokenLimit", "countLimit"} => pc'[t] # "idle"]_vars

(* The operation list is the set of open sessions of the abstract          *)
(* specification, isInUse its busy sessions.  So for the client the list   *)
(* behaves as if sessions were opened, used and closed one at a time,      *)
(* within the limits, and no session is taken away from a running request. *)
Abstract ==
    INSTANCE Sessions WITH
        Owners <- Tokens,
        Capacity <- MAX_OPERATIONS_COUNT,
        Quota <- MAX_OPERATIONS_EACH_TOKEN_ID,
        open <- g_operationList,
        busy <- {o \in g_operationList : operation[o].isInUse},
        owner <- [o \in g_operationList |-> operation[o].owner.token],
        opened <- operationsMade

ImplementsSessions == Abstract!AbsSpec

(* Every request is answered.                                              *)
RequestsComplete == \A t \in Threads : pc[t] # "idle" ~> pc[t] = "idle"
=============================================================================

--------------------------- MODULE SessionManager ---------------------------
(***************************************************************************)
(* The service's list of operations (hks_session_manager.c).  An operation *)
(* is the service's half of a three-stage session: who opened it, under    *)
(* which handle, whether a request is using it now, and when a batch       *)
(* session runs out.  The list is guarded by g_lock, which AddOperation    *)
(* and DeleteSessionByProcessInfo hold while they call into the engine.    *)
(*                                                                         *)
(* Operations are numbered in the order they are appended, so list order   *)
(* is numerical order; a freed operation keeps its number.                 *)
(***************************************************************************)
EXTENDS FiniteSetsExt

CONSTANTS
    MAX_OPERATIONS_COUNT,          \* 32 in the source
    MAX_OPERATIONS_EACH_TOKEN_ID,  \* 10 in the source
    Callers,       \* process infos: records with fields user, name, token
    Threads,       \* the service's request threads
    None,          \* no thread owns g_lock
    MaxOperations  \* bound: operations created in a run

ASSUME OperationLimits ==
    /\ MAX_OPERATIONS_COUNT \in Nat \ {0}
    /\ MAX_OPERATIONS_EACH_TOKEN_ID \in Nat \ {0}
    /\ MaxOperations \in Nat
    /\ None \notin Threads
    /\ IsFiniteSet(Threads)
    /\ Callers # {}

VARIABLES
    g_operationList,   \* the numbers of the operations in the list
    g_operationCount,  \* the counter kept beside the list
    operation,         \* number -> contents of the operation
    operationsMade,    \* operations appended so far
    g_lock             \* the thread that owns the mutex, or None

sessionVars ==
    <<g_operationList, g_operationCount, operation, operationsMade, g_lock>>

OpIds == 1 .. MaxOperations

HksOperation ==
    [owner : Callers, handle : Nat, isInUse : BOOLEAN,
     isBatchOperation : BOOLEAN, batchOperationTimestamp : Nat]

\* Memory that is an operation no more, or not yet.
Freed ==
    [owner |-> CHOOSE c \in Callers : TRUE, handle |-> 0, isInUse |-> FALSE,
     isBatchOperation |-> FALSE, batchOperationTimestamp |-> 0]

SessionTypeOK ==
    /\ g_operationList \subseteq 1 .. operationsMade
    /\ g_operationCount \in Nat
    /\ operationsMade \in 0 .. MaxOperations
    /\ operation \in [OpIds -> HksOperation]
    /\ g_lock \in Threads \cup {None}

SessionInit ==
    /\ g_operationList = {}
    /\ g_operationCount = 0
    /\ operation = [o \in OpIds |-> Freed]
    /\ operationsMade = 0
    /\ g_lock = None

-----------------------------------------------------------------------------
(* Searches.  The first operation of a set is its smallest number.         *)

IsSameProcess(c, o) ==
    /\ c.name = operation[o].owner.name
    /\ c.user = operation[o].owner.user

Idle(o) == ~operation[o].isInUse

OpsWithHandle(h) == {o \in g_operationList : operation[o].handle = h}

OpsOfToken(token) == {o \in g_operationList : operation[o].owner.token = token}

\* DeleteFirstTimeOutBatchOperation: the operations it may take.
TimedOutOperations(now) ==
    {o \in g_operationList : /\ g_operationCount >= MAX_OPERATIONS_COUNT
                             /\ operation[o].isBatchOperation
                             /\ operation[o].batchOperationTimestamp < now
                             /\ Idle(o)}

\* Slip: the limit itself is let pass.
TokenExceedsLimitLate(token) ==
    /\ g_operationCount >= MAX_OPERATIONS_EACH_TOKEN_ID
    /\ Cardinality(OpsOfToken(token)) > MAX_OPERATIONS_EACH_TOKEN_ID

\* DeleteForTokenIdIfExceedLimit: the shortcut on the global counter first.
TokenExceedsLimit(token) ==
    /\ g_operationCount >= MAX_OPERATIONS_EACH_TOKEN_ID
    /\ Cardinality(OpsOfToken(token)) >= MAX_OPERATIONS_EACH_TOKEN_ID

\* Slip: isInUse is not looked at.
AnyOfToken(token) == OpsOfToken(token)

AbortableForToken(token) == {o \in OpsOfToken(token) : Idle(o)}

AbortableOperations == {o \in g_operationList : Idle(o)}

\* The operation a query finds: handle, process name and user id agree.
Matching(c, h) == {o \in OpsWithHandle(h) : IsSameProcess(c, o)}

\* Slip: isInUse is not looked at.
SessionOfInUse(c, wholeUser, o) ==
    /\ c.user = operation[o].owner.user
    /\ wholeUser \/ IsSameProcess(c, o)

\* DeleteSession: by user id alone, or by user id and process name.
SessionOf(c, wholeUser, o) ==
    /\ Idle(o)
    /\ c.user = operation[o].owner.user
    /\ wholeUser \/ IsSameProcess(c, o)

-----------------------------------------------------------------------------
(* Updates.                                                                *)

Lock(t) ==
    /\ g_lock = None
    /\ g_lock' = t

Unlock == g_lock' = None

\* AddNodeAtDoubleListTail and ++g_operationCount.
AppendOperation(c, h, batch, deadline) ==
    /\ operationsMade < MaxOperations
    /\ operationsMade' = operationsMade + 1
    /\ g_operationList' = g_operationList \cup {operationsMade + 1}
    /\ g_operationCount' = g_operationCount + 1
    /\ operation' = [operation EXCEPT ![operationsMade + 1] =
                        [owner |-> c, handle |-> h, isInUse |-> FALSE,
                         isBatchOperation |-> batch,
                         batchOperationTimestamp |-> deadline]]

\* FreeOperation and --g_operationCount.
FreeOperation(o) ==
    /\ g_operationList' = g_operationList \ {o}
    /\ g_operationCount' = g_operationCount - 1
    /\ operation' = [operation EXCEPT ![o] = Freed]
    /\ UNCHANGED operationsMade

SetInUse(o, used) ==
    /\ operation' = [operation EXCEPT ![o].isInUse = used]
    /\ UNCHANGED <<g_operationList, g_operationCount, operationsMade>>

-----------------------------------------------------------------------------
(* The counter agrees with the list, the list stays within                 *)
(* MAX_OPERATIONS_COUNT, and no token ever owns more than                  *)
(* MAX_OPERATIONS_EACH_TOKEN_ID of it: the checks of AddOperation and its  *)
(* append happen under one hold of g_lock, over up to three evictions,     *)
(* while other threads give back their operations without the lock.        *)
SessionLimits ==
    /\ g_operationCount = Cardinality(g_operationList)
    /\ g_operationCount <= MAX_OPERATIONS_COUNT
    /\ \A c \in Callers :
          Cardinality(OpsOfToken(c.token)) <= MAX_OPERATIONS_EACH_TOKEN_ID
=============================================================================

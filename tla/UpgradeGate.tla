---------------------------- MODULE UpgradeGate -----------------------------
(***************************************************************************)
(* The start of the service and the gate that keeps requests and system    *)
(* events out of it while key files are transferred: the condition of the  *)
(* power-on upgrade (hks_condition.c), the lock that a request holds for   *)
(* reading and a transfer for writing (hks_upgrade_lock.cpp), OnStart and  *)
(* OnStop (hks_sa.cpp), and the threads that pass the gate                 *)
(* (OnRemoteRequest, OnReceiveEvent) and may start a transfer themselves   *)
(* (HksUpgradeOnUserUnlock, HksTransferFileIfNeed).                        *)
(***************************************************************************)
EXTENDS FileTransfer

CONSTANTS
    Threads,     \* IPC and event threads
    Main,        \* the thread that runs OnStart and OnStop
    Nobody,
    InitMayFail, \* whether HksServiceInitialize or Publish may fail
    MaxCrashes,  \* bound: restarts of the process in a run
    MaxStops     \* bound: calls of OnStop in a run

ASSUME GateAssumption ==
    /\ Main \notin Threads /\ Nobody \notin Threads \cup {Main}
    /\ InitMayFail \in BOOLEAN
    /\ MaxCrashes \in Nat
    /\ MaxStops \in Nat

VARIABLES
    start,             \* where OnStart is
    condition,         \* g_powerOnUpgradeCondition
    gate,              \* g_upgradeOrRequestLock: readers, writer, waiting writers
    published,         \* clients can reach the service
    pc, job,           \* thread -> where it is, what it does
    g_isCeUpgradeSucc,
    crashes, stops

gateVars == <<start, condition, gate, published, pc, job, g_isCeUpgradeSucc>>
vars == <<transferVars, gateVars, crashes, stops>>

Jobs == [type : {"request"}, level : {"ce", "de"}, user : Users]
          \cup [type : {"unlock"}, level : {"ce"}, user : Users]
NoJob == [type |-> "none", level |-> "de", user |-> FirstUser]

Open == [readers |-> {}, writer |-> Nobody, waiting |-> {}]

TypeOK ==
    /\ file \in [Keys -> [Places -> Contents]]
    /\ tmpDir \in BOOLEAN /\ copyFailed \in BOOLEAN
    /\ unlocked \subseteq Users /\ g_frontUserId \in Users
    /\ walk \in Walks
    /\ walk.key # NoKey <=> walk.at \in {"open", "write", "unlink"}
    /\ faults \in 0 .. MaxFaults
    /\ start \in {"no", "copy", "remove", "condition", "lock", "init",
                  "upgrade", "notify", "running", "failed"}
    /\ condition \in {"null", "unset", "notified"}
    /\ gate \in [readers : SUBSET Threads, writer : Threads \cup {Main, Nobody},
                 waiting : SUBSET (Threads \cup {Main})]
    /\ published \in BOOLEAN /\ g_isCeUpgradeSucc \in BOOLEAN
    /\ pc \in [Threads -> {"idle", "check", "sleep", "lock", "in", "wlock",
                           "transfer", "relock", "serve"}]
    /\ job \in [Threads -> Jobs \cup {NoJob}]
    /\ crashes \in 0 .. MaxCrashes /\ stops \in 0 .. MaxStops

Init ==
    /\ TransferInit
    /\ start = "no"
    /\ condition = "null"
    /\ gate = Open
    /\ published = FALSE
    /\ pc = [t \in Threads |-> "idle"]
    /\ job = [t \in Threads |-> NoJob]
    /\ g_isCeUpgradeSucc = FALSE
    /\ crashes = 0
    /\ stops = 0

----------------------------------------------------------------------------
(* The lock lets no reader in while a writer waits.                        *)

LockRead(t) ==
    /\ gate.writer = Nobody /\ gate.waiting = {}
    /\ gate' = [gate EXCEPT !.readers = @ \cup {t}]
Ask(t) == gate' = [gate EXCEPT !.waiting = @ \cup {t}]
LockWrite(t) ==
    /\ gate.writer = Nobody /\ gate.readers = {} /\ t \in gate.waiting
    /\ gate' = [gate EXCEPT !.writer = t, !.waiting = @ \ {t}]
UnLockWrite == gate' = [gate EXCEPT !.writer = Nobody]

----------------------------------------------------------------------------
(* OnStart and OnStop.                                                     *)

OnStart ==
    /\ start = "no"
    /\ start' = "copy"
    /\ UNCHANGED <<transferVars, condition, gate, published, pc, job,
                   g_isCeUpgradeSucc, crashes, stops>>

MoveDirectoryTree ==
    /\ \/ start = "copy" /\ CopyTree /\ start' = "remove"
       \/ start = "copy" /\ CopyTreeFails /\ start' = "condition"
       \/ start = "remove" /\ RemoveTree /\ start' = "condition"
    /\ UNCHANGED <<condition, gate, published, pc, job, g_isCeUpgradeSucc,
                   crashes, stops>>

\* HksProcessConditionCreate, and asking for the write lock.
ProcessConditionCreate ==
    /\ start = "condition"
    /\ \/ InitMayFail /\ start' = "failed" /\ condition' = "null" /\ UNCHANGED gate
       \/ start' = "lock" /\ condition' = "unset" /\ Ask(Main)
    /\ UNCHANGED <<transferVars, published, pc, job, g_isCeUpgradeSucc, crashes, stops>>

LockBeforeInit ==
    /\ start = "lock" /\ LockWrite(Main)
    /\ start' = "init"
    /\ UNCHANGED <<transferVars, condition, published, pc, job,
                   g_isCeUpgradeSucc, crashes, stops>>

\* Init publishes the service; when it fails, OnStart returns.
InitService ==
    /\ start = "init"
    /\ \/ /\ InitMayFail
          /\ start' = "failed"
          /\ UnLockWrite
          /\ UNCHANGED <<published, walk, transferVars>>
       \/ /\ start' = "upgrade"
          /\ published' = TRUE
          /\ BeginTransfer(g_frontUserId)
          /\ UNCHANGED gate
    /\ UNCHANGED <<condition, pc, job, g_isCeUpgradeSucc, crashes, stops>>

PowerOnUpgraded ==
    /\ start = "upgrade" /\ EndTransfer
    /\ start' = "notify"
    /\ UnLockWrite
    /\ UNCHANGED <<condition, published, pc, job, g_isCeUpgradeSucc, crashes, stops>>

\* Slip: pthread_cond_signal for pthread_cond_broadcast.
NotifyOne ==
    /\ start = "notify"
    /\ start' = "running"
    /\ condition' = "notified"
    /\ \/ \E t \in Threads : pc[t] = "sleep" /\ pc' = [pc EXCEPT ![t] = "lock"]
       \/ (\A t \in Threads : pc[t] # "sleep") /\ UNCHANGED pc
    /\ UNCHANGED <<transferVars, gate, published, job, g_isCeUpgradeSucc, crashes, stops>>

\* HksUpgradeOnPowerOnDoneNotifyAll wakes every thread that sleeps.
NotifyAll ==
    /\ start = "notify"
    /\ start' = "running"
    /\ condition' = "notified"
    /\ pc' = [t \in Threads |-> IF pc[t] = "sleep" THEN "lock" ELSE pc[t]]
    /\ UNCHANGED <<transferVars, gate, published, job, g_isCeUpgradeSucc, crashes, stops>>

\* The condition that was notified stays until OnStart creates another.
OnStop ==
    /\ start = "running" /\ stops < MaxStops
    /\ start' = "no"
    /\ stops' = stops + 1
    /\ UNCHANGED <<transferVars, condition, gate, published, pc, job,
                   g_isCeUpgradeSucc, crashes>>

----------------------------------------------------------------------------
(* The threads.                                                            *)

Goes(t, from, to) == pc[t] = from /\ pc' = [pc EXCEPT ![t] = to]

\* The device unlocks a user's directory (external).
Unlock ==
    /\ \E u \in Users \ unlocked : unlocked' = unlocked \cup {u}
    /\ UNCHANGED <<file, tmpDir, g_frontUserId, walk, faults, copyFailed,
                   gateVars, crashes, stops>>

\* A request or an event reaches the service.
Arrive(t) ==
    /\ published
    /\ Goes(t, "idle", "check")
    /\ \E j \in Jobs :
         /\ j.type = "unlock" => j.user \in unlocked
         /\ job' = [job EXCEPT ![t] = j]
    /\ UNCHANGED <<transferVars, start, condition, gate, published,
                   g_isCeUpgradeSucc, crashes, stops>>

Leave(t) == pc' = [pc EXCEPT ![t] = "idle"] /\ job' = [job EXCEPT ![t] = NoJob]

\* HksWaitIfPowerOnUpgrading: without a condition the request is refused.
WaitIfPowerOnUpgrading(t) ==
    /\ \/ condition = "null" /\ pc[t] = "check" /\ Leave(t)
       \/ condition = "unset" /\ Goes(t, "check", "sleep") /\ UNCHANGED job
       \/ condition = "notified" /\ Goes(t, "check", "lock") /\ UNCHANGED job
    /\ UNCHANGED <<transferVars, start, condition, gate, published,
                   g_isCeUpgradeSucc, crashes, stops>>

\* pthread_cond_wait may return without a notification, and is not repeated.
WakeEarly(t) ==
    /\ Goes(t, "sleep", "lock")
    /\ UNCHANGED <<transferVars, start, condition, gate, published, job,
                   g_isCeUpgradeSucc, crashes, stops>>

ReadGuard(t) ==
    /\ Goes(t, "lock", "in")
    /\ LockRead(t)
    /\ UNCHANGED <<transferVars, start, condition, published, job,
                   g_isCeUpgradeSucc, crashes, stops>>

\* HksTransferFileIfNeed: the first request of the process, whatever it is
\* for, uses up the flag.
TransfersFirst(t) ==
    /\ job[t].type = "request" /\ ~g_isCeUpgradeSucc
    /\ job[t].level = "ce" /\ job[t].user \in unlocked

\* Inside: an unlock event, or the first request, gives up the read lock and
\* asks for the write lock (HksUpgradeOnUserUnlock); the others go on.
Handle(t) ==
    /\ g_isCeUpgradeSucc' = (g_isCeUpgradeSucc \/ job[t].type = "request")
    /\ IF job[t].type = "unlock" \/ TransfersFirst(t)
         THEN /\ Goes(t, "in", "wlock")
              /\ gate' = [gate EXCEPT !.readers = @ \ {t}, !.waiting = @ \cup {t}]
         ELSE Goes(t, "in", "serve") /\ UNCHANGED gate
    /\ UNCHANGED <<transferVars, start, condition, published, job, crashes, stops>>

\* HksUpgradeFileTransferOnUserUnlock, under the write lock.
WriteGuard(t) ==
    /\ Goes(t, "wlock", "transfer")
    /\ LockWrite(t)
    /\ BeginTransfer(job[t].user)
    /\ UNCHANGED <<start, condition, published, job, g_isCeUpgradeSucc, crashes, stops>>

UserUnlockUpgraded(t) ==
    /\ Goes(t, "transfer", "relock")
    /\ EndTransfer
    /\ UnLockWrite
    /\ UNCHANGED <<start, condition, published, job, g_isCeUpgradeSucc, crashes, stops>>

\* Slip: the event goes on without taking the read lock back.
ReadGuardForgotten(t) ==
    /\ Goes(t, "relock", "serve")
    /\ UNCHANGED <<transferVars, start, condition, gate, published, job,
                   g_isCeUpgradeSucc, crashes, stops>>

ReadGuardAgain(t) ==
    /\ Goes(t, "relock", "serve")
    /\ LockRead(t)
    /\ UNCHANGED <<transferVars, start, condition, published, job,
                   g_isCeUpgradeSucc, crashes, stops>>

\* The rest of the request or event: the read guard goes at its end.
Serve(t) ==
    /\ pc[t] = "serve"
    /\ Leave(t)
    /\ gate' = [gate EXCEPT !.readers = @ \ {t}]
    /\ UNCHANGED <<transferVars, start, condition, published,
                   g_isCeUpgradeSucc, crashes, stops>>

Transfer ==
    /\ TransferStep
    /\ UNCHANGED <<gateVars, crashes, stops>>

----------------------------------------------------------------------------
\* The process ends and starts anew: files stay, in the middle of a copy in
\* part copied; after a restart of the device the users are locked again.
Crash ==
    /\ crashes < MaxCrashes
    /\ crashes' = crashes + 1
    /\ \/ UNCHANGED file
       \/ start = "copy" /\ PartOfCopy
       \/ start = "remove" /\ \E s \in SUBSET OldKeys : file' = Removed(s)
    /\ unlocked' \in {unlocked, {}}
    /\ g_frontUserId' = FirstUser
    /\ walk' = NoWalk
    /\ start' = "no"
    /\ condition' = "null"
    /\ gate' = Open
    /\ published' = FALSE
    /\ pc' = [t \in Threads |-> "idle"]
    /\ job' = [t \in Threads |-> NoJob]
    /\ g_isCeUpgradeSucc' = FALSE
    /\ UNCHANGED <<tmpDir, faults, copyFailed, stops>>

MainStep == \/ OnStart \/ MoveDirectoryTree \/ ProcessConditionCreate
            \/ LockBeforeInit \/ InitService \/ PowerOnUpgraded \/ NotifyAll
ThreadStep(t) ==
    \/ WaitIfPowerOnUpgrading(t) \/ ReadGuard(t) \/ Handle(t) \/ WriteGuard(t)
    \/ UserUnlockUpgraded(t) \/ ReadGuardAgain(t) \/ Serve(t)

Next ==
    \/ MainStep \/ OnStop \/ Transfer \/ Unlock \/ Crash
    \/ \E t \in Threads : Arrive(t) \/ WakeEarly(t) \/ ThreadStep(t)

Spec == Init /\ [][Next]_vars

\* The system runs the start and every thread on; a thread that asks for the
\* lock again and again gets it (the lock serves its waiters).
FairSpec ==
    /\ Spec
    /\ WF_vars(MainStep) /\ WF_vars(Transfer)
    /\ \A t \in Threads : SF_vars(ThreadStep(t))

----------------------------------------------------------------------------
\* No request and no event is at work while key files are transferred, also
\* when it woke up early or came before the end of the power-on upgrade.
NobodyInsideTransfer ==
    walk # NoWalk =>
      /\ \A t \in Threads : pc[t] \notin {"in", "serve"}
      /\ gate.writer # Nobody

\* No fault, no crash and no order of transfers loses a key: a readable copy
\* is left, or a file cut off at the new place hides it (never an rdb key,
\* whose new file is written again).
KeyKept ==
    \A k \in Keys :
      \/ \E p \in Places : file[k][p] = "good"
      \/ KeyKind[k] # "rdb" /\ faults + crashes > 0 /\ \E p \in {"de"} \cup Users : file[k][p] = "torn"

\* A key is left behind in a directory that nothing reads any more only
\* after a copy of the directory tree failed.
NotStranded ==
    \A k \in Keys : tmpDir /\ ~copyFailed =>
      \E p \in {"tmp", "de"} \cup Users : file[k][p] # "none"

\* Every request and every event leaves the service again, unless OnStart
\* failed and will never notify.
RequestsComplete ==
    \A t \in Threads : (pc[t] # "idle") ~> (pc[t] = "idle" \/ start = "failed")

\* The unlock of a user whose handler gets to the transfer brings the user's
\* keys out of the temporary directory, unless a file operation fails.
UnlockTransfers ==
    \A t \in Threads, k \in Keys :
      (pc[t] = "wlock" /\ KeyKind[k] = "ce" /\ job[t].user = KeyUser[k])
        ~> (file[k]["tmp"] = "none" \/ faults > 0 \/ crashes > 0)

----------------------------------------------------------------------------
(* Why the safety properties hold.                                         *)

\* The lock is held by those who are inside, and by one writer alone.
LockFits ==
    /\ gate.readers # {} => gate.writer = Nobody
    /\ \A t \in Threads :
         /\ t \in gate.readers <=> pc[t] \in {"in", "serve"}
         /\ t \in gate.waiting <=> pc[t] = "wlock"
         /\ gate.writer = t <=> pc[t] = "transfer"
         /\ pc[t] # "idle" => published
    /\ Main \in gate.waiting <=> start = "lock"
    /\ gate.writer = Main <=> start \in {"init", "upgrade"}
    /\ start \in {"upgrade", "notify", "running"} => published

\* Only the writer transfers files.
Transferring == walk.at # "none"
WalkFits ==
    /\ Transferring <=> (start = "upgrade" \/ \E t \in Threads : pc[t] = "transfer")
    /\ ~Transferring => walk = NoWalk
    /\ Transferring => walk.from \in {"tmp"} \cup Users

\* The file at which the walk is has a good copy where it comes from, and is
\* in part or in full at another place after fopen and the write.
AtFile(k) == walk.key = k /\ walk.at \in {"open", "write", "unlink"}
CopyFits(k) ==
    AtFile(k) =>
      /\ file[k][walk.from] = "good" /\ Dest(k) # walk.from
      /\ walk.at = "write" => file[k][Dest(k)] = "torn"
      /\ walk.at = "unlink" => file[k][Dest(k)] = "good"

\* A file is torn while it is written, or after a failure or a crash.
Harmed == faults + crashes > 0
TornFits(k) ==
    \A p \in Places :
      file[k][p] = "torn" => Harmed \/ (walk.at = "write" /\ walk.key = k /\ p = Dest(k))

\* What KeyKept asks for, without the old directory tree: that goes only then.
KeptElsewhere(k) ==
    \/ \E p \in Places \ {"old"} : file[k][p] = "good"
    \/ KeyKind[k] # "rdb" /\ Harmed /\ \E p \in {"de"} \cup Users : file[k][p] = "torn"
KeptFits(k) ==
    /\ file[k]["old"] # "torn"
    /\ file[k]["old"] = "good" \/ KeptElsewhere(k)
    /\ start = "remove" => KeptElsewhere(k)

\* Where a file is before the temporary directory is made, and after.
Moved == published \/ start \notin {"no", "copy"}
PlacedFits(k) ==
    /\ ~tmpDir => file[k]["tmp"] = "none"
    /\ ~copyFailed /\ tmpDir => \E p \in {"tmp", "de"} \cup Users : file[k][p] # "none"
    /\ ~copyFailed /\ ~tmpDir =>
         \/ file[k]["legacy"] # "none"
         \/ file[k]["old"] # "none" /\ ~Moved
         \/ \E p \in {"de"} \cup Users : file[k][p] # "none"

FileFits(k) == CopyFits(k) /\ TornFits(k) /\ KeptFits(k) /\ PlacedFits(k)

\* The invariant that the safety properties rest on.
GateInv == TypeOK /\ LockFits /\ WalkFits /\ \A k \in Keys : FileFits(k)
=============================================================================

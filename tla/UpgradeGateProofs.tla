------------------------- MODULE UpgradeGateProofs --------------------------
(***************************************************************************)
(* Nobody is inside while key files are transferred, and no file is lost   *)
(* on its way, for any number of keys, users, threads, failing operations, *)
(* restarts of the process and of the service.                             *)
(***************************************************************************)
EXTENDS UpgradeGate, TLAPS

Tree == [Keys -> [Places -> Contents]]

\* The assumptions on the constants, taken apart.
LEMMA GateConstants ==
    /\ KeyKind \in [Keys -> {"ce", "de", "front", "rdb", "skip"}]
    /\ KeyUser \in [Keys -> Users] /\ FirstUser \in Users
    /\ Users \cap {"old", "legacy", "tmp", "de"} = {} /\ NoKey \notin Keys
    /\ MaxFaults \in Nat /\ MaxCrashes \in Nat /\ MaxStops \in Nat
    /\ Main \notin Threads /\ Nobody \notin Threads /\ Nobody # Main
    /\ "old" \in Places /\ "legacy" \in Places /\ "tmp" \in Places /\ "de" \in Places
    /\ Users \subseteq Places /\ "none" \in Contents /\ "torn" \in Contents /\ "good" \in Contents
BY TransferAssumption, GateAssumption DEF Places, Contents

(* A key file belongs to "de" or to a user, never to another directory.    *)
LEMMA DestFacts ==
    ASSUME g_frontUserId \in Users, NEW k \in Keys
    PROVE  /\ Dest(k) \in {"de"} \cup Users /\ Dest(k) \in Places
           /\ Dest(k) \notin {"old", "legacy", "tmp"}
           /\ KeyKind[k] = "rdb" => Dest(k) = "de"
<1>1. Dest(k) \in {"de"} \cup Users /\ (KeyKind[k] = "rdb" => Dest(k) = "de")
  BY GateConstants DEF Dest
<1> QED
  BY <1>1, GateConstants

\* The place of a key depends on the user in front only.
LEMMA DestStays ==
    ASSUME g_frontUserId' = g_frontUserId, NEW k \in Keys
    PROVE  Dest(k)' = Dest(k)
BY DEF Dest

(* One copy of one file changes.                                           *)
LEMMA PutFacts ==
    ASSUME file \in Tree, NEW k \in Keys, NEW p \in Places, NEW c \in Contents, Put(k, p, c)
    PROVE  /\ file' \in Tree
           /\ \A kk \in Keys, pp \in Places :
                file'[kk][pp] = IF kk = k /\ pp = p THEN c ELSE file[kk][pp]
BY DEF Put, Tree

(* A copy of the directory tree changes the place "legacy" only.           *)
LEMMA CopiedFacts ==
    ASSUME file \in Tree, NEW s \in SUBSET OldKeys, NEW t, file' = Copied(s, t)
    PROVE  /\ file' \in Tree
           /\ \A k \in Keys, p \in Places :
                file'[k][p] = IF p = "legacy" /\ k \in s THEN file[k]["old"]
                              ELSE IF p = "legacy" /\ k = t THEN "torn" ELSE file[k][p]
<1> SUFFICES ASSUME TRUE
             PROVE  \A k \in Keys :
                      /\ file'[k] \in [Places -> Contents]
                      /\ \A p \in Places :
                           file'[k][p] = IF p = "legacy" /\ k \in s THEN file[k]["old"]
                                         ELSE IF p = "legacy" /\ k = t THEN "torn" ELSE file[k][p]
  BY DEF Tree, Copied
<1> SUFFICES ASSUME NEW k \in Keys
             PROVE  /\ file'[k] \in [Places -> Contents]
                    /\ \A p \in Places :
                         file'[k][p] = IF p = "legacy" /\ k \in s THEN file[k]["old"]
                                       ELSE IF p = "legacy" /\ k = t THEN "torn" ELSE file[k][p]
  OBVIOUS
<1>1. file[k] \in [Places -> Contents]
  BY DEF Tree
<1>2. CASE k \in s
  <2>1. file'[k] = [file[k] EXCEPT !["legacy"] = file[k]["old"]]
    BY <1>2 DEF Copied
  <2> QED
    BY <1>1, <1>2, <2>1, GateConstants
<1>3. CASE k \notin s /\ k = t
  <2>1. file'[k] = [file[k] EXCEPT !["legacy"] = "torn"]
    BY <1>3 DEF Copied
  <2> QED
    BY <1>1, <1>3, <2>1, GateConstants
<1>4. CASE k \notin s /\ k # t
  <2>1. file'[k] = file[k]
    BY <1>4 DEF Copied
  <2> QED
    BY <1>1, <1>4, <2>1
<1> QED
  BY <1>2, <1>3, <1>4

\* The files of some keys are removed from the old place.
LEMMA RemovedFacts ==
    ASSUME file \in Tree, NEW s \in SUBSET OldKeys, file' = Removed(s)
    PROVE  /\ file' \in Tree
           /\ \A k \in Keys, p \in Places :
                file'[k][p] = IF p = "old" /\ k \in s THEN "none" ELSE file[k][p]
BY GateConstants DEF Removed, Tree

(* The rename of the directory moves every file from "legacy" to "tmp".    *)
LEMMA RenamedFacts ==
    ASSUME file \in Tree,
           file' = [k \in Keys |-> [file[k] EXCEPT !["tmp"] = file[k]["legacy"], !["legacy"] = "none"]]
    PROVE  /\ file' \in Tree
           /\ \A k \in Keys, p \in Places :
                file'[k][p] = IF p = "tmp" THEN file[k]["legacy"]
                              ELSE IF p = "legacy" THEN "none" ELSE file[k][p]
BY GateConstants DEF Tree

\* A fault is counted.
LEMMA FaultFacts ==
    ASSUME faults \in 0 .. MaxFaults, crashes \in 0 .. MaxCrashes, Fault
    PROVE  faults' \in 0 .. MaxFaults /\ faults' + crashes > 0
BY GateConstants DEF Fault

----------------------------------------------------------------------------
(* Types.                                                                  *)

TransferType ==
    /\ file \in Tree /\ tmpDir \in BOOLEAN /\ copyFailed \in BOOLEAN
    /\ unlocked \subseteq Users /\ g_frontUserId \in Users
    /\ walk \in Walks /\ (walk.key # NoKey <=> walk.at \in {"open", "write", "unlink"})
    /\ faults \in 0 .. MaxFaults

GateType ==
    /\ start \in {"no", "copy", "remove", "condition", "lock", "init",
                  "upgrade", "notify", "running", "failed"}
    /\ condition \in {"null", "unset", "notified"}
    /\ gate \in [readers : SUBSET Threads, writer : Threads \cup {Main, Nobody},
                 waiting : SUBSET (Threads \cup {Main})]
    /\ published \in BOOLEAN /\ g_isCeUpgradeSucc \in BOOLEAN
    /\ pc \in [Threads -> {"idle", "check", "sleep", "lock", "in", "wlock",
                           "transfer", "relock", "serve"}]
    /\ job \in [Threads -> Jobs \cup {NoJob}]
    /\ crashes \in 0 .. MaxCrashes /\ stops \in 0 .. MaxStops

\* The type invariant, taken apart.
LEMMA TypeParts == TypeOK <=> TransferType /\ GateType
BY DEF TypeOK, TransferType, GateType, Tree

(* The parts of a walk, and of its successors.                             *)
LEMMA WalkFacts ==
    /\ NoWalk \in Walks /\ NoWalk.from = "tmp" /\ NoWalk.todo = {} /\ NoWalk.key = NoKey
    /\ NoWalk.at = "none"
    /\ \A w \in Walks : /\ w.from \in Places /\ w.todo \subseteq Keys
                        /\ w.key \in Keys \cup {NoKey}
BY GateConstants DEF NoWalk, Walks

\* The walk is done with a file.
LEMMA NextFileFacts ==
    ASSUME walk \in Walks, NextFile
    PROVE  /\ walk' \in Walks /\ walk'.key = NoKey /\ walk'.at = "visit"
           /\ walk'.from = walk.from /\ walk'.todo = walk.todo
BY DEF NextFile, Walks

\* The walk goes on with the same file.
LEMMA GotoFacts ==
    ASSUME walk \in Walks, NEW a \in {"write", "unlink"}, Goto(a)
    PROVE  /\ walk' \in Walks /\ walk'.key = walk.key /\ walk'.at = a
           /\ walk'.from = walk.from /\ walk'.todo = walk.todo
BY DEF Goto, Walks

\* The walk over a directory starts.
LEMMA StartFacts ==
    ASSUME NEW p \in Places, Start(p)
    PROVE  walk' \in Walks /\ walk'.key = NoKey /\ walk'.at = "visit" /\ walk'.from = p
BY DEF Start, Visited, Walks

\* A transfer begins.
LEMMA BeginFacts ==
    ASSUME NEW u, BeginTransfer(u)
    PROVE  /\ walk' \in Walks /\ walk'.key = NoKey /\ walk'.at = "rename" /\ walk'.from = "tmp"
           /\ g_frontUserId' = u /\ UNCHANGED <<file, tmpDir, unlocked, faults, copyFailed>>
BY GateConstants DEF BeginTransfer, NoWalk, Walks

\* The walk meets the file of a key.
LEMMA VisitFacts ==
    ASSUME walk \in Walks, NEW k \in Keys, VisitFile(k)
    PROVE  /\ walk' \in Walks /\ walk'.from = walk.from
           /\ IF Transferred(k, walk.from) THEN walk'.key = k /\ walk'.at = "open"
              ELSE walk'.key = NoKey /\ walk'.at = "visit"
<1>1. walk' = [walk EXCEPT !.todo = @ \ {k},
                           !.key = IF Transferred(k, walk.from) THEN k ELSE NoKey,
                           !.at = IF Transferred(k, walk.from) THEN "open" ELSE "visit"]
  BY DEF VisitFile
<1>2. CASE Transferred(k, walk.from)
  BY <1>1, <1>2 DEF Walks
<1>3. CASE ~Transferred(k, walk.from)
  BY <1>1, <1>3 DEF Walks
<1> QED
  BY <1>2, <1>3

\* Every step of a transfer keeps the types.
LEMMA TransferTypeStep ==
    ASSUME TransferType, crashes \in 0 .. MaxCrashes, TransferStep
    PROVE  TransferType'
<1> USE DEF TransferType
<1>0. /\ walk.at \in {"open", "write", "unlink"} => walk.key \in Keys /\ Dest(walk.key) \in Places
      /\ walk.from \in Places
  BY WalkFacts, DestFacts
<1>1. CASE CopyDeToTmpPathIfNeed
  <2>1. walk' \in Walks /\ walk'.key = NoKey /\ walk'.at = "visit"
    BY <1>1, StartFacts, GateConstants DEF CopyDeToTmpPathIfNeed
  <2>2. file' \in Tree /\ faults' \in 0 .. MaxFaults /\ tmpDir' \in BOOLEAN
    BY <1>1, RenamedFacts, FaultFacts DEF CopyDeToTmpPathIfNeed
  <2> QED
    BY <1>1, <2>1, <2>2 DEF CopyDeToTmpPathIfNeed
<1>2. CASE NextPass
  BY <1>2, StartFacts, GateConstants DEF NextPass
<1>3. CASE \E k \in Keys : VisitFile(k)
  <2>1. PICK k \in Keys : VisitFile(k)
    BY <1>3
  <2>2. walk' \in Walks /\ (walk'.key # NoKey <=> walk'.at \in {"open", "write", "unlink"})
    BY <2>1, VisitFacts, GateConstants
  <2> QED
    BY <2>1, <2>2 DEF VisitFile
<1>4. CASE RemoveOverwritten
  <2>1. CASE Put(walk.key, Dest(walk.key), "none") /\ UNCHANGED <<walk, faults>>
    BY <1>0, <1>4, <2>1, PutFacts, GateConstants DEF RemoveOverwritten
  <2>2. CASE Fault /\ NextFile /\ UNCHANGED file
    BY <1>4, <2>2, NextFileFacts, FaultFacts DEF RemoveOverwritten
  <2> QED
    BY <1>4, <2>1, <2>2 DEF RemoveOverwritten
<1>5. CASE KeepExisting
  <2>1. file' \in Tree /\ faults' \in 0 .. MaxFaults
    BY <1>0, <1>5, PutFacts, FaultFacts, GateConstants DEF KeepExisting
  <2> QED
    BY <1>5, <2>1, NextFileFacts DEF KeepExisting
<1>6. CASE OpenNewFile
  <2>1. file' \in Tree /\ faults' \in 0 .. MaxFaults
    BY <1>0, <1>6, PutFacts, FaultFacts, GateConstants DEF OpenNewFile
  <2>2. walk' \in Walks /\ (walk'.key # NoKey <=> walk'.at \in {"open", "write", "unlink"})
    BY <1>0, <1>6, GotoFacts, NextFileFacts, GateConstants DEF OpenNewFile
  <2> QED
    BY <1>6, <2>1, <2>2 DEF OpenNewFile
<1>7. CASE WriteNewFile
  <2>1. file' \in Tree /\ faults' \in 0 .. MaxFaults
    BY <1>0, <1>7, PutFacts, FaultFacts, GateConstants DEF WriteNewFile
  <2>2. walk' \in Walks /\ (walk'.key # NoKey <=> walk'.at \in {"open", "write", "unlink"})
    BY <1>0, <1>7, GotoFacts, NextFileFacts, GateConstants DEF WriteNewFile
  <2> QED
    BY <1>7, <2>1, <2>2 DEF WriteNewFile
<1>8. CASE RemoveOldFile
  <2>1. file' \in Tree
    BY <1>0, <1>8, PutFacts, GateConstants DEF RemoveOldFile
  <2>2. faults' \in 0 .. MaxFaults
    BY <1>8, FaultFacts, GateConstants DEF RemoveOldFile
  <2> QED
    BY <1>8, <2>1, <2>2, NextFileFacts DEF RemoveOldFile
<1> QED
  BY <1>1, <1>2, <1>3, <1>4, <1>5, <1>6, <1>7, <1>8 DEF TransferStep

(* What the operations of the lock do to its parts.                        *)
Gates == [readers : SUBSET Threads, writer : Threads \cup {Main, Nobody},
          waiting : SUBSET (Threads \cup {Main})]

\* The lock at first.
LEMMA OpenFacts ==
    Open \in Gates /\ Open.readers = {} /\ Open.writer = Nobody /\ Open.waiting = {}
BY DEF Open, Gates

\* A thread takes the lock for reading.
LEMMA LockReadFacts ==
    ASSUME gate \in Gates, NEW t \in Threads, LockRead(t)
    PROVE  /\ gate' \in Gates /\ gate.writer = Nobody
           /\ gate'.readers = gate.readers \cup {t} /\ gate'.writer = gate.writer
           /\ gate'.waiting = gate.waiting
BY DEF LockRead, Gates

\* A thread waits to take the lock for writing.
LEMMA AskFacts ==
    ASSUME gate \in Gates, NEW t \in Threads \cup {Main}, Ask(t)
    PROVE  /\ gate' \in Gates
           /\ gate'.readers = gate.readers /\ gate'.writer = gate.writer
           /\ gate'.waiting = gate.waiting \cup {t}
BY DEF Ask, Gates

\* It takes the lock for writing.
LEMMA LockWriteFacts ==
    ASSUME gate \in Gates, NEW t \in Threads \cup {Main}, LockWrite(t)
    PROVE  /\ gate' \in Gates /\ gate.readers = {} /\ gate.writer = Nobody
           /\ gate'.readers = {} /\ gate'.writer = t
           /\ gate'.waiting = gate.waiting \ {t}
BY DEF LockWrite, Gates

\* It gives it back.
LEMMA UnLockWriteFacts ==
    ASSUME gate \in Gates, UnLockWrite
    PROVE  /\ gate' \in Gates
           /\ gate'.readers = gate.readers /\ gate'.writer = Nobody
           /\ gate'.waiting = gate.waiting
BY DEF UnLockWrite, Gates

\* A reader gives its share up and waits to write.
LEMMA GiveUpFacts ==
    ASSUME gate \in Gates, NEW t \in Threads,
           gate' = [gate EXCEPT !.readers = @ \ {t}, !.waiting = @ \cup {t}]
    PROVE  /\ gate' \in Gates
           /\ gate'.readers = gate.readers \ {t} /\ gate'.writer = gate.writer
           /\ gate'.waiting = gate.waiting \cup {t}
BY DEF Gates

\* A reader gives its share back.
LEMMA UnLockReadFacts ==
    ASSUME gate \in Gates, NEW t \in Threads, gate' = [gate EXCEPT !.readers = @ \ {t}]
    PROVE  /\ gate' \in Gates
           /\ gate'.readers = gate.readers \ {t} /\ gate'.writer = gate.writer
           /\ gate'.waiting = gate.waiting
BY DEF Gates

\* A job is about a user.
LEMMA JobFacts ==
    /\ NoJob \in Jobs \cup {NoJob}
    /\ \A j \in Jobs \cup {NoJob} : j.user \in Users
BY GateConstants DEF NoJob, Jobs

PcType == pc \in [Threads -> {"idle", "check", "sleep", "lock", "in", "wlock",
                              "transfer", "relock", "serve"}]

\* Every step keeps the types.
LEMMA TypeStep ==
    ASSUME TypeOK, [Next]_vars
    PROVE  TypeOK'
<1>0. TransferType /\ GateType /\ gate \in Gates
  BY TypeParts DEF GateType, Gates
<1> SUFFICES TransferType' /\ GateType'
  BY TypeParts DEF TypeOK, TransferType, GateType, Tree
<1>1. CASE Transfer
  BY <1>0, <1>1, TransferTypeStep DEF Transfer, gateVars, GateType
<1>2. CASE MoveDirectoryTree
  <2>1. file' \in Tree /\ faults' \in 0 .. MaxFaults /\ copyFailed' \in BOOLEAN
        /\ UNCHANGED <<tmpDir, unlocked, g_frontUserId, walk>>
    <3>1. CASE CopyTree
      BY <1>0, <3>1, CopiedFacts DEF CopyTree, TransferType
    <3>2. CASE CopyTreeFails
      BY <1>0, <3>2, CopiedFacts, FaultFacts DEF CopyTreeFails, PartOfCopy, TransferType, GateType
    <3>3. CASE RemoveTree
      BY <1>0, <3>3, RemovedFacts, FaultFacts DEF RemoveTree, TransferType, GateType
    <3> QED
      BY <1>2, <3>1, <3>2, <3>3 DEF MoveDirectoryTree
  <2> QED
    BY <1>0, <1>2, <2>1 DEF MoveDirectoryTree, TransferType, GateType
<1>3. CASE OnStart \/ NotifyAll \/ OnStop
  <2>1. UNCHANGED transferVars
    BY <1>3 DEF OnStart, NotifyAll, OnStop
  <2>2. stops' \in 0 .. MaxStops
    BY <1>0, <1>3, GateConstants DEF OnStart, NotifyAll, OnStop, GateType
  <2>3. pc' \in [Threads -> {"idle", "check", "sleep", "lock", "in", "wlock",
                             "transfer", "relock", "serve"}]
    BY <1>0, <1>3 DEF OnStart, NotifyAll, OnStop, GateType
  <2> QED
    BY <1>0, <1>3, <2>1, <2>2, <2>3 DEF OnStart, NotifyAll, OnStop, transferVars, TransferType, GateType
<1>4. CASE ProcessConditionCreate \/ LockBeforeInit
  <2>1. gate' \in Gates
    BY <1>0, <1>4, AskFacts, LockWriteFacts DEF ProcessConditionCreate, LockBeforeInit
  <2> QED
    BY <1>0, <1>4, <2>1
    DEF ProcessConditionCreate, LockBeforeInit, transferVars, TransferType, GateType, Gates
<1>5. CASE InitService
  <2>1. gate' \in Gates
    BY <1>0, <1>5, UnLockWriteFacts DEF InitService
  <2>2. TransferType'
    BY <1>0, <1>5, BeginFacts, GateConstants DEF InitService, TransferType, transferVars
  <2> QED
    BY <1>0, <1>5, <2>1, <2>2 DEF InitService, GateType, Gates
<1>6. CASE PowerOnUpgraded
  <2>1. gate' \in Gates
    BY <1>0, <1>6, UnLockWriteFacts DEF PowerOnUpgraded
  <2>2. TransferType'
    BY <1>0, <1>6, WalkFacts DEF PowerOnUpgraded, EndTransfer, TransferType
  <2> QED
    BY <1>0, <1>6, <2>1, <2>2 DEF PowerOnUpgraded, GateType, Gates
<1>7. CASE Unlock
  BY <1>0, <1>7 DEF Unlock, TransferType, GateType, gateVars
<1>8. CASE Crash
  <2>1. file' \in Tree
    BY <1>0, <1>8, CopiedFacts, RemovedFacts DEF Crash, PartOfCopy, TransferType
  <2>2. TransferType'
    BY <1>0, <1>8, <2>1, WalkFacts, GateConstants DEF Crash, TransferType
  <2>3. crashes' \in 0 .. MaxCrashes
    BY <1>0, <1>8, GateConstants DEF Crash, GateType
  <2> QED
    BY <1>0, <1>8, <2>2, <2>3, OpenFacts DEF Crash, GateType, Gates, Jobs
<1>9. ASSUME NEW t \in Threads, Arrive(t) \/ WakeEarly(t) \/ ThreadStep(t)
      PROVE  TransferType' /\ GateType'
  <2>1. gate' \in Gates
    BY <1>0, <1>9, LockReadFacts, LockWriteFacts, UnLockWriteFacts, GiveUpFacts, UnLockReadFacts
    DEF Arrive, WakeEarly, ThreadStep, WaitIfPowerOnUpgrading, ReadGuard, Handle, WriteGuard,
        UserUnlockUpgraded, ReadGuardAgain, Serve
  <2>2. PcType'
    BY <1>0, <1>9
    DEF GateType, PcType, Arrive, WakeEarly, ThreadStep, WaitIfPowerOnUpgrading, ReadGuard, Handle,
        WriteGuard, UserUnlockUpgraded, ReadGuardAgain, Serve, Goes, Leave
  <2>3. job' \in [Threads -> Jobs \cup {NoJob}]
    BY <1>0, <1>9
    DEF GateType, Arrive, WakeEarly, ThreadStep, WaitIfPowerOnUpgrading, ReadGuard, Handle,
        WriteGuard, UserUnlockUpgraded, ReadGuardAgain, Serve, Leave
  <2>4. g_isCeUpgradeSucc' \in BOOLEAN
    BY <1>0, <1>9
    DEF GateType, Arrive, WakeEarly, ThreadStep, WaitIfPowerOnUpgrading, ReadGuard, Handle,
        WriteGuard, UserUnlockUpgraded, ReadGuardAgain, Serve
  <2>5. UNCHANGED <<start, condition, published, crashes, stops>>
    BY <1>9
    DEF Arrive, WakeEarly, ThreadStep, WaitIfPowerOnUpgrading, ReadGuard, Handle,
        WriteGuard, UserUnlockUpgraded, ReadGuardAgain, Serve
  <2>6. GateType'
    BY <1>0, <2>1, <2>2, <2>3, <2>4, <2>5 DEF GateType, Gates, PcType
  <2>7. CASE WriteGuard(t)
    <3>1. job[t].user \in Users
      BY <1>0, JobFacts DEF GateType
    <3>2. TransferType'
      BY <1>0, <2>7, <3>1, BeginFacts DEF WriteGuard, TransferType
    <3> QED
      BY <2>6, <3>2
  <2>8. CASE UserUnlockUpgraded(t)
    BY <1>0, <2>6, <2>8, WalkFacts DEF UserUnlockUpgraded, EndTransfer, TransferType
  <2>9. CASE UNCHANGED transferVars
    BY <1>0, <2>6, <2>9 DEF transferVars, TransferType
  <2> QED
    BY <1>9, <2>7, <2>8, <2>9
    DEF Arrive, WakeEarly, ThreadStep, WaitIfPowerOnUpgrading, ReadGuard, Handle, ReadGuardAgain, Serve
<1>10. CASE UNCHANGED vars
  BY <1>0, <1>10 DEF vars, gateVars, transferVars, TransferType, GateType
<1> QED
  BY <1>1, <1>2, <1>3, <1>4, <1>5, <1>6, <1>7, <1>8, <1>9, <1>10 DEF Next, MainStep

----------------------------------------------------------------------------
(* The lock and the transfer.                                              *)

\* One thread goes on, the others stay where they are.
LEMMA GoesFacts ==
    ASSUME PcType, NEW t \in Threads, NEW from, NEW to, Goes(t, from, to)
    PROVE  pc[t] = from /\ \A u \in Threads : pc'[u] = IF u = t THEN to ELSE pc[u]
BY DEF Goes, PcType

(* The lock fits after a step of a thread that leaves OnStart alone.       *)
LEMMA ThreadLock ==
    ASSUME TypeOK, LockFits, WalkFits, NEW t \in Threads,
           Arrive(t) \/ WakeEarly(t) \/ ThreadStep(t)
    PROVE  LockFits' /\ WalkFits'
<1>0. PcType /\ gate \in Gates /\ UNCHANGED <<start, published>> /\ Main \notin Threads
      /\ Nobody \notin Threads /\ Nobody # Main /\ walk \in Walks
  BY GateConstants
  DEF TypeOK, PcType, Gates, Arrive, WakeEarly, ThreadStep, WaitIfPowerOnUpgrading, ReadGuard, Handle,
      WriteGuard, UserUnlockUpgraded, ReadGuardAgain, Serve
<1>1. CASE WriteGuard(t)
  <2>1. /\ pc[t] = "wlock" /\ \A u \in Threads : pc'[u] = IF u = t THEN "transfer" ELSE pc[u]
        /\ gate.readers = {} /\ gate.writer = Nobody /\ gate'.readers = {} /\ gate'.writer = t
        /\ gate'.waiting = gate.waiting \ {t}
    BY <1>0, <1>1, GoesFacts, LockWriteFacts DEF WriteGuard
  <2>2. walk'.at = "rename" /\ walk'.from = "tmp"
    BY <1>1, BeginFacts DEF WriteGuard
  <2>3. LockFits'
    BY <1>0, <2>1 DEF LockFits
  <2>4. WalkFits'
    BY <2>1, <2>2 DEF WalkFits, Transferring
  <2> QED
    BY <2>3, <2>4
<1>2. CASE UserUnlockUpgraded(t)
  <2>1. /\ pc[t] = "transfer" /\ \A u \in Threads : pc'[u] = IF u = t THEN "relock" ELSE pc[u]
        /\ gate'.readers = gate.readers /\ gate'.writer = Nobody /\ gate'.waiting = gate.waiting
    BY <1>0, <1>2, GoesFacts, UnLockWriteFacts DEF UserUnlockUpgraded
  <2>2. walk' = NoWalk /\ walk'.at = "none"
    BY <1>2, WalkFacts DEF UserUnlockUpgraded, EndTransfer
  <2>3. gate.writer = t
    BY <2>1 DEF LockFits
  <2>4. LockFits'
    BY <1>0, <2>1, <2>3 DEF LockFits
  <2>5. \A u \in Threads : pc'[u] # "transfer"
    BY <2>1, <2>3 DEF LockFits
  <2>6. start' # "upgrade"
    BY <1>0, <2>3 DEF LockFits
  <2>7. WalkFits'
    BY <2>2, <2>5, <2>6 DEF WalkFits, Transferring
  <2> QED
    BY <2>4, <2>7
<1>3. CASE UNCHANGED transferVars
  <2>1. /\ \A u \in Threads \ {t} : pc'[u] = pc[u]
        /\ pc[t] # "transfer" /\ pc'[t] # "transfer"
        /\ gate'.writer = gate.writer
        /\ (pc[t] # "idle" \/ published)
        /\ \/ /\ gate' = gate /\ pc[t] # "wlock" /\ pc'[t] # "wlock"
              /\ pc[t] \in {"in", "serve"} <=> pc'[t] \in {"in", "serve"}
           \/ /\ pc[t] \notin {"wlock", "in", "serve"} /\ pc'[t] \in {"in", "serve"}
              /\ gate.writer = Nobody
              /\ gate'.readers = gate.readers \cup {t} /\ gate'.waiting = gate.waiting
           \/ /\ pc[t] = "in" /\ pc'[t] = "wlock"
              /\ gate'.readers = gate.readers \ {t} /\ gate'.waiting = gate.waiting \cup {t}
           \/ /\ pc[t] = "serve" /\ pc'[t] = "idle"
              /\ gate'.readers = gate.readers \ {t} /\ gate'.waiting = gate.waiting
    <3>1. CASE Arrive(t)
      BY <1>0, <3>1, GoesFacts DEF Arrive
    <3>2. CASE WakeEarly(t)
      BY <1>0, <3>2, GoesFacts DEF WakeEarly
    <3>3. CASE WaitIfPowerOnUpgrading(t)
      BY <1>0, <3>3 DEF WaitIfPowerOnUpgrading, Goes, Leave, PcType
    <3>4. CASE ReadGuard(t)
      BY <1>0, <3>4, GoesFacts, LockReadFacts DEF ReadGuard
    <3>5. CASE Handle(t)
      <4>1. CASE Goes(t, "in", "wlock")
                 /\ gate' = [gate EXCEPT !.readers = @ \ {t}, !.waiting = @ \cup {t}]
        <5>1. pc[t] = "in" /\ \A u \in Threads : pc'[u] = IF u = t THEN "wlock" ELSE pc[u]
          BY <1>0, <4>1, GoesFacts
        <5>2. /\ gate'.readers = gate.readers \ {t} /\ gate'.writer = gate.writer
              /\ gate'.waiting = gate.waiting \cup {t}
          BY <1>0, <4>1, GiveUpFacts
        <5> QED
          BY <5>1, <5>2
      <4>2. CASE Goes(t, "in", "serve") /\ UNCHANGED gate
        BY <1>0, <4>2, GoesFacts
      <4> QED
        BY <3>5, <4>1, <4>2 DEF Handle
    <3>6. CASE ReadGuardAgain(t)
      BY <1>0, <3>6, GoesFacts, LockReadFacts DEF ReadGuardAgain
    <3>7. CASE Serve(t)
      BY <1>0, <3>7, UnLockReadFacts DEF Serve, Leave, PcType
    <3>8. CASE WriteGuard(t)
      BY <1>3, <3>8, <1>0, BeginFacts, LockWriteFacts, GoesFacts DEF WriteGuard, transferVars, LockFits, WalkFits, Transferring
    <3>9. CASE UserUnlockUpgraded(t)
      BY <1>3, <3>9, WalkFacts DEF UserUnlockUpgraded, EndTransfer, TransferEnded, transferVars
    <3> QED
      BY <1>3, <3>1, <3>2, <3>3, <3>4, <3>5, <3>6, <3>7, <3>8, <3>9 DEF ThreadStep
  <2>2. LockFits'
    <3>1. gate'.readers # {} => gate'.writer = Nobody
      BY <2>1 DEF LockFits
    <3>2. ASSUME NEW u \in Threads
          PROVE  /\ u \in gate'.readers <=> pc'[u] \in {"in", "serve"}
                 /\ u \in gate'.waiting <=> pc'[u] = "wlock"
                 /\ gate'.writer = u <=> pc'[u] = "transfer"
                 /\ pc'[u] # "idle" => published'
      <4>1. CASE u = t
        BY <1>0, <2>1, <4>1 DEF LockFits
      <4>2. CASE u # t
        BY <1>0, <2>1, <4>2 DEF LockFits
      <4> QED
        BY <4>1, <4>2
    <3>3. (Main \in gate'.waiting <=> Main \in gate.waiting)
      BY <1>0, <2>1
    <3> QED
      BY <1>0, <2>1, <3>1, <3>2, <3>3 DEF LockFits
  <2>3. walk' = walk
    BY <1>3 DEF transferVars
  <2>4. WalkFits'
    BY <1>0, <2>1, <2>3 DEF WalkFits, Transferring
  <2> QED
    BY <2>2, <2>4
<1> QED
  BY <1>1, <1>2, <1>3
  DEF Arrive, WakeEarly, ThreadStep, WaitIfPowerOnUpgrading, ReadGuard, Handle, ReadGuardAgain, Serve

(* Once the transfer is under way, it stays so until EndTransfer.          *)
LEMMA WalkStays ==
    ASSUME TransferType, Transferring, walk.from \in {"tmp"} \cup Users, TransferStep
    PROVE  Transferring' /\ walk'.from \in {"tmp"} \cup Users
<1> USE DEF TransferType, Transferring
<1>1. CASE CopyDeToTmpPathIfNeed
  BY <1>1, StartFacts, GateConstants DEF CopyDeToTmpPathIfNeed
<1>2. CASE NextPass
  BY <1>2, StartFacts, GateConstants DEF NextPass
<1>3. CASE \E k \in Keys : VisitFile(k)
  BY <1>3, VisitFacts
<1>4. CASE RemoveOverwritten
  BY <1>4, NextFileFacts DEF RemoveOverwritten
<1>5. CASE KeepExisting
  BY <1>5, NextFileFacts DEF KeepExisting
<1>6. CASE OpenNewFile
  BY <1>6, NextFileFacts, GotoFacts DEF OpenNewFile
<1>7. CASE WriteNewFile
  BY <1>7, NextFileFacts, GotoFacts DEF WriteNewFile
<1>8. CASE RemoveOldFile
  BY <1>8, NextFileFacts DEF RemoveOldFile
<1> QED
  BY <1>1, <1>2, <1>3, <1>4, <1>5, <1>6, <1>7, <1>8 DEF TransferStep

\* Only a transfer that is under way takes its steps.
LEMMA StepNeedsWalk ==
    ASSUME TransferStep
    PROVE  Transferring
BY DEF TransferStep, Transferring, CopyDeToTmpPathIfNeed, NextPass, VisitFile, RemoveOverwritten,
       KeepExisting, OpenNewFile, WriteNewFile, RemoveOldFile

\* Every step keeps the lock, its holders and the walk in step.
LEMMA LockStep ==
    ASSUME TypeOK, LockFits, WalkFits, [Next]_vars
    PROVE  LockFits' /\ WalkFits'
<1>0. PcType /\ gate \in Gates /\ Main \notin Threads /\ Nobody \notin Threads /\ Nobody # Main
      /\ TransferType
  BY GateConstants, TypeParts DEF TypeOK, PcType, Gates
<1>1. CASE Transfer
  <2>1. UNCHANGED <<start, gate, published, pc>>
    BY <1>1 DEF Transfer, gateVars
  <2>2. Transferring /\ Transferring' /\ walk'.from \in {"tmp"} \cup Users
    BY <1>0, <1>1, StepNeedsWalk, WalkStays DEF Transfer, WalkFits
  <2> QED
    BY <2>1, <2>2 DEF LockFits, WalkFits
<1>2. CASE MoveDirectoryTree \/ OnStart \/ OnStop \/ NotifyAll \/ Unlock \/ UNCHANGED vars
  <2>1. /\ walk' = walk /\ gate' = gate /\ published' = published
        /\ \/ start' = start
           \/ start \notin {"lock", "init", "upgrade"} /\ start' \notin {"lock", "init", "upgrade"}
              /\ (start' \in {"notify", "running"} => start \in {"notify", "running"})
        /\ \A t \in Threads : pc'[t] = pc[t] \/ (pc[t] = "sleep" /\ pc'[t] = "lock")
    BY <1>2 DEF MoveDirectoryTree, OnStart, OnStop, NotifyAll, Unlock, vars, CopyTree, CopyTreeFails,
                RemoveTree, transferVars, gateVars
  <2>2. LockFits'
    BY <2>1 DEF LockFits
  <2>3. WalkFits'
    BY <2>1 DEF WalkFits, Transferring
  <2> QED
    BY <2>2, <2>3
<1>3. CASE ProcessConditionCreate
  <2>1. /\ UNCHANGED <<walk, published, pc>> /\ start = "condition"
        /\ \/ start' = "failed" /\ gate' = gate
           \/ /\ start' = "lock" /\ gate'.readers = gate.readers /\ gate'.writer = gate.writer
              /\ gate'.waiting = gate.waiting \cup {Main}
    BY <1>0, <1>3, AskFacts DEF ProcessConditionCreate, transferVars
  <2>2. LockFits'
    BY <1>0, <2>1 DEF LockFits
  <2>3. WalkFits'
    BY <2>1 DEF WalkFits, Transferring
  <2> QED
    BY <2>2, <2>3
<1>4. CASE LockBeforeInit
  <2>1. /\ UNCHANGED <<walk, published, pc>> /\ start = "lock" /\ start' = "init"
        /\ gate.readers = {} /\ gate.writer = Nobody /\ gate'.readers = {} /\ gate'.writer = Main
        /\ gate'.waiting = gate.waiting \ {Main}
    BY <1>0, <1>4, LockWriteFacts DEF LockBeforeInit, transferVars
  <2>2. LockFits'
    BY <1>0, <2>1 DEF LockFits
  <2>3. WalkFits'
    BY <2>1 DEF WalkFits, Transferring
  <2> QED
    BY <2>2, <2>3
<1>5. CASE InitService
  <2>1. start = "init" /\ gate.writer = Main /\ pc' = pc /\ \A t \in Threads : pc[t] # "transfer"
    BY <1>0, <1>5 DEF InitService, LockFits
  <2>2. CASE start' = "failed" /\ UnLockWrite /\ UNCHANGED <<published, walk>>
    <3>1. gate'.readers = gate.readers /\ gate'.writer = Nobody /\ gate'.waiting = gate.waiting
      BY <1>0, <2>2, UnLockWriteFacts
    <3>2. LockFits'
      BY <1>0, <2>1, <2>2, <3>1 DEF LockFits
    <3>3. WalkFits'
      BY <2>1, <2>2 DEF WalkFits, Transferring
    <3> QED
      BY <3>2, <3>3
  <2>3. CASE start' = "upgrade" /\ published' = TRUE /\ BeginTransfer(g_frontUserId) /\ UNCHANGED gate
    <3>1. LockFits'
      BY <1>0, <2>1, <2>3 DEF LockFits
    <3>2. WalkFits'
      BY <2>1, <2>3, BeginFacts DEF WalkFits, Transferring
    <3> QED
      BY <3>1, <3>2
  <2> QED
    BY <1>5, <2>2, <2>3 DEF InitService
<1>6. CASE PowerOnUpgraded
  <2>1. /\ start = "upgrade" /\ start' = "notify" /\ gate.writer = Main
        /\ UNCHANGED <<pc, published>> /\ \A t \in Threads : pc[t] # "transfer"
    BY <1>0, <1>6 DEF PowerOnUpgraded, LockFits
  <2>2. gate'.readers = gate.readers /\ gate'.writer = Nobody /\ gate'.waiting = gate.waiting
    BY <1>0, <1>6, UnLockWriteFacts DEF PowerOnUpgraded
  <2>3. walk' = NoWalk /\ walk'.at = "none"
    BY <1>6, WalkFacts DEF PowerOnUpgraded, EndTransfer
  <2>4. LockFits'
    BY <1>0, <2>1, <2>2 DEF LockFits
  <2>5. WalkFits'
    BY <2>1, <2>3 DEF WalkFits, Transferring
  <2> QED
    BY <2>4, <2>5
<1>7. CASE Crash
  <2>1. /\ gate' = Open /\ start' = "no" /\ walk' = NoWalk /\ walk'.at = "none"
        /\ \A t \in Threads : pc'[t] = "idle"
    BY <1>7, WalkFacts DEF Crash
  <2>2. LockFits'
    BY <1>0, <2>1, OpenFacts DEF LockFits
  <2>3. WalkFits'
    BY <2>1 DEF WalkFits, Transferring
  <2> QED
    BY <2>2, <2>3
<1> QED
  BY <1>1, <1>2, <1>3, <1>4, <1>5, <1>6, <1>7, ThreadLock DEF Next, MainStep

----------------------------------------------------------------------------
(* The files.                                                              *)

\* A key none of whose copies changes.
LEMMA KeptStays ==
    ASSUME NEW k \in Keys, KeptElsewhere(k), Harmed => Harmed',
           \A p \in Places : file'[k][p] = file[k][p]
    PROVE  KeptElsewhere(k)'
<1>1. {"de"} \cup Users \subseteq Places
  BY GateConstants
<1> QED
  BY <1>1 DEF KeptElsewhere

(* A step that leaves the copies of a file alone.                          *)
LEMMA SameFile ==
    ASSUME NEW k \in Keys, FileFits(k), Harmed => Harmed', UNCHANGED tmpDir,
           \A p \in Places : file'[k][p] = file[k][p],
           AtFile(k)' => AtFile(k) /\ UNCHANGED <<walk, g_frontUserId>>,
           AtFile(k) => Harmed' \/ walk.at # "write" \/ UNCHANGED <<walk, g_frontUserId>>,
           walk.from \in Places, Dest(k) \in Places,
           start' = "remove" => start = "remove",
           copyFailed => copyFailed', Moved' => Moved
    PROVE  FileFits(k)'
<1>1. CopyFits(k)'
  <2> SUFFICES ASSUME AtFile(k)'
               PROVE (/\ file[k][walk.from] = "good" /\ Dest(k) # walk.from
                      /\ walk.at = "write" => file[k][Dest(k)] = "torn"
                      /\ walk.at = "unlink" => file[k][Dest(k)] = "good")'
    BY DEF CopyFits
  <2>1. AtFile(k) /\ walk' = walk /\ Dest(k)' = Dest(k)
    BY DestStays
  <2> QED
    BY <2>1 DEF FileFits, CopyFits
<1>2. TornFits(k)'
  <2> SUFFICES ASSUME NEW p \in Places, file'[k][p] = "torn", ~Harmed'
               PROVE (walk.at = "write" /\ walk.key = k /\ p = Dest(k))'
    BY DEF TornFits
  <2>1. walk.at = "write" /\ walk.key = k /\ p = Dest(k)
    BY DEF FileFits, TornFits
  <2>2. walk' = walk /\ Dest(k)' = Dest(k)
    BY <2>1, DestStays DEF AtFile
  <2> QED
    BY <2>1, <2>2
<1>3. KeptFits(k)'
  BY KeptStays, GateConstants DEF FileFits, KeptFits
<1>4. PlacedFits(k)'
  <2>1. {"tmp", "de"} \cup Users \subseteq Places
    BY GateConstants
  <2> QED
    BY <2>1, GateConstants DEF FileFits, PlacedFits
<1> QED
  BY <1>1, <1>2, <1>3, <1>4 DEF FileFits

(* One copy of the file that the walk is at changes, and a good copy stays *)
(* where it comes from: fopen, the removal of a file at the new place.     *)
LEMMA DestChanges ==
    ASSUME TypeOK, NEW k \in Keys, FileFits(k), AtFile(k), NEW c \in Contents,
           walk.from \in {"tmp"} \cup Users, Harmed => Harmed',
           UNCHANGED <<tmpDir, copyFailed, start, published, g_frontUserId>>,
           \A p \in Places : file'[k][p] = IF p = Dest(k) THEN c ELSE file[k][p],
           walk'.from = walk.from,
           \/ walk' = walk /\ walk.at = "open" /\ c = "none"
           \/ walk'.key = k /\ walk'.at = "write" /\ c = "torn"
           \/ walk'.key = k /\ walk'.at = "unlink" /\ c = "good"
           \/ ~AtFile(k)' /\ walk'.at # "write" /\ c = "none"
    PROVE  FileFits(k)'
<1>1. /\ Dest(k) \in {"de"} \cup Users /\ Dest(k) \in Places /\ Dest(k) \notin {"old", "legacy", "tmp"}
      /\ Dest(k)' = Dest(k) /\ walk.from \in Places /\ walk.from \notin {"old", "legacy"}
  BY DestFacts, DestStays, GateConstants DEF TypeOK
<1>2. file[k][walk.from] = "good" /\ Dest(k) # walk.from
  BY DEF FileFits, CopyFits
<1>3. file'[k][walk.from] = "good" /\ file'[k][Dest(k)] = c
  BY <1>1, <1>2
<1>4. CopyFits(k)'
  BY <1>1, <1>2, <1>3 DEF CopyFits, AtFile
<1>5. TornFits(k)'
  <2> SUFFICES ASSUME NEW p \in Places, file'[k][p] = "torn", ~Harmed'
               PROVE (walk.at = "write" /\ walk.key = k /\ p = Dest(k))'
    BY DEF TornFits
  <2>1. p = Dest(k)
    BY DEF FileFits, TornFits
  <2> QED
    BY <1>1, <1>3, <2>1
<1>6. KeptElsewhere(k)'
  BY <1>1, <1>3 DEF KeptElsewhere
<1>7. file'[k]["old"] = file[k]["old"] /\ file'[k]["tmp"] = file[k]["tmp"]
      /\ file'[k]["legacy"] = file[k]["legacy"]
  BY <1>1, GateConstants
<1>8. KeptFits(k)'
  BY <1>6, <1>7 DEF FileFits, KeptFits
<1>9. PlacedFits(k)'
  BY <1>3, <1>7 DEF FileFits, PlacedFits, Moved
<1> QED
  BY <1>4, <1>5, <1>8, <1>9 DEF FileFits

(* The copy where the file comes from goes once another one is there.      *)
LEMMA SourceGoes ==
    ASSUME TypeOK, NEW k \in Keys, FileFits(k), AtFile(k), walk.from \in {"tmp"} \cup Users,
           Harmed => Harmed', UNCHANGED <<tmpDir, copyFailed, start, published, g_frontUserId>>,
           \A p \in Places : file'[k][p] = IF p = walk.from THEN "none" ELSE file[k][p],
           walk'.at = "visit", walk.at # "write", file[k][Dest(k)] # "none",
           KeyKind[k] = "rdb" => file[k][Dest(k)] = "good"
    PROVE  FileFits(k)'
<1>1. /\ Dest(k) \in {"de"} \cup Users /\ Dest(k) \in Places /\ Dest(k) \notin {"old", "legacy", "tmp"}
      /\ walk.from \in Places /\ walk.from \notin {"old", "legacy"}
  BY DestFacts, GateConstants DEF TypeOK
<1>2. Dest(k) # walk.from /\ file'[k][Dest(k)] = file[k][Dest(k)] /\ file[k][Dest(k)] \in Contents
  BY <1>1 DEF FileFits, CopyFits, TypeOK
<1>3. CopyFits(k)'
  BY DEF CopyFits, AtFile
<1>4. TornFits(k)'
  BY DEF FileFits, TornFits
<1>5. KeptElsewhere(k)'
  <2>1. CASE file[k][Dest(k)] = "good"
    BY <1>1, <1>2, <2>1 DEF KeptElsewhere
  <2>2. CASE file[k][Dest(k)] = "torn"
    <3>1. Harmed
      BY <1>1, <2>2 DEF FileFits, TornFits
    <3> QED
      BY <1>1, <1>2, <2>2, <3>1 DEF KeptElsewhere
  <2> QED
    BY <1>2, <2>1, <2>2 DEF Contents
<1>6. /\ file'[k]["old"] = file[k]["old"] /\ file'[k]["legacy"] = file[k]["legacy"]
      /\ file'[k]["tmp"] \in {file[k]["tmp"], "none"}
  BY <1>1, GateConstants
<1>7. KeptFits(k)'
  BY <1>5, <1>6 DEF FileFits, KeptFits
<1>8. PlacedFits(k)'
  BY <1>1, <1>2, <1>6 DEF FileFits, PlacedFits, Moved
<1> QED
  BY <1>3, <1>4, <1>7, <1>8 DEF FileFits

(* CopyDeToTmpPathIfNeed: the whole directory is renamed.                  *)
LEMMA RenameFits ==
    ASSUME TypeOK, LockFits, WalkFits, Transfer, CopyDeToTmpPathIfNeed, NEW k \in Keys, FileFits(k)
    PROVE  FileFits(k)'
<1>1. /\ UNCHANGED <<start, published, crashes, g_frontUserId, copyFailed>>
      /\ walk.at = "rename" /\ Transferring
      /\ walk'.at = "visit" /\ g_frontUserId \in Places
  BY StartFacts, GateConstants
  DEF Transfer, gateVars, CopyDeToTmpPathIfNeed, TypeOK, Transferring
<1>2. ~AtFile(k) /\ ~AtFile(k)' /\ walk.from \in Places /\ Dest(k) \in Places
  BY <1>1, DestFacts, WalkFacts DEF AtFile, TypeOK
<1>3. Moved /\ (Moved' <=> Moved)
  BY <1>1 DEF Moved, WalkFits, LockFits
<1>4. CASE UNCHANGED <<file, tmpDir>>
  <2>1. Harmed => Harmed'
    BY <1>1, <1>4, FaultFacts DEF CopyDeToTmpPathIfNeed, Harmed, TypeOK
  <2> QED
    BY <1>1, <1>2, <1>3, <1>4, <2>1, SameFile
<1>5. CASE ~UNCHANGED <<file, tmpDir>>
  <2>1. ~tmpDir /\ tmpDir' = TRUE /\ faults' = faults
        /\ file' = [kk \in Keys |-> [file[kk] EXCEPT !["tmp"] = file[kk]["legacy"], !["legacy"] = "none"]]
    BY <1>5 DEF CopyDeToTmpPathIfNeed
  <2>2. \A p \in Places : file'[k][p] = IF p = "tmp" THEN file[k]["legacy"]
                                         ELSE IF p = "legacy" THEN "none" ELSE file[k][p]
    BY <2>1, RenamedFacts DEF TypeOK, Tree
  <2>3. Harmed' <=> Harmed
    BY <1>1, <2>1 DEF Harmed
  <2>4. file[k]["tmp"] = "none"
    BY <2>1 DEF FileFits, PlacedFits
  <2>5. CopyFits(k)'
    BY <1>2 DEF CopyFits
  <2>6. TornFits(k)'
    <3> SUFFICES ASSUME NEW p \in Places, file'[k][p] = "torn"
                 PROVE  Harmed
      BY <2>3 DEF TornFits
    <3>1. \E q \in Places : file[k][q] = "torn"
      BY <2>2, GateConstants
    <3> QED
      BY <1>1, <3>1 DEF FileFits, TornFits
  <2>7. KeptElsewhere(k) => KeptElsewhere(k)'
    <3>1. CASE \E p \in Places \ {"old"} : file[k][p] = "good"
      <4>1. PICK p \in Places \ {"old"} : file[k][p] = "good"
        BY <3>1
      <4>2. CASE p = "legacy"
        BY <2>2, <4>1, <4>2, GateConstants DEF KeptElsewhere
      <4>3. CASE p # "legacy"
        BY <2>2, <2>4, <4>1, <4>3 DEF KeptElsewhere
      <4> QED
        BY <4>2, <4>3
    <3>2. CASE KeyKind[k] # "rdb" /\ Harmed /\ \E p \in {"de"} \cup Users : file[k][p] = "torn"
      BY <2>2, <2>3, <3>2, GateConstants DEF KeptElsewhere
    <3> QED
      BY <3>1, <3>2 DEF KeptElsewhere
  <2>8. file'[k]["old"] = file[k]["old"] /\ file'[k]["tmp"] = file[k]["legacy"]
    BY <2>2, GateConstants
  <2>9. KeptFits(k)'
    BY <1>1, <2>7, <2>8 DEF FileFits, KeptFits
  <2>10. PlacedFits(k)'
    <3>1. \A p \in {"de"} \cup Users : file'[k][p] = file[k][p]
      BY <2>2, GateConstants DEF Places
    <3> QED
      BY <1>1, <1>3, <2>1, <2>8, <3>1 DEF FileFits, PlacedFits
  <2> QED
    BY <2>5, <2>6, <2>9, <2>10 DEF FileFits
<1> QED
  BY <1>4, <1>5

(* The other steps of a transfer, for the file the walk is at and for the  *)
(* others.                                                                 *)
LEMMA TransferFits ==
    ASSUME TypeOK, LockFits, WalkFits, Transfer, NEW k \in Keys, FileFits(k)
    PROVE  FileFits(k)'
<1>0. /\ TransferStep /\ UNCHANGED <<start, published, crashes>>
      /\ walk.from \in {"tmp"} \cup Users /\ walk \in Walks /\ file \in Tree
      /\ g_frontUserId \in Users /\ crashes \in 0 .. MaxCrashes /\ faults \in 0 .. MaxFaults
  BY StepNeedsWalk DEF Transfer, gateVars, WalkFits, TypeOK, Tree
<1>1. /\ Dest(k) \in {"de"} \cup Users /\ Dest(k) \in Places /\ walk.from \in Places
      /\ KeyKind[k] = "rdb" => Dest(k) = "de"
  BY <1>0, DestFacts, GateConstants
<1>2. UNCHANGED <<tmpDir, copyFailed, g_frontUserId>> => (Moved' <=> Moved) /\ Dest(k)' = Dest(k)
  BY <1>0, DestStays DEF Moved
<1>3. /\ Fault => Harmed'
      /\ faults' = faults => (Harmed' <=> Harmed)
  BY <1>0, FaultFacts DEF Harmed
<1>4. CASE CopyDeToTmpPathIfNeed
  BY <1>4, RenameFits
<1>5. CASE NextPass
  <2>1. /\ walk.at = "visit" /\ walk'.at = "visit"
        /\ UNCHANGED <<file, tmpDir, g_frontUserId, faults, copyFailed>>
    BY <1>5, StartFacts, GateConstants DEF NextPass
  <2> QED
    BY <1>0, <1>1, <1>2, <1>3, <2>1, SameFile DEF AtFile
<1>6. ASSUME NEW kk \in Keys, VisitFile(kk) PROVE FileFits(k)'
  <2>1. walk.at = "visit" /\ UNCHANGED <<file, tmpDir, g_frontUserId, faults, copyFailed>>
    BY <1>6 DEF VisitFile
  <2>2. /\ walk'.from = walk.from
        /\ IF Transferred(kk, walk.from) THEN walk'.key = kk /\ walk'.at = "open"
           ELSE walk'.key = NoKey /\ walk'.at = "visit"
    BY <1>0, <1>6, VisitFacts
  <2>3. CASE Transferred(kk, walk.from) /\ kk = k
    <3>1. /\ file[k][walk.from] = "good" /\ KeyKind[k] # "skip"
          /\ walk.from \in Users => KeyKind[k] = "rdb"
      BY <2>3 DEF Transferred
    <3>2. Dest(k) # walk.from
      BY <1>0, <1>1, <3>1, GateConstants
    <3>3. CopyFits(k)'
      BY <1>2, <2>1, <2>2, <2>3, <3>1, <3>2 DEF CopyFits
    <3>4. TornFits(k)'
      BY <1>3, <2>1 DEF FileFits, TornFits
    <3>5. KeptElsewhere(k) => KeptElsewhere(k)'
      BY <1>3, <2>1, KeptStays
    <3>6. KeptFits(k)'
      BY <1>0, <2>1, <3>5 DEF FileFits, KeptFits
    <3>7. PlacedFits(k)'
      BY <1>2, <2>1 DEF FileFits, PlacedFits
    <3> QED
      BY <3>3, <3>4, <3>6, <3>7 DEF FileFits
  <2>4. CASE ~(Transferred(kk, walk.from) /\ kk = k)
    <3>1. ~AtFile(k) /\ ~AtFile(k)'
      BY <2>1, <2>2, <2>4, GateConstants DEF AtFile
    <3> QED
      BY <1>0, <1>1, <1>2, <1>3, <2>1, <3>1, SameFile
  <2> QED
    BY <2>3, <2>4
<1>7. CASE RemoveOverwritten \/ KeepExisting \/ OpenNewFile \/ WriteNewFile \/ RemoveOldFile
  <2>1. /\ UNCHANGED <<tmpDir, copyFailed, g_frontUserId>>
        /\ walk.at \in {"open", "write", "unlink"}
    BY <1>7 DEF RemoveOverwritten, KeepExisting, OpenNewFile, WriteNewFile, RemoveOldFile
  <2>2. walk.key \in Keys /\ Dest(walk.key) \in Places
    BY <1>0, <2>1, WalkFacts, DestFacts DEF TypeOK
  <2>3. Harmed => Harmed'
    BY <1>0, <1>3, <1>7 DEF RemoveOverwritten, KeepExisting, OpenNewFile, WriteNewFile,
                            RemoveOldFile, Harmed
  <2>4. (walk'.key = walk.key \/ walk'.key = NoKey) /\ walk'.from = walk.from
    BY <1>0, <1>7, NextFileFacts, GotoFacts
    DEF RemoveOverwritten, KeepExisting, OpenNewFile, WriteNewFile, RemoveOldFile
  <2>5. CASE k # walk.key
    <3>1. \A p \in Places : file'[k][p] = file[k][p]
      BY <1>0, <1>1, <1>7, <2>2, <2>5, PutFacts, GateConstants
      DEF RemoveOverwritten, KeepExisting, OpenNewFile, WriteNewFile, RemoveOldFile
    <3>2. ~AtFile(k) /\ ~AtFile(k)'
      BY <2>4, <2>5, GateConstants DEF AtFile
    <3> QED
      BY <1>0, <1>1, <1>2, <2>1, <2>3, <3>1, <3>2, SameFile
  <2>6. CASE k = walk.key
    <3>1. AtFile(k)
      BY <2>1, <2>6 DEF AtFile
    <3>2. \A p \in Places, c \in Contents : Put(k, p, c) =>
            \A q \in Places : file'[k][q] = IF q = p THEN c ELSE file[k][q]
      BY <1>0, PutFacts
    <3>3. ASSUME NextFile, UNCHANGED file, Fault \/ walk.at # "write" PROVE FileFits(k)'
      <4>1. ~AtFile(k)'
        BY <1>0, <3>3, NextFileFacts DEF AtFile
      <4> QED
        BY <1>0, <1>1, <1>2, <1>3, <2>1, <2>3, <3>3, <4>1, SameFile
    <3>4. CASE RemoveOverwritten
      <4>1. CASE Put(k, Dest(k), "none") /\ UNCHANGED <<walk, faults>>
        BY <1>0, <1>1, <2>1, <2>3, <2>4, <2>6, <3>1, <3>2, <3>4, <4>1, DestChanges, GateConstants
        DEF RemoveOverwritten
      <4>2. CASE Fault /\ NextFile /\ UNCHANGED file
        BY <3>3, <4>2
      <4> QED
        BY <2>6, <3>4, <4>1, <4>2 DEF RemoveOverwritten
    <3>5. CASE KeepExisting
      <4>1. /\ walk.at = "open" /\ ~Overwrites(k) /\ Exists(k, Dest(k)) /\ NextFile
            /\ \/ Put(k, walk.from, "none") /\ UNCHANGED faults
               \/ Fault /\ UNCHANGED file
        BY <2>6, <3>5 DEF KeepExisting
      <4>2. KeyKind[k] # "rdb" /\ file[k][Dest(k)] # "none" /\ walk'.at = "visit"
        BY <1>0, <4>1, NextFileFacts DEF Overwrites, Exists
      <4>3. CASE Put(k, walk.from, "none")
        BY <1>0, <1>1, <2>1, <2>3, <3>1, <3>2, <4>1, <4>2, <4>3, SourceGoes, GateConstants
      <4>4. CASE UNCHANGED file
        BY <3>3, <4>1, <4>4
      <4> QED
        BY <4>1, <4>3, <4>4
    <3>6. CASE OpenNewFile
      <4>1. CASE CanReach(Dest(k)) /\ Put(k, Dest(k), "torn") /\ Goto("write")
        <5>1. walk'.key = k /\ walk'.at = "write"
          BY <1>0, <2>6, <4>1, GotoFacts
        <5> QED
          BY <1>0, <1>1, <2>1, <2>3, <2>4, <3>1, <3>2, <4>1, <5>1, DestChanges, GateConstants
      <4>2. CASE NextFile /\ UNCHANGED file
        BY <3>3, <3>6, <4>2 DEF OpenNewFile
      <4> QED
        BY <2>6, <3>6, <4>1, <4>2 DEF OpenNewFile
    <3>7. CASE WriteNewFile
      <4>1. CASE Put(k, Dest(k), "good") /\ Goto("unlink")
        <5>1. walk'.key = k /\ walk'.at = "unlink"
          BY <1>0, <2>6, <4>1, GotoFacts
        <5> QED
          BY <1>0, <1>1, <2>1, <2>3, <2>4, <3>1, <3>2, <4>1, <5>1, DestChanges, GateConstants
      <4>2. CASE Fault /\ NextFile /\ UNCHANGED file
        BY <3>3, <4>2
      <4> QED
        BY <2>6, <3>7, <4>1, <4>2 DEF WriteNewFile
    <3>8. CASE RemoveOldFile
      <4>1. walk.at = "unlink" /\ NextFile /\ walk'.at = "visit" /\ ~AtFile(k)'
        BY <1>0, <3>8, NextFileFacts DEF RemoveOldFile, AtFile
      <4>2. CASE Put(k, walk.from, "none")
        <5>1. file[k][Dest(k)] = "good"
          BY <3>1, <4>1 DEF FileFits, CopyFits
        <5> QED
          BY <1>0, <1>1, <2>1, <2>3, <3>1, <3>2, <4>1, <4>2, <5>1, SourceGoes, GateConstants
      <4>3. CASE Put(k, Dest(k), "none")
        BY <1>0, <1>1, <2>1, <2>3, <2>4, <3>1, <3>2, <4>1, <4>3, DestChanges, GateConstants
      <4>4. CASE UNCHANGED file
        BY <3>3, <4>1, <4>4
      <4> QED
        BY <2>6, <3>8, <4>2, <4>3, <4>4 DEF RemoveOldFile
    <3> QED
      BY <1>7, <3>4, <3>5, <3>6, <3>7, <3>8
  <2> QED
    BY <2>5, <2>6
<1> QED
  BY <1>0, <1>4, <1>5, <1>6, <1>7 DEF TransferStep

(* MoveDirectoryTree works on places that no transfer reads or writes, so  *)
(* that it may run beside one that a thread has begun before OnStop.       *)
LEMMA MoveFits ==
    ASSUME TypeOK, WalkFits, MoveDirectoryTree, NEW k \in Keys, FileFits(k)
    PROVE  FileFits(k)'
<1>0. /\ UNCHANGED <<published, crashes, tmpDir, g_frontUserId, walk>> /\ file \in Tree
      /\ start \in {"copy", "remove"} /\ start' \in {"remove", "condition"}
  BY DEF MoveDirectoryTree, CopyTree, CopyTreeFails, RemoveTree, TypeOK, Tree
<1>1. /\ Dest(k) \in {"de"} \cup Users /\ Dest(k) \in Places /\ Dest(k) \notin {"old", "legacy"}
      /\ Dest(k)' = Dest(k) /\ "tmp" \notin {"old", "legacy"}
      /\ AtFile(k) => walk.from \in Places \ {"old", "legacy"}
      /\ {"tmp", "de"} \cup Users \subseteq Places \ {"old", "legacy"}
  BY <1>0, DestFacts, DestStays, GateConstants DEF TypeOK, WalkFits, Transferring, AtFile
<1>2. /\ file[k]["old"] \in {"good", "none"}
      /\ k \in OldKeys <=> file[k]["old"] = "good"
  BY <1>0, GateConstants DEF FileFits, KeptFits, Tree, Contents, OldKeys
<1>3. Moved'
  BY <1>0 DEF Moved
<1>4. ASSUME \A p \in Places \ {"old", "legacy"} : file'[k][p] = file[k][p],
             Harmed => Harmed'
      PROVE  /\ CopyFits(k)'
             /\ \A p \in Places \ {"old", "legacy"} :
                  file'[k][p] = "torn" => Harmed' \/ (walk.at = "write" /\ walk.key = k /\ p = Dest(k))'
             /\ ~tmpDir' => file'[k]["tmp"] = "none"
             /\ ~copyFailed /\ tmpDir' => \E p \in {"tmp", "de"} \cup Users : file'[k][p] # "none"
  BY <1>0, <1>1, <1>4 DEF FileFits, CopyFits, TornFits, PlacedFits, AtFile
<1>5. CASE start = "copy" /\ CopyTree
  <2>1. /\ UNCHANGED <<faults, copyFailed>>
        /\ \A p \in Places : file'[k][p] = IF p = "legacy" /\ k \in OldKeys THEN file[k]["old"]
                                           ELSE IF p = "legacy" /\ k = NoKey THEN "torn"
                                           ELSE file[k][p]
    BY <1>0, <1>5, CopiedFacts DEF CopyTree
  <2>2. \A p \in Places : file'[k][p] = IF p = "legacy" /\ k \in OldKeys THEN "good" ELSE file[k][p]
    BY <1>2, <2>1, GateConstants
  <2>3. Harmed' <=> Harmed
    BY <1>0, <2>1 DEF Harmed
  <2>4. KeptElsewhere(k)'
    <3>1. CASE k \in OldKeys
      BY <2>2, <3>1, GateConstants DEF KeptElsewhere
    <3>2. CASE k \notin OldKeys
      BY <1>2, <2>2, <2>3, <3>2, KeptStays DEF FileFits, KeptFits
    <3> QED
      BY <3>1, <3>2
  <2>5. KeptFits(k)'
    BY <1>2, <2>2, <2>4, GateConstants DEF KeptFits
  <2>6. TornFits(k)'
    BY <1>0, <1>1, <2>2, <2>3 DEF FileFits, TornFits
  <2>7. ~copyFailed /\ ~tmpDir =>
          file'[k]["legacy"] # "none" \/ \E p \in {"de"} \cup Users : file'[k][p] # "none"
    BY <1>2, <2>2, GateConstants DEF FileFits, PlacedFits, Places
  <2>8. PlacedFits(k)'
    BY <1>0, <1>4, <2>1, <2>2, <2>3, <2>7 DEF PlacedFits
  <2> QED
    BY <1>4, <2>2, <2>3, <2>5, <2>6, <2>8 DEF FileFits
<1>6. CASE start = "copy" /\ CopyTreeFails /\ start' = "condition"
  <2>1. PICK s \in SUBSET OldKeys, t \in OldKeys \cup {NoKey} : file' = Copied(s, t)
    BY <1>6 DEF CopyTreeFails, PartOfCopy
  <2>2. \A p \in Places : file'[k][p] = IF p = "legacy" /\ k \in s THEN file[k]["old"]
                                        ELSE IF p = "legacy" /\ k = t THEN "torn" ELSE file[k][p]
    BY <1>0, <2>1, CopiedFacts
  <2>3. Harmed' /\ copyFailed'
    BY <1>0, <1>6, FaultFacts DEF CopyTreeFails, Harmed, TypeOK
  <2>4. TornFits(k)'
    BY <2>3 DEF TornFits
  <2>5. KeptFits(k)'
    <3>1. file'[k]["old"] = file[k]["old"]
      BY <2>2, GateConstants
    <3>2. CASE file[k]["old"] = "good"
      BY <1>6, <3>1, <3>2 DEF KeptFits
    <3>3. CASE file[k]["old"] = "none"
      <4>1. \A p \in Places : file'[k][p] = file[k][p]
        BY <1>2, <2>1, <2>2, <3>3, GateConstants
      <4> QED
        BY <1>6, <2>3, <3>1, <3>3, <4>1, KeptStays DEF FileFits, KeptFits
    <3> QED
      BY <1>2, <3>2, <3>3
  <2>6. PlacedFits(k)'
    BY <1>4, <2>2, <2>3 DEF PlacedFits
  <2> QED
    BY <1>4, <2>2, <2>3, <2>4, <2>5, <2>6 DEF FileFits
<1>7. CASE start = "remove" /\ RemoveTree /\ start' = "condition"
  <2>1. PICK s \in SUBSET OldKeys : file' = Removed(s)
    BY <1>7 DEF RemoveTree
  <2>2. \A p \in Places : file'[k][p] = IF p = "old" /\ k \in s THEN "none" ELSE file[k][p]
    BY <1>0, <2>1, RemovedFacts
  <2>3. (Harmed => Harmed') /\ copyFailed' = copyFailed
    BY <1>0, <1>7, FaultFacts DEF RemoveTree, Harmed, TypeOK
  <2>4. TornFits(k)'
    BY <1>0, <1>1, <2>2, <2>3 DEF FileFits, TornFits
  <2>5. KeptElsewhere(k)'
    <3>1. KeptElsewhere(k)
      BY <1>7 DEF FileFits, KeptFits
    <3>2. \A p \in Places \ {"old"} : file'[k][p] = file[k][p]
      BY <2>2
    <3>3. {"de"} \cup Users \subseteq Places \ {"old"}
      BY <1>1
    <3> QED
      BY <2>3, <3>1, <3>2, <3>3 DEF KeptElsewhere
  <2>6. file'[k]["old"] # "torn" /\ file'[k]["legacy"] = file[k]["legacy"]
    BY <1>2, <2>2, GateConstants
  <2>7. KeptFits(k)'
    BY <2>5, <2>6 DEF KeptFits
  <2>8. Moved /\ \A p \in {"de"} \cup Users : file'[k][p] = file[k][p]
    BY <1>7, <2>2, GateConstants DEF Moved, Places
  <2>9. PlacedFits(k)'
    BY <1>0, <1>4, <2>2, <2>3, <2>6, <2>8 DEF FileFits, PlacedFits
  <2> QED
    BY <1>4, <2>2, <2>3, <2>4, <2>7, <2>9 DEF FileFits
<1> QED
  BY <1>5, <1>6, <1>7 DEF MoveDirectoryTree

(* A restart of the process in the middle of anything.                     *)
LEMMA CrashFits ==
    ASSUME TypeOK, Crash, NEW k \in Keys, FileFits(k)
    PROVE  FileFits(k)'
<1>0. /\ UNCHANGED <<tmpDir, faults, copyFailed>> /\ file \in Tree
      /\ walk'.at = "none" /\ start' = "no" /\ ~published'
      /\ {"tmp", "de"} \cup Users \subseteq Places \ {"old", "legacy"}
  BY WalkFacts, GateConstants DEF Crash, TypeOK, Tree
<1>1. Harmed'
  BY GateConstants DEF Crash, Harmed, TypeOK
<1>2. /\ file[k]["old"] \in {"good", "none"}
      /\ k \in OldKeys <=> file[k]["old"] = "good"
  BY <1>0, GateConstants DEF FileFits, KeptFits, Tree, Contents, OldKeys
<1>3. ~Moved'
  BY <1>0 DEF Moved
<1>4. CopyFits(k)' /\ TornFits(k)'
  BY <1>0, <1>1 DEF CopyFits, TornFits, AtFile
<1>5. /\ \A p \in Places \ {"old", "legacy"} : file'[k][p] = file[k][p]
      /\ file'[k]["old"] # "torn"
      /\ \/ file'[k]["old"] = "good" /\ file'[k]["legacy"] # file[k]["legacy"]
         \/ file'[k]["old"] = file[k]["old"] /\ file'[k]["legacy"] = file[k]["legacy"]
         \/ start = "remove" /\ file'[k]["legacy"] = file[k]["legacy"]
  <2>1. CASE UNCHANGED file
    BY <1>2, <2>1
  <2>2. CASE start = "copy" /\ PartOfCopy
    <3>1. PICK s \in SUBSET OldKeys, t \in OldKeys \cup {NoKey} : file' = Copied(s, t)
      BY <2>2 DEF PartOfCopy
    <3>2. \A p \in Places : file'[k][p] = IF p = "legacy" /\ k \in s THEN file[k]["old"]
                                          ELSE IF p = "legacy" /\ k = t THEN "torn" ELSE file[k][p]
      BY <1>0, <3>1, CopiedFacts
    <3> QED
      BY <1>2, <3>1, <3>2, GateConstants
  <2>3. CASE start = "remove" /\ \E s \in SUBSET OldKeys : file' = Removed(s)
    <3>1. PICK s \in SUBSET OldKeys : file' = Removed(s)
      BY <2>3
    <3>2. \A p \in Places : file'[k][p] = IF p = "old" /\ k \in s THEN "none" ELSE file[k][p]
      BY <1>0, <3>1, RemovedFacts
    <3> QED
      BY <1>2, <2>3, <3>2, GateConstants
  <2> QED
    BY <2>1, <2>2, <2>3 DEF Crash
<1>6. KeptElsewhere(k) /\ file'[k]["legacy"] = file[k]["legacy"] => KeptElsewhere(k)'
  <2> SUFFICES ASSUME KeptElsewhere(k), file'[k]["legacy"] = file[k]["legacy"]
               PROVE  KeptElsewhere(k)'
    OBVIOUS
  <2>1. \A p \in Places \ {"old"} : file'[k][p] = file[k][p]
    BY <1>5
  <2>2. {"de"} \cup Users \subseteq Places \ {"old"}
    BY <1>0
  <2> QED
    BY <1>1, <2>1, <2>2 DEF KeptElsewhere
<1>7. KeptFits(k)'
  BY <1>0, <1>5, <1>6 DEF FileFits, KeptFits
<1>8. PlacedFits(k)'
  <2>1. start = "remove" => Moved
    BY DEF Moved
  <2> QED
    BY <1>0, <1>3, <1>5, <2>1 DEF FileFits, PlacedFits
<1> QED
  BY <1>4, <1>7, <1>8 DEF FileFits

\* Every step keeps the copies of a key in order.
LEMMA FilesStep ==
    ASSUME GateInv, [Next]_vars, NEW k \in Keys
    PROVE  FileFits(k)'
<1>0. TypeOK /\ LockFits /\ WalkFits /\ FileFits(k)
  BY DEF GateInv
<1>1. CASE Transfer
  BY <1>0, <1>1, TransferFits
<1>2. CASE MoveDirectoryTree
  BY <1>0, <1>2, MoveFits
<1>3. CASE Crash
  BY <1>0, <1>3, CrashFits
<1>4. CASE /\ UNCHANGED <<file, tmpDir, faults, copyFailed, crashes>>
           /\ \/ UNCHANGED <<walk, g_frontUserId>>
              \/ walk.at \notin {"open", "write", "unlink"} /\ walk'.at \notin {"open", "write", "unlink"}
           /\ start' = "remove" => start = "remove"
           /\ Moved' => Moved
  <2>1. Harmed' <=> Harmed
    BY <1>4 DEF Harmed
  <2>2. walk.from \in Places /\ Dest(k) \in Places
    BY <1>0, WalkFacts, DestFacts DEF TypeOK
  <2> QED
    BY <1>0, <1>4, <2>1, <2>2, SameFile DEF AtFile
<1>5. CASE OnStart \/ ProcessConditionCreate \/ LockBeforeInit \/ NotifyAll \/ OnStop \/ Unlock
           \/ UNCHANGED vars
  <2>1. Moved' => Moved
    BY <1>0, <1>5 DEF OnStart, ProcessConditionCreate, LockBeforeInit, NotifyAll, OnStop, Unlock, vars,
                gateVars, Moved
  <2> QED
    BY <1>4, <1>5, <2>1 DEF OnStart, ProcessConditionCreate, LockBeforeInit, NotifyAll, OnStop, Unlock,
                            vars, gateVars, transferVars
<1>6. CASE InitService
  <2>1. ~Transferring /\ Moved
    BY <1>0, <1>6, GateConstants DEF InitService, WalkFits, LockFits, Moved
  <2>2. UNCHANGED <<file, tmpDir, faults, copyFailed, crashes>> /\ start' # "remove"
    BY <1>6, BeginFacts DEF InitService, transferVars
  <2>3. walk'.at \in {"none", "rename"}
    BY <1>6, <2>1, BeginFacts DEF InitService, transferVars, Transferring
  <2> QED
    BY <1>4, <2>1, <2>2, <2>3 DEF Transferring
<1>7. CASE PowerOnUpgraded
  BY <1>4, <1>7, WalkFacts DEF PowerOnUpgraded, EndTransfer, TransferEnded, Moved
<1>8. ASSUME NEW t \in Threads, Arrive(t) \/ WakeEarly(t) \/ ThreadStep(t)
      PROVE  FileFits(k)'
  <2>1. UNCHANGED <<start, published, crashes>>
    BY <1>8 DEF Arrive, WakeEarly, ThreadStep, WaitIfPowerOnUpgrading, ReadGuard, Handle,
        WriteGuard, UserUnlockUpgraded, ReadGuardAgain, Serve
  <2>2. Moved' => Moved
    BY <2>1 DEF Moved
  <2>3. CASE UNCHANGED transferVars
    BY <1>4, <2>1, <2>2, <2>3 DEF transferVars
  <2>4. CASE WriteGuard(t)
    <3>1. gate.writer = Nobody
      BY <2>4 DEF WriteGuard, LockWrite
    <3>2. ~Transferring
      BY <1>0, <3>1, GateConstants DEF WalkFits, LockFits
    <3>3. walk'.at = "rename" /\ UNCHANGED <<file, tmpDir, faults, copyFailed>>
      BY <2>4, BeginFacts DEF WriteGuard
    <3> QED
      BY <1>4, <2>1, <2>2, <3>2, <3>3 DEF Transferring
  <2>5. CASE UserUnlockUpgraded(t)
    BY <1>4, <2>1, <2>2, <2>5, WalkFacts DEF UserUnlockUpgraded, EndTransfer, TransferEnded
  <2> QED
    BY <1>8, <2>3, <2>4, <2>5
    DEF Arrive, WakeEarly, ThreadStep, WaitIfPowerOnUpgrading, ReadGuard, Handle, ReadGuardAgain, Serve
<1> QED
  BY <1>1, <1>2, <1>3, <1>5, <1>6, <1>7, <1>8 DEF Next, MainStep

----------------------------------------------------------------------------
(* The invariant of the gate and of the transfer behind it.                *)
THEOREM GateInvariant == Spec => []GateInv
<1>1. Init => GateInv
  <2> SUFFICES ASSUME Init PROVE GateInv
    OBVIOUS
  <2>1. PICK home \in [Keys -> Places] :
          /\ \A k \in Keys : home[k] \in Homes(k)
          /\ file = [k \in Keys |-> [p \in Places |-> IF p = home[k] THEN "good" ELSE "none"]]
    BY DEF Init, TransferInit
  <2>2. \A k \in Keys : /\ home[k] \in {"old", "legacy"} \cup Users
                        /\ \A p \in Places : file[k][p] = IF p = home[k] THEN "good" ELSE "none"
    BY <2>1, TransferAssumption DEF Homes
  <2>3. file \in Tree
    BY <2>1, GateConstants DEF Tree
  <2>4. TransferType
    <3>1. walk \in Walks /\ walk.key = NoKey /\ walk.at = "none"
      BY WalkFacts DEF Init, TransferInit
    <3>2. g_frontUserId \in Users /\ faults \in 0 .. MaxFaults
      BY GateConstants DEF Init, TransferInit
    <3>3. tmpDir = FALSE /\ copyFailed = FALSE /\ unlocked = {}
      BY DEF Init, TransferInit
    <3> QED
      BY <2>3, <3>1, <3>2, <3>3 DEF TransferType
  <2>5. GateType
    <3>1. gate \in Gates
      BY OpenFacts DEF Init
    <3>2. crashes \in 0 .. MaxCrashes /\ stops \in 0 .. MaxStops
      BY GateConstants DEF Init
    <3>3. PcType /\ job \in [Threads -> Jobs \cup {NoJob}]
      BY DEF Init, PcType
    <3>4. start = "no" /\ condition = "null" /\ published = FALSE /\ g_isCeUpgradeSucc = FALSE
      BY DEF Init
    <3> QED
      BY <3>1, <3>2, <3>3, <3>4 DEF GateType, Gates, PcType
  <2>6. TypeOK
    BY <2>4, <2>5, TypeParts
  <2>7. LockFits
    BY OpenFacts, GateConstants DEF Init, LockFits
  <2>8. WalkFits
    BY WalkFacts DEF Init, TransferInit, WalkFits, Transferring
  <2>9. ASSUME NEW k \in Keys PROVE FileFits(k)
    <3>1. CopyFits(k)
      BY WalkFacts DEF Init, TransferInit, CopyFits, AtFile
    <3>2. TornFits(k)
      BY <2>2 DEF TornFits
    <3>3. KeptFits(k)
      BY <2>2, GateConstants DEF Init, KeptFits, KeptElsewhere
    <3>4. PlacedFits(k)
      BY <2>2, GateConstants DEF Init, TransferInit, PlacedFits, Moved
    <3> QED
      BY <3>1, <3>2, <3>3, <3>4 DEF FileFits
  <2> QED
    BY <2>6, <2>7, <2>8, <2>9 DEF GateInv
<1>2. GateInv /\ [Next]_vars => GateInv'
  <2> SUFFICES ASSUME GateInv, [Next]_vars PROVE GateInv'
    OBVIOUS
  <2>1. TypeOK' /\ LockFits' /\ WalkFits'
    BY TypeStep, LockStep DEF GateInv
  <2>2. \A k \in Keys : FileFits(k)'
    BY FilesStep
  <2> QED
    BY <2>1, <2>2 DEF GateInv
<1> QED
  BY <1>1, <1>2, PTL DEF Spec

(* The state of the start-up, of the gate and of the transfer keeps its    *)
(* types (TypeOK).                                                         *)
THEOREM GateTypes == Spec => []TypeOK
<1>1. GateInv => TypeOK
  BY DEF GateInv
<1> QED
  BY <1>1, GateInvariant, PTL

(* While OnStart or a thread transfers files under the write lock, no      *)
(* request and no event is between its two guards, whatever woke it up     *)
(* (NobodyInsideTransfer).                                                 *)
THEOREM NobodyInside == Spec => []NobodyInsideTransfer
<1>1. GateInv => NobodyInsideTransfer
  <2> SUFFICES ASSUME GateInv, walk # NoWalk
               PROVE  (\A t \in Threads : pc[t] \notin {"in", "serve"}) /\ gate.writer # Nobody
    BY DEF NobodyInsideTransfer
  <2>1. LockFits /\ WalkFits
    BY DEF GateInv
  <2>2. gate.writer # Nobody
    BY <2>1, GateConstants DEF LockFits, WalkFits
  <2>3. gate.readers = {}
    BY <2>1, <2>2 DEF LockFits
  <2> QED
    BY <2>1, <2>2, <2>3 DEF LockFits
<1> QED
  BY <1>1, GateInvariant, PTL

(* No failing file operation, no restart and no order of transfers loses a *)
(* key file: a good copy is left, or a torn one hides the key after a      *)
(* failure (KeyKept).                                                      *)
THEOREM Kept == Spec => []KeyKept
<1>1. GateInv => KeyKept
  <2> SUFFICES ASSUME GateInv, NEW k \in Keys
               PROVE  \/ \E p \in Places : file[k][p] = "good"
                      \/ /\ KeyKind[k] # "rdb" /\ faults + crashes > 0
                         /\ \E p \in {"de"} \cup Users : file[k][p] = "torn"
    BY DEF KeyKept
  <2>1. file[k]["old"] = "good" \/ KeptElsewhere(k)
    BY DEF GateInv, FileFits, KeptFits
  <2> QED
    BY <2>1, GateConstants DEF KeptElsewhere, Harmed
<1> QED
  BY <1>1, GateInvariant, PTL

(* Unless a copy of the directory tree failed, every key file is in the    *)
(* temporary directory or at its new place once that directory is made     *)
(* (NotStranded).                                                          *)
THEOREM Reachable == Spec => []NotStranded
<1>1. GateInv => NotStranded
  BY DEF GateInv, FileFits, PlacedFits, NotStranded
<1> QED
  BY <1>1, GateInvariant, PTL
=============================================================================

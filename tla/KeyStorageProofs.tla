-------------------------- MODULE KeyStorageProofs --------------------------
(***************************************************************************)
(* The key storage follows the protocol of the file locks, and therefore   *)
(* reads no file that is just being written.                               *)
(***************************************************************************)
EXTENDS KeyStorage, FileLocksProofs

(* Every access names one of the two files.                                *)
LEMMA FileOfPath == \A l : FileOf(l) \in Paths
  BY StorageAssumption DEF FileOf

(* Every step of the storage is a step of the lock objects or none.        *)
LEMMA StorageStepLocks == [Next]_vars => [LockNext]_lockVars
<1> SUFFICES ASSUME [Next]_vars PROVE [LockNext]_lockVars
  OBVIOUS
<1>1. CASE Crash
  BY <1>1 DEF Crash, LockNext
<1>2. ASSUME NEW t \in Threads, Call(t)
      PROVE  [LockNext]_lockVars
  BY <1>2 DEF Call, lockVars
<1>3. ASSUME NEW t \in Threads, Work(t)
      PROVE  [LockNext]_lockVars
  <2>1. CASE BeginAccess(t)
    BY <2>1, FileOfPath DEF BeginAccess, LockNext, Access
  <2>2. CASE Open(t)
    BY <2>2 DEF Open, LockNext, Access
  <2>3. CASE Transfer(t)
    BY <2>3 DEF Transfer, LockNext, Access
  <2>4. CASE \/ DeleteKeyBlobMainExists(t) \/ DeleteKeyBlobBakExists(t) \/ CleanFile(t)
             \/ Deleted(t) \/ HuksAccessGenerateKey(t) \/ IsKeyBlobExist(t)
             \/ GetKeyFileData(t) \/ GetKeyBlobFromFile(t)
    <3>1. UNCHANGED lockVars
      BY <2>4 DEF DeleteKeyBlobMainExists, DeleteKeyBlobBakExists, CleanFile, Deleted,
                  HuksAccessGenerateKey, IsKeyBlobExist, GetKeyFileData, GetKeyBlobFromFile
    <3> QED
      BY <3>1
  <2>5. CASE \/ FileCleaned(t) \/ FileRemoved(t) \/ MainStored(t) \/ BakStored(t)
             \/ CopyKeyBlobFromSrc(t) \/ CheckAndUpgradeKeyIfNeed(t) \/ FallBack(t)
             \/ RestoreMain(t) \/ LastAccess(t)
    <3>1. HksStorageFileLockRelease(t)
      BY <2>5 DEF FileCleaned, FileRemoved, MainStored, BakStored, CopyKeyBlobFromSrc,
                  CheckAndUpgradeKeyIfNeed, FallBack, RestoreMain, LastAccess, EndAccess, FailAccess
    <3> QED
      BY <3>1 DEF LockNext, Access
  <2> QED
    BY <1>3, <2>1, <2>2, <2>3, <2>4, <2>5 DEF Work
<1>4. CASE UNCHANGED vars
  BY <1>4 DEF vars, lockVars
<1> QED
  BY <1>1, <1>2, <1>3, <1>4 DEF Next

(* The requests use the lock objects as hks_storage_file_lock.c expects:   *)
(* create, lock, unlock, release, in this order and for the file that is   *)
(* accessed, so that the storage implements the specification of the locks.*)
THEOREM StorageUsesLocks == Spec => LockSpec
<1>1. Init => OnLoad
  BY DEF Init
<1>2. [Next]_vars => [LockNext]_lockVars
  BY StorageStepLocks
<1> QED
  BY <1>1, <1>2, PTL DEF Spec, LockSpec

(* A request that writes or removes a key file has the file for itself.    *)
THEOREM StorageWritersAlone == Spec => []WriterAlone
  BY StorageUsesLocks, WritersAlone, PTL

-----------------------------------------------------------------------------
(* The constant contents and requests have their types.                    *)
LEMMA ConstantTypes ==
    /\ NoFile \in Contents /\ Empty \in Contents /\ Junk \in Contents
    /\ NoRequest \in Request
    /\ \A k \in 0 .. MaxKeys, old \in BOOLEAN : KeyBlob(k, old) \in Contents
<1>1. 0 \in 0 .. MaxKeys /\ 0 \in 0 .. CleanWrites - 1
  BY StorageAssumption DEF CleanWrites
<1>2. NoFile \in Contents /\ Empty \in Contents /\ Junk \in Contents
  BY <1>1 DEF NoFile, Empty, Junk, Contents
<1>3. NoRequest \in Request
  BY <1>1, <1>2 DEF NoRequest, Request
<1>4. \A k \in 0 .. MaxKeys, old \in BOOLEAN : KeyBlob(k, old) \in Contents
  BY DEF KeyBlob, Contents
<1> QED
  BY <1>2, <1>3, <1>4

(* Assigning to a local variable of a request keeps its type.              *)
LEMMA RequestUpdates ==
    ASSUME NEW r \in Request
    PROVE  /\ \A b \in BOOLEAN : [r EXCEPT !.failed = b] \in Request
           /\ \A b \in BOOLEAN : [r EXCEPT !.mainExists = b] \in Request
           /\ \A c \in Contents : [r EXCEPT !.buf = c] \in Request
           /\ \A c \in Contents : [r EXCEPT !.sized = c] \in Request
           /\ [r EXCEPT !.buf.old = FALSE] \in Request
<1>1. \A b \in BOOLEAN : [r EXCEPT !.failed = b] \in Request
  BY DEF Request
<1>2. \A b \in BOOLEAN : [r EXCEPT !.mainExists = b] \in Request
  BY DEF Request
<1>3. \A c \in Contents : [r EXCEPT !.buf = c] \in Request
  BY DEF Request
<1>4. \A c \in Contents : [r EXCEPT !.sized = c] \in Request
  BY DEF Request
<1>5. [r EXCEPT !.buf.old = FALSE] \in Request
  BY DEF Request, Contents
<1> QED
  BY <1>1, <1>2, <1>3, <1>4, <1>5

(* The same for the requests of all threads.                               *)
LEMMA LocalUpdates ==
    ASSUME NEW R \in [Threads -> Request], NEW t \in Threads
    PROVE  /\ \A b \in BOOLEAN : [R EXCEPT ![t].failed = b] \in [Threads -> Request]
           /\ \A b \in BOOLEAN : [R EXCEPT ![t].mainExists = b] \in [Threads -> Request]
           /\ \A c \in Contents : [R EXCEPT ![t].buf = c] \in [Threads -> Request]
           /\ \A c \in Contents : [R EXCEPT ![t].sized = c] \in [Threads -> Request]
           /\ [R EXCEPT ![t].buf.old = FALSE] \in [Threads -> Request]
<1>1. R[t] \in Request
  OBVIOUS
<1>2. \A r \in Request : [R EXCEPT ![t] = r] \in [Threads -> Request]
  OBVIOUS
<1>3. \A b \in BOOLEAN : [R EXCEPT ![t].failed = b] \in [Threads -> Request]
  <2> TAKE b \in BOOLEAN
  <2>1. [R[t] EXCEPT !.failed = b] \in Request
    BY <1>1, RequestUpdates
  <2> QED
    BY <1>2, <2>1
<1>4. \A b \in BOOLEAN : [R EXCEPT ![t].mainExists = b] \in [Threads -> Request]
  <2> TAKE b \in BOOLEAN
  <2>1. [R[t] EXCEPT !.mainExists = b] \in Request
    BY <1>1, RequestUpdates
  <2> QED
    BY <1>2, <2>1
<1>5. \A c \in Contents : [R EXCEPT ![t].buf = c] \in [Threads -> Request]
  <2> TAKE c \in Contents
  <2>1. [R[t] EXCEPT !.buf = c] \in Request
    BY <1>1, RequestUpdates
  <2> QED
    BY <1>2, <2>1
<1>6. \A c \in Contents : [R EXCEPT ![t].sized = c] \in [Threads -> Request]
  <2> TAKE c \in Contents
  <2>1. [R[t] EXCEPT !.sized = c] \in Request
    BY <1>1, RequestUpdates
  <2> QED
    BY <1>2, <2>1
<1>7. [R EXCEPT ![t].buf.old = FALSE] \in [Threads -> Request]
  <2>1. [R[t] EXCEPT !.buf.old = FALSE] \in Request
    BY <1>1, RequestUpdates
  <2> QED
    BY <1>2, <2>1
<1> QED
  BY <1>3, <1>4, <1>5, <1>6, <1>7

(* What Init sets up is well typed.                                        *)
LEMMA InitTypeOK == Init => TypeOK
<1> SUFFICES ASSUME Init PROVE TypeOK
  OBVIOUS
<1>1. LockTypeOK
  BY OnLoadLockInv DEF Init, LockInv
<1>2. 0 \in 0 .. MaxKeys /\ 1 \in 0 .. MaxKeys /\ 0 \in 0 .. MaxCrashes
  BY StorageAssumption
<1>3. file \in [Paths -> Contents] /\ keysMade \in 0 .. MaxKeys
  BY <1>2, ConstantTypes, StorageAssumption DEF Init
<1>4. kept \in SUBSET (0 .. MaxKeys)
  BY <1>2, <1>3, StorageAssumption DEF Init
<1>5. pc \in [Threads -> Labels] /\ req \in [Threads -> Request]
  BY ConstantTypes DEF Init, Labels
<1> QED
  BY <1>1, <1>2, <1>3, <1>4, <1>5 DEF Init, TypeOK

(* Every step keeps the types.                                             *)
LEMMA NextTypeOK == TypeOK /\ LockTypeOK' /\ [Next]_vars => TypeOK'
<1> SUFFICES ASSUME TypeOK, LockTypeOK', [Next]_vars PROVE TypeOK'
  OBVIOUS
<1> USE ConstantTypes, StorageAssumption
<1>1. CASE Crash
  <2>1. file' \in [Paths -> Contents]
    BY <1>1 DEF Crash, TypeOK
  <2>2. crashes' \in 0 .. MaxCrashes
    BY <1>1 DEF Crash, TypeOK
  <2> QED
    BY <1>1, <2>1, <2>2 DEF Crash, TypeOK, history, Labels
<1>2. ASSUME NEW t \in Threads, Call(t)
      PROVE  TypeOK'
  <2>1. PICK call \in Requests : /\ CallRead(t, call) \/ CallDelete(t, call)
                                 /\ Goto(t, FirstLabel(call))
    BY <1>2 DEF Call
  <2>2. FirstLabel(call) \in Labels
    BY <2>1 DEF FirstLabel, Labels
  <2>3. CASE CallRead(t, call)
    <3>1. req' \in [Threads -> Request]
      BY <2>3 DEF CallRead, TypeOK, Request
    <3> QED
      BY <1>2, <2>1, <2>2, <2>3, <3>1 DEF Call, CallRead, Goto, TypeOK
  <2>4. CASE CallDelete(t, call)
    <3>1. kept \ dead \in SUBSET (0 .. MaxKeys)
      BY DEF TypeOK
    <3>2. req' \in [Threads -> Request]
      <4> DEFINE overlap == {u \in Threads : Deleting(u)}
                 new == [NoRequest EXCEPT !.call = call, !.old = kept \ dead,
                                          !.clash = overlap # {}]
      <4>1. call \in {"generate", "delete"} /\ (overlap # {}) \in BOOLEAN
        BY <2>4 DEF CallDelete
      <4>2. new \in Request
        BY <3>1, <4>1 DEF NoRequest, Request
      <4>3. \A r \in Request : [r EXCEPT !.clash = TRUE] \in Request
        BY DEF Request
      <4>4. req' = [u \in Threads |-> IF u = t THEN new
                                      ELSE IF u \in overlap THEN [req[u] EXCEPT !.clash = TRUE]
                                      ELSE req[u]]
        BY <2>4 DEF CallDelete
      <4> HIDE DEF new, overlap
      <4> QED
        BY <4>2, <4>3, <4>4 DEF TypeOK
    <3> QED
      BY <1>2, <2>1, <2>2, <2>4, <3>2 DEF Call, CallDelete, Goto, TypeOK
  <2> QED
    BY <2>1, <2>3, <2>4
<1>3. ASSUME NEW t \in Threads, Work(t)
      PROVE  TypeOK'
  <2>0. path[t] \in Paths /\ req[t] \in Request
    BY DEF TypeOK, LockTypeOK
  <2>1. CASE BeginAccess(t)
    BY <2>1 DEF BeginAccess, TypeOK, history
  <2>2. CASE Open(t)
    <3>1. file' \in [Paths -> Contents]
      BY <2>0, <2>2 DEF Open, TypeOK
    <3>2. req' = [req EXCEPT ![t].failed = FALSE] \/ req' = [req EXCEPT ![t].failed = TRUE]
      BY <2>2 DEF Open
    <3>3. req' \in [Threads -> Request]
      <4>1. req \in [Threads -> Request] /\ TRUE \in BOOLEAN /\ FALSE \in BOOLEAN
        BY DEF TypeOK
      <4>2. /\ [req EXCEPT ![t].failed = FALSE] \in [Threads -> Request]
            /\ [req EXCEPT ![t].failed = TRUE] \in [Threads -> Request]
        BY <4>1, LocalUpdates, Zenon
      <4> QED
        BY <3>2, <4>2, Zenon
    <3> QED
      BY <2>2, <3>1, <3>3 DEF Open, TypeOK, history
  <2>3. CASE Transfer(t)
    <3>1. CASE HksFileRead(t)
      <4>1. file[path[t]] \in Contents
        BY <2>0 DEF TypeOK
      <4>2. PICK c \in Contents : req' = [req EXCEPT ![t].buf = c, ![t].sized = NoFile]
        BY <3>1, <4>1 DEF HksFileRead
      <4>3. [req EXCEPT ![t].buf = c] \in [Threads -> Request]
        BY LocalUpdates DEF TypeOK
      <4>4. req' \in [Threads -> Request]
        BY <4>2, <4>3, LocalUpdates
      <4> QED
        BY <2>3, <3>1, <4>4 DEF Transfer, HksFileRead, TypeOK, history
    <3>2. CASE HksFileWrite(t)
      <4>1. Written(t) \in Contents
        BY DEF Written, TypeOK, Request
      <4>2. file' \in [Paths -> Contents]
        BY <2>0, <3>2, <4>1 DEF HksFileWrite, TypeOK
      <4>3. req' \in [Threads -> Request]
        <5>1. req' = req \/ req' = [req EXCEPT ![t].failed = TRUE]
          BY <3>2 DEF HksFileWrite
        <5>2. req \in [Threads -> Request] /\ TRUE \in BOOLEAN
          BY DEF TypeOK
        <5>3. [req EXCEPT ![t].failed = TRUE] \in [Threads -> Request]
          BY <5>2, LocalUpdates, Zenon
        <5> QED
          BY <5>1, <5>2, <5>3, Zenon
      <4> QED
        BY <2>3, <4>2, <4>3 DEF Transfer, TypeOK, history
    <3>3. CASE HksFileRemove(t)
      BY <2>0, <2>3, <3>3 DEF Transfer, HksFileRemove, TypeOK, history
    <3> QED
      BY <2>3, <3>1, <3>2, <3>3 DEF Transfer
  <2>4. CASE DeleteKeyBlobMainExists(t) \/ DeleteKeyBlobBakExists(t) \/ CleanFile(t)
    <3>1. pc' \in [Threads -> Labels]
      BY <2>4 DEF DeleteKeyBlobMainExists, DeleteKeyBlobBakExists, CleanFile, AfterBak, Goto,
                  TypeOK, Labels, AccessLabels, RemoveLabels, WriteLabels
    <3>2. req' \in [Threads -> Request]
      <4>1. \/ req' = req
            \/ req' = [req EXCEPT ![t].mainExists = Exists("main")]
        BY <2>4 DEF DeleteKeyBlobMainExists, DeleteKeyBlobBakExists, CleanFile
      <4>2. Exists("main") \in BOOLEAN
        BY DEF Exists
      <4>3. req \in [Threads -> Request]
        BY DEF TypeOK
      <4>4. [req EXCEPT ![t].mainExists = Exists("main")] \in [Threads -> Request]
        BY <4>2, <4>3, LocalUpdates, Zenon
      <4> QED
        BY <4>1, <4>3, <4>4, Zenon
    <3> QED
      BY <2>4, <3>1, <3>2 DEF DeleteKeyBlobMainExists, DeleteKeyBlobBakExists, CleanFile,
                              TypeOK, history
  <2>5. CASE FileCleaned(t)
    <3>1. pc' \in [Threads -> Labels]
      BY <2>5 DEF FileCleaned, EndAccess, Goto, TypeOK, Labels, AccessLabels, RemoveLabels
    <3>2. req' \in [Threads -> Request]
      <4> DEFINE again == ~req[t].failed /\ req[t].cleans + 1 < CleanWrites
      <4>1. (IF again THEN req[t].cleans + 1 ELSE 0) \in 0 .. CleanWrites - 1
        BY DEF CleanWrites, TypeOK, Request
      <4> QED
        BY <2>5, <4>1 DEF FileCleaned, TypeOK, Request
    <3> QED
      BY <2>5, <3>1, <3>2 DEF FileCleaned, EndAccess, TypeOK, history
  <2>6. CASE FileRemoved(t) \/ MainStored(t) \/ CopyKeyBlobFromSrc(t) \/ FallBack(t) \/ RestoreMain(t)
    <3>1. pc' \in [Threads -> Labels]
      BY <2>6 DEF FileRemoved, MainStored, CopyKeyBlobFromSrc, FallBack, RestoreMain, AfterBak,
                  EndAccess, Goto, TypeOK, Labels, AccessLabels, WriteLabels
    <3> QED
      BY <2>6, <3>1 DEF FileRemoved, MainStored, CopyKeyBlobFromSrc, FallBack, RestoreMain,
                        EndAccess, TypeOK, history
  <2>7. CASE Deleted(t)
    <3>1. dead' \in SUBSET (0 .. MaxKeys)
      BY <2>7 DEF Deleted, TypeOK, Request
    <3>2. pc' \in [Threads -> Labels] /\ req' \in [Threads -> Request]
      BY <2>7 DEF Deleted, Return, Goto, TypeOK, Labels
    <3> QED
      BY <2>7, <3>1, <3>2 DEF Deleted, TypeOK
  <2>8. CASE HuksAccessGenerateKey(t)
    <3>1. CASE /\ keysMade < MaxKeys
               /\ keysMade' = keysMade + 1
               /\ req' = [req EXCEPT ![t].buf = KeyBlob(keysMade + 1, FALSE)]
               /\ Goto(t, "storeMain")
      <4>1. keysMade' \in 0 .. MaxKeys /\ KeyBlob(keysMade + 1, FALSE) \in Contents
        <5>1. keysMade + 1 \in 0 .. MaxKeys
          BY <3>1 DEF TypeOK
        <5> QED
          BY <3>1, <5>1
      <4>2. req' \in [Threads -> Request]
        BY <3>1, <4>1, LocalUpdates DEF TypeOK
      <4> QED
        BY <2>8, <3>1, <4>1, <4>2 DEF HuksAccessGenerateKey, Goto, TypeOK, history, Labels,
                                      AccessLabels, WriteLabels
    <3>2. CASE Return(t) /\ UNCHANGED keysMade
      BY <2>8, <3>2 DEF HuksAccessGenerateKey, Return, Goto, TypeOK, history, Labels
    <3> QED
      BY <2>8, <3>1, <3>2 DEF HuksAccessGenerateKey
  <2>9. CASE BakStored(t)
    <3>1. req[t].buf.key \in 0 .. MaxKeys
      BY DEF TypeOK, Request, Contents
    <3>2. kept' \in SUBSET (0 .. MaxKeys) /\ doomed' \in SUBSET (0 .. MaxKeys)
      BY <2>9, <3>1 DEF BakStored, TypeOK
    <3>3. dead' \in SUBSET (0 .. MaxKeys)
      BY <2>9 DEF BakStored, TypeOK, Request
    <3> QED
      BY <2>9, <3>2, <3>3 DEF BakStored, Return, Goto, TypeOK, Labels
  <2>10. CASE IsKeyBlobExist(t) \/ GetKeyFileData(t) \/ GetKeyBlobFromFile(t)
    <3>1. file["main"] \in Contents /\ file["bak"] \in Contents
      BY DEF TypeOK
    <3>2. pc' \in [Threads -> Labels]
      BY <2>10 DEF IsKeyBlobExist, GetKeyFileData, GetKeyBlobFromFile, Return, Goto, TypeOK,
                   Labels, AccessLabels, ReadLabels
    <3>3. req' \in [Threads -> Request]
      <4>1. \/ req' = [req EXCEPT ![t] = NoRequest] \/ req' = req
            \/ \E c \in Contents : req' = [req EXCEPT ![t].sized = c]
        BY <2>10, <3>1 DEF IsKeyBlobExist, GetKeyFileData, GetKeyBlobFromFile, Return, SizeBuffer
      <4>2. CASE \E c \in Contents : req' = [req EXCEPT ![t].sized = c]
        <5>1. PICK c \in Contents : req' = [req EXCEPT ![t].sized = c]
          BY <4>2
        <5>2. req \in [Threads -> Request]
          BY DEF TypeOK
        <5>3. [req EXCEPT ![t].sized = c] \in [Threads -> Request]
          BY <5>2, LocalUpdates, Zenon
        <5> QED
          BY <5>1, <5>3
      <4>3. CASE req' = [req EXCEPT ![t] = NoRequest] \/ req' = req
        BY <4>3 DEF TypeOK
      <4> QED
        BY <4>1, <4>2, <4>3
    <3> QED
      BY <2>10, <3>2, <3>3 DEF IsKeyBlobExist, GetKeyFileData, GetKeyBlobFromFile, TypeOK, history
  <2>11. CASE CheckAndUpgradeKeyIfNeed(t)
    <3>1. req' \in [Threads -> Request]
      BY <2>11, LocalUpdates DEF CheckAndUpgradeKeyIfNeed, TypeOK
    <3> QED
      BY <2>11, <3>1 DEF CheckAndUpgradeKeyIfNeed, EndAccess, Goto, TypeOK, history, Labels,
                         AccessLabels, WriteLabels
  <2>12. CASE LastAccess(t)
    BY <2>12 DEF LastAccess, FailAccess, Return, Goto, TypeOK, history, Labels
  <2> QED
    BY <1>3, <2>1, <2>2, <2>3, <2>4, <2>5, <2>6, <2>7, <2>8, <2>9, <2>10, <2>11, <2>12 DEF Work
<1>4. CASE UNCHANGED vars
  BY <1>4 DEF vars, history, TypeOK
<1> QED
  BY <1>1, <1>2, <1>3, <1>4 DEF Next

(* The storage keeps its types, for any number of threads and keys.        *)
THEOREM StorageTypes == Spec => []TypeOK
<1>1. Init => TypeOK
  BY InitTypeOK
<1>2. LockInv => LockTypeOK
  BY DEF LockInv
<1>3. Spec => []LockInv
  BY StorageUsesLocks, LocksCorrect, PTL
<1>4. TypeOK /\ LockTypeOK' /\ [Next]_vars => TypeOK'
  BY NextTypeOK
<1> QED
  BY <1>1, <1>2, <1>3, <1>4, PTL DEF Spec

-----------------------------------------------------------------------------
(* The inductive invariant behind NoTornRead.                              *)

\* No errors so far, and every thread gets its lock object.
Quiet == ~IOErrors /\ ~MallocMayFail /\ crashes = 0

\* A thread has a lock object only at the labels that access a file, and has
\* locked it in the way the label asks for.
LockedAtLabel ==
    \A t \in Threads :
        /\ stage[t] # "none" => pc[t] \in AccessLabels
        /\ stage[t] = "reading" => pc[t] \in ReadLabels
        /\ stage[t] = "writing" => pc[t] \in WriteLabels \cup RemoveLabels

\* An empty file is one that some thread has opened and not yet written.
EmptyIsOpen ==
    \A p \in Paths : file[p].kind = "empty" =>
        \E t \in Threads : stage[t] = "writing" /\ path[t] = p

WritersGoOn == \A t \in Threads : stage[t] = "writing" => req[t].failed = FALSE

BuffersWhole == \A t \in Threads : req[t].buf.kind # "empty"

StorageInv == LockedAtLabel /\ (Quiet => EmptyIsOpen /\ WritersGoOn /\ BuffersWhole)

(* In the initial state no file is open and no buffer is filled.           *)
LEMMA InitStorageInv == Init => StorageInv
<1> SUFFICES ASSUME Init PROVE StorageInv
  OBVIOUS
<1>1. LockedAtLabel /\ WritersGoOn
  BY DEF Init, OnLoad, LockedAtLabel, WritersGoOn
<1>2. EmptyIsOpen
  BY DEF Init, EmptyIsOpen, NoFile, KeyBlob
<1>3. BuffersWhole
  BY DEF Init, BuffersWhole, NoRequest, NoFile
<1> QED
  BY <1>1, <1>2, <1>3 DEF StorageInv

(* A blob that is written is not empty, unless the buffer is.              *)
LEMMA WrittenWhole ==
    ASSUME NEW t \in Threads, req[t].buf.kind # "empty"
    PROVE  Written(t).kind # "empty" /\ Written(t) # Empty
  BY DEF Written, Junk, Empty

(* Opening a file: the thread that empties it is the one that writes it.   *)
LEMMA OpenStorageInv ==
    ASSUME TypeOK, StorageInv, NEW t \in Threads, Open(t)
    PROVE  StorageInv'
<1>1. /\ stage[t] = "created" /\ pc[t] \in AccessLabels
      /\ UNCHANGED <<pc, path, crashes>>
      /\ stage' = [stage EXCEPT ![t] = IF pc[t] \in ReadLabels THEN "reading" ELSE "writing"]
  BY DEF Open, HksStorageFileLockRead, HksStorageFileLockWrite
<1>2. LockedAtLabel'
  BY <1>1 DEF StorageInv, LockedAtLabel, AccessLabels, TypeOK, LockTypeOK
<1>3. ASSUME Quiet'
      PROVE  EmptyIsOpen' /\ WritersGoOn' /\ BuffersWhole'
  <2>1. Quiet /\ EmptyIsOpen /\ WritersGoOn /\ BuffersWhole
    BY <1>1, <1>3 DEF Quiet, StorageInv
  <2>2. Written(t) # Empty
    BY <2>1, WrittenWhole DEF BuffersWhole
  <2>3. /\ file' = IF pc[t] \in WriteLabels THEN [file EXCEPT ![path[t]] = Empty] ELSE file
        /\ req' = [req EXCEPT ![t].failed = FALSE]
    BY <2>1, <2>2 DEF Open, Quiet
  <2>4. BuffersWhole'
    BY <2>1, <2>3 DEF BuffersWhole, TypeOK, Request
  <2>5. WritersGoOn'
    BY <1>1, <2>1, <2>3 DEF WritersGoOn, TypeOK, LockTypeOK, Request
  <2>6. EmptyIsOpen'
    <3> SUFFICES ASSUME NEW p \in Paths, file'[p].kind = "empty"
                 PROVE  \E u \in Threads : stage'[u] = "writing" /\ path'[u] = p
      BY DEF EmptyIsOpen
    <3>1. CASE pc[t] \in WriteLabels /\ p = path[t]
      BY <1>1, <3>1 DEF TypeOK, LockTypeOK, WriteLabels, ReadLabels
    <3>2. CASE pc[t] \notin WriteLabels \/ p # path[t]
      <4>1. file[p].kind = "empty"
        BY <2>3, <3>2 DEF TypeOK
      <4>2. PICK u \in Threads : stage[u] = "writing" /\ path[u] = p
        BY <2>1, <4>1 DEF EmptyIsOpen
      <4> QED
        BY <1>1, <4>2 DEF TypeOK, LockTypeOK
    <3> QED
      BY <3>1, <3>2
  <2> QED
    BY <2>4, <2>5, <2>6
<1> QED
  BY <1>2, <1>3 DEF StorageInv

(* Transferring data: a reader is alone with other readers, so it reads no *)
(* file that is open for writing; a writer leaves the file whole.          *)
LEMMA TransferStorageInv ==
    ASSUME TypeOK, LockInv, StorageInv, NEW t \in Threads, Transfer(t)
    PROVE  StorageInv'
<1>1. /\ stage[t] \in {"reading", "writing"} /\ pc[t] \in AccessLabels
      /\ stage' = [stage EXCEPT ![t] = "unlocked"]
      /\ UNCHANGED <<pc, path, crashes>>
  BY DEF Transfer, HksStorageFileUnlock
<1>2. LockedAtLabel'
  BY <1>1 DEF StorageInv, LockedAtLabel, TypeOK, LockTypeOK
<1>3. ASSUME Quiet'
      PROVE  EmptyIsOpen' /\ WritersGoOn' /\ BuffersWhole'
  <2>1. Quiet /\ EmptyIsOpen /\ WritersGoOn /\ BuffersWhole
    BY <1>1, <1>3 DEF Quiet, StorageInv
  <2>2. path[t] \in Paths /\ req[t] \in Request
    BY DEF TypeOK, LockTypeOK
  <2>3. \A u \in Threads \ {t} : stage[u] = "writing" => path[u] # path[t]
    <3>1. WriterAlone
      BY LockInvWriterAlone
    <3>2. \A u \in Threads : stage[u] # "none" => lock[u] # NoLock
      BY <2>1 DEF Quiet, LockInv, NobodyUnlocked
    <3> QED
      BY <1>1, <3>1, <3>2 DEF WriterAlone
  <2>4. CASE HksFileRead(t)
    <3>1. stage[t] = "reading"
      BY <1>1, <2>4 DEF StorageInv, LockedAtLabel, HksFileRead, ReadLabels, WriteLabels, RemoveLabels
    <3>2. file[path[t]].kind # "empty"
      BY <2>1, <2>2, <2>3, <3>1 DEF EmptyIsOpen
    <3>3. PICK c \in Contents : /\ c.kind # "empty"
                                /\ req' = [req EXCEPT ![t].buf = c, ![t].sized = NoFile]
      <4>1. Junk \in Contents /\ NoFile \in Contents /\ file[path[t]] \in Contents
        BY <2>2, ConstantTypes DEF TypeOK
      <4>2. Junk.kind # "empty" /\ NoFile.kind # "empty"
        BY DEF Junk, NoFile
      <4> QED
        BY <2>4, <3>2, <4>1, <4>2 DEF HksFileRead
    <3>4. BuffersWhole'
      BY <2>1, <3>3 DEF BuffersWhole, TypeOK, Request
    <3>5. WritersGoOn'
      <4>1. \A u \in Threads \ {t} : req'[u] = req[u]
        BY <3>3 DEF TypeOK
      <4> QED
        BY <1>1, <2>1, <4>1 DEF WritersGoOn, TypeOK, LockTypeOK
    <3>6. EmptyIsOpen'
      BY <1>1, <2>1, <2>4, <3>1 DEF EmptyIsOpen, HksFileRead, TypeOK, LockTypeOK
    <3> QED
      BY <3>4, <3>5, <3>6
  <2>5. CASE HksFileWrite(t) \/ HksFileRemove(t)
    <3>1. stage[t] = "writing" /\ req[t].failed = FALSE
      BY <1>1, <2>1, <2>5 DEF StorageInv, LockedAtLabel, WritersGoOn, HksFileWrite, HksFileRemove,
                              ReadLabels, WriteLabels, RemoveLabels
    <3>2. PICK c \in Contents : c.kind # "empty" /\ file' = [file EXCEPT ![path[t]] = c]
      <4>1. CASE HksFileWrite(t)
        <5>1. Written(t) \in Contents /\ Written(t).kind # "empty"
          BY <2>1, <2>2, WrittenWhole, ConstantTypes DEF BuffersWhole, Written, Request
        <5>2. file' = [file EXCEPT ![path[t]] = Written(t)]
          BY <2>1, <3>1, <4>1 DEF HksFileWrite, Quiet
        <5> QED
          BY <5>1, <5>2
      <4>2. CASE HksFileRemove(t)
        <5>1. NoFile \in Contents /\ NoFile.kind # "empty"
          BY ConstantTypes DEF NoFile
        <5>2. file' = [file EXCEPT ![path[t]] = NoFile]
          BY <3>1, <4>2 DEF HksFileRemove
        <5> QED
          BY <5>1, <5>2
      <4> QED
        BY <2>5, <4>1, <4>2
    <3>3. req' = req
      BY <2>1, <2>5, <3>1 DEF HksFileWrite, HksFileRemove, Quiet
    <3>4. BuffersWhole' /\ WritersGoOn'
      BY <1>1, <2>1, <3>3 DEF BuffersWhole, WritersGoOn, TypeOK, LockTypeOK
    <3>5. EmptyIsOpen'
      BY <1>1, <2>1, <2>2, <3>2 DEF EmptyIsOpen, TypeOK, LockTypeOK
    <3> QED
      BY <3>4, <3>5
  <2> QED
    BY <2>4, <2>5 DEF Transfer
<1> QED
  BY <1>2, <1>3 DEF StorageInv

(* A step of a thread that accesses no file, or no longer: the files stay, *)
(* and nobody's lock changes hands.                                        *)
LEMMA QuietStepStorageInv ==
    ASSUME TypeOK, TypeOK', StorageInv, NEW t \in Threads,
           UNCHANGED <<file, crashes>>,
           stage'[t] = "none" \/ (stage'[t] = "created" /\ pc'[t] \in AccessLabels),
           stage[t] # "writing",
           \A u \in Threads \ {t} : /\ stage'[u] = stage[u] /\ path'[u] = path[u]
                                      /\ pc'[u] = pc[u] /\ req'[u].buf = req[u].buf
                                      /\ req'[u].failed = req[u].failed,
           req[t].buf.kind # "empty" => req'[t].buf.kind # "empty"
    PROVE  StorageInv'
<1>1. LockedAtLabel'
  BY DEF StorageInv, LockedAtLabel
<1>2. ASSUME Quiet'
      PROVE  EmptyIsOpen' /\ WritersGoOn' /\ BuffersWhole'
  <2>1. EmptyIsOpen /\ WritersGoOn /\ BuffersWhole
    BY <1>2 DEF Quiet, StorageInv
  <2>2. EmptyIsOpen'
    BY <2>1 DEF EmptyIsOpen
  <2>3. WritersGoOn'
    BY <2>1 DEF WritersGoOn
  <2>4. BuffersWhole'
    BY <2>1 DEF BuffersWhole
  <2> QED
    BY <2>2, <2>3, <2>4
<1> QED
  BY <1>1, <1>2 DEF StorageInv

(* Every step keeps the invariant.                                         *)
LEMMA NextStorageInv ==
    TypeOK /\ TypeOK' /\ LockInv /\ StorageInv /\ [Next]_vars => StorageInv'
<1> SUFFICES ASSUME TypeOK, TypeOK', LockInv, StorageInv, [Next]_vars PROVE StorageInv'
  OBVIOUS
<1>1. CASE Crash
  <2>1. crashes' # 0
    BY <1>1 DEF Crash, TypeOK
  <2>2. LockedAtLabel'
    BY <1>1 DEF Crash, Reload, LockedAtLabel
  <2> QED
    BY <2>1, <2>2 DEF StorageInv, Quiet
<1>2. ASSUME NEW t \in Threads, Call(t)
      PROVE  StorageInv'
  <2>1. stage[t] = "none" /\ UNCHANGED <<stage, path, file, crashes>>
    BY <1>2 DEF Call, StorageInv, LockedAtLabel, AccessLabels, ReadLabels, WriteLabels,
                RemoveLabels, lockVars, TypeOK, LockTypeOK
  <2>2. PICK call \in Requests : /\ CallRead(t, call) \/ CallDelete(t, call)
                                 /\ Goto(t, FirstLabel(call))
    BY <1>2 DEF Call
  <2>3. \A u \in Threads \ {t} : pc'[u] = pc[u]
    BY <2>2 DEF Goto, TypeOK
  <2>4. CASE CallRead(t, call)
    <3>1. /\ \A u \in Threads \ {t} : req'[u] = req[u]
          /\ req'[t].buf = req[t].buf
      BY <2>4 DEF CallRead, TypeOK, Request
    <3> QED
      BY <2>1, <2>3, <3>1, QuietStepStorageInv
  <2>5. CASE CallDelete(t, call)
    <3>1. \A u \in Threads \ {t} : req'[u].buf = req[u].buf /\ req'[u].failed = req[u].failed
      <4>1. \A u \in Threads \ {t} : req'[u] = req[u] \/ req'[u] = [req[u] EXCEPT !.clash = TRUE]
        BY <2>5 DEF CallDelete
      <4>2. \A r \in Request : /\ [r EXCEPT !.clash = TRUE].buf = r.buf
                                /\ [r EXCEPT !.clash = TRUE].failed = r.failed
        BY DEF Request
      <4>3. \A u \in Threads : req[u] \in Request
        BY DEF TypeOK
      <4> QED
        BY <4>1, <4>2, <4>3, Zenon
    <3>2. req'[t].buf.kind # "empty"
      BY <2>5 DEF CallDelete, NoRequest, NoFile
    <3> QED
      BY <2>1, <2>3, <3>1, <3>2, QuietStepStorageInv
  <2> QED
    BY <2>2, <2>4, <2>5
<1>3. ASSUME NEW t \in Threads, Work(t)
      PROVE  StorageInv'
  <2>1. CASE BeginAccess(t)
    <3>1. /\ stage[t] = "none" /\ stage'[t] = "created"
          /\ \A u \in Threads \ {t} : stage'[u] = stage[u] /\ path'[u] = path[u]
          /\ UNCHANGED <<file, pc, req, crashes>> /\ pc[t] \in AccessLabels
      BY <2>1 DEF BeginAccess, HksStorageFileLockCreate, TypeOK, LockTypeOK
    <3> QED
      BY <3>1, QuietStepStorageInv
  <2>2. CASE Open(t)
    BY <2>2, OpenStorageInv
  <2>3. CASE Transfer(t)
    BY <2>3, TransferStorageInv
  <2>4. CASE \/ DeleteKeyBlobMainExists(t) \/ DeleteKeyBlobBakExists(t) \/ CleanFile(t)
             \/ Deleted(t) \/ HuksAccessGenerateKey(t) \/ IsKeyBlobExist(t)
             \/ GetKeyFileData(t) \/ GetKeyBlobFromFile(t)
    <3>1. pc[t] \notin AccessLabels
      BY <2>4 DEF DeleteKeyBlobMainExists, DeleteKeyBlobBakExists, CleanFile, Deleted,
                  HuksAccessGenerateKey, IsKeyBlobExist, GetKeyFileData, GetKeyBlobFromFile,
                  AccessLabels, ReadLabels, WriteLabels, RemoveLabels
    <3>2. UNCHANGED <<lockVars, file, crashes>>
      BY <2>4 DEF DeleteKeyBlobMainExists, DeleteKeyBlobBakExists, CleanFile, Deleted,
                  HuksAccessGenerateKey, IsKeyBlobExist, GetKeyFileData, GetKeyBlobFromFile
    <3>3. stage[t] = "none" /\ UNCHANGED <<stage, path, file, crashes>>
      BY <3>1, <3>2 DEF StorageInv, LockedAtLabel, lockVars
    <3>4. \A u \in Threads \ {t} : pc'[u] = pc[u] /\ req'[u] = req[u]
      BY <2>4 DEF DeleteKeyBlobMainExists, DeleteKeyBlobBakExists, CleanFile, Deleted,
                  HuksAccessGenerateKey, IsKeyBlobExist, GetKeyFileData, GetKeyBlobFromFile,
                  Goto, Return, SizeBuffer, TypeOK
    <3>5. req[t].buf.kind # "empty" => req'[t].buf.kind # "empty"
      <4>1. NoRequest.buf.kind # "empty" /\ KeyBlob(keysMade + 1, FALSE).kind # "empty"
        BY DEF NoRequest, NoFile, KeyBlob
      <4>2. \/ req'[t] = NoRequest \/ req'[t].buf = req[t].buf
            \/ req'[t].buf = KeyBlob(keysMade + 1, FALSE)
        <5>1. CASE DeleteKeyBlobMainExists(t)
          BY <5>1 DEF DeleteKeyBlobMainExists, TypeOK, Request
        <5>2. CASE HuksAccessGenerateKey(t)
          <6>1. Return(t) \/ req' = [req EXCEPT ![t].buf = KeyBlob(keysMade + 1, FALSE)]
            BY <5>2 DEF HuksAccessGenerateKey
          <6>2. CASE Return(t)
            BY <6>2 DEF Return, TypeOK
          <6>3. CASE req' = [req EXCEPT ![t].buf = KeyBlob(keysMade + 1, FALSE)]
            BY <6>3 DEF TypeOK, Request
          <6> QED
            BY <6>1, <6>2, <6>3
        <5>3. CASE DeleteKeyBlobBakExists(t) \/ CleanFile(t) \/ Deleted(t)
          BY <5>3 DEF DeleteKeyBlobBakExists, CleanFile, Deleted, Return, TypeOK
        <5>4. CASE IsKeyBlobExist(t) \/ GetKeyFileData(t) \/ GetKeyBlobFromFile(t)
          <6>1. \/ Return(t) \/ req' = req
                \/ \E c : req' = [req EXCEPT ![t].sized = c]
            BY <5>4 DEF IsKeyBlobExist, GetKeyFileData, GetKeyBlobFromFile, SizeBuffer
          <6>2. CASE Return(t)
            BY <6>2 DEF Return, TypeOK
          <6>3. CASE \E c : req' = [req EXCEPT ![t].sized = c]
            BY <6>3 DEF TypeOK, Request
          <6> QED
            BY <6>1, <6>2, <6>3
        <5> QED
          BY <2>4, <5>1, <5>2, <5>3, <5>4
      <4> QED
        BY <4>1, <4>2
    <3> QED
      BY <3>3, <3>4, <3>5, QuietStepStorageInv
  <2>5. CASE \/ FileCleaned(t) \/ FileRemoved(t) \/ MainStored(t) \/ BakStored(t)
             \/ CopyKeyBlobFromSrc(t) \/ CheckAndUpgradeKeyIfNeed(t) \/ FallBack(t)
             \/ RestoreMain(t) \/ LastAccess(t)
    <3>1. HksStorageFileLockRelease(t) /\ UNCHANGED <<file, crashes>>
      BY <2>5 DEF FileCleaned, FileRemoved, MainStored, BakStored, CopyKeyBlobFromSrc,
                  CheckAndUpgradeKeyIfNeed, FallBack, RestoreMain, LastAccess, EndAccess, FailAccess
    <3>2. /\ stage[t] = "unlocked" /\ stage'[t] = "none"
          /\ \A u \in Threads \ {t} : stage'[u] = stage[u] /\ path'[u] = path[u]
      BY <3>1 DEF HksStorageFileLockRelease, TypeOK, LockTypeOK
    <3>3. \A u \in Threads \ {t} : pc'[u] = pc[u] /\ req'[u] = req[u]
      BY <2>5 DEF FileCleaned, FileRemoved, MainStored, BakStored, CopyKeyBlobFromSrc,
                  CheckAndUpgradeKeyIfNeed, FallBack, RestoreMain, LastAccess, EndAccess, FailAccess,
                  Goto, Return, TypeOK
    <3>4. req[t].buf.kind # "empty" => req'[t].buf.kind # "empty"
      <4>1. NoRequest.buf.kind # "empty"
        BY DEF NoRequest, NoFile
      <4>2. req'[t] = NoRequest \/ req'[t].buf.kind = req[t].buf.kind
        BY <2>5 DEF FileCleaned, FileRemoved, MainStored, BakStored, CopyKeyBlobFromSrc,
                    CheckAndUpgradeKeyIfNeed, FallBack, RestoreMain, LastAccess, EndAccess,
                    FailAccess, Return, TypeOK, Request, Contents
      <4> QED
        BY <4>1, <4>2
    <3> QED
      BY <3>1, <3>2, <3>3, <3>4, QuietStepStorageInv
  <2> QED
    BY <1>3, <2>1, <2>2, <2>3, <2>4, <2>5 DEF Work
<1>4. CASE UNCHANGED vars
  BY <1>4 DEF vars, lockVars, StorageInv, LockedAtLabel, Quiet, EmptyIsOpen, WritersGoOn,
              BuffersWhole
<1> QED
  BY <1>1, <1>2, <1>3, <1>4 DEF Next

(* While nothing fails, no request reads a key file that another request   *)
(* is just writing, although every writer empties the file first: for any  *)
(* number of threads and keys.                                             *)
THEOREM NoTornReads == Spec => []NoTornRead
<1>1. Init => StorageInv
  BY InitStorageInv
<1>2. TypeOK /\ TypeOK' /\ LockInv /\ StorageInv /\ [Next]_vars => StorageInv'
  BY NextStorageInv
<1>3. Spec => []LockInv
  BY StorageUsesLocks, LocksCorrect, PTL
<1>4. Spec => []TypeOK
  BY StorageTypes
<1>5. StorageInv => NoTornRead
  BY DEF StorageInv, Quiet, BuffersWhole, NoTornRead
<1> QED
  BY <1>1, <1>2, <1>3, <1>4, <1>5, PTL DEF Spec

-----------------------------------------------------------------------------
(* The steps of a request, by what they do to its label, its local         *)
(* variables and the files.                                                *)

Unmoved == UNCHANGED <<file, keysMade, kept, doomed, dead>>
Moves(t, l, m) == pc[t] = l /\ pc'[t] = m

\* What a step of another thread leaves to thread u.
Alike(u) ==
    /\ pc'[u] = pc[u] /\ stage'[u] = stage[u] /\ path'[u] = path[u]
    /\ req'[u].call = req[u].call /\ req'[u].buf = req[u].buf /\ req'[u].sized = req[u].sized
    /\ req'[u].mainExists = req[u].mainExists /\ req'[u].failed = req[u].failed
    /\ req'[u].old = req[u].old /\ (req[u].clash => req'[u].clash)
    /\ pc[u] = "idle" => req'[u] = req[u]

Enters(t) ==
    /\ pc[t] \in AccessLabels /\ pc'[t] = pc[t] /\ req'[t] = req[t] /\ Unmoved
    /\ stage[t] = "none" /\ stage'[t] = "created" /\ path'[t] = FileOf(pc[t])

Opens(t) ==
    /\ pc[t] \in AccessLabels /\ pc'[t] = pc[t]
    /\ \E b \in BOOLEAN : /\ req'[t] = [req[t] EXCEPT !.failed = b]
                          /\ ~IOErrors /\ Written(t) # Empty => ~b
    /\ stage[t] = "created" /\ stage'[t] \in {"reading", "writing"} /\ path'[t] = path[t]
    /\ file' = file \/ (pc[t] \in WriteLabels /\ file' = [file EXCEPT ![path[t]] = Empty])
    /\ UNCHANGED <<keysMade, kept, doomed, dead>>

Transfers(t) ==
    /\ pc'[t] = pc[t] /\ stage[t] \in {"reading", "writing"}
    /\ stage'[t] = "unlocked" /\ path'[t] = path[t]
    /\ UNCHANGED <<keysMade, kept, doomed, dead>>

Reads(t) ==
    /\ Transfers(t) /\ pc[t] \in ReadLabels /\ file' = file
    /\ \E c \in {NoFile, Junk, file[path[t]]} :
          /\ c = Junk => file[path[t]] = Junk \/ file[path[t]] # req[t].sized
          /\ IF req[t].failed THEN c = NoFile ELSE c \in {Junk, file[path[t]]}
          /\ req'[t] = [req[t] EXCEPT !.buf = c, !.sized = NoFile]

Writes(t) ==
    /\ Transfers(t) /\ pc[t] \in WriteLabels
    /\ \/ req'[t] = req[t] /\ ~req[t].failed /\ file' = [file EXCEPT ![path[t]] = Written(t)]
       \/ /\ IOErrors /\ ~req[t].failed /\ req'[t] = [req[t] EXCEPT !.failed = TRUE]
          /\ \E torn \in {Empty, Junk} : file' = [file EXCEPT ![path[t]] = torn]
       \/ req'[t] = req[t] /\ req[t].failed /\ file' = file

Removes(t) ==
    /\ Transfers(t) /\ pc[t] \in RemoveLabels /\ req'[t] = req[t]
    /\ file' = IF req[t].failed THEN file ELSE [file EXCEPT ![path[t]] = NoFile]

\* The steps between two accesses: no file changes, no lock is left.
Walks(t) ==
    /\ req'[t] = req[t] /\ Unmoved
    /\ \/ Moves(t, "delBak", "sizeBak")
       \/ Moves(t, "delBak", AfterBak(t)) /\ ~Exists("bak")
       \/ Moves(t, "sizeBak", "cleanBak") \/ Moves(t, "sizeBak", "removeBak")
       \/ Moves(t, "sizeMain", "cleanMain") \/ Moves(t, "sizeMain", "removeMain")
       \/ Moves(t, "removeBak", AfterBak(t)) /\ Done(t)
       \/ Moves(t, "removeMain", "deleted") /\ Done(t)
       \/ Moves(t, "deleted", "engine") /\ req[t].call # "delete"
       \/ Moves(t, "storeMain", "storeBak") /\ Done(t)
       \/ Moves(t, "existMain", "existBak") /\ ~Exists("main")
       \/ Moves(t, "existBak", "copySize")
       \/ Moves(t, "copyRead", "copyWrite")
       \/ Moves(t, "getMain", "getBak") /\ ~HasSize("main")
       \/ Moves(t, "checkMain", "readMain")
       \/ Moves(t, "checkBak", "readBak")
       \/ Moves(t, "readMain", "getBak") /\ req[t].buf.kind \in {"empty", "junk"}
            /\ stage[t] = "unlocked"
       \/ Moves(t, "readBak", "restore") /\ req[t].buf # NoFile /\ stage[t] = "unlocked"

Sizes(t) ==
    /\ Unmoved
    /\ \/ Moves(t, "copySize", "copyRead") /\ req'[t] = [req[t] EXCEPT !.sized = file["bak"]]
       \/ Moves(t, "getMain", "checkMain") /\ req'[t] = [req[t] EXCEPT !.sized = file["main"]]
       \/ Moves(t, "getBak", "checkBak") /\ req'[t] = [req[t] EXCEPT !.sized = file["bak"]]
       \/ Moves(t, "checkMain", "getBak") /\ req'[t] = [req[t] EXCEPT !.sized = NoFile]
            /\ ~HasSize("main")

Looks(t) ==
    /\ Unmoved /\ Moves(t, "delMain", "delBak")
    /\ req'[t] = [req[t] EXCEPT !.mainExists = Exists("main")]

Cleans(t) ==
    /\ Unmoved
    /\ \E n \in 0 .. CleanWrites - 1 : req'[t] = [req[t] EXCEPT !.cleans = n]
    /\ \/ Moves(t, "cleanBak", "cleanBak") \/ Moves(t, "cleanBak", "removeBak")
       \/ Moves(t, "cleanMain", "cleanMain") \/ Moves(t, "cleanMain", "removeMain")

Upgrades(t) ==
    /\ Unmoved
    /\ Moves(t, "readMain", "storeMain") \/ Moves(t, "restore", "storeMain")
    /\ req[t].buf.kind = "key" /\ req[t].buf.old /\ stage[t] = "unlocked"
    /\ req'[t] = [req[t] EXCEPT !.buf.old = FALSE]

Makes(t) ==
    /\ Moves(t, "engine", "storeMain") /\ keysMade' = keysMade + 1
    /\ req'[t] = [req[t] EXCEPT !.buf = KeyBlob(keysMade + 1, FALSE)]
    /\ UNCHANGED <<file, kept, doomed, dead>>

Answers(t) == Unmoved /\ pc'[t] = "idle" /\ req'[t] = NoRequest /\ pc[t] # "idle"

Forgets(t) ==
    /\ Moves(t, "deleted", "idle") /\ req'[t] = NoRequest /\ req[t].call = "delete"
    /\ dead' = IF req[t].mainExists THEN dead \cup req[t].old ELSE dead
    /\ UNCHANGED <<file, keysMade, kept, doomed>>

Stores(t) ==
    /\ Moves(t, "storeBak", "idle") /\ req'[t] = NoRequest /\ stage[t] = "unlocked"
    /\ LET new == IF req[t].call = "generate" THEN {req[t].buf.key} ELSE {}
       IN  /\ kept' = kept \cup new
           /\ dead' = dead \cup req[t].old
           /\ doomed' = IF req[t].clash THEN doomed \cup new ELSE doomed
    /\ UNCHANGED <<file, keysMade>>

Between(t) ==
    \/ Walks(t) \/ Sizes(t) \/ Looks(t) \/ Cleans(t) \/ Upgrades(t) \/ Makes(t)
    \/ Answers(t) \/ Forgets(t) \/ Stores(t)

WorkStep(t) ==
    \/ Enters(t) \/ Opens(t) \/ Reads(t) \/ Writes(t) \/ Removes(t)
    \/ Between(t) /\ stage'[t] = "none"

Reading(t) ==
    /\ pc[t] = "idle" /\ Unmoved
    /\ \/ req'[t] = [req[t] EXCEPT !.call = "exist"] /\ pc'[t] = "existMain"
       \/ req'[t] = [req[t] EXCEPT !.call = "get"] /\ pc'[t] = "getMain"

Removing(t) ==
    /\ pc[t] = "idle" /\ pc'[t] = "delMain"
    /\ \E call \in {"generate", "delete"} \cap Requests :
          req'[t] = [NoRequest EXCEPT !.call = call, !.old = kept \ dead,
                                      !.clash = {u \in Threads : Deleting(u)} # {}]
    /\ \A u \in Threads \ {t} : Deleting(u) => req'[u].clash
    /\ doomed' = kept
    /\ UNCHANGED <<file, keysMade, kept, dead>>

CallStep(t) == (Reading(t) \/ Removing(t)) /\ UNCHANGED <<stage, path>>

\* A call.
LEMMA CallSteps ==
    ASSUME TypeOK, NEW t \in Threads, Call(t)
    PROVE  CallStep(t) /\ \A u \in Threads \ {t} : Alike(u)
<1>1. UNCHANGED <<stage, path, file, keysMade, kept, dead>> /\ pc[t] = "idle"
  BY DEF Call, lockVars
<1>2. PICK call \in Requests : /\ CallRead(t, call) \/ CallDelete(t, call)
                               /\ Goto(t, FirstLabel(call))
  BY DEF Call
<1>3. \A u \in Threads \ {t} : pc'[u] = pc[u]
  BY <1>2 DEF Goto, TypeOK
<1>4. pc'[t] = FirstLabel(call)
  BY <1>2 DEF Goto, TypeOK
<1>5. CASE CallRead(t, call)
  <2>1. req'[t] = [req[t] EXCEPT !.call = call] /\ \A u \in Threads \ {t} : req'[u] = req[u]
    BY <1>5 DEF CallRead, TypeOK
  <2>2. Reading(t)
    BY <1>1, <1>4, <1>5, <2>1 DEF Reading, CallRead, FirstLabel, Unmoved
  <2> QED
    BY <1>1, <1>3, <2>1, <2>2 DEF CallStep, Alike
<1>6. CASE CallDelete(t, call)
  <2>1. req'[t] = [NoRequest EXCEPT !.call = call, !.old = kept \ dead,
                                    !.clash = {u \in Threads : Deleting(u)} # {}]
    BY <1>6 DEF CallDelete
  <2>2. \A u \in Threads \ {t} : req'[u] = IF Deleting(u) THEN [req[u] EXCEPT !.clash = TRUE] ELSE req[u]
    BY <1>6 DEF CallDelete
  <2>3. \A u \in Threads : req[u] \in Request
    BY DEF TypeOK
  <2>4. \A r \in Request :
          /\ [r EXCEPT !.clash = TRUE].call = r.call /\ [r EXCEPT !.clash = TRUE].buf = r.buf
          /\ [r EXCEPT !.clash = TRUE].sized = r.sized /\ [r EXCEPT !.clash = TRUE].old = r.old
          /\ [r EXCEPT !.clash = TRUE].mainExists = r.mainExists
          /\ [r EXCEPT !.clash = TRUE].failed = r.failed /\ [r EXCEPT !.clash = TRUE].clash = TRUE
    BY DEF Request
  <2>5. \A u \in Threads \ {t} : Alike(u) /\ (Deleting(u) => req'[u].clash)
    <3> TAKE u \in Threads \ {t}
    <3>1. CASE Deleting(u)
      BY <1>1, <1>3, <2>2, <2>3, <2>4, <3>1 DEF Alike, Deleting
    <3>2. CASE ~Deleting(u)
      BY <1>1, <1>3, <2>2, <3>2 DEF Alike
    <3> QED
      BY <3>1, <3>2
  <2>6. Removing(t)
    BY <1>1, <1>4, <1>6, <2>1, <2>5 DEF Removing, CallDelete, FirstLabel
  <2> QED
    BY <1>1, <2>5, <2>6 DEF CallStep
<1> QED
  BY <1>2, <1>5, <1>6

\* A step within an access to a file.
LEMMA AccessSteps ==
    ASSUME TypeOK, NEW t \in Threads, BeginAccess(t) \/ Open(t) \/ Transfer(t)
    PROVE  /\ Enters(t) \/ Opens(t) \/ Reads(t) \/ Writes(t) \/ Removes(t)
           /\ \A u \in Threads \ {t} : Alike(u)
<1>1. req[t] \in Request /\ path[t] \in Paths
  BY DEF TypeOK, LockTypeOK
<1>2. CASE BeginAccess(t)
  BY <1>2 DEF BeginAccess, HksStorageFileLockCreate, Enters, Unmoved, Alike, history, TypeOK, LockTypeOK
<1>3. CASE Open(t)
  <2>1. /\ pc[t] \in AccessLabels /\ pc' = pc /\ stage[t] = "created" /\ path' = path
        /\ stage' = [stage EXCEPT ![t] = IF pc[t] \in ReadLabels THEN "reading" ELSE "writing"]
        /\ UNCHANGED <<keysMade, kept, doomed, dead>>
    BY <1>3 DEF Open, HksStorageFileLockRead, HksStorageFileLockWrite, history
  <2>2. PICK b \in BOOLEAN : /\ req' = [req EXCEPT ![t].failed = b]
                             /\ ~IOErrors /\ Written(t) # Empty => ~b
    BY <1>3 DEF Open
  <2>3. file' = file \/ (pc[t] \in WriteLabels /\ file' = [file EXCEPT ![path[t]] = Empty])
    BY <1>3 DEF Open
  <2>4. req'[t] = [req[t] EXCEPT !.failed = b] /\ \A u \in Threads \ {t} : req'[u] = req[u]
    BY <2>2 DEF TypeOK
  <2>5. stage'[t] \in {"reading", "writing"} /\ \A u \in Threads \ {t} : stage'[u] = stage[u]
    BY <2>1 DEF TypeOK, LockTypeOK
  <2> QED
    BY <2>1, <2>2, <2>3, <2>4, <2>5 DEF Opens, Alike
<1>4. CASE Transfer(t)
  <2>1. Transfers(t) /\ \A u \in Threads \ {t} : stage'[u] = stage[u] /\ path'[u] = path[u] /\ pc'[u] = pc[u]
    BY <1>4 DEF Transfer, HksStorageFileUnlock, Transfers, history, TypeOK, LockTypeOK
  <2>2. CASE HksFileRead(t)
    <3>1. PICK c \in {NoFile, Junk, file[path[t]]} :
             /\ c = Junk => file[path[t]] = Junk \/ file[path[t]] # req[t].sized
             /\ IF req[t].failed THEN c = NoFile ELSE c \in {Junk, file[path[t]]}
             /\ req' = [req EXCEPT ![t].buf = c, ![t].sized = NoFile]
      <4>1. NoFile # Junk
        BY DEF NoFile, Junk
      <4> QED
        BY <2>2, <4>1 DEF HksFileRead
    <3>2. req'[t] = [req[t] EXCEPT !.buf = c, !.sized = NoFile] /\ \A u \in Threads \ {t} : req'[u] = req[u]
      BY <3>1 DEF TypeOK
    <3> QED
      BY <2>1, <2>2, <3>1, <3>2 DEF Reads, Alike, HksFileRead
  <2>3. CASE HksFileWrite(t)
    <3>1. ASSUME ~req[t].failed, file' = [file EXCEPT ![path[t]] = Written(t)], req' = req
          PROVE  Writes(t) /\ \A u \in Threads \ {t} : Alike(u)
      BY <2>1, <2>3, <3>1 DEF Writes, Alike, HksFileWrite
    <3>2. ASSUME ~req[t].failed, IOErrors, req' = [req EXCEPT ![t].failed = TRUE],
                 \E torn \in {Empty, Junk} : file' = [file EXCEPT ![path[t]] = torn]
          PROVE  Writes(t) /\ \A u \in Threads \ {t} : Alike(u)
      <4>1. req'[t] = [req[t] EXCEPT !.failed = TRUE] /\ \A u \in Threads \ {t} : req'[u] = req[u]
        BY <3>2 DEF TypeOK
      <4> QED
        BY <2>1, <2>3, <3>2, <4>1 DEF Writes, Alike, HksFileWrite
    <3>3. ASSUME req[t].failed, file' = file, req' = req
          PROVE  Writes(t) /\ \A u \in Threads \ {t} : Alike(u)
      BY <2>1, <2>3, <3>3 DEF Writes, Alike, HksFileWrite
    <3> QED
      BY <2>3, <3>1, <3>2, <3>3 DEF HksFileWrite
  <2>4. CASE HksFileRemove(t)
    BY <2>1, <2>4 DEF Removes, Alike, HksFileRemove
  <2> QED
    BY <1>4, <2>2, <2>3, <2>4 DEF Transfer
<1> QED
  BY <1>2, <1>3, <1>4

\* A step between two accesses.
LEMMA BetweenSteps ==
    ASSUME TypeOK, StorageInv, NEW t \in Threads, Work(t), ~BeginAccess(t), ~Open(t), ~Transfer(t)
    PROVE  Between(t) /\ stage'[t] = "none" /\ \A u \in Threads \ {t} : Alike(u)
<1> USE DEF Moves, Unmoved, history
<1>0. req[t] \in Request
  BY DEF TypeOK
<1>1. ASSUME NEW l, Goto(t, l) PROVE pc'[t] = l /\ \A u \in Threads \ {t} : pc'[u] = pc[u]
  BY <1>1 DEF Goto, TypeOK
<1>2. ASSUME Return(t)
      PROVE  /\ pc'[t] = "idle" /\ req'[t] = NoRequest
             /\ \A u \in Threads \ {t} : pc'[u] = pc[u] /\ req'[u] = req[u]
  BY <1>2 DEF Return, Goto, TypeOK
<1>3. ASSUME HksStorageFileLockRelease(t)
      PROVE  /\ stage[t] = "unlocked" /\ stage'[t] = "none"
             /\ \A u \in Threads \ {t} : stage'[u] = stage[u] /\ path'[u] = path[u]
  BY <1>3 DEF HksStorageFileLockRelease, TypeOK, LockTypeOK
<1>4. ASSUME UNCHANGED lockVars, pc[t] \notin AccessLabels
      PROVE  stage'[t] = "none" /\ UNCHANGED <<stage, path>>
  BY <1>4 DEF StorageInv, LockedAtLabel, lockVars
<1> USE DEF AccessLabels, ReadLabels, WriteLabels, RemoveLabels
<1>5. CASE DeleteKeyBlobMainExists(t)
  <2>1. /\ req'[t] = [req[t] EXCEPT !.mainExists = Exists("main")]
        /\ \A u \in Threads \ {t} : req'[u] = req[u]
    BY <1>5 DEF DeleteKeyBlobMainExists, TypeOK
  <2> QED
    BY <1>1, <1>4, <1>5, <2>1 DEF DeleteKeyBlobMainExists, Looks, Between, Alike
<1>6. CASE DeleteKeyBlobBakExists(t) \/ CleanFile(t)
  BY <1>1, <1>4, <1>6 DEF DeleteKeyBlobBakExists, CleanFile, Walks, Between, Alike
<1>7. CASE FileCleaned(t)
  <2>1. PICK n \in 0 .. CleanWrites - 1 : req' = [req EXCEPT ![t].cleans = n]
    <3>1. req[t].cleans \in 0 .. 2 /\ 0 .. CleanWrites - 1 = 0 .. 2
      BY <1>0 DEF Request, CleanWrites
    <3> DEFINE n == IF ~req[t].failed /\ req[t].cleans + 1 < CleanWrites THEN req[t].cleans + 1 ELSE 0
    <3>2. n \in 0 .. 2
      BY <3>1 DEF CleanWrites
    <3>3. req' = [req EXCEPT ![t].cleans = n]
      BY <1>7, Zenon DEF FileCleaned
    <3> HIDE DEF n
    <3> QED
      BY <3>1, <3>2, <3>3
  <2>2. req'[t] = [req[t] EXCEPT !.cleans = n] /\ \A u \in Threads \ {t} : req'[u] = req[u]
    BY <2>1 DEF TypeOK
  <2>3. /\ pc[t] \in {"cleanBak", "cleanMain"}
        /\ \/ EndAccess(t, pc[t])
           \/ pc[t] = "cleanBak" /\ EndAccess(t, "removeBak")
           \/ pc[t] = "cleanMain" /\ EndAccess(t, "removeMain")
        /\ UNCHANGED history
    <3>1. CASE ~req[t].failed /\ req[t].cleans + 1 < CleanWrites
      BY <1>7, <3>1 DEF FileCleaned
    <3>2. CASE ~(~req[t].failed /\ req[t].cleans + 1 < CleanWrites)
      BY <1>7, <3>2 DEF FileCleaned
    <3> QED
      BY <3>1, <3>2
  <2>4. Cleans(t)
    BY <1>1, <2>2, <2>3 DEF EndAccess, Cleans
  <2> QED
    BY <1>1, <1>3, <2>2, <2>3, <2>4 DEF EndAccess, Between, Alike
<1>8. CASE FileRemoved(t) \/ MainStored(t) \/ CopyKeyBlobFromSrc(t) \/ FallBack(t) \/ RestoreMain(t)
  <2>1. req' = req /\ HksStorageFileLockRelease(t) /\ UNCHANGED <<file, keysMade, history>>
    BY <1>8 DEF FileRemoved, MainStored, CopyKeyBlobFromSrc, FallBack, RestoreMain, EndAccess
  <2>2. Walks(t)
    BY <1>1, <1>3, <1>8, <2>1
       DEF FileRemoved, MainStored, CopyKeyBlobFromSrc, FallBack, RestoreMain, EndAccess, Walks, Done
  <2>3. \A u \in Threads \ {t} : pc'[u] = pc[u]
    BY <1>1, <1>8 DEF FileRemoved, MainStored, CopyKeyBlobFromSrc, FallBack, RestoreMain, EndAccess
  <2> QED
    BY <1>3, <2>1, <2>2, <2>3 DEF Between, Alike
<1>9. CASE Deleted(t)
  <2>1. CASE req[t].call = "delete"
    BY <1>2, <1>4, <1>9, <2>1 DEF Deleted, Forgets, Between, Alike
  <2>2. CASE req[t].call # "delete"
    BY <1>1, <1>4, <1>9, <2>2 DEF Deleted, Walks, Between, Alike
  <2> QED
    BY <2>1, <2>2
<1>10. CASE HuksAccessGenerateKey(t)
  <2>1. CASE Return(t) /\ UNCHANGED keysMade
    BY <1>2, <1>4, <1>10, <2>1 DEF HuksAccessGenerateKey, Answers, Between, Alike
  <2>2. CASE ~(Return(t) /\ UNCHANGED keysMade)
    <3>1. /\ keysMade' = keysMade + 1 /\ Goto(t, "storeMain")
          /\ req' = [req EXCEPT ![t].buf = KeyBlob(keysMade + 1, FALSE)]
      BY <1>10, <2>2 DEF HuksAccessGenerateKey
    <3>2. /\ req'[t] = [req[t] EXCEPT !.buf = KeyBlob(keysMade + 1, FALSE)]
          /\ \A u \in Threads \ {t} : req'[u] = req[u]
      BY <3>1 DEF TypeOK
    <3> QED
      BY <1>1, <1>4, <1>10, <3>1, <3>2 DEF HuksAccessGenerateKey, Makes, Between, Alike
  <2> QED
    BY <2>1, <2>2
<1>11. CASE BakStored(t)
  BY <1>2, <1>3, <1>11 DEF BakStored, Stores, Between, Alike
<1>12. CASE IsKeyBlobExist(t) \/ GetKeyFileData(t) \/ GetKeyBlobFromFile(t)
  <2>1. stage'[t] = "none" /\ UNCHANGED <<stage, path>> /\ Unmoved /\ pc[t] # "idle"
    BY <1>4, <1>12 DEF IsKeyBlobExist, GetKeyFileData, GetKeyBlobFromFile
  <2> DEFINE Sized(c) ==
               /\ req' = [req EXCEPT ![t].sized = c]
               /\ \/ pc[t] = "copySize" /\ Goto(t, "copyRead") /\ c = file["bak"]
                  \/ pc[t] = "getMain" /\ Goto(t, "checkMain") /\ c = file["main"]
                  \/ pc[t] = "getBak" /\ Goto(t, "checkBak") /\ c = file["bak"]
                  \/ pc[t] = "checkMain" /\ Goto(t, "getBak") /\ c = NoFile /\ ~HasSize("main")
             Walked ==
               /\ req' = req
               /\ \/ pc[t] = "existMain" /\ Goto(t, "existBak") /\ ~Exists("main")
                  \/ pc[t] = "existBak" /\ Goto(t, "copySize")
                  \/ pc[t] = "getMain" /\ Goto(t, "getBak") /\ ~HasSize("main")
                  \/ pc[t] = "checkMain" /\ Goto(t, "readMain")
                  \/ pc[t] = "checkBak" /\ Goto(t, "readBak")
  <2>2. Return(t) \/ Walked \/ Sized(file["bak"]) \/ Sized(file["main"]) \/ Sized(NoFile)
    <3>1. CASE IsKeyBlobExist(t)
      BY <3>1 DEF IsKeyBlobExist, SizeBuffer
    <3>2. CASE GetKeyFileData(t)
      BY <3>2 DEF GetKeyFileData, SizeBuffer
    <3>3. CASE GetKeyBlobFromFile(t)
      BY <3>3 DEF GetKeyBlobFromFile
    <3> QED
      BY <1>12, <3>1, <3>2, <3>3
  <2>3. CASE Return(t)
    BY <1>2, <2>1, <2>3 DEF Answers, Between, Alike
  <2>4. CASE Walked
    BY <1>1, <2>1, <2>4 DEF Walks, Between, Alike
  <2>5. ASSUME NEW c, Sized(c) PROVE Between(t) /\ \A u \in Threads \ {t} : Alike(u)
    <3>1. req'[t] = [req[t] EXCEPT !.sized = c] /\ \A u \in Threads \ {t} : req'[u] = req[u]
      BY <2>5 DEF TypeOK
    <3> QED
      BY <1>1, <2>1, <2>5, <3>1 DEF Sizes, Between, Alike
  <2> HIDE DEF Sized, Walked
  <2> QED
    BY <2>1, <2>2, <2>3, <2>4, <2>5
<1>13. CASE CheckAndUpgradeKeyIfNeed(t)
  <2>1. req'[t] = [req[t] EXCEPT !.buf.old = FALSE] /\ \A u \in Threads \ {t} : req'[u] = req[u]
    BY <1>13 DEF CheckAndUpgradeKeyIfNeed, TypeOK
  <2> QED
    BY <1>1, <1>3, <1>13, <2>1 DEF CheckAndUpgradeKeyIfNeed, EndAccess, Upgrades, Between, Alike
<1>14. CASE LastAccess(t)
  BY <1>2, <1>3, <1>14 DEF LastAccess, FailAccess, Answers, Between, Alike
<1> QED
  BY <1>5, <1>6, <1>7, <1>8, <1>9, <1>10, <1>11, <1>12, <1>13, <1>14 DEF Work

\* A step of a request that is being worked on.
LEMMA WorkSteps ==
    ASSUME TypeOK, StorageInv, NEW t \in Threads, Work(t)
    PROVE  WorkStep(t) /\ \A u \in Threads \ {t} : Alike(u)
BY AccessSteps, BetweenSteps DEF WorkStep

-----------------------------------------------------------------------------
(* Requests and their contents fit, whatever the constants are.            *)

\* More keys may be made.
LEMMA FormedStays ==
    ASSUME NEW m \in Nat, NEW n \in Nat, m <= n, NEW c, Formed(c, m)
    PROVE  Formed(c, n)
BY DEF Formed

\* Contents without a key have none, and no version either.
LEMMA NoKeys ==
    /\ NoFile.key = 0 /\ Empty.key = 0 /\ Junk.key = 0
    /\ ~NoFile.old /\ ~Empty.old /\ ~Junk.old
    /\ NoFile.kind = "none" /\ Empty.kind = "empty" /\ Junk.kind = "junk"
    /\ \A n \in Nat : Formed(NoFile, n) /\ Formed(Empty, n) /\ Formed(Junk, n)
    /\ \A k, b : KeyBlob(k, b).key = k /\ KeyBlob(k, b).kind = "key" /\ KeyBlob(k, b).old = b
BY DEF NoFile, Empty, Junk, KeyBlob, Formed

\* The locals of a request of which nothing is known yet.
LEMMA NoRequestLocals ==
    /\ NoRequest.call = "get" /\ NoRequest.buf = NoFile /\ NoRequest.sized = NoFile
    /\ NoRequest.mainExists = FALSE /\ NoRequest.failed = FALSE
    /\ NoRequest.old = {} /\ NoRequest.clash = FALSE
BY DEF NoRequest

\* The local variables after a step that keeps the request.
LEMMA StepLocals ==
    ASSUME NEW t \in Threads, req[t] \in Request
    PROVE  /\ Sizes(t) \/ Looks(t) \/ Cleans(t) =>
                /\ req'[t].call = req[t].call /\ req'[t].buf = req[t].buf
                /\ req'[t].failed = req[t].failed
                /\ req'[t].old = req[t].old /\ req'[t].clash = req[t].clash
           /\ Sizes(t) \/ Cleans(t) => req'[t].mainExists = req[t].mainExists
           /\ Looks(t) => req'[t].mainExists = Exists("main")
           /\ Looks(t) \/ Cleans(t) => req'[t].sized = req[t].sized
           /\ Upgrades(t) \/ Makes(t) =>
                /\ req'[t].call = req[t].call
                /\ req'[t].failed = req[t].failed /\ req'[t].mainExists = req[t].mainExists
                /\ req'[t].old = req[t].old /\ req'[t].clash = req[t].clash
           /\ Upgrades(t) => /\ req'[t].buf.key = req[t].buf.key /\ req'[t].buf.kind = req[t].buf.kind
                             /\ req'[t].buf.old = FALSE
           /\ Makes(t) => req'[t].buf = KeyBlob(keysMade + 1, FALSE)
<1>1. ASSUME Sizes(t)
      PROVE  /\ req'[t].call = req[t].call /\ req'[t].buf = req[t].buf
             /\ req'[t].failed = req[t].failed /\ req'[t].mainExists = req[t].mainExists
             /\ req'[t].old = req[t].old /\ req'[t].clash = req[t].clash
  <2>1. PICK c : req'[t] = [req[t] EXCEPT !.sized = c]
    BY <1>1 DEF Sizes
  <2> QED
    BY <2>1 DEF Request
<1>2. ASSUME Looks(t)
      PROVE  /\ req'[t].call = req[t].call /\ req'[t].buf = req[t].buf
             /\ req'[t].failed = req[t].failed /\ req'[t].mainExists = Exists("main")
             /\ req'[t].old = req[t].old /\ req'[t].clash = req[t].clash /\ req'[t].sized = req[t].sized
  <2>1. PICK c : req'[t] = [req[t] EXCEPT !.mainExists = c] /\ c = Exists("main")
    BY <1>2 DEF Looks
  <2> QED
    BY <2>1 DEF Request
<1>3. ASSUME Cleans(t)
      PROVE  /\ req'[t].call = req[t].call /\ req'[t].buf = req[t].buf
             /\ req'[t].failed = req[t].failed /\ req'[t].mainExists = req[t].mainExists
             /\ req'[t].old = req[t].old /\ req'[t].clash = req[t].clash /\ req'[t].sized = req[t].sized
  <2>1. PICK c : req'[t] = [req[t] EXCEPT !.cleans = c]
    BY <1>3 DEF Cleans
  <2> QED
    BY <2>1 DEF Request
<1>4. ASSUME Upgrades(t)
      PROVE  /\ req'[t].call = req[t].call
             /\ req'[t].failed = req[t].failed /\ req'[t].mainExists = req[t].mainExists
             /\ req'[t].old = req[t].old /\ req'[t].clash = req[t].clash
             /\ req'[t].buf.key = req[t].buf.key /\ req'[t].buf.kind = req[t].buf.kind
             /\ req'[t].buf.old = FALSE
  BY <1>4 DEF Upgrades, Request, Contents
<1>5. ASSUME Makes(t)
      PROVE  /\ req'[t].call = req[t].call
             /\ req'[t].failed = req[t].failed /\ req'[t].mainExists = req[t].mainExists
             /\ req'[t].old = req[t].old /\ req'[t].clash = req[t].clash
             /\ req'[t].buf = KeyBlob(keysMade + 1, FALSE)
  <2>1. PICK c : req'[t] = [req[t] EXCEPT !.buf = c] /\ c = KeyBlob(keysMade + 1, FALSE)
    BY <1>5 DEF Makes
  <2> QED
    BY <2>1 DEF Request
<1> QED
  BY <1>1, <1>2, <1>3, <1>4, <1>5

\* The local variables after a step of an access.
LEMMA AccessLocals ==
    ASSUME NEW t \in Threads, req[t] \in Request
    PROVE  /\ Opens(t) \/ Reads(t) \/ Writes(t) =>
                /\ req'[t].call = req[t].call /\ req'[t].mainExists = req[t].mainExists
                /\ req'[t].old = req[t].old /\ req'[t].clash = req[t].clash
           /\ Opens(t) \/ Writes(t) => req'[t].buf = req[t].buf /\ req'[t].sized = req[t].sized
           /\ Opens(t) => (~IOErrors /\ Written(t) # Empty => ~req'[t].failed)
           /\ Reads(t) => /\ req'[t].buf \in {NoFile, Junk, file[path[t]]}
                          /\ req'[t].buf = Junk => file[path[t]] = Junk \/ file[path[t]] # req[t].sized
                          /\ IF req[t].failed THEN req'[t].buf = NoFile ELSE req'[t].buf \in {Junk, file[path[t]]}
                          /\ req'[t].failed = req[t].failed
           /\ Writes(t) =>
                \/ ~req'[t].failed /\ file' = [file EXCEPT ![path[t]] = Written(t)]
                \/ /\ IOErrors /\ req'[t].failed
                   /\ \E torn \in {Empty, Junk} : file' = [file EXCEPT ![path[t]] = torn]
                \/ req[t].failed /\ req'[t].failed /\ file' = file
<1>1. ASSUME Opens(t)
      PROVE  /\ req'[t].call = req[t].call /\ req'[t].mainExists = req[t].mainExists
             /\ req'[t].old = req[t].old /\ req'[t].clash = req[t].clash
             /\ req'[t].buf = req[t].buf /\ req'[t].sized = req[t].sized
             /\ ~IOErrors /\ Written(t) # Empty => ~req'[t].failed
  <2>1. PICK c \in BOOLEAN : /\ req'[t] = [req[t] EXCEPT !.failed = c]
                             /\ ~IOErrors /\ Written(t) # Empty => ~c
    BY <1>1 DEF Opens
  <2> QED
    BY <2>1 DEF Request
<1>2. ASSUME Reads(t)
      PROVE  /\ req'[t].call = req[t].call /\ req'[t].mainExists = req[t].mainExists
             /\ req'[t].old = req[t].old /\ req'[t].clash = req[t].clash
             /\ req'[t].buf \in {NoFile, Junk, file[path[t]]}
             /\ req'[t].buf = Junk => file[path[t]] = Junk \/ file[path[t]] # req[t].sized
             /\ IF req[t].failed THEN req'[t].buf = NoFile ELSE req'[t].buf \in {Junk, file[path[t]]}
             /\ req'[t].failed = req[t].failed
  <2>1. PICK c \in {NoFile, Junk, file[path[t]]} :
           /\ c = Junk => file[path[t]] = Junk \/ file[path[t]] # req[t].sized
           /\ IF req[t].failed THEN c = NoFile ELSE c \in {Junk, file[path[t]]}
           /\ req'[t] = [req[t] EXCEPT !.buf = c, !.sized = NoFile]
    BY <1>2 DEF Reads
  <2>2. /\ req'[t].call = req[t].call /\ req'[t].mainExists = req[t].mainExists
        /\ req'[t].old = req[t].old /\ req'[t].clash = req[t].clash
        /\ req'[t].buf = c /\ req'[t].failed = req[t].failed
    BY <2>1 DEF Request
  <2> QED
    BY <2>1, <2>2
<1>3. ASSUME Writes(t)
      PROVE  /\ req'[t].call = req[t].call /\ req'[t].mainExists = req[t].mainExists
             /\ req'[t].old = req[t].old /\ req'[t].clash = req[t].clash
             /\ req'[t].buf = req[t].buf /\ req'[t].sized = req[t].sized
             /\ \/ ~req'[t].failed /\ file' = [file EXCEPT ![path[t]] = Written(t)]
                \/ /\ IOErrors /\ req'[t].failed
                   /\ \E torn \in {Empty, Junk} : file' = [file EXCEPT ![path[t]] = torn]
                \/ req[t].failed /\ req'[t].failed /\ file' = file
  <2>1. CASE req'[t] = req[t] /\ ~req[t].failed /\ file' = [file EXCEPT ![path[t]] = Written(t)]
    BY <2>1
  <2>2. CASE /\ IOErrors /\ ~req[t].failed /\ req'[t] = [req[t] EXCEPT !.failed = TRUE]
             /\ \E torn \in {Empty, Junk} : file' = [file EXCEPT ![path[t]] = torn]
    <3>1. /\ req'[t].call = req[t].call /\ req'[t].mainExists = req[t].mainExists
          /\ req'[t].old = req[t].old /\ req'[t].clash = req[t].clash
          /\ req'[t].buf = req[t].buf /\ req'[t].sized = req[t].sized /\ req'[t].failed
      BY <2>2 DEF Request
    <3> QED
      BY <2>2, <3>1
  <2>3. CASE req'[t] = req[t] /\ req[t].failed /\ file' = file
    BY <2>3
  <2> QED
    BY <1>3, <2>1, <2>2, <2>3 DEF Writes
<1> QED
  BY <1>1, <1>2, <1>3

\* The labels of each kind.
LEMMA LabelKinds ==
    /\ AccessLabels = {"readMain", "readBak", "copyRead", "cleanBak", "cleanMain", "storeMain",
                       "storeBak", "restore", "copyWrite", "removeBak", "removeMain"}
    /\ FileOf("readMain") = "main" /\ FileOf("cleanMain") = "main" /\ FileOf("storeMain") = "main"
    /\ FileOf("restore") = "main" /\ FileOf("copyWrite") = "main" /\ FileOf("removeMain") = "main"
    /\ FileOf("readBak") = "bak" /\ FileOf("copyRead") = "bak" /\ FileOf("cleanBak") = "bak"
    /\ FileOf("storeBak") = "bak" /\ FileOf("removeBak") = "bak"
BY DEF AccessLabels, ReadLabels, WriteLabels, RemoveLabels, FileOf, BakLabels

\* Everything that is formed stays so, and the request of another thread
\* goes on fitting.
LEMMA OthersFit ==
    ASSUME TypeOK, NEW u \in Threads, RequestFits(u), Alike(u), kept \subseteq kept',
           keysMade' \in Nat, keysMade <= keysMade'
    PROVE  RequestFits(u)'
<1>1. Formed(req[u].buf, keysMade')
  <2>1. keysMade \in Nat /\ Formed(req[u].buf, keysMade)
    BY DEF TypeOK, RequestFits
  <2> QED
    BY <2>1, FormedStays
<1> QED
  BY <1>1 DEF RequestFits, Alike

\* The thread that steps, in an access.
LEMMA AccessFits ==
    ASSUME TypeOK, RequestsFit, NEW t \in Threads,
           Enters(t) \/ Opens(t) \/ Reads(t) \/ Writes(t) \/ Removes(t)
    PROVE  RequestFits(t)' /\ (\A p \in Paths : Formed(file[p], keysMade))' /\ UNCHANGED <<keysMade, kept, dead>>
<1>1. req[t] \in Request /\ path[t] \in Paths /\ keysMade \in Nat
  BY DEF TypeOK, LockTypeOK
<1>2. RequestFits(t) /\ \A p \in Paths : Formed(file[p], keysMade)
  BY DEF RequestsFit
<1>3. UNCHANGED <<keysMade, kept, dead>>
  BY DEF Enters, Opens, Reads, Writes, Removes, Transfers, Unmoved
<1>4. Formed(Written(t), keysMade)
  BY <1>1, <1>2, NoKeys DEF Written, RequestFits
<1>5. \A p \in Paths : file'[p] \in {file[p], NoFile, Empty, Junk, Written(t)}
  BY DEF Enters, Opens, Reads, Writes, Removes, Transfers, Unmoved, TypeOK
<1>6. \A p \in Paths : Formed(file'[p], keysMade')
  BY <1>1, <1>2, <1>3, <1>4, <1>5, NoKeys
<1>7. /\ req'[t].call = req[t].call /\ req'[t].old = req[t].old
      /\ req'[t].buf \in {req[t].buf, NoFile, Junk, file[path[t]]}
      /\ pc[t] \notin ReadLabels => req'[t].buf = req[t].buf
  <2>1. CASE Enters(t) \/ Removes(t)
    BY <2>1 DEF Enters, Removes
  <2>2. CASE Opens(t) \/ Reads(t) \/ Writes(t)
    <3>1. pc[t] \notin ReadLabels => ~Reads(t)
      BY DEF Reads
    <3> QED
      BY <1>1, <2>2, <3>1, AccessLocals
  <2> QED
    BY <2>1, <2>2
<1>8. Formed(req'[t].buf, keysMade')
  BY <1>1, <1>2, <1>3, <1>7, NoKeys DEF RequestFits
<1>9. pc[t] \in AccessLabels /\ pc'[t] = pc[t] /\ path'[t] = FileOf(pc[t])
  BY <1>2 DEF Enters, Opens, Reads, Writes, Removes, Transfers, AccessLabels, RequestFits
<1> QED
  BY <1>2, <1>3, <1>6, <1>7, <1>8, <1>9
     DEF RequestFits, AccessLabels, ReadLabels, WriteLabels, RemoveLabels, StoreLabels

\* The thread that steps, between two accesses.
LEMMA BetweenFits ==
    ASSUME TypeOK, RequestsFit, NEW t \in Threads, Between(t), stage'[t] = "none"
    PROVE  /\ RequestFits(t)' /\ file' = file
           /\ keysMade' \in Nat /\ keysMade <= keysMade'
           /\ kept \subseteq kept' /\ kept' \subseteq 1 .. keysMade' /\ dead' \subseteq kept'
<1> USE NoRequestLocals, NoKeys DEF Moves, Unmoved
<1>1. req[t] \in Request /\ keysMade \in Nat
  BY DEF TypeOK
<1>2. RequestFits(t) /\ kept \subseteq 1 .. keysMade /\ dead \subseteq kept
  BY DEF RequestsFit
<1>3. CASE Walks(t)
  <2>1. AfterBak(t) \in {"sizeMain", "deleted"}
    BY DEF AfterBak
  <2> QED
    BY <1>1, <1>2, <1>3, <2>1
       DEF Walks, RequestFits, DeleteLabels, StoreLabels, ExistLabels, CopyLabels, RestoreLabels, GetLabels
<1>4. CASE Sizes(t)
  <2>1. /\ \/ pc[t] = "copySize" /\ pc'[t] = "copyRead"
           \/ pc[t] \in GetLabels /\ pc'[t] \in GetLabels
        /\ Unmoved
    BY <1>4 DEF Sizes, GetLabels, RestoreLabels
  <2>2. req'[t].call = req[t].call /\ req'[t].buf = req[t].buf /\ req'[t].old = req[t].old
    BY <1>1, <1>4, StepLocals
  <2> QED
    BY <1>1, <1>2, <2>1, <2>2
       DEF RequestFits, DeleteLabels, StoreLabels, ExistLabels, CopyLabels, RestoreLabels, GetLabels
<1>5. CASE Looks(t) \/ Cleans(t)
  <2>1. pc[t] \in DeleteLabels /\ pc'[t] \in DeleteLabels /\ Unmoved
    BY <1>5 DEF Looks, Cleans, DeleteLabels
  <2>2. req'[t].call = req[t].call /\ req'[t].buf = req[t].buf /\ req'[t].old = req[t].old
    BY <1>1, <1>5, StepLocals
  <2> QED
    BY <1>1, <1>2, <2>1, <2>2
       DEF RequestFits, DeleteLabels, StoreLabels, ExistLabels, CopyLabels, RestoreLabels, GetLabels
<1>6. CASE Upgrades(t)
  <2>1. /\ pc[t] \in GetLabels /\ pc'[t] = "storeMain" /\ Unmoved
        /\ req[t].buf.kind = "key"
    BY <1>6 DEF Upgrades, GetLabels, RestoreLabels
  <2>2. /\ req'[t].call = req[t].call /\ req'[t].old = req[t].old
        /\ req'[t].buf.kind = req[t].buf.kind /\ req'[t].buf.key = req[t].buf.key
        /\ ~req'[t].buf.old
    BY <1>1, <1>6, StepLocals
  <2>3. Formed(req'[t].buf, keysMade')
    BY <1>2, <2>1, <2>2 DEF RequestFits, Formed
  <2> QED
    BY <1>1, <1>2, <2>1, <2>2, <2>3
       DEF RequestFits, DeleteLabels, StoreLabels, ExistLabels, CopyLabels, RestoreLabels, GetLabels
<1>7. CASE Makes(t)
  <2>1. /\ pc[t] = "engine" /\ pc'[t] = "storeMain" /\ keysMade' = keysMade + 1
        /\ UNCHANGED <<file, kept, dead>>
    BY <1>7 DEF Makes
  <2>2. /\ req'[t].call = req[t].call /\ req'[t].old = req[t].old
        /\ req'[t].buf = KeyBlob(keysMade + 1, FALSE)
    BY <1>1, <1>7, StepLocals
  <2>3. req'[t].buf.kind = "key" /\ req'[t].buf.key = keysMade + 1 /\ ~req'[t].buf.old
    BY <2>2 DEF KeyBlob
  <2>4. Formed(req'[t].buf, keysMade')
    BY <1>1, <2>1, <2>3 DEF Formed
  <2>5. kept' \subseteq 1 .. keysMade' /\ dead' \subseteq kept' /\ keysMade' \in Nat /\ keysMade <= keysMade'
    BY <1>1, <1>2, <2>1
  <2>6. RequestFits(t)'
    BY <1>1, <1>2, <2>1, <2>2, <2>3, <2>4
       DEF RequestFits, DeleteLabels, StoreLabels, ExistLabels, CopyLabels, RestoreLabels, GetLabels
  <2> QED
    BY <2>1, <2>5, <2>6
<1>8. CASE Answers(t) \/ Forgets(t) \/ Stores(t)
  <2>1. RequestFits(t)' /\ file' = file /\ keysMade' = keysMade
    BY <1>1, <1>8
       DEF Answers, Forgets, Stores, RequestFits, DeleteLabels, StoreLabels, ExistLabels, CopyLabels,
           RestoreLabels, GetLabels
  <2>2. kept \subseteq kept' /\ kept' \subseteq 1 .. keysMade /\ dead' \subseteq kept'
    BY <1>1, <1>2, <1>8 DEF Answers, Forgets, Stores, RequestFits, StoreLabels, Formed
  <2> QED
    BY <1>1, <2>1, <2>2
<1> QED
  BY <1>3, <1>4, <1>5, <1>6, <1>7, <1>8 DEF Between

\* Every step of a thread.
LEMMA ThreadFits ==
    ASSUME TypeOK, RequestsFit, NEW t \in Threads, WorkStep(t) \/ CallStep(t),
           \A u \in Threads \ {t} : Alike(u)
    PROVE  RequestsFit' /\ kept \subseteq kept' /\ keysMade' \in Nat /\ keysMade <= keysMade'
<1>1. keysMade \in Nat /\ RequestFits(t) /\ kept \subseteq 1 .. keysMade /\ dead \subseteq kept
  BY DEF TypeOK, RequestsFit
<1>2. /\ RequestFits(t)' /\ (\A p \in Paths : Formed(file[p], keysMade))'
      /\ keysMade' \in Nat /\ keysMade <= keysMade'
      /\ kept \subseteq kept' /\ kept' \subseteq 1 .. keysMade' /\ dead' \subseteq kept'
  <2>1. CASE Enters(t) \/ Opens(t) \/ Reads(t) \/ Writes(t) \/ Removes(t)
    <3>1. /\ RequestFits(t)' /\ (\A p \in Paths : Formed(file[p], keysMade))'
          /\ UNCHANGED <<keysMade, kept, dead>>
      BY <2>1, AccessFits
    <3> QED
      BY <1>1, <3>1
  <2>2. CASE Between(t) /\ stage'[t] = "none"
    <3>1. /\ RequestFits(t)' /\ file' = file
          /\ keysMade' \in Nat /\ keysMade <= keysMade'
          /\ kept \subseteq kept' /\ kept' \subseteq 1 .. keysMade' /\ dead' \subseteq kept'
      BY <2>2, BetweenFits
    <3> QED
      BY <1>1, <3>1, FormedStays DEF RequestsFit
  <2>3. CASE Reading(t) /\ UNCHANGED <<stage, path>>
    <3>1. req'[t].old = {} /\ req'[t].buf = NoFile
      BY <1>1, <2>3 DEF RequestFits, Reading, NoRequest
    <3>2. req'[t].call = IF pc'[t] = "existMain" THEN "exist" ELSE "get"
      BY <1>1, <2>3 DEF RequestFits, Reading, NoRequest
    <3> QED
      BY <1>1, <2>3, <3>1, <3>2, NoKeys
         DEF Reading, Unmoved, RequestsFit, RequestFits, DeleteLabels, StoreLabels, ExistLabels, CopyLabels,
             RestoreLabels, GetLabels, AccessLabels, ReadLabels, WriteLabels, RemoveLabels
  <2>4. CASE Removing(t) /\ UNCHANGED <<stage, path>>
    <3>1. /\ req'[t].call \in {"generate", "delete"} /\ req'[t].old = kept \ dead
          /\ req'[t].buf = NoFile
      BY <2>4 DEF Removing, NoRequest
    <3> QED
      BY <1>1, <2>4, <3>1, NoKeys
         DEF Removing, RequestsFit, RequestFits, DeleteLabels, StoreLabels, ExistLabels, CopyLabels,
             RestoreLabels, GetLabels, AccessLabels, ReadLabels, WriteLabels, RemoveLabels
  <2> QED
    BY <2>1, <2>2, <2>3, <2>4 DEF WorkStep, CallStep
<1>3. \A u \in Threads \ {t} : RequestFits(u)'
  BY <1>2, OthersFit DEF RequestsFit
<1> QED
  BY <1>2, <1>3 DEF RequestsFit

\* A crash ends every request; a file that was open for writing is torn.
Crashes ==
    /\ \A p \in Paths : file'[p] = file[p] \/ (file[p] = Empty /\ file'[p] \in {Empty, Junk})
    /\ \A t \in Threads : pc'[t] = "idle" /\ req'[t] = NoRequest /\ stage'[t] = "none"
    /\ UNCHANGED <<keysMade, kept, doomed, dead>>

StorageStep ==
    \/ Crashes
    \/ UNCHANGED <<file, pc, req, keysMade, kept, doomed, dead, stage, path>>
    \/ \E t \in Threads : /\ WorkStep(t) \/ CallStep(t)
                          /\ \A u \in Threads \ {t} : Alike(u)

\* Every step is one of those named above.
LEMMA StorageSteps == TypeOK /\ StorageInv /\ [Next]_vars => StorageStep
<1> SUFFICES ASSUME TypeOK, StorageInv, [Next]_vars PROVE StorageStep
  OBVIOUS
<1>1. CASE Crash
  <2>1. PICK left \in [{p \in Paths : file[p] = Empty} -> {Empty, Junk}] :
           file' = [p \in Paths |-> IF p \in {q \in Paths : file[q] = Empty} THEN left[p] ELSE file[p]]
    BY <1>1 DEF Crash
  <2>2. \A p \in Paths : file'[p] = file[p] \/ (file[p] = Empty /\ file'[p] \in {Empty, Junk})
    BY <2>1
  <2> QED
    BY <1>1, <2>2 DEF Crash, Reload, Crashes, StorageStep, history
<1>2. CASE UNCHANGED vars
  BY <1>2 DEF vars, lockVars, history, StorageStep
<1>3. ASSUME NEW t \in Threads, Call(t) \/ Work(t) PROVE StorageStep
  BY <1>3, CallSteps, WorkSteps DEF StorageStep
<1> QED
  BY <1>1, <1>2, <1>3 DEF Next

\* At the start no request has begun.
LEMMA InitFits == Init => RequestsFit
<1> SUFFICES ASSUME Init PROVE RequestsFit
  OBVIOUS
<1>1. keysMade \in {0, 1} /\ kept = 1 .. keysMade /\ dead = {}
  BY DEF Init
<1>2. ASSUME NEW p \in Paths PROVE Formed(file[p], keysMade)
  <2>1. CASE file = [q \in Paths |-> NoFile]
    BY <2>1, <1>1, NoKeys
  <2>2. ASSUME NEW b \in BOOLEAN, file = [q \in Paths |-> KeyBlob(1, b)], keysMade = 1
        PROVE  Formed(file[p], keysMade)
    BY <2>2 DEF Formed, KeyBlob
  <2> QED
    BY <2>1, <2>2, StorageAssumption DEF Init
<1>3. ASSUME NEW t \in Threads PROVE RequestFits(t)
  <2>1. pc[t] = "idle" /\ req[t] = NoRequest /\ stage[t] = "none"
    BY DEF Init, OnLoad
  <2> QED
    BY <1>1, <2>1, NoRequestLocals, NoKeys
       DEF RequestFits, DeleteLabels, StoreLabels, ExistLabels, CopyLabels, RestoreLabels, GetLabels
<1> QED
  BY <1>1, <1>2, <1>3 DEF RequestsFit

\* Every step keeps labels, local variables, locks and files in step.
LEMMA NextFits ==
    ASSUME TypeOK, RequestsFit, StorageStep
    PROVE  RequestsFit'
<1>1. CASE Crashes
  <2>1. keysMade \in Nat
    BY DEF TypeOK
  <2>2. ASSUME NEW p \in Paths PROVE Formed(file'[p], keysMade')
    BY <1>1, <2>1, NoKeys DEF Crashes, RequestsFit
  <2>3. ASSUME NEW t \in Threads PROVE RequestFits(t)'
    BY <1>1, <2>1, NoRequestLocals, NoKeys
       DEF Crashes, RequestFits, DeleteLabels, StoreLabels, ExistLabels, CopyLabels, RestoreLabels, GetLabels
  <2> QED
    BY <1>1, <2>2, <2>3 DEF Crashes, RequestsFit
<1>2. CASE UNCHANGED <<file, pc, req, keysMade, kept, doomed, dead, stage, path>>
  BY <1>2 DEF RequestsFit, RequestFits
<1>3. ASSUME NEW t \in Threads, WorkStep(t) \/ CallStep(t), \A u \in Threads \ {t} : Alike(u)
      PROVE  RequestsFit'
  BY <1>3, ThreadFits
<1> QED
  BY <1>1, <1>2, <1>3 DEF StorageStep

\* What the proofs below rest on, for all values of the constants.
Basics == TypeOK /\ StorageInv /\ RequestsFit

(* The requests of a key's files keep their local variables, labels and    *)
(* locks in step, and nothing but whole keys, torn writes and zeros is     *)
(* ever in a file.                                                         *)
THEOREM StorageFits == Spec => []RequestsFit
<1>1. TypeOK /\ TypeOK' /\ LockInv /\ StorageInv /\ [Next]_vars => StorageInv'
  BY NextStorageInv
<1>2. TypeOK /\ StorageInv /\ RequestsFit /\ [Next]_vars => RequestsFit'
  BY StorageSteps, NextFits
<1>3. Spec => []LockInv
  BY StorageUsesLocks, LocksCorrect, PTL
<1>4. Init => StorageInv /\ RequestsFit
  BY InitStorageInv, InitFits
<1> QED
  BY <1>1, <1>2, <1>3, <1>4, StorageTypes, PTL DEF Spec

\* They hold in every behaviour.
LEMMA SpecBasics == Spec => []Basics
<1>1. TypeOK /\ TypeOK' /\ LockInv /\ StorageInv /\ [Next]_vars => StorageInv'
  BY NextStorageInv
<1>2. Spec => []LockInv
  BY StorageUsesLocks, LocksCorrect, PTL
<1>3. Init => StorageInv
  BY InitStorageInv
<1> QED
  BY <1>1, <1>2, <1>3, StorageTypes, StorageFits, PTL DEF Spec, Basics

-----------------------------------------------------------------------------
(* Deletion while keys are only read.  No key comes into a file, so the    *)
(* invariant says that keys leave the files for good, the backup first.    *)

\* What is in a file stays or is no key any more.
Fades == \A p \in Paths : ~file'[p].old /\ (file'[p] = file[p] \/ file'[p].key = 0)

\* A thread that does not step, while keys only leave the files.
LEMMA OthersStoreNothing ==
    ASSUME NEW u \in Threads, NothingStored(u), Alike(u), Fades
    PROVE  NothingStored(u)'
<1>1. "main" \in Paths /\ "bak" \in Paths
  BY StorageAssumption
<1>2. /\ file["main"].key = 0 => file'["main"].key = 0
      /\ file["bak"].key = 0 => file'["bak"].key = 0
      /\ file'["main"] = file["main"] \/ file'["main"].key = 0
  BY <1>1 DEF Fades
<1> QED
  BY <1>2 DEF NothingStored, Alike

\* Nothing that a thread writes has a key.
LEMMA WritesNoKey ==
    ASSUME Basics, DeleteInv, NEW t \in Threads, WorkStep(t)
    PROVE  /\ Fades
           /\ file'["main"] # file["main"] => file["main"].key = 0 \/ file["bak"].key = 0
<1>1. /\ req[t] \in Request /\ path[t] \in Paths /\ file \in [Paths -> Contents]
      /\ RequestFits(t) /\ NothingStored(t)
      /\ "main" \in Paths /\ "bak" \in Paths
  BY StorageAssumption DEF Basics, TypeOK, LockTypeOK, RequestsFit, DeleteInv
<1>2. pc[t] \in WriteLabels => Written(t).key = 0 /\ ~Written(t).old
  <2>1. pc[t] \in {"restore", "copyWrite"} => req[t].buf.key = 0 /\ ~req[t].buf.old
    BY <1>1 DEF NothingStored, CopyLabels, RestoreLabels
  <2>2. pc[t] \notin StoreLabels
    BY <1>1 DEF NothingStored
  <2> QED
    BY <2>1, <2>2, NoKeys DEF Written, WriteLabels, StoreLabels
<1>3. \/ file' = file
      \/ /\ pc[t] \in WriteLabels \cup RemoveLabels /\ path[t] = FileOf(pc[t])
         /\ \E c : c.key = 0 /\ ~c.old /\ file' = [file EXCEPT ![path[t]] = c]
  <2>1. CASE Enters(t) \/ Reads(t) \/ (Between(t) /\ stage'[t] = "none")
    BY <2>1 DEF Enters, Reads, Between, Walks, Sizes, Looks, Cleans, Upgrades, Makes, Answers,
                Forgets, Stores, Unmoved
  <2>2. CASE Opens(t)
    BY <1>1, <2>2, NoKeys DEF Opens, RequestFits
  <2>3. CASE Writes(t)
    <3>1. pc[t] \in WriteLabels /\ path[t] = FileOf(pc[t])
      BY <1>1, <2>3 DEF Writes, Transfers, RequestFits
    <3> QED
      BY <1>1, <1>2, <2>3, <3>1, AccessLocals, NoKeys
  <2>4. CASE Removes(t)
    BY <1>1, <2>4, NoKeys DEF Removes, Transfers, RequestFits
  <2> QED
    BY <2>1, <2>2, <2>3, <2>4 DEF WorkStep
<1>4. Fades
  BY <1>1, <1>3 DEF Fades, DeleteInv
<1>5. ASSUME file'["main"] # file["main"] PROVE file["main"].key = 0 \/ file["bak"].key = 0
  <2>1. pc[t] \in WriteLabels \cup RemoveLabels /\ FileOf(pc[t]) = "main"
    BY <1>1, <1>3, <1>5
  <2>2. pc[t] \in {"cleanMain", "removeMain", "restore", "copyWrite"}
    BY <1>1, <2>1, LabelKinds DEF WriteLabels, RemoveLabels, NothingStored, StoreLabels
  <2> QED
    BY <1>1, <2>2 DEF NothingStored, CopyLabels, RestoreLabels
<1> QED
  BY <1>4, <1>5

\* The thread that steps.
LEMMA OwnStoresNothing ==
    ASSUME Basics, DeleteInv, NEW t \in Threads, WorkStep(t), Fades
    PROVE  NothingStored(t)'
<1>1. /\ req[t] \in Request /\ path[t] \in Paths /\ file \in [Paths -> Contents]
      /\ RequestFits(t) /\ NothingStored(t)
  BY DEF Basics, TypeOK, LockTypeOK, RequestsFit, DeleteInv
<1>2. /\ "main" \in Paths /\ "bak" \in Paths
      /\ file["main"].key = 0 => file["bak"].key = 0
      /\ ~file["main"].old /\ ~file["bak"].old
  BY StorageAssumption DEF DeleteInv
<1>3. /\ file["main"].key = 0 => file'["main"].key = 0
      /\ file["bak"].key = 0 => file'["bak"].key = 0
      /\ file'["main"] = file["main"] \/ file'["main"].key = 0
  BY <1>2 DEF Fades
<1>4. ASSUME NEW p \in Paths, file[p].kind # "key" PROVE file[p].key = 0
  BY <1>4, NoKeys DEF Basics, RequestsFit, Formed
<1>5. req[t].buf.kind # "key" => req[t].buf.key = 0
  BY <1>1, NoKeys DEF RequestFits, Formed
<1>6. CASE Enters(t)
  BY <1>1, <1>3, <1>6 DEF Enters, NothingStored
<1>7. CASE Opens(t)
  <2>1. /\ pc'[t] = pc[t] /\ stage[t] # "unlocked" /\ stage'[t] # "unlocked"
    BY <1>7 DEF Opens
  <2>2. /\ req'[t].call = req[t].call /\ req'[t].mainExists = req[t].mainExists
        /\ req'[t].buf = req[t].buf /\ req'[t].sized = req[t].sized
    BY <1>1, <1>7, AccessLocals
  <2> QED
    BY <1>1, <1>3, <2>1, <2>2 DEF NothingStored
<1>8. CASE Reads(t)
  <2>1. /\ pc'[t] = pc[t] /\ pc[t] \in {"readMain", "readBak", "copyRead"} /\ file' = file
        /\ stage[t] # "unlocked" /\ stage'[t] = "unlocked" /\ path[t] = FileOf(pc[t])
    BY <1>1, <1>8 DEF Reads, Transfers, ReadLabels, RequestFits
  <2>2. /\ req'[t].call = req[t].call
        /\ req'[t].buf \in {NoFile, Junk, file[path[t]]}
        /\ req'[t].buf = Junk => file[path[t]] = Junk \/ file[path[t]] # req[t].sized
    BY <1>1, <1>8, AccessLocals
  <2>3. CASE pc[t] = "readMain"
    <3>1. path[t] = "main"
      BY <2>1, <2>3, LabelKinds
    <3>2. \/ file["main"].key = 0
          \/ req'[t].buf.kind \notin {"empty", "junk"}
      <4>1. CASE file["main"].key # 0
        <5>1. req[t].sized = file["main"]
          BY <1>1, <2>1, <2>3, <4>1 DEF NothingStored
        <5>2. file["main"].kind = "key"
          BY <1>2, <1>4, <4>1
        <5>3. req'[t].buf \in {NoFile, file["main"]}
          BY <2>2, <3>1, <5>1, <5>2, NoKeys
        <5> QED
          BY <5>2, <5>3, NoKeys
      <4> QED
        BY <4>1
    <3>3. ~req'[t].buf.old
      BY <1>2, <2>2, <3>1, NoKeys
    <3> QED
      BY <1>1, <2>1, <2>2, <2>3, <3>2, <3>3
         DEF NothingStored, StoreLabels, CopyLabels, RestoreLabels
  <2>4. CASE pc[t] \in {"readBak", "copyRead"}
    <3>1. path[t] = "bak" /\ file["main"].key = 0 /\ file["bak"].key = 0
      BY <1>1, <1>2, <2>1, <2>4, LabelKinds DEF NothingStored, CopyLabels, RestoreLabels
    <3>2. req'[t].buf.key = 0 /\ ~req'[t].buf.old
      BY <1>2, <2>2, <3>1, NoKeys
    <3> QED
      BY <1>1, <2>1, <2>2, <2>4, <3>1, <3>2
         DEF NothingStored, StoreLabels
  <2> QED
    BY <2>1, <2>3, <2>4
<1>9. CASE Writes(t)
  <2>1. /\ pc'[t] = pc[t] /\ pc[t] \in WriteLabels /\ stage'[t] = "unlocked"
    BY <1>9 DEF Writes, Transfers
  <2>2. /\ req'[t].call = req[t].call /\ req'[t].mainExists = req[t].mainExists
        /\ req'[t].buf = req[t].buf /\ req'[t].sized = req[t].sized
    BY <1>1, <1>9, AccessLocals
  <2> QED
    BY <1>1, <1>3, <2>1, <2>2 DEF NothingStored, WriteLabels
<1>10. CASE Removes(t)
  <2>1. /\ pc'[t] = pc[t] /\ pc[t] \in {"removeBak", "removeMain"} /\ req'[t] = req[t]
        /\ file' = IF req[t].failed THEN file ELSE [file EXCEPT ![path[t]] = NoFile]
        /\ path[t] = FileOf(pc[t])
    BY <1>1, <1>10 DEF Removes, Transfers, RemoveLabels, RequestFits
  <2>2. ~req[t].failed => /\ pc[t] = "removeBak" => file'["bak"].key = 0
                          /\ pc[t] = "removeMain" => file'["main"].key = 0
    BY <1>1, <1>2, <2>1, LabelKinds, NoKeys
  <2> QED
    BY <1>1, <1>3, <2>1, <2>2 DEF NothingStored
<1>11. CASE Between(t) /\ stage'[t] = "none"
  <2>0. /\ pc[t] \in {"existMain", "getMain", "checkMain"} => stage[t] = "none"
        /\ Exists("main") \/ file["main"].key = 0
        /\ HasSize("main") \/ file["main"].key = 0
        /\ Exists("bak") \/ file["bak"].key = 0
    BY <1>1, <1>2, <1>4, LabelKinds DEF RequestFits, Exists, HasSize
  <2>1. CASE Walks(t)
    <3>1. file' = file /\ req'[t] = req[t]
      BY <2>1 DEF Walks, Unmoved
    <3>2. pc[t] # "storeMain" /\ (pc[t] = "deleted" => req[t].call = "delete")
      BY <1>1 DEF NothingStored, StoreLabels, RequestFits, DeleteLabels
    <3>3. CASE pc[t] \in DeleteLabels
      BY <1>1, <1>11, <2>0, <2>1, <3>1, <3>2, <3>3
         DEF Walks, Moves, Done, AfterBak, NothingStored, StoreLabels, CopyLabels, RestoreLabels, DeleteLabels
    <3>4. CASE pc[t] \in ExistLabels
      BY <1>1, <1>11, <2>0, <2>1, <3>1, <3>4, NoKeys
         DEF Walks, Moves, NothingStored, StoreLabels, CopyLabels, RestoreLabels, ExistLabels
    <3>5. CASE pc[t] \in GetLabels
      BY <1>1, <1>5, <1>11, <2>0, <2>1, <3>1, <3>5, NoKeys
         DEF Walks, Moves, NothingStored, StoreLabels, CopyLabels, RestoreLabels, GetLabels
    <3>6. pc[t] \in DeleteLabels \cup ExistLabels \cup GetLabels
      BY <2>1, <3>2 DEF Walks, Moves, DeleteLabels, ExistLabels, CopyLabels, GetLabels, RestoreLabels
    <3> QED
      BY <3>3, <3>4, <3>5, <3>6
  <2>2. CASE Sizes(t)
    <3>1. /\ req'[t].call = req[t].call /\ req'[t].buf = req[t].buf
      BY <1>1, <2>2, StepLocals
    <3>2. /\ file' = file
          /\ \/ pc[t] = "copySize" /\ pc'[t] = "copyRead"
             \/ pc[t] = "getMain" /\ pc'[t] = "checkMain" /\ req'[t].sized = file["main"]
             \/ pc[t] = "getBak" /\ pc'[t] = "checkBak"
             \/ pc[t] = "checkMain" /\ pc'[t] = "getBak" /\ ~HasSize("main")
      BY <1>1, <2>2 DEF Sizes, Moves, Unmoved, Request
    <3> QED
      BY <1>1, <1>11, <2>0, <3>1, <3>2, NoKeys
         DEF NothingStored, StoreLabels, CopyLabels, RestoreLabels
  <2>3. CASE Looks(t) \/ Cleans(t)
    <3>1. /\ file' = file
          /\ \/ pc'[t] = "delBak"
             \/ pc[t] = "cleanBak" /\ pc'[t] \in {"cleanBak", "removeBak"}
             \/ pc[t] = "cleanMain" /\ pc'[t] \in {"cleanMain", "removeMain"}
      BY <2>3 DEF Looks, Cleans, Moves, Unmoved
    <3>2. /\ req'[t].call = req[t].call /\ req'[t].buf = req[t].buf
      BY <1>1, <2>3, StepLocals
    <3> QED
      BY <1>1, <1>11, <3>1, <3>2 DEF NothingStored, StoreLabels, CopyLabels, RestoreLabels
  <2>4. ~Upgrades(t) /\ ~Makes(t) /\ ~Stores(t)
    BY <1>1 DEF Upgrades, Makes, Stores, Moves, NothingStored, RequestFits, StoreLabels
  <2>5. CASE Answers(t) \/ Forgets(t)
    <3>1. pc'[t] = "idle" /\ req'[t] = NoRequest
      BY <2>5 DEF Answers, Forgets, Moves
    <3> QED
      BY <1>11, <3>1, NoRequestLocals, NoKeys DEF NothingStored, StoreLabels, CopyLabels, RestoreLabels
  <2> QED
    BY <1>11, <2>1, <2>2, <2>3, <2>4, <2>5 DEF Between
<1> QED
  BY <1>6, <1>7, <1>8, <1>9, <1>10, <1>11 DEF WorkStep

\* Every step while nothing is generated and no key is old.
LEMMA NextDeleteInv ==
    ASSUME Basics, DeleteInv, StorageStep, "generate" \notin Requests
    PROVE  DeleteInv'
<1>1. /\ "main" \in Paths /\ "bak" \in Paths
      /\ file["main"].key = 0 => file["bak"].key = 0
      /\ dead # {} => file["main"].key = 0
  BY StorageAssumption DEF DeleteInv
<1>2. CASE Crashes
  <2>1. \A p \in Paths : ~file'[p].old /\ file'[p].key = file[p].key
    BY <1>2, NoKeys DEF Crashes, DeleteInv
  <2>2. ASSUME NEW t \in Threads PROVE NothingStored(t)'
    BY <1>2, NoRequestLocals, NoKeys DEF Crashes, NothingStored, StoreLabels, CopyLabels, RestoreLabels
  <2> QED
    BY <1>1, <1>2, <2>1, <2>2 DEF Crashes, DeleteInv
<1>3. CASE UNCHANGED <<file, pc, req, keysMade, kept, doomed, dead, stage, path>>
  BY <1>3 DEF DeleteInv, NothingStored
<1>4. ASSUME NEW t \in Threads, CallStep(t), \A u \in Threads \ {t} : Alike(u)
      PROVE  DeleteInv'
  <2>1. file' = file /\ dead' = dead
    BY <1>4 DEF CallStep, Reading, Removing, Unmoved
  <2>2. Fades
    BY <2>1 DEF Fades, DeleteInv
  <2>3. NothingStored(t)'
    <3>1. CASE Reading(t)
      <4>1. req[t] = NoRequest
        BY <3>1 DEF Reading, Basics, RequestsFit, RequestFits
      <4>2. pc'[t] \in {"existMain", "getMain"} /\ req'[t].call # "generate" /\ req'[t].buf = NoFile
        BY <3>1, <4>1 DEF Reading, NoRequest
      <4> QED
        BY <4>2, NoKeys, <1>4, LabelKinds
           DEF NothingStored, StoreLabels, CopyLabels, RestoreLabels, CallStep
    <3>2. CASE Removing(t)
      <4>1. pc'[t] = "delMain" /\ req'[t].call # "generate" /\ req'[t].buf = NoFile
        BY <3>2 DEF Removing, NoRequest
      <4> QED
        BY <4>1, NoKeys DEF NothingStored, StoreLabels, CopyLabels, RestoreLabels
    <3> QED
      BY <1>4, <3>1, <3>2 DEF CallStep
  <2> QED
    BY <1>1, <1>4, <2>1, <2>2, <2>3, OthersStoreNothing DEF DeleteInv
<1>5. ASSUME NEW t \in Threads, WorkStep(t), \A u \in Threads \ {t} : Alike(u)
      PROVE  DeleteInv'
  <2>1. Fades /\ (file'["main"] # file["main"] => file["main"].key = 0 \/ file["bak"].key = 0)
    BY <1>5, WritesNoKey
  <2>2. \A u \in Threads : NothingStored(u)'
    BY <1>5, <2>1, OwnStoresNothing, OthersStoreNothing DEF DeleteInv
  <2>3. file'["main"].key = 0 => file'["bak"].key = 0
    BY <1>1, <2>1 DEF Fades
  <2>4. dead' # {} => file'["main"].key = 0
    <3>1. CASE dead' = dead
      BY <1>1, <2>1, <3>1 DEF Fades
    <3>2. CASE dead' # dead
      <4>1. Forgets(t) \/ Stores(t)
        BY <1>5, <3>2
           DEF WorkStep, Enters, Opens, Reads, Writes, Removes, Transfers, Between, Walks, Sizes, Looks,
               Cleans, Upgrades, Makes, Answers, Unmoved
      <4>2. ~Stores(t)
        BY DEF Stores, Moves, DeleteInv, NothingStored, StoreLabels
      <4>3. req[t].mainExists /\ pc[t] = "deleted" /\ file' = file
        BY <3>2, <4>1, <4>2 DEF Forgets, Moves
      <4> QED
        BY <4>3 DEF DeleteInv, NothingStored
    <3> QED
      BY <3>1, <3>2
  <2> QED
    BY <2>1, <2>2, <2>3, <2>4 DEF DeleteInv, Fades
<1> QED
  BY <1>2, <1>3, <1>4, <1>5 DEF StorageStep

(* Where no key is generated and none is of an old version, a deleted key  *)
(* never comes back, whatever requests read, copy or restore it at the     *)
(* same time, whatever fails, and also without lock objects.               *)
THEOREM DeletedForGood ==
    ASSUME "generate" \notin Requests, OldVersions = FALSE
    PROVE  Spec => []DeletedStaysDeleted
<1>1. Init => DeleteInv
  <2> SUFFICES ASSUME Init PROVE DeleteInv
    OBVIOUS
  <2>1. \A p \in Paths : file[p] = NoFile \/ file[p] = KeyBlob(1, FALSE)
    BY DEF Init
  <2>2. file["main"] = file["bak"] /\ "main" \in Paths /\ "bak" \in Paths
    BY StorageAssumption DEF Init
  <2>3. ASSUME NEW t \in Threads PROVE NothingStored(t)
    BY NoRequestLocals, NoKeys DEF Init, OnLoad, NothingStored, StoreLabels, CopyLabels, RestoreLabels
  <2>4. \A p \in Paths : ~file[p].old
    BY <2>1 DEF NoFile, KeyBlob
  <2> QED
    BY <2>2, <2>3, <2>4 DEF DeleteInv, Init
<1>2. Basics /\ DeleteInv /\ [Next]_vars => DeleteInv'
  BY StorageSteps, NextDeleteInv DEF Basics
<1>3. Basics /\ DeleteInv => DeletedStaysDeleted
  <2> SUFFICES ASSUME Basics, DeleteInv, NEW p \in Paths PROVE file[p].key \notin dead
    BY DEF DeletedStaysDeleted
  <2>1. dead # {} => file[p].key = 0
    BY StorageAssumption DEF DeleteInv
  <2>2. 0 \notin dead
    BY DEF Basics, RequestsFit
  <2> QED
    BY <2>1, <2>2
<1> QED
  BY <1>1, <1>2, <1>3, SpecBasics, PTL DEF Spec

-----------------------------------------------------------------------------
(* Keys while nothing fails.  Only requests that delete write the backup,  *)
(* and a key that becomes kept beside one of them is in danger from the    *)
(* start: all others are in the backup.                                    *)

\* A step changes the backup only in a request that deletes, and no step
\* stores an old key.
LEMMA BackupWriters ==
    ASSUME Basics, BackupInv, NEW t \in Threads, WorkStep(t)
    PROVE  /\ \A p \in Paths : ~file'[p].old
           /\ file'["bak"] # file["bak"] => Deleting(t)
<1>1. /\ req[t] \in Request /\ path[t] \in Paths /\ file \in [Paths -> Contents]
      /\ RequestFits(t) /\ BackupFits(t) /\ "bak" \in Paths
      /\ \A p \in Paths : ~file[p].old
  BY StorageAssumption DEF Basics, TypeOK, LockTypeOK, RequestsFit, BackupInv
<1>2. ~Written(t).old
  BY <1>1, NoKeys DEF Written, BackupFits
<1>3. \/ file' = file
      \/ /\ pc[t] \in WriteLabels \cup RemoveLabels /\ path[t] = FileOf(pc[t])
         /\ \E c : ~c.old /\ file' = [file EXCEPT ![path[t]] = c]
  <2>1. CASE Enters(t) \/ Reads(t) \/ (Between(t) /\ stage'[t] = "none")
    BY <2>1 DEF Enters, Reads, Between, Walks, Sizes, Looks, Cleans, Upgrades, Makes, Answers,
                Forgets, Stores, Unmoved
  <2>2. CASE Opens(t)
    BY <1>1, <2>2, NoKeys DEF Opens, RequestFits
  <2>3. CASE Writes(t)
    <3>1. pc[t] \in WriteLabels /\ path[t] = FileOf(pc[t])
      BY <1>1, <2>3 DEF Writes, Transfers, RequestFits
    <3> QED
      BY <1>1, <1>2, <2>3, <3>1, AccessLocals, NoKeys
  <2>4. CASE Removes(t)
    BY <1>1, <2>4, NoKeys DEF Removes, Transfers, RequestFits
  <2> QED
    BY <2>1, <2>2, <2>3, <2>4 DEF WorkStep
<1>4. \A p \in Paths : ~file'[p].old
  BY <1>1, <1>3
<1>5. ASSUME file'["bak"] # file["bak"] PROVE Deleting(t)
  <2>1. pc[t] \in WriteLabels \cup RemoveLabels /\ FileOf(pc[t]) = "bak"
    BY <1>1, <1>3, <1>5
  <2>2. pc[t] \in {"cleanBak", "removeBak", "storeBak"}
    BY <2>1, LabelKinds DEF WriteLabels, RemoveLabels
  <2> QED
    BY <1>1, <2>2 DEF RequestFits, BackupFits, DeleteLabels, StoreLabels, Deleting
<1> QED
  BY <1>4, <1>5

\* The thread that steps: its locals, apart from the histories.
LEMMA OwnBackup ==
    ASSUME Basics, BackupInv, ~IOErrors, NEW t \in Threads, WorkStep(t)
    PROVE  /\ ~req'[t].buf.old
           /\ pc'[t] \in StoreLabels => req'[t].call = "generate"
           /\ Deleting(t)' => Deleting(t) /\ (req[t].clash => req'[t].clash)
           /\ pc'[t] = "storeBak" /\ stage'[t] \notin {"none", "created"} => ~req'[t].failed
           /\ pc'[t] = "storeBak" /\ stage'[t] = "unlocked" => file'["bak"].key = req'[t].buf.key
<1>1. /\ req[t] \in Request /\ path[t] \in Paths /\ file \in [Paths -> Contents]
      /\ RequestFits(t) /\ BackupFits(t) /\ "bak" \in Paths
      /\ \A p \in Paths : ~file[p].old
  BY StorageAssumption DEF Basics, TypeOK, LockTypeOK, RequestsFit, BackupInv
<1>2. CASE Enters(t)
  BY <1>1, <1>2 DEF Enters, BackupFits, Deleting
<1>3. CASE Opens(t)
  <2>1. /\ pc'[t] = pc[t] /\ stage'[t] # "unlocked" /\ pc[t] # "idle"
    BY <1>3, LabelKinds DEF Opens
  <2>2. /\ req'[t].call = req[t].call /\ req'[t].clash = req[t].clash /\ req'[t].buf = req[t].buf
        /\ Written(t) # Empty => ~req'[t].failed
    BY <1>1, <1>3, AccessLocals
  <2>3. pc[t] = "storeBak" => Written(t) # Empty
    BY <1>1, NoKeys DEF Written, RequestFits, StoreLabels
  <2> QED
    BY <1>1, <2>1, <2>2, <2>3 DEF BackupFits, Deleting
<1>4. CASE Reads(t)
  <2>1. /\ pc'[t] = pc[t] /\ pc[t] \in {"readMain", "readBak", "copyRead"}
    BY <1>4 DEF Reads, Transfers, ReadLabels
  <2>2. /\ req'[t].call = req[t].call /\ req'[t].clash = req[t].clash
        /\ req'[t].buf \in {NoFile, Junk, file[path[t]]}
    BY <1>1, <1>4, AccessLocals
  <2>3. ~req'[t].buf.old
    BY <1>1, <2>2, NoKeys
  <2> QED
    BY <1>1, <2>1, <2>2, <2>3 DEF StoreLabels, Deleting
<1>5. CASE Writes(t)
  <2>1. /\ pc'[t] = pc[t] /\ pc[t] # "idle" /\ stage[t] \in {"reading", "writing"}
    BY <1>5 DEF Writes, Transfers, WriteLabels
  <2>2. /\ req'[t].call = req[t].call /\ req'[t].clash = req[t].clash /\ req'[t].buf = req[t].buf
        /\ \/ ~req'[t].failed /\ file' = [file EXCEPT ![path[t]] = Written(t)]
           \/ req[t].failed
    BY <1>1, <1>5, AccessLocals
  <2>3. ASSUME pc[t] = "storeBak" PROVE ~req'[t].failed /\ file'["bak"].key = req[t].buf.key
    <3>1. ~req[t].failed /\ path[t] = "bak" /\ Written(t) = req[t].buf
      BY <1>1, <2>1, <2>3, LabelKinds DEF BackupFits, RequestFits, Written
    <3> QED
      BY <1>1, <2>2, <3>1
  <2> QED
    BY <1>1, <2>1, <2>2, <2>3 DEF BackupFits, Deleting
<1>6. CASE Removes(t)
  BY <1>1, <1>6 DEF Removes, Transfers, RemoveLabels, BackupFits, StoreLabels, Deleting
<1>7. CASE Between(t) /\ stage'[t] = "none"
  <2>1. CASE Walks(t)
    <3>1. req'[t] = req[t] /\ pc[t] # "idle" /\ (pc'[t] \in StoreLabels => pc[t] = "storeMain")
      BY <2>1 DEF Walks, Moves, AfterBak, StoreLabels
    <3> QED
      BY <1>1, <1>7, <3>1 DEF BackupFits, StoreLabels, Deleting
  <2>2. CASE Sizes(t) \/ Looks(t) \/ Cleans(t)
    <3>1. pc[t] # "idle" /\ pc'[t] \notin StoreLabels
      BY <2>2 DEF Sizes, Looks, Cleans, Moves, StoreLabels
    <3>2. req'[t].call = req[t].call /\ req'[t].clash = req[t].clash /\ req'[t].buf = req[t].buf
      BY <1>1, <2>2, StepLocals
    <3> QED
      BY <1>1, <1>7, <3>1, <3>2 DEF BackupFits, StoreLabels, Deleting
  <2>3. ~Upgrades(t)
    BY <1>1 DEF Upgrades, BackupFits
  <2>4. CASE Makes(t)
    <3>1. pc[t] = "engine" /\ pc'[t] = "storeMain"
      BY <2>4 DEF Makes, Moves
    <3>2. /\ req'[t].call = req[t].call /\ req'[t].clash = req[t].clash
          /\ req'[t].buf = KeyBlob(keysMade + 1, FALSE)
      BY <1>1, <2>4, StepLocals
    <3>3. ~req'[t].buf.old
      BY <3>2 DEF KeyBlob
    <3> QED
      BY <1>1, <3>1, <3>2, <3>3 DEF RequestFits, Deleting
  <2>5. CASE Answers(t) \/ Forgets(t) \/ Stores(t)
    <3>1. pc'[t] = "idle" /\ req'[t] = NoRequest
      BY <2>5 DEF Answers, Forgets, Stores, Moves
    <3> QED
      BY <3>1, NoRequestLocals, NoKeys DEF StoreLabels, Deleting
  <2> QED
    BY <1>7, <2>1, <2>2, <2>3, <2>4, <2>5 DEF Between
<1> QED
  BY <1>2, <1>3, <1>4, <1>5, <1>6, <1>7 DEF WorkStep

\* Every step while no file operation fails.
LEMMA NextBackupInv ==
    ASSUME Basics, BackupInv, StorageStep, ~IOErrors
    PROVE  BackupInv'
<1>1. "main" \in Paths /\ "bak" \in Paths
  BY StorageAssumption
<1>2. CASE Crashes
  <2>1. \A p \in Paths : ~file'[p].old /\ file'[p].key = file[p].key
    BY <1>2, NoKeys DEF Crashes, BackupInv
  <2>2. ASSUME NEW t \in Threads PROVE BackupFits(t)'
    BY <1>2, NoRequestLocals, NoKeys DEF Crashes, BackupFits, StoreLabels, Deleting
  <2> QED
    BY <1>1, <1>2, <2>1, <2>2 DEF Crashes, BackupInv
<1>3. CASE UNCHANGED <<file, pc, req, keysMade, kept, doomed, dead, stage, path>>
  BY <1>3 DEF BackupInv, BackupFits, Deleting
<1>4. ASSUME NEW t \in Threads, CallStep(t), \A u \in Threads \ {t} : Alike(u)
      PROVE  BackupInv'
  <2>1. file' = file /\ UNCHANGED <<stage, kept>>
    BY <1>4 DEF CallStep, Reading, Removing, Unmoved
  <2>2. \A u \in Threads \ {t} : Deleting(u)' <=> Deleting(u)
    BY <1>4 DEF Alike, Deleting
  <2>3. CASE Reading(t)
    <3>1. req[t] = NoRequest
      BY <2>3 DEF Reading, Basics, RequestsFit, RequestFits
    <3>2. /\ pc'[t] \in {"existMain", "getMain"} /\ req'[t].buf = NoFile /\ ~Deleting(t)'
          /\ doomed' = doomed
      BY <2>3, <3>1 DEF Reading, NoRequest, Deleting, Unmoved
    <3>3. BackupFits(t)'
      BY <3>2, NoKeys DEF BackupFits, StoreLabels
    <3>4. ASSUME NEW u \in Threads \ {t} PROVE BackupFits(u)'
      <4>1. BackupFits(u) /\ Alike(u)
        BY <1>4 DEF BackupInv
      <4> QED
        BY <2>1, <2>2, <3>2, <4>1 DEF BackupFits, Alike
    <3> QED
      BY <2>1, <3>2, <3>3, <3>4 DEF BackupInv
  <2>4. CASE Removing(t)
    <3>1. /\ pc'[t] = "delMain" /\ doomed' = kept /\ req'[t].buf = NoFile
          /\ req'[t].clash = ({u \in Threads : Deleting(u)} # {})
          /\ \A u \in Threads \ {t} : Deleting(u) => req'[u].clash
      BY <2>4 DEF Removing, NoRequest
    <3>2. BackupFits(t)'
      BY <2>1, <2>2, <3>1, NoKeys DEF BackupFits, StoreLabels
    <3>3. ASSUME NEW u \in Threads \ {t} PROVE BackupFits(u)'
      <4>1. BackupFits(u) /\ Alike(u)
        BY <1>4 DEF BackupInv
      <4> QED
        BY <2>1, <2>2, <3>1, <4>1 DEF BackupFits, Alike
    <3> QED
      BY <2>1, <3>1, <3>2, <3>3 DEF BackupInv
  <2> QED
    BY <1>4, <2>3, <2>4 DEF CallStep
<1>5. ASSUME NEW t \in Threads, WorkStep(t), \A u \in Threads \ {t} : Alike(u)
      PROVE  BackupInv'
  <2>1. BackupFits(t) /\ RequestFits(t)
    BY DEF BackupInv, Basics, RequestsFit
  <2>2. /\ \A p \in Paths : ~file'[p].old
        /\ file'["bak"] # file["bak"] => Deleting(t)
    BY <1>5, BackupWriters
  <2>3. /\ ~req'[t].buf.old
        /\ pc'[t] \in StoreLabels => req'[t].call = "generate"
        /\ Deleting(t)' => Deleting(t) /\ (req[t].clash => req'[t].clash)
        /\ pc'[t] = "storeBak" /\ stage'[t] \notin {"none", "created"} => ~req'[t].failed
        /\ pc'[t] = "storeBak" /\ stage'[t] = "unlocked" => file'["bak"].key = req'[t].buf.key
    BY <1>5, OwnBackup
  <2>4. \A u \in Threads \ {t} : Deleting(u)' <=> Deleting(u)
    BY <1>5 DEF Alike, Deleting
  <2>5. \/ UNCHANGED <<kept, doomed>>
        \/ Deleting(t) /\ ~Deleting(t)' /\ UNCHANGED file /\ Stores(t)
    <3>1. CASE Stores(t)
      BY <2>1, <3>1 DEF Stores, Moves, BackupFits, StoreLabels, Deleting
    <3>2. CASE ~Stores(t)
      BY <1>5, <3>2
         DEF WorkStep, Enters, Opens, Reads, Writes, Removes, Transfers, Between, Walks, Sizes, Looks,
             Cleans, Upgrades, Makes, Answers, Forgets, Unmoved
    <3> QED
      BY <3>1, <3>2
  <2>6. \A u \in Threads : Deleting(u)' => kept' \subseteq doomed'
    <3>1. CASE UNCHANGED <<kept, doomed>>
      BY <2>3, <2>4, <3>1 DEF BackupInv, BackupFits
    <3>2. CASE Deleting(t) /\ ~Deleting(t)' /\ UNCHANGED file /\ Stores(t)
      <4> SUFFICES ASSUME NEW u \in Threads \ {t}, Deleting(u) PROVE kept' \subseteq doomed'
        BY <2>4, <3>2
      <4>1. req[t].clash /\ kept \subseteq doomed
        BY <2>1, <3>2 DEF BackupFits
      <4> QED
        BY <3>2, <4>1 DEF Stores
    <3> QED
      BY <2>5, <3>1, <3>2
  <2>7. \A k \in kept' \ doomed' : file'["bak"].key = k
    <3>1. CASE UNCHANGED <<kept, doomed>>
      BY <2>1, <2>2, <3>1 DEF BackupInv, BackupFits
    <3>2. CASE Deleting(t) /\ ~Deleting(t)' /\ UNCHANGED file /\ Stores(t)
      <4>1. kept \subseteq doomed
        BY <2>1, <3>2 DEF BackupFits
      <4>2. pc[t] = "storeBak" /\ stage[t] = "unlocked"
        BY <3>2 DEF Stores, Moves
      <4>3. ~req[t].clash => file["bak"].key = req[t].buf.key
        BY <2>1, <4>2 DEF BackupFits
      <4> QED
        BY <3>2, <4>1, <4>3 DEF Stores
    <3> QED
      BY <2>5, <3>1, <3>2
  <2>8. BackupFits(t)'
    <3>1. \A u \in Threads \ {t} : Deleting(t)' /\ Deleting(u)' => req'[t].clash
      BY <2>1, <2>3, <2>4 DEF BackupFits
    <3> QED
      BY <2>3, <2>6, <3>1 DEF BackupFits
  <2>9. ASSUME NEW u \in Threads \ {t} PROVE BackupFits(u)'
    <3>1. BackupFits(u) /\ Alike(u) /\ RequestFits(u)
      BY <1>5 DEF BackupInv, Basics, RequestsFit
    <3>2. \A v \in Threads \ {u} : Deleting(u)' /\ Deleting(v)' => req'[u].clash
      BY <2>3, <2>4, <3>1 DEF BackupFits, Alike
    <3>3. ASSUME pc[u] = "storeBak", ~req'[u].clash PROVE file'["bak"] = file["bak"]
      <4>1. Deleting(u) /\ ~req[u].clash
        BY <3>1, <3>3 DEF BackupFits, StoreLabels, Deleting, Alike
      <4>2. ~Deleting(t)
        BY <3>1, <4>1 DEF BackupFits
      <4> QED
        BY <2>2, <4>2
    <3> QED
      BY <2>6, <3>1, <3>2, <3>3 DEF BackupFits, Alike
  <2> QED
    BY <2>2, <2>7, <2>8, <2>9 DEF BackupInv
<1> QED
  BY <1>2, <1>3, <1>4, <1>5 DEF StorageStep

(* Where no file operation fails and no key is of an old version, a key    *)
(* that was stored and that no deletion has been asked for is never lost,  *)
(* whatever requests run, wherever the service dies and however often, and *)
(* also without lock objects: it is in the backup.                         *)
THEOREM NeverLost ==
    ASSUME ~IOErrors, OldVersions = FALSE
    PROVE  Spec => []KeyNeverLost
<1>1. Init => BackupInv
  <2> SUFFICES ASSUME Init PROVE BackupInv
    OBVIOUS
  <2>1. \A p \in Paths : ~file[p].old
    BY DEF Init, NoFile, KeyBlob
  <2>2. ASSUME NEW k \in kept PROVE file["bak"].key = k
    <3>1. keysMade \in {0, 1} /\ kept = 1 .. keysMade
      BY DEF Init
    <3>2. k = 1 /\ keysMade = 1 /\ keysMade # 0
      BY <2>2, <3>1
    <3>3. ASSUME NEW b \in BOOLEAN, file = [p \in Paths |-> KeyBlob(1, b)] PROVE file["bak"].key = 1
      BY <3>3, StorageAssumption DEF KeyBlob
    <3> QED
      BY <3>2, <3>3, StorageAssumption DEF Init
  <2>3. ASSUME NEW t \in Threads PROVE BackupFits(t)
    BY NoRequestLocals, NoKeys DEF Init, OnLoad, BackupFits, StoreLabels, Deleting
  <2> QED
    BY <2>1, <2>2, <2>3 DEF BackupInv
<1>2. Basics /\ BackupInv /\ [Next]_vars => BackupInv'
  BY StorageSteps, NextBackupInv DEF Basics
<1>3. BackupInv => KeyNeverLost
  BY StorageAssumption DEF BackupInv, KeyNeverLost
<1> QED
  BY <1>1, <1>2, <1>3, SpecBasics, PTL DEF Spec

-----------------------------------------------------------------------------
(* Deletions and generations alone, with errors, upgrades, crashes and no  *)
(* memory for locks: nothing that is gone comes back.                      *)

\* What is known of the two files whatever the requests do.
LEMMA FileFacts ==
    ASSUME Basics
    PROVE  /\ Paths = {"main", "bak"} /\ keysMade \in Nat /\ file \in [Paths -> Contents]
           /\ 0 \notin kept /\ 0 \notin dead /\ 0 \notin Safe /\ dead \subseteq kept
           /\ kept \subseteq 1 .. keysMade /\ keysMade <= MaxKeys
           /\ \A p \in Paths : file[p].kind # "key" => file[p].key = 0
           /\ \A p \in Paths : file[p].kind = "key" => file[p].key \in 1 .. MaxKeys
<1>1. Paths = {"main", "bak"} /\ keysMade \in 0 .. MaxKeys /\ MaxKeys \in Nat /\ file \in [Paths -> Contents]
  BY StorageAssumption DEF Basics, TypeOK
<1>2. 0 \notin kept /\ dead \subseteq kept /\ kept \subseteq 1 .. keysMade
  BY <1>1 DEF Basics, RequestsFit
<1>3. \A p \in Paths : Formed(file[p], keysMade)
  BY DEF Basics, RequestsFit
<1>4. \A p \in Paths : file[p].kind # "key" => file[p].key = 0
  BY <1>3, NoKeys DEF Formed
<1>5. \A p \in Paths : file[p].kind = "key" => file[p].key \in 1 .. MaxKeys
  BY <1>1, <1>3, NoKeys DEF Formed
<1> QED
  BY <1>1, <1>2, <1>4, <1>5 DEF Safe

\* What holds of a thread's request.
LEMMA RequestFacts ==
    ASSUME Basics, NEW t \in Threads
    PROVE  /\ RequestFits(t) /\ req[t] \in Request
           /\ path[t] \in Paths /\ (stage[t] # "none" => path[t] = FileOf(pc[t]))
           /\ pc[t] \in DeleteLabels => Deleting(t)
           /\ pc[t] = "engine" => Deleting(t) /\ req[t].call = "generate"
           /\ pc[t] \in ExistLabels \cup GetLabels => ~Deleting(t) /\ pc[t] # "idle"
           /\ pc[t] \in StoreLabels => /\ req[t].call \in {"generate", "get"}
                                       /\ req[t].call = "generate" <=> Deleting(t)
                                       /\ req[t].buf.key \in 1 .. MaxKeys /\ req[t].buf.kind = "key"
                                       /\ ~req[t].buf.old
           /\ ~Deleting(t) => req[t].old = {}
<1>1. /\ RequestFits(t) /\ req[t] \in Request /\ path[t] \in Paths
      /\ keysMade \in 0 .. MaxKeys /\ MaxKeys \in Nat
  BY StorageAssumption DEF Basics, RequestsFit, TypeOK, LockTypeOK
<1>2. pc[t] \in ExistLabels \cup GetLabels \cup StoreLabels \cup DeleteLabels \cup {"engine"} => pc[t] # "idle"
  BY DEF ExistLabels, GetLabels, CopyLabels, RestoreLabels, StoreLabels, DeleteLabels
<1>3. pc[t] \in StoreLabels => req[t].buf.key \in 1 .. MaxKeys
  BY <1>1, NoKeys DEF RequestFits, Formed
<1>4. ~Deleting(t) => req[t].old = {}
  BY <1>1, NoRequestLocals DEF RequestFits, Deleting
<1> QED
  BY <1>1, <1>2, <1>3, <1>4 DEF RequestFits, Deleting

\* What a write puts into a file: no key, or the one in the buffer.
LEMMA WrittenKeys ==
    ASSUME NEW t \in Threads, pc[t] \in WriteLabels \cup RemoveLabels, NEW c,
           c \in {NoFile, Empty, Junk} \/ (pc[t] \in WriteLabels /\ c = Written(t))
    PROVE  /\ c \in {NoFile, Empty, Junk} \/ c = req[t].buf
           /\ c.key \in {0, req[t].buf.key}
           /\ pc[t] \notin StoreLabels \cup {"restore", "copyWrite"} => c.key = 0
           /\ pc[t] \in StoreLabels \cup {"restore", "copyWrite"} => Written(t) = req[t].buf
BY NoKeys DEF Written, WriteLabels, RemoveLabels, StoreLabels

\* A step of an access under GoneInv.
LEMMA GoneAccess ==
    ASSUME Basics, GoneInv, NEW t \in Threads,
           Enters(t) \/ Opens(t) \/ Reads(t) \/ Writes(t) \/ Removes(t)
    PROVE  (\A p \in Paths : file'[p].key \notin dead') /\ GoneFits(t)'
<1>1. /\ pc[t] \in AccessLabels /\ pc'[t] = pc[t] /\ pc[t] # "idle"
      /\ UNCHANGED <<kept, doomed, dead>> /\ Safe' = Safe
  BY LabelKinds DEF Enters, Opens, Reads, Writes, Removes, Transfers, Unmoved, AccessLabels, Safe
<1>2. /\ Paths = {"main", "bak"} /\ 0 \notin dead /\ file \in [Paths -> Contents]
      /\ RequestFits(t) /\ req[t] \in Request /\ GoneFits(t) /\ \A p \in Paths : file[p].key \notin dead
      /\ path[t] \in Paths /\ (stage[t] # "none" => path[t] = FileOf(pc[t]))
      /\ pc[t] \in StoreLabels => (req[t].call = "generate" <=> Deleting(t))
  BY <1>1, FileFacts, RequestFacts DEF GoneInv
<1>3. CASE Enters(t)
  BY <1>1, <1>2, <1>3 DEF Enters, Unmoved, GoneFits, Deleting, Exists, Done
<1>4. CASE Opens(t)
  <2>1. /\ req'[t].call = req[t].call /\ req'[t].mainExists = req[t].mainExists
        /\ req'[t].buf = req[t].buf /\ req'[t].old = req[t].old /\ req'[t].clash = req[t].clash
    BY <1>2, <1>4, AccessLocals
  <2>2. /\ stage[t] = "created" /\ ~Done(t)' /\ ~Done(t)
        /\ file' = file \/ (pc[t] \in WriteLabels /\ file' = [file EXCEPT ![FileOf(pc[t])] = Empty])
    BY <1>2, <1>4 DEF Opens, Done
  <2>3. CASE file' = file
    BY <1>1, <1>2, <2>1, <2>2, <2>3 DEF GoneFits, Deleting, Exists
  <2>4. CASE pc[t] \in WriteLabels /\ file' = [file EXCEPT ![FileOf(pc[t])] = Empty]
    <3>1. /\ FileOf(pc[t]) = "main" => file'["main"] = Empty /\ file'["bak"] = file["bak"]
          /\ FileOf(pc[t]) = "bak" => file'["bak"] = Empty /\ file'["main"] = file["main"]
      BY <1>2, <2>4
    <3>2. FileOf(pc[t]) \in Paths
      BY FileOfPath
    <3> QED
      BY <1>1, <1>2, <2>1, <2>2, <2>4, <3>1, <3>2, LabelKinds, NoKeys
         DEF GoneFits, Deleting, Exists, WriteLabels, StoreLabels
  <2> QED
    BY <2>2, <2>3, <2>4
<1>5. CASE Reads(t)
  <2>1. /\ req'[t].call = req[t].call /\ req'[t].old = req[t].old /\ req'[t].clash = req[t].clash
        /\ req'[t].buf \in {NoFile, Junk, file[path[t]]}
    BY <1>2, <1>5, AccessLocals
  <2>2. file' = file /\ pc[t] \in {"readMain", "readBak", "copyRead"}
    BY <1>5 DEF Reads, ReadLabels
  <2>3. req'[t].buf.key \notin dead
    BY <1>2, <2>1, NoKeys
  <2> QED
    BY <1>1, <1>2, <2>1, <2>2, <2>3 DEF GoneFits, Deleting, StoreLabels, DeleteLabels
<1>6. CASE Writes(t)
  <2>1. /\ req'[t].call = req[t].call /\ req'[t].mainExists = req[t].mainExists
        /\ req'[t].buf = req[t].buf /\ req'[t].old = req[t].old /\ req'[t].clash = req[t].clash
    BY <1>2, <1>6, AccessLocals
  <2>2. /\ \/ ~req'[t].failed /\ file' = [file EXCEPT ![FileOf(pc[t])] = Written(t)]
           \/ /\ req'[t].failed
              /\ \E torn \in {Empty, Junk} : file' = [file EXCEPT ![FileOf(pc[t])] = torn]
           \/ req'[t].failed /\ file' = file
        /\ pc[t] \in WriteLabels
    BY <1>2, <1>6, AccessLocals DEF Writes, Transfers
  <2>3. CASE file' = file /\ req'[t].failed
    BY <1>1, <1>2, <2>1, <2>2, <2>3
       DEF GoneFits, Deleting, Exists, Done, WriteLabels, StoreLabels
  <2>4. ASSUME NEW c, file' = [file EXCEPT ![FileOf(pc[t])] = c],
               c \in {Empty, Junk} \/ c = Written(t), ~req'[t].failed => c = Written(t)
        PROVE  (\A p \in Paths : file'[p].key \notin dead') /\ GoneFits(t)'
    <3>1. /\ FileOf(pc[t]) = "main" => file'["main"] = c /\ file'["bak"] = file["bak"]
          /\ FileOf(pc[t]) = "bak" => file'["bak"] = c /\ file'["main"] = file["main"]
          /\ FileOf(pc[t]) \in Paths
      BY <1>2, <2>4, FileOfPath
    <3>2. /\ c.key \in {0, req[t].buf.key}
          /\ pc[t] \in StoreLabels /\ ~req'[t].failed => c = req[t].buf
      BY <2>2, <2>4, WrittenKeys
    <3>3. req[t].buf.key \notin dead
      BY <1>2 DEF GoneFits
    <3>4. \A p \in Paths : file'[p].key \notin dead'
      BY <1>1, <1>2, <3>1, <3>2, <3>3
    <3> QED
      BY <1>1, <1>2, <2>1, <2>2, <3>1, <3>2, <3>4, LabelKinds
         DEF GoneFits, Deleting, Exists, Done, WriteLabels, StoreLabels
  <2> QED
    BY <2>2, <2>3, <2>4
<1>7. CASE Removes(t)
  <2>1. /\ req'[t] = req[t] /\ pc[t] \in {"removeBak", "removeMain"}
        /\ \/ req[t].failed /\ file' = file
           \/ ~req[t].failed /\ file' = [file EXCEPT ![FileOf(pc[t])] = NoFile]
    BY <1>2, <1>7 DEF Removes, Transfers, RemoveLabels
  <2>2. CASE file' = file /\ req[t].failed
    BY <1>1, <1>2, <2>1, <2>2 DEF GoneFits, Deleting, Exists, Done, StoreLabels
  <2>3. CASE ~req[t].failed /\ file' = [file EXCEPT ![FileOf(pc[t])] = NoFile]
    <3>1. /\ pc[t] = "removeMain" => file'["main"] = NoFile /\ file'["bak"] = file["bak"]
          /\ pc[t] = "removeBak" => file'["bak"] = NoFile /\ file'["main"] = file["main"]
      BY <1>2, <2>3, LabelKinds
    <3> QED
      BY <1>1, <1>2, <2>1, <2>3, <3>1, NoKeys DEF GoneFits, Deleting, Exists, Done, StoreLabels
  <2> QED
    BY <2>1, <2>2, <2>3
<1> QED
  BY <1>3, <1>4, <1>5, <1>6, <1>7

\* A step between two accesses of a deletion or a generation.
LEMMA GoneDeletes ==
    ASSUME Basics, GoneInv, NEW t \in Threads, Between(t), stage'[t] = "none", Unmoved,
           pc[t] \in DeleteLabels, pc'[t] # "idle"
    PROVE  GoneFits(t)'
<1> USE DEF Moves
<1>1. /\ pc[t] # "idle" /\ RequestFits(t) /\ req[t] \in Request /\ GoneFits(t)
      /\ req[t].call \in {"generate", "delete"} /\ Safe' = Safe /\ file' = file
      /\ dead' = dead /\ kept' = kept
  BY DEF Basics, RequestsFit, TypeOK, DeleteLabels, RequestFits, GoneInv, Unmoved, Safe
<1>2. Safe = {} /\ req[t].old = kept \ dead /\ ~req[t].clash /\ req[t].buf.key \notin dead
  BY <1>1 DEF GoneFits, Deleting
<1>3. /\ Walks(t) \/ Looks(t) \/ Cleans(t)
      /\ pc'[t] \in DeleteLabels \cup {"engine"}
  BY DEF Between, Walks, Sizes, Looks, Cleans, Upgrades, Makes, Answers, Forgets, Stores, DeleteLabels,
         AfterBak
<1>4. /\ req'[t].call = req[t].call /\ req'[t].buf = req[t].buf
      /\ req'[t].old = req[t].old /\ req'[t].clash = req[t].clash
  BY <1>1, <1>3, StepLocals DEF Walks
<1>5. pc'[t] \in {"delBak", "sizeBak", "cleanBak", "removeBak"} => req'[t].mainExists = Exists("main")
  <2>1. CASE Looks(t)
    BY <1>1, <2>1, StepLocals
  <2>2. CASE Walks(t) \/ Cleans(t)
    <3>1. req'[t].mainExists = req[t].mainExists
      BY <1>1, <2>2, StepLocals DEF Walks
    <3>2. pc'[t] \in {"delBak", "sizeBak", "cleanBak", "removeBak"} =>
             pc[t] \in {"delBak", "sizeBak", "cleanBak", "removeBak"}
      BY <2>2 DEF Walks, Cleans, DeleteLabels, AfterBak
    <3> QED
      BY <1>1, <3>1, <3>2 DEF GoneFits
  <2> QED
    BY <1>3, <2>1, <2>2
<1>6. pc'[t] \in {"sizeMain", "cleanMain", "removeMain", "deleted", "engine"} => ~Exists("bak")
  <2>1. pc'[t] \in {"sizeMain", "cleanMain", "removeMain", "deleted", "engine"} =>
           \/ ~Exists("bak")
           \/ pc[t] \in {"sizeMain", "cleanMain", "removeMain", "deleted", "engine"}
           \/ pc[t] = "removeBak" /\ Done(t)
    BY <1>3 DEF Walks, Looks, Cleans, DeleteLabels
  <2> QED
    BY <1>1, <2>1 DEF GoneFits
<1>7. pc'[t] \in {"deleted", "engine"} => ~Exists("main")
  <2>1. pc'[t] \in {"deleted", "engine"} =>
           \/ pc[t] = "deleted" \/ (pc[t] = "removeMain" /\ Done(t))
           \/ pc[t] \in {"delBak", "removeBak"} /\ ~req[t].mainExists
    BY <1>3 DEF Walks, Looks, Cleans, DeleteLabels, AfterBak
  <2> QED
    BY <1>1, <2>1 DEF GoneFits
<1>8. Exists("main")' = Exists("main") /\ Exists("bak")' = Exists("bak") /\ ~Done(t)'
  BY <1>1 DEF Exists, Done
<1> QED
  BY <1>1, <1>2, <1>3, <1>4, <1>5, <1>6, <1>7, <1>8
     DEF GoneFits, Deleting, DeleteLabels, StoreLabels

\* A step between two accesses.
LEMMA GoneBetween ==
    ASSUME Basics, GoneInv, NEW t \in Threads, pc[t] # "idle", Between(t), stage'[t] = "none"
    PROVE  /\ \A p \in Paths : file'[p].key \notin dead'
           /\ doomed' \subseteq kept'
           /\ pc'[t] # "idle" => GoneFits(t)'
           /\ ~Deleting(t) => dead' = dead
<1> USE DEF Moves
<1>1. /\ RequestFits(t) /\ req[t] \in Request /\ GoneFits(t)
      /\ doomed \subseteq kept /\ \A p \in Paths : file[p].key \notin dead
  BY RequestFacts DEF GoneInv
<1>2. /\ Paths = {"main", "bak"} /\ 0 \notin kept /\ 0 \notin dead /\ dead \subseteq kept
      /\ keysMade \in Nat /\ kept \subseteq 1 .. keysMade
      /\ \A p \in Paths : file[p].kind # "key" => file[p].key = 0
  BY FileFacts
<1>3. CASE Unmoved
  <2>1. /\ \A p \in Paths : file'[p].key \notin dead'
        /\ doomed' \subseteq kept' /\ dead' = dead
    BY <1>1, <1>3 DEF Unmoved
  <2>2. ASSUME pc'[t] # "idle" PROVE GoneFits(t)'
    <3>1. CASE pc[t] \in DeleteLabels
      BY <1>3, <2>2, <3>1, GoneDeletes
    <3>2. CASE pc[t] \in ExistLabels \cup GetLabels
      <4>1. /\ Walks(t) \/ Sizes(t) \/ Upgrades(t)
            /\ pc'[t] \in ExistLabels \cup GetLabels \cup {"storeMain"}
        BY <1>3, <2>2, <3>2
           DEF Between, Walks, Sizes, Looks, Cleans, Upgrades, Makes, Answers, Forgets, Stores, ExistLabels,
               GetLabels, CopyLabels, RestoreLabels
      <4>2. req'[t].call = req[t].call /\ req'[t].buf.key = req[t].buf.key
        BY <1>1, <4>1, StepLocals DEF Walks
      <4>3. req[t].call \notin {"generate", "delete"} /\ req[t].buf.key \notin dead
        BY <1>1, <3>2 DEF RequestFits, GoneFits
      <4> QED
        BY <2>1, <4>1, <4>2, <4>3
           DEF GoneFits, Deleting, ExistLabels, GetLabels, CopyLabels, RestoreLabels, StoreLabels, DeleteLabels
    <3>3. CASE pc[t] \notin DeleteLabels \cup ExistLabels \cup GetLabels
      <4>1. Walks(t) /\ pc[t] = "storeMain" /\ pc'[t] = "storeBak" /\ Done(t) /\ req'[t] = req[t]
        BY <1>1, <1>2, <1>3, <2>2, <3>3
           DEF Between, Walks, Sizes, Looks, Cleans, Upgrades, Makes, Answers, Forgets, Stores, Unmoved,
               DeleteLabels, ExistLabels, GetLabels, CopyLabels, RestoreLabels
      <4>2. /\ file' = file /\ Safe' = Safe /\ dead' = dead /\ kept' = kept
        BY <1>3 DEF Unmoved, Safe
      <4> QED
        BY <1>1, <4>1, <4>2 DEF GoneFits, Deleting, StoreLabels, DeleteLabels, Exists
    <3> QED
      BY <3>1, <3>2, <3>3
  <2> QED
    BY <2>1, <2>2
<1>4. CASE Makes(t)
  <2>1. /\ pc[t] = "engine" /\ pc'[t] = "storeMain"
        /\ file' = file /\ Safe' = Safe /\ dead' = dead /\ kept' = kept /\ doomed' = doomed
    BY <1>4 DEF Makes, Safe
  <2>2. /\ req'[t].call = "generate" /\ req'[t].buf = KeyBlob(keysMade + 1, FALSE)
        /\ req'[t].old = req[t].old /\ req'[t].clash = req[t].clash
        /\ req[t].call = "generate"
    BY <1>1, <1>4, <2>1, StepLocals DEF RequestFits
  <2>3. req'[t].buf.key = keysMade + 1
    BY <2>2 DEF KeyBlob
  <2>4. keysMade + 1 \notin kept /\ keysMade + 1 \notin dead
    BY <1>1, <1>2
  <2>5. /\ Safe = {} /\ ~Exists("main") /\ ~Exists("bak")
        /\ req[t].old = kept \ dead /\ ~req[t].clash
    BY <1>1, <2>1, <2>2 DEF GoneFits, Deleting
  <2>6. file["main"].key = 0 /\ file["bak"].key = 0
    BY <1>2, <2>5 DEF Exists
  <2>7. ~Done(t)'
    BY DEF Done
  <2>8. GoneFits(t)'
    BY <1>2, <2>1, <2>2, <2>3, <2>4, <2>5, <2>6, <2>7 DEF GoneFits, Deleting, StoreLabels, DeleteLabels
  <2> QED
    BY <1>1, <2>1, <2>8
<1>5. CASE Forgets(t)
  <2>1. /\ pc[t] = "deleted" /\ pc'[t] = "idle" /\ file' = file /\ kept' = kept /\ doomed' = doomed
        /\ dead' \subseteq dead \cup req[t].old
    BY <1>5 DEF Forgets
  <2>2. req[t].call \in {"generate", "delete"} /\ req[t].old \subseteq kept /\ Deleting(t)
    BY <1>1, <2>1 DEF RequestFits, DeleteLabels, Deleting
  <2>3. ~Exists("main") /\ ~Exists("bak")
    BY <1>1, <2>1 DEF GoneFits
  <2>4. \A p \in Paths : file[p].key = 0
    BY <1>2, <2>3 DEF Exists
  <2> QED
    BY <1>1, <1>2, <2>1, <2>2, <2>4
<1>6. CASE Stores(t)
  <2>1. pc[t] = "storeBak" /\ pc'[t] = "idle" /\ file' = file /\ dead' = dead \cup req[t].old
    BY <1>6 DEF Stores
  <2>2. /\ req[t].call \in {"generate", "get"}
        /\ req[t].call = "generate" <=> Deleting(t)
    BY <2>1, RequestFacts DEF StoreLabels
  <2>3. CASE req[t].call = "get"
    <3>1. kept' = kept /\ doomed' = doomed /\ dead' = dead
      BY <1>1, <1>6, <2>1, <2>3 DEF Stores, RequestFits
    <3> QED
      BY <1>1, <2>1, <3>1
  <2>4. CASE req[t].call = "generate"
    <3>1. /\ req[t].buf.key \notin kept
          /\ \A p \in Paths : file[p].key \in {0, req[t].buf.key}
      BY <1>1, <2>1, <2>4 DEF GoneFits, StoreLabels
    <3>2. req[t].old \subseteq kept
      BY <1>1, <2>4 DEF RequestFits
    <3>3. kept' = kept \cup {req[t].buf.key} /\ doomed' \subseteq doomed \cup {req[t].buf.key}
      BY <1>6, <2>4 DEF Stores
    <3>4. \A p \in Paths : file[p].key \notin dead'
      BY <1>2, <2>1, <3>1, <3>2
    <3> QED
      BY <1>1, <2>1, <2>2, <2>4, <3>3, <3>4
  <2> QED
    BY <2>2, <2>3, <2>4
<1> QED
  BY <1>3, <1>4, <1>5, <1>6 DEF Between, Walks, Sizes, Looks, Cleans, Upgrades, Answers

\* A thread that is neither deleting nor stepping.
LEMMA GoneOthers ==
    ASSUME Basics, NEW u \in Threads, GoneFits(u), Alike(u), ~Deleting(u), dead' = dead
    PROVE  GoneFits(u)'
<1>1. /\ pc[u] \notin DeleteLabels /\ pc[u] # "engine"
      /\ pc[u] \in StoreLabels => req[u].call # "generate"
  BY RequestFacts
<1>2. /\ pc'[u] = pc[u] /\ req'[u].call = req[u].call /\ req'[u].buf = req[u].buf
  BY DEF Alike
<1>3. ~Deleting(u)'
  BY <1>2 DEF Deleting
<1>4. req[u].buf.key \notin dead
  BY DEF GoneFits
<1> QED
  BY <1>1, <1>2, <1>3, <1>4 DEF GoneFits, DeleteLabels

\* Every step while deletions are alone.
LEMMA NextGone ==
    ASSUME Basics, GoneInv, DeletionsAlone, DeletionsAlone', StorageStep
    PROVE  GoneInv'
<1>1. /\ Paths = {"main", "bak"} /\ 0 \notin dead /\ doomed \subseteq kept
      /\ \A p \in Paths : file[p].key \notin dead
  BY FileFacts DEF GoneInv
<1>2. CASE Crashes
  <2>1. \A p \in Paths : file'[p].key = file[p].key
    BY <1>2, NoKeys DEF Crashes
  <2>2. dead' = dead /\ kept' = kept /\ doomed' = doomed /\ \A t \in Threads : pc'[t] = "idle"
    BY <1>2 DEF Crashes
  <2> QED
    BY <1>1, <2>1, <2>2 DEF GoneInv
<1>3. CASE UNCHANGED <<file, pc, req, keysMade, kept, doomed, dead, stage, path>>
  BY <1>3 DEF GoneInv, GoneFits, Safe, Deleting, Exists, Done
<1>4. ASSUME NEW t \in Threads, CallStep(t), \A u \in Threads \ {t} : Alike(u)
      PROVE  GoneInv'
  <2>1. pc[t] = "idle" /\ pc'[t] # "idle" /\ file' = file /\ dead' = dead /\ kept' = kept
    BY <1>4 DEF CallStep, Reading, Removing, Unmoved
  <2>2. req[t] = NoRequest
    BY <2>1 DEF Basics, RequestsFit, RequestFits
  <2>3. ASSUME NEW u \in Threads \ {t}, pc'[u] # "idle" PROVE GoneFits(u)'
    <3>1. ~Deleting(u)' /\ Alike(u)
      BY <1>4, <2>1, <2>3 DEF DeletionsAlone
    <3>2. pc[u] # "idle" /\ ~Deleting(u)
      BY <2>3, <3>1 DEF Alike, Deleting
    <3> QED
      BY <2>1, <3>1, <3>2, GoneOthers DEF GoneInv
  <2>4. CASE Reading(t)
    <3>1. /\ pc'[t] \in {"existMain", "getMain"} /\ req'[t].buf = NoFile /\ ~Deleting(t)'
          /\ doomed' = doomed
      BY <2>2, <2>4 DEF Reading, NoRequest, Deleting, Unmoved
    <3>2. GoneFits(t)'
      BY <1>1, <2>1, <3>1, NoKeys DEF GoneFits, StoreLabels
    <3> QED
      BY <1>1, <2>1, <2>3, <3>1, <3>2 DEF GoneInv
  <2>5. CASE Removing(t)
    <3>1. pc'[t] = "delMain" /\ Safe' = {} /\ doomed' = kept
      BY <2>5 DEF Removing, Safe
    <3>2. PICK call \in {"generate", "delete"} :
             req'[t] = [NoRequest EXCEPT !.call = call, !.old = kept \ dead,
                                         !.clash = {u \in Threads : Deleting(u)} # {}]
      BY <2>5 DEF Removing
    <3>3. req'[t].buf = NoFile /\ req'[t].old = kept \ dead /\ req'[t].call = call
      BY <3>2 DEF NoRequest
    <3>4. {u \in Threads : Deleting(u)} = {}
      <4>1. ASSUME NEW u \in Threads, Deleting(u) PROVE FALSE
        <5>1. u # t /\ Alike(u)
          BY <1>4, <2>1, <4>1 DEF Deleting
        <5>2. Deleting(u)'
          BY <4>1, <5>1 DEF Deleting, Alike
        <5> QED
          BY <2>1, <5>1, <5>2 DEF DeletionsAlone
      <4> QED
        BY <4>1
    <3>5. ~req'[t].clash
      BY <3>2, <3>4 DEF NoRequest
    <3>6. GoneFits(t)'
      BY <1>1, <2>1, <3>1, <3>3, <3>5, NoKeys DEF GoneFits, StoreLabels
    <3> QED
      BY <1>1, <2>1, <2>3, <3>1, <3>6 DEF GoneInv
  <2> QED
    BY <1>4, <2>4, <2>5 DEF CallStep
<1>5. ASSUME NEW t \in Threads, WorkStep(t), \A u \in Threads \ {t} : Alike(u)
      PROVE  GoneInv'
  <2>1. pc[t] # "idle"
    BY <1>5, LabelKinds
       DEF WorkStep, Enters, Opens, Reads, Writes, Removes, ReadLabels, WriteLabels, RemoveLabels, Between,
           Walks, Sizes, Looks, Cleans, Upgrades, Makes, Answers, Forgets, Stores, Moves
  <2>2. /\ \A p \in Paths : file'[p].key \notin dead'
        /\ doomed' \subseteq kept'
        /\ pc'[t] # "idle" => GoneFits(t)'
        /\ ~Deleting(t) => dead' = dead
    <3>1. CASE Between(t) /\ stage'[t] = "none"
      BY <2>1, <3>1, GoneBetween
    <3>2. CASE Enters(t) \/ Opens(t) \/ Reads(t) \/ Writes(t) \/ Removes(t)
      <4>1. UNCHANGED <<kept, doomed, dead>>
        BY <3>2 DEF Enters, Opens, Reads, Writes, Removes, Transfers, Unmoved
      <4> QED
        BY <1>1, <3>2, <4>1, GoneAccess
    <3> QED
      BY <1>5, <3>1, <3>2 DEF WorkStep
  <2>3. ASSUME NEW u \in Threads \ {t}, pc'[u] # "idle" PROVE GoneFits(u)'
    <3>1. pc[u] # "idle" /\ Alike(u)
      BY <1>5, <2>3 DEF Alike
    <3>2. ~Deleting(u) /\ ~Deleting(t)
      BY <2>1, <2>3, <3>1 DEF DeletionsAlone
    <3> QED
      BY <2>2, <3>1, <3>2, GoneOthers DEF GoneInv
  <2> QED
    BY <2>2, <2>3 DEF GoneInv
<1> QED
  BY <1>2, <1>3, <1>4, <1>5 DEF StorageStep

\* The alias is new, or its key is in both files.
LEMMA InitGone == Init => GoneInv
<1> SUFFICES ASSUME Init PROVE GoneInv
  OBVIOUS
<1>1. dead = {} /\ doomed = {} /\ \A t \in Threads : pc[t] = "idle"
  BY DEF Init
<1> QED
  BY <1>1 DEF GoneInv

\* The invariant of deletions alone.
LEMMA SpecGone == Spec /\ []DeletionsAlone => []GoneInv
<1>1. Basics /\ GoneInv /\ DeletionsAlone /\ DeletionsAlone' /\ [Next]_vars => GoneInv'
  BY StorageSteps, NextGone DEF Basics
<1> QED
  BY <1>1, InitGone, SpecBasics, PTL DEF Spec

(* Where deletions and generations do not overlap with other requests for  *)
(* the alias, a key whose deletion or replacement was answered with        *)
(* success stays out of both files; whatever the others copy, restore and  *)
(* upgrade at the same time, whatever file operations fail and wherever    *)
(* the service dies.                                                       *)
THEOREM DeletedAlone == Spec /\ []DeletionsAlone => []DeletedStaysDeleted
<1>1. GoneInv => DeletedStaysDeleted
  BY DEF GoneInv, DeletedStaysDeleted
<1> QED
  BY <1>1, SpecGone, PTL
-----------------------------------------------------------------------------
(* Changes alone: of the two copies of a key one is written over only while*)
(* the other holds the key, and what readers write at the same time is a   *)
(* copy of the backup.                                                     *)

\* The part of the invariant that is about the files.
FilesShared ==
    /\ \A p, q \in Paths : file[p].key # 0 /\ file[q].key # 0 => file[p].key = file[q].key
    /\ \A k \in Safe : \E p \in Paths : file[p].key = k
    /\ file["main"].old /\ file["main"].key \in Safe => file["bak"].key = file["main"].key

\* What follows for a key that is promised.
LEMMA SharedFacts ==
    ASSUME Basics, SharedInv
    PROVE  /\ FilesShared
           /\ \A k \in Safe, p \in Paths : file[p].key \in {0, k}
           /\ Spare => \A k \in Safe : file["bak"].key = k
           /\ file["main"].key = 0 => Spare
<1>1. FilesShared /\ Paths = {"main", "bak"} /\ 0 \notin Safe
  BY FileFacts DEF SharedInv, FilesShared
<1>2. \A k \in Safe, p \in Paths : file[p].key \in {0, k}
  BY <1>1 DEF FilesShared
<1> QED
  BY <1>1, <1>2 DEF FilesShared, Spare

\* The files as other readers see them: the backup stays, and the main file
\* does, or has nothing more before and after.
Steady == file'["bak"] = file["bak"] /\ (file' = file \/ (Spare /\ Spare'))

\* The same keys are in the files before and after.
LEMMA SteadyKeys ==
    ASSUME Basics, Steady
    PROVE  \A k : k # 0 => ((\E p \in Paths : file'[p].key = k) <=> (\E p \in Paths : file[p].key = k))
<1>1. Paths = {"main", "bak"}
  BY FileFacts
<1> QED
  BY <1>1 DEF Steady, Spare

\* A thread that does not step.
LEMMA ReadersShare ==
    ASSUME Basics, NEW u \in Threads, ReadingFits(u), Alike(u), Steady
    PROVE  ReadingFits(u)'
<1>1. /\ pc'[u] = pc[u] /\ stage'[u] = stage[u] /\ req'[u].buf = req[u].buf
      /\ req'[u].sized = req[u].sized /\ req'[u].failed = req[u].failed
      /\ file'["bak"] = file["bak"] /\ (Spare => Spare') /\ (Spare \/ file' = file)
  BY DEF Alike, Steady, Spare
<1>2. req'[u].buf.key = 0 \/ \E p \in Paths : file'[p].key = req'[u].buf.key
  BY <1>1, SteadyKeys DEF ReadingFits
<1> QED
  BY <1>1, <1>2 DEF ReadingFits, Done

\* A step of an access by a request that asks for a key or reads it.
LEMMA ReadingAccess ==
    ASSUME Basics, SharedInv, NEW t \in Threads, pc[t] \in ExistLabels \cup GetLabels,
           Enters(t) \/ Opens(t) \/ Reads(t) \/ Writes(t) \/ Removes(t)
    PROVE  FilesShared' /\ Steady /\ ReadingFits(t)' /\ pc'[t] = pc[t]
<1>1. /\ pc[t] \in AccessLabels /\ pc'[t] = pc[t] /\ pc[t] # "idle" /\ UNCHANGED <<kept, doomed, dead>>
      /\ pc[t] \in {"readMain", "readBak", "copyRead", "restore", "copyWrite"}
  BY LabelKinds DEF Enters, Opens, Reads, Writes, Removes, Transfers, Unmoved, ExistLabels,
                    GetLabels, CopyLabels, RestoreLabels, ReadLabels, WriteLabels, RemoveLabels
<1>2. /\ FilesShared /\ Paths = {"main", "bak"} /\ 0 \notin Safe
      /\ ReadingFits(t) /\ file \in [Paths -> Contents] /\ req[t] \in Request
      /\ Safe' = Safe /\ (stage[t] # "none" => path[t] = FileOf(pc[t]))
      /\ Spare => \A k \in Safe : file["bak"].key = k
  BY <1>1, FileFacts, SharedFacts, RequestFacts DEF SharedInv, Safe
<1>3. CASE Enters(t)
  BY <1>1, <1>2, <1>3 DEF Enters, Unmoved, FilesShared, ReadingFits, Steady, Spare, Done
\* Files stay, and local variables but failed.
<1>4. ASSUME file' = file, req'[t].buf = req[t].buf, req'[t].sized = req[t].sized,
             pc[t] \in {"readMain", "readBak"} => stage[t] = "created" /\ stage'[t] # "unlocked"
      PROVE  FilesShared' /\ Steady /\ ReadingFits(t)'
  BY <1>1, <1>2, <1>4 DEF FilesShared, ReadingFits, Steady, Spare
\* The main file is written by a restore or a copy.
<1>5. ASSUME NEW c, c \in {Empty, Junk} \/ c = Written(t), pc[t] \in WriteLabels,
             file' = [file EXCEPT ![FileOf(pc[t])] = c],
             req'[t].buf = req[t].buf, req'[t].sized = req[t].sized
      PROVE  FilesShared' /\ Steady /\ ReadingFits(t)'
  <2>1. /\ pc[t] \in {"restore", "copyWrite"} /\ FileOf(pc[t]) = "main"
        /\ file'["main"] = c /\ file'["bak"] = file["bak"]
    BY <1>1, <1>2, <1>5, LabelKinds DEF WriteLabels
  <2>2. Spare /\ req[t].buf.key \in {0, file["bak"].key}
    BY <1>2, <2>1 DEF ReadingFits, CopyLabels, RestoreLabels
  <2>3. c.key \in {0, file["bak"].key}
    BY <1>5, <2>2, WrittenKeys
  <2>4. Spare' /\ Steady
    BY <2>1, <2>2, <2>3 DEF Spare, Steady
  <2>5. FilesShared'
    BY <1>2, <2>1, <2>2, <2>3 DEF FilesShared
  <2>6. req'[t].buf.key = 0 \/ \E p \in Paths : file'[p].key = req'[t].buf.key
    BY <1>2, <1>5, <2>1, <2>2
  <2> QED
    BY <1>1, <1>2, <1>5, <2>1, <2>2, <2>4, <2>5, <2>6 DEF ReadingFits, CopyLabels, RestoreLabels
<1>6. CASE Opens(t)
  <2>1. req'[t].buf = req[t].buf /\ req'[t].sized = req[t].sized
    BY <1>2, <1>6, AccessLocals
  <2>2. /\ stage[t] = "created" /\ stage'[t] # "unlocked"
        /\ file' = file \/ (pc[t] \in WriteLabels /\ file' = [file EXCEPT ![FileOf(pc[t])] = Empty])
    BY <1>2, <1>6 DEF Opens
  <2> QED
    BY <1>1, <1>4, <1>5, <2>1, <2>2
<1>7. CASE Reads(t)
  <2>1. /\ req'[t].buf \in {NoFile, Junk, file[path[t]]} /\ req'[t].failed = req[t].failed
        /\ req'[t].buf = Junk => file[path[t]] = Junk \/ file[path[t]] # req[t].sized
        /\ IF req[t].failed THEN req'[t].buf = NoFile ELSE req'[t].buf \in {Junk, file[path[t]]}
    BY <1>2, <1>7, AccessLocals
  <2>2. /\ file' = file /\ pc[t] \in {"readMain", "readBak", "copyRead"}
        /\ stage[t] # "unlocked" /\ stage[t] # "none" /\ stage'[t] = "unlocked"
    BY <1>7 DEF Reads, Transfers, ReadLabels
  <2>3. req'[t].buf.key \in {0, file[path[t]].key} /\ path[t] = FileOf(pc[t]) /\ path[t] \in Paths
    BY <1>2, <2>1, <2>2, NoKeys, FileOfPath
  <2>4. Steady /\ (Spare' <=> Spare) /\ FilesShared'
    BY <1>1, <1>2, <2>2 DEF Steady, FilesShared, Spare
  <2>5. CASE pc[t] = "readMain"
    <3>1. path[t] = "main" /\ (Spare \/ req[t].sized = file["main"])
      BY <1>2, <2>2, <2>3, <2>5, LabelKinds DEF ReadingFits
    <3>2. Spare \/ req'[t].buf \in {NoFile, file["main"]}
      BY <2>1, <3>1
    <3> QED
      BY <1>1, <2>2, <2>3, <2>4, <2>5, <3>2 DEF ReadingFits, CopyLabels, RestoreLabels
  <2>6. CASE pc[t] = "readBak"
    <3>1. path[t] = "bak" /\ Spare /\ req[t].sized = file["bak"]
      BY <1>2, <2>2, <2>3, <2>6, LabelKinds DEF ReadingFits, RestoreLabels
    <3>2. req'[t].buf = IF req'[t].failed THEN NoFile ELSE file["bak"]
      BY <2>1, <3>1
    <3> QED
      BY <1>1, <2>2, <2>3, <2>4, <2>6, <3>1, <3>2 DEF ReadingFits
  <2>7. CASE pc[t] = "copyRead"
    <3>1. path[t] = "bak" /\ Spare
      BY <1>2, <2>3, <2>7, LabelKinds DEF ReadingFits, CopyLabels
    <3> QED
      BY <1>1, <2>2, <2>3, <2>4, <2>7, <3>1 DEF ReadingFits
  <2> QED
    BY <1>1, <2>2, <2>4, <2>5, <2>6, <2>7
<1>8. CASE Writes(t)
  <2>1. req'[t].buf = req[t].buf /\ req'[t].sized = req[t].sized
    BY <1>2, <1>8, AccessLocals
  <2>2. /\ \/ ~req'[t].failed /\ file' = [file EXCEPT ![FileOf(pc[t])] = Written(t)]
           \/ \E torn \in {Empty, Junk} : file' = [file EXCEPT ![FileOf(pc[t])] = torn]
           \/ file' = file
        /\ pc[t] \in WriteLabels /\ pc[t] \notin {"readMain", "readBak"}
    BY <1>2, <1>8, AccessLocals DEF Writes, Transfers, WriteLabels
  <2> QED
    BY <1>1, <1>4, <1>5, <2>1, <2>2
<1>9. CASE Removes(t)
  BY <1>1, <1>9 DEF Removes, RemoveLabels
<1> QED
  BY <1>1, <1>3, <1>6, <1>7, <1>8, <1>9
\* A step between two accesses of such a request: it goes on reading, or
\* begins to upgrade the key it has read.
LEMMA ReadingBetween ==
    ASSUME Basics, SharedInv, NEW t \in Threads, Between(t), stage'[t] = "none",
           pc[t] \in ExistLabels \cup GetLabels
    PROVE  /\ FilesShared' /\ Steady
           /\ pc'[t] \in ExistLabels \cup GetLabels => ReadingFits(t)'
           /\ Upgrading(t)' => UpgradeFits(t)'
<1> USE DEF Moves
<1>1. /\ FilesShared /\ Paths = {"main", "bak"} /\ 0 \notin Safe
      /\ RequestFits(t) /\ ReadingFits(t) /\ req[t] \in Request
      /\ \A p \in Paths : file[p].kind # "key" => file[p].key = 0
      /\ \A k \in Safe, p \in Paths : file[p].key \in {0, k}
      /\ Spare => \A k \in Safe : file["bak"].key = k
      /\ file["main"].key = 0 => Spare
  BY FileFacts, SharedFacts, RequestFacts DEF SharedInv
<1>2. Unmoved
  BY DEF Between, Walks, Sizes, Looks, Cleans, Upgrades, Makes, Answers, Forgets, Stores, ExistLabels,
         GetLabels, CopyLabels, RestoreLabels
<1>3. file' = file /\ Safe' = Safe /\ FilesShared' /\ Steady /\ (Spare' <=> Spare)
  BY <1>1, <1>2 DEF Unmoved, Safe, FilesShared, Steady, Spare
<1>4. pc'[t] = "idle" \/ Walks(t) \/ Sizes(t) \/ Upgrades(t)
  BY DEF Between, Walks, Sizes, Looks, Cleans, Upgrades, Makes, Answers, Forgets, Stores, ExistLabels,
         GetLabels, CopyLabels, RestoreLabels
<1>5. CASE pc'[t] = "idle"
  BY <1>3, <1>5 DEF ExistLabels, GetLabels, CopyLabels, RestoreLabels, Upgrading, StoreLabels
<1>6. CASE Walks(t)
  <2>1. req'[t] = req[t] /\ (req[t].buf.key = 0 \/ \E p \in Paths : file'[p].key = req[t].buf.key)
    BY <1>1, <1>3, <1>6 DEF Walks, ReadingFits
  <2>2. pc'[t] \in {"existBak", "getBak"} => Spare /\ req[t].buf.key = 0
    <3>1. CASE pc[t] \in {"existMain", "getMain"}
      <4>1. pc'[t] \in {"existBak", "getBak"} => ~HasSize("main")
        BY <1>6, <3>1 DEF Walks, HasSize, Exists
      <4>2. ~HasSize("main") => Spare
        BY <1>1 DEF HasSize
      <4> QED
        BY <1>1, <3>1, <4>1, <4>2, NoKeys DEF ReadingFits
    <3>2. CASE pc[t] = "readMain" /\ pc'[t] = "getBak"
      <4>1. req[t].buf.kind \in {"empty", "junk"}
        BY <1>6, <3>2 DEF Walks
      <4>2. req[t].buf.key = 0
        BY <1>1, <4>1, NoKeys DEF RequestFits, Formed
      <4>3. Spare \/ req[t].buf = file["main"]
        BY <1>1, <3>2, <4>1, NoKeys DEF ReadingFits
      <4> QED
        BY <1>1, <4>2, <4>3
    <3> QED
      BY <1>6, <3>1, <3>2 DEF Walks, ExistLabels, GetLabels, CopyLabels, RestoreLabels
  <2>3. \/ pc'[t] \in {"existBak", "getBak"}
        \/ pc'[t] = "copySize" /\ pc[t] = "existBak"
        \/ pc'[t] = "copyWrite" /\ pc[t] = "copyRead"
        \/ pc'[t] = "readMain" /\ pc[t] = "checkMain"
        \/ pc'[t] = "readBak" /\ pc[t] = "checkBak"
        \/ pc'[t] = "restore" /\ pc[t] = "readBak" /\ req[t].buf # NoFile /\ stage[t] = "unlocked"
    BY <1>6 DEF Walks, ExistLabels, GetLabels, CopyLabels, RestoreLabels
  <2>4. ReadingFits(t)'
    <3>1. CASE pc'[t] \in {"existBak", "getBak"}
      BY <1>3, <2>1, <2>2, <3>1 DEF ReadingFits
    <3>2. CASE pc'[t] \in {"copySize", "copyWrite"} /\ pc[t] \in {"existBak", "copyRead"}
      BY <1>1, <1>3, <2>1, <3>2 DEF ReadingFits, CopyLabels, RestoreLabels
    <3>3. CASE pc'[t] = "readMain" /\ pc[t] = "checkMain"
      BY <1>1, <1>3, <2>1, <3>3 DEF ReadingFits, CopyLabels, RestoreLabels
    <3>4. CASE pc'[t] = "readBak" /\ pc[t] = "checkBak"
      BY <1>1, <1>3, <2>1, <3>4 DEF ReadingFits, CopyLabels, RestoreLabels
    <3>5. CASE pc'[t] = "restore" /\ pc[t] = "readBak" /\ req[t].buf # NoFile /\ stage[t] = "unlocked"
      BY <1>1, <1>3, <2>1, <3>5 DEF ReadingFits, CopyLabels, RestoreLabels
    <3> QED
      BY <2>3, <3>1, <3>2, <3>3, <3>4, <3>5
  <2>5. ~Upgrading(t)'
    BY <2>3 DEF Upgrading, StoreLabels
  <2> QED
    BY <1>3, <2>4, <2>5
<1>7. CASE Sizes(t)
  <2>1. /\ req'[t].buf = req[t].buf
        /\ req'[t].buf.key = 0 \/ \E p \in Paths : file'[p].key = req'[t].buf.key
    BY <1>1, <1>3, <1>7, StepLocals DEF ReadingFits
  <2>2. PICK c : req'[t] = [req[t] EXCEPT !.sized = c] /\
           \/ pc[t] = "copySize" /\ pc'[t] = "copyRead"
           \/ pc[t] = "getMain" /\ pc'[t] = "checkMain" /\ c = file["main"]
           \/ pc[t] = "getBak" /\ pc'[t] = "checkBak" /\ c = file["bak"]
           \/ pc[t] = "checkMain" /\ pc'[t] = "getBak" /\ ~HasSize("main")
    BY <1>7 DEF Sizes
  <2>3. req'[t].sized = c
    BY <1>1, <2>2 DEF Request
  <2>4. ~HasSize("main") => Spare
    BY <1>1 DEF HasSize
  <2>5. ~Upgrading(t)'
    BY <2>2 DEF Upgrading, StoreLabels
  <2>6. pc[t] = "checkMain" => req[t].buf = NoFile
    BY <1>1 DEF ReadingFits
  <2>7. ReadingFits(t)'
    <3>1. CASE pc[t] \in {"copySize", "getBak"}
      BY <1>1, <1>3, <2>1, <2>2, <2>3, <3>1 DEF ReadingFits, CopyLabels, RestoreLabels
    <3>2. CASE pc[t] \in {"getMain", "checkMain"}
      BY <1>1, <1>3, <2>1, <2>2, <2>3, <2>4, <2>6, <3>2, NoKeys DEF ReadingFits, CopyLabels, RestoreLabels
    <3> QED
      BY <2>2, <3>1, <3>2
  <2> QED
    BY <1>3, <2>5, <2>7
<1>8. CASE Upgrades(t)
  <2>1. /\ req'[t].buf.key = req[t].buf.key /\ req[t].buf.kind = "key" /\ req[t].buf.old
        /\ pc[t] \in {"readMain", "restore"} /\ pc'[t] = "storeMain"
    BY <1>1, <1>8, StepLocals DEF Upgrades
  <2>2. req[t].buf.key # 0
    <3>1. keysMade \in Nat
      BY FileFacts
    <3> QED
      BY <1>1, <2>1, <3>1, NoKeys DEF RequestFits, Formed
  <2>3. \A p \in Paths : file[p].key \in {0, req[t].buf.key}
    BY <1>1, <2>2 DEF ReadingFits, FilesShared
  <2>4. \E p \in Paths : file[p].key = req[t].buf.key
    BY <1>1, <2>2 DEF ReadingFits
  <2>5. ASSUME NEW k \in Safe PROVE file["bak"].key = k
    <3>1. Spare \/ file["main"] = req[t].buf
      BY <1>1, <2>1, NoKeys DEF ReadingFits, RestoreLabels
    <3>2. CASE file["main"] = req[t].buf
      <4>1. file["main"].key = k /\ file["main"].old
        BY <1>1, <2>1, <2>2, <2>5, <3>2
      <4> QED
        BY <1>1, <2>5, <4>1 DEF FilesShared
    <3> QED
      BY <1>1, <2>5, <3>1, <3>2
  <2>6. ~Done(t)' /\ pc'[t] \notin ExistLabels \cup GetLabels
    BY <2>1 DEF Done, ExistLabels, GetLabels, CopyLabels, RestoreLabels
  <2>7. UpgradeFits(t)'
    BY <1>3, <2>1, <2>3, <2>4, <2>5, <2>6 DEF UpgradeFits
  <2> QED
    BY <1>3, <2>6, <2>7
<1> QED
  BY <1>4, <1>5, <1>6, <1>7, <1>8

\* A step of an upgrade.
LEMMA UpgradeSteps ==
    ASSUME Basics, SharedInv, NEW t \in Threads, WorkStep(t), Upgrading(t)
    PROVE  /\ FilesShared'
           /\ pc'[t] \notin ExistLabels \cup GetLabels
           /\ Upgrading(t)' => UpgradeFits(t)'
<1> USE DEF Moves
<1>1. /\ FilesShared /\ Paths = {"main", "bak"} /\ 0 \notin Safe /\ file \in [Paths -> Contents]
      /\ RequestFits(t) /\ UpgradeFits(t) /\ req[t] \in Request /\ pc[t] \in {"storeMain", "storeBak"}
      /\ req[t].call = "get" /\ req[t].buf.kind = "key" /\ ~req[t].buf.old /\ req[t].buf.key # 0
      /\ stage[t] # "none" => path[t] = FileOf(pc[t])
      /\ \A k \in Safe, p \in Paths : file[p].key \in {0, k}
      /\ \A k \in Safe : k = req[t].buf.key
  <2>1. /\ RequestFits(t) /\ req[t] \in Request
        /\ stage[t] # "none" => path[t] = FileOf(pc[t])
        /\ pc[t] \in StoreLabels /\ req[t].call = "get" /\ req[t].buf.key \in 1 .. MaxKeys
        /\ req[t].buf.kind = "key" /\ ~req[t].buf.old
    BY RequestFacts DEF Upgrading
  <2>2. FilesShared /\ Paths = {"main", "bak"} /\ 0 \notin Safe /\ file \in [Paths -> Contents] /\ UpgradeFits(t)
    BY FileFacts, SharedFacts DEF SharedInv
  <2>3. \A k \in Safe, p \in Paths : file[p].key \in {0, k}
    BY SharedFacts
  <2>4. \A k \in Safe : k = req[t].buf.key
    BY <2>2 DEF FilesShared, UpgradeFits
  <2> QED
    BY <2>1, <2>2, <2>3, <2>4, RequestFacts DEF StoreLabels
<1>2. pc'[t] \in {"storeMain", "storeBak", "idle"}
  BY <1>1 DEF WorkStep, Enters, Opens, Reads, Writes, Removes, Transfers, Between, Walks, Sizes, Looks,
              Cleans, Upgrades, Makes, Answers, Forgets, Stores
<1>3. pc'[t] \notin ExistLabels \cup GetLabels
  BY <1>2 DEF ExistLabels, GetLabels, CopyLabels, RestoreLabels
\* One of the files is opened or written.
<1>4. ASSUME NEW c, c \in {Empty, Junk} \/ c = Written(t), file' = [file EXCEPT ![FileOf(pc[t])] = c],
             UNCHANGED <<kept, doomed>>, req'[t].buf = req[t].buf, pc'[t] = pc[t],
             stage'[t] \notin {"none", "created"}, Done(t)' => c = Written(t)
      PROVE  FilesShared' /\ UpgradeFits(t)'
  <2>1. Safe' = Safe
    BY <1>4 DEF Safe
  <2>2. /\ FileOf(pc[t]) = "main" => file'["main"] = c /\ file'["bak"] = file["bak"]
        /\ FileOf(pc[t]) = "bak" => file'["bak"] = c /\ file'["main"] = file["main"]
        /\ pc[t] = "storeMain" => FileOf(pc[t]) = "main"
        /\ pc[t] = "storeBak" => FileOf(pc[t]) = "bak"
    BY <1>1, <1>4, LabelKinds
  <2>3. pc[t] \in WriteLabels /\ pc[t] \in StoreLabels
    BY <1>1 DEF WriteLabels, StoreLabels
  <2>4. c.key \in {0, req[t].buf.key} /\ Written(t) = req[t].buf
    BY <1>4, <2>3, WrittenKeys
  <2>5. \A p \in Paths : file'[p].key \in {0, req[t].buf.key}
    BY <1>1, <2>2, <2>4 DEF UpgradeFits
  <2>6. CASE pc[t] = "storeMain"
    <3>1. \A k \in Safe : file'["bak"].key = k
      BY <1>1, <2>2, <2>6 DEF UpgradeFits
    <3>2. FilesShared'
      BY <1>1, <2>1, <2>5, <3>1 DEF FilesShared
    <3> QED
      BY <1>4, <2>1, <2>2, <2>4, <2>5, <2>6, <3>1, <3>2 DEF UpgradeFits
  <2>7. CASE pc[t] = "storeBak"
    <3>1. file'["main"] = req[t].buf
      BY <1>1, <2>2, <2>7 DEF UpgradeFits
    <3>2. FilesShared'
      BY <1>1, <2>1, <2>5, <3>1 DEF FilesShared
    <3> QED
      BY <1>4, <2>5, <2>7, <3>1, <3>2 DEF UpgradeFits
  <2> QED
    BY <1>1, <2>6, <2>7
\* The files stay during the access.
<1>5. ASSUME file' = file, UNCHANGED <<kept, doomed>>, req'[t].buf = req[t].buf, pc'[t] = pc[t],
             stage'[t] \in {"none", "created"} => stage[t] \in {"none", "created"}, Done(t)' => FALSE
      PROVE  FilesShared' /\ UpgradeFits(t)'
  BY <1>1, <1>5 DEF FilesShared, UpgradeFits, Safe
<1>6. CASE Enters(t)
  BY <1>3, <1>5, <1>6 DEF Enters, Unmoved, Done
<1>7. CASE Opens(t)
  <2>1. req'[t].buf = req[t].buf
    BY <1>1, <1>7, AccessLocals
  <2>2. /\ stage[t] = "created" /\ stage'[t] \in {"reading", "writing"} /\ UNCHANGED <<kept, doomed>>
        /\ pc'[t] = pc[t] /\ ~Done(t)'
        /\ file' = file \/ file' = [file EXCEPT ![FileOf(pc[t])] = Empty]
    BY <1>1, <1>7 DEF Opens, Done
  <2> QED
    BY <1>3, <1>4, <1>5, <2>1, <2>2
<1>8. CASE Writes(t)
  <2>1. req'[t].buf = req[t].buf
    BY <1>1, <1>8, AccessLocals
  <2>2. /\ \/ ~req'[t].failed /\ file' = [file EXCEPT ![FileOf(pc[t])] = Written(t)]
           \/ req'[t].failed /\ \E torn \in {Empty, Junk} : file' = [file EXCEPT ![FileOf(pc[t])] = torn]
           \/ req'[t].failed /\ file' = file
        /\ stage'[t] = "unlocked" /\ pc'[t] = pc[t] /\ UNCHANGED <<kept, doomed>>
    BY <1>1, <1>8, AccessLocals DEF Writes, Transfers
  <2> QED
    BY <1>3, <1>4, <1>5, <2>1, <2>2 DEF Done
<1>9. CASE Reads(t) \/ Removes(t)
  BY <1>1, <1>9 DEF Reads, Removes, ReadLabels, RemoveLabels
<1>10. CASE Between(t) /\ stage'[t] = "none"
  <2>1. \/ Walks(t) /\ pc[t] = "storeMain" /\ pc'[t] = "storeBak" /\ Done(t)
        \/ pc'[t] = "idle" /\ (Answers(t) \/ Stores(t))
    BY <1>1, <1>10 DEF Between, Walks, Sizes, Looks, Cleans, Upgrades, Makes, Answers, Forgets, Stores
  <2>2. file' = file /\ Safe' = Safe
    BY <1>1, <2>1 DEF Walks, Answers, Stores, Unmoved, Safe
  <2>3. FilesShared'
    BY <1>1, <2>2 DEF FilesShared
  <2>4. CASE Walks(t) /\ pc[t] = "storeMain" /\ pc'[t] = "storeBak" /\ Done(t)
    BY <1>1, <1>3, <2>2, <2>3, <2>4 DEF Walks, UpgradeFits
  <2>5. CASE pc'[t] = "idle"
    BY <1>3, <2>3, <2>5 DEF Upgrading, StoreLabels
  <2> QED
    BY <2>1, <2>4, <2>5
<1> QED
  BY <1>6, <1>7, <1>8, <1>9, <1>10 DEF WorkStep
\* A step of a deletion or a generation: nothing is promised, and what it
\* writes is no key or the new one.
LEMMA DeletingSteps ==
    ASSUME Basics, GoneInv, SharedInv, NEW t \in Threads, WorkStep(t), Deleting(t)
    PROVE  /\ FilesShared'
           /\ pc'[t] \notin ExistLabels \cup GetLabels
           /\ ~Upgrading(t)'
<1> USE DEF Moves
<1>1. /\ FilesShared /\ Paths = {"main", "bak"} /\ file \in [Paths -> Contents]
      /\ RequestFits(t) /\ GoneFits(t) /\ req[t] \in Request /\ Safe = {}
      /\ req[t].call \in {"generate", "delete"}
      /\ (stage[t] # "none" => path[t] = FileOf(pc[t]))
      /\ pc[t] \in DeleteLabels \cup StoreLabels \cup {"engine"}
  <2>1. /\ GoneFits(t) /\ RequestFits(t) /\ req[t] \in Request /\ pc[t] \in Labels
        /\ (stage[t] # "none" => path[t] = FileOf(pc[t]))
    BY RequestFacts DEF Deleting, GoneInv, Basics, TypeOK
  <2>2. pc[t] \in DeleteLabels \cup StoreLabels \cup {"engine"}
    BY <2>1 DEF RequestFits, Deleting, Labels, AccessLabels, ReadLabels, WriteLabels, RemoveLabels,
                DeleteLabels, StoreLabels, ExistLabels, GetLabels, CopyLabels, RestoreLabels
  <2> QED
    BY <2>1, <2>2, FileFacts, SharedFacts DEF GoneFits, Deleting
<1>2. pc'[t] \in DeleteLabels \cup StoreLabels \cup {"engine", "idle"}
  <2>1. CASE Enters(t) \/ Opens(t) \/ Reads(t) \/ Writes(t) \/ Removes(t)
    BY <1>1, <2>1 DEF Enters, Opens, Reads, Writes, Removes, Transfers
  <2>2. CASE Between(t)
    BY <1>1, <2>2 DEF Between, Walks, Sizes, Looks, Cleans, Upgrades, Makes, Answers, Forgets, Stores,
                      DeleteLabels, StoreLabels, AfterBak
  <2> QED
    BY <2>1, <2>2 DEF WorkStep
<1>3. pc'[t] \notin ExistLabels \cup GetLabels
  BY <1>2 DEF DeleteLabels, StoreLabels, ExistLabels, GetLabels, CopyLabels, RestoreLabels
<1>4. ~Upgrading(t)'
  <2>1. req'[t].call = req[t].call \/ pc'[t] = "idle"
    <3>1. CASE Enters(t) \/ Removes(t)
      BY <3>1 DEF Enters, Removes
    <3>2. CASE Opens(t) \/ Reads(t) \/ Writes(t)
      BY <1>1, <3>2, AccessLocals
    <3>3. CASE Between(t)
      BY <1>1, <3>3, StepLocals DEF Between, Walks, Answers, Forgets, Stores
    <3> QED
      BY <3>1, <3>2, <3>3 DEF WorkStep
  <2> QED
    BY <1>1, <2>1 DEF Upgrading, StoreLabels
\* One of the files is opened, written or removed.
<1>5. ASSUME NEW c, c \in {NoFile, Empty, Junk} \/ c = Written(t), file' = [file EXCEPT ![FileOf(pc[t])] = c],
             pc[t] \in WriteLabels \/ (pc[t] \in RemoveLabels /\ c = NoFile), UNCHANGED <<kept, doomed>>
      PROVE  FilesShared'
  <2>1. /\ FileOf(pc[t]) = "main" => file'["main"] = c /\ file'["bak"] = file["bak"]
        /\ FileOf(pc[t]) = "bak" => file'["bak"] = c /\ file'["main"] = file["main"]
        /\ FileOf(pc[t]) \in Paths
    BY <1>1, <1>5, FileOfPath
  <2>2. /\ c.key \in {0, req[t].buf.key}
        /\ pc[t] \notin StoreLabels \cup {"restore", "copyWrite"} => c.key = 0
    BY <1>5, WrittenKeys, NoKeys
  <2>3. c.key = 0 \/ (pc[t] \in StoreLabels /\ c.key = req[t].buf.key)
    BY <1>1, <2>2 DEF DeleteLabels, StoreLabels
  <2>4. pc[t] \in StoreLabels => \A p \in Paths : file[p].key \in {0, req[t].buf.key}
    BY <1>1 DEF GoneFits, RequestFits
  <2>5. \A p, q \in Paths : file'[p].key # 0 /\ file'[q].key # 0 => file'[p].key = file'[q].key
    <3>1. CASE c.key = 0
      BY <1>1, <2>1, <3>1 DEF FilesShared
    <3>2. CASE pc[t] \in StoreLabels /\ c.key = req[t].buf.key
      BY <1>1, <2>1, <2>4, <3>2
    <3> QED
      BY <2>3, <3>1, <3>2
  <2>6. Safe' = {}
    BY <1>1, <1>5 DEF Safe
  <2> QED
    BY <2>5, <2>6 DEF FilesShared
\* No file changes and nothing more is promised.
<1>6. ASSUME file' = file, Safe' = {} PROVE FilesShared'
  BY <1>1, <1>6 DEF FilesShared
<1>7. CASE Enters(t) \/ Reads(t)
  BY <1>1, <1>3, <1>4, <1>6, <1>7 DEF Enters, Reads, Transfers, Unmoved, Safe
<1>8. CASE Opens(t)
  <2>1. /\ UNCHANGED <<kept, doomed>>
        /\ file' = file \/ (pc[t] \in WriteLabels /\ file' = [file EXCEPT ![FileOf(pc[t])] = Empty])
    BY <1>1, <1>8 DEF Opens
  <2> QED
    BY <1>1, <1>3, <1>4, <1>5, <1>6, <2>1 DEF Safe
<1>9. CASE Writes(t)
  <2>1. /\ \/ file' = [file EXCEPT ![FileOf(pc[t])] = Written(t)]
           \/ \E torn \in {Empty, Junk} : file' = [file EXCEPT ![FileOf(pc[t])] = torn]
           \/ file' = file
        /\ pc[t] \in WriteLabels /\ UNCHANGED <<kept, doomed>>
    BY <1>1, <1>9, AccessLocals DEF Writes, Transfers
  <2> QED
    BY <1>1, <1>3, <1>4, <1>5, <1>6, <2>1 DEF Safe
<1>10. CASE Removes(t)
  <2>1. /\ file' = file \/ file' = [file EXCEPT ![FileOf(pc[t])] = NoFile]
        /\ pc[t] \in RemoveLabels /\ UNCHANGED <<kept, doomed>>
    BY <1>1, <1>10 DEF Removes, Transfers
  <2> QED
    BY <1>1, <1>3, <1>4, <1>5, <1>6, <2>1 DEF Safe
<1>11. CASE Between(t)
  <2>1. CASE Unmoved \/ Makes(t) \/ Forgets(t)
    BY <1>1, <1>3, <1>4, <1>6, <2>1 DEF Unmoved, Makes, Forgets, Safe
  <2>2. CASE Stores(t)
    <3>1. pc[t] = "storeBak" /\ file' = file /\ req[t].call = "generate"
      BY <1>1, <2>2 DEF Stores, RequestFits, StoreLabels
    <3>2. file["main"] = req[t].buf /\ ~req[t].buf.old
      BY <1>1, <3>1 DEF GoneFits, RequestFits, StoreLabels
    <3>3. Safe' \subseteq {req[t].buf.key}
      BY <1>1, <2>2, <3>1 DEF Stores, Safe
    <3>4. FilesShared'
      BY <1>1, <3>1, <3>2, <3>3 DEF FilesShared
    <3> QED
      BY <1>3, <1>4, <3>4
  <2> QED
    BY <1>11, <2>1, <2>2 DEF Between, Walks, Sizes, Looks, Cleans, Upgrades, Answers
<1> QED
  BY <1>7, <1>8, <1>9, <1>10, <1>11 DEF WorkStep

\* The kinds of a request that has begun.
LEMMA ThreeKinds ==
    ASSUME Basics, NEW t \in Threads, pc[t] # "idle"
    PROVE  pc[t] \in ExistLabels \cup GetLabels \/ Deleting(t) \/ Upgrading(t)
<1>1. RequestFits(t) /\ pc[t] \in Labels
  BY RequestFacts DEF Basics, TypeOK
<1> QED
  BY <1>1 DEF RequestFits, Deleting, Upgrading, Labels, AccessLabels, ReadLabels, WriteLabels, RemoveLabels,
              DeleteLabels, StoreLabels, ExistLabels, GetLabels, CopyLabels, RestoreLabels

\* Every step while changes are alone.
LEMMA NextShared ==
    ASSUME Basics, GoneInv, SharedInv, ChangesAlone, ChangesAlone', StorageStep
    PROVE  SharedInv'
<1>1. FilesShared /\ Paths = {"main", "bak"} /\ 0 \notin Safe
  BY FileFacts, SharedFacts
<1>2. CASE Crashes
  <2>1. \A p \in Paths : file'[p].key = file[p].key /\ (file'[p].old => file[p].old)
    BY <1>2, NoKeys DEF Crashes
  <2>2. Safe' = Safe /\ \A t \in Threads : pc'[t] = "idle"
    BY <1>2 DEF Crashes, Safe
  <2>3. \A t \in Threads : pc'[t] \notin ExistLabels \cup GetLabels /\ ~Upgrading(t)'
    BY <2>2 DEF ExistLabels, GetLabels, CopyLabels, RestoreLabels, Upgrading, StoreLabels
  <2>4. FilesShared'
    BY <1>1, <2>1, <2>2 DEF FilesShared
  <2> QED
    BY <2>3, <2>4 DEF FilesShared, SharedInv
<1>3. CASE UNCHANGED <<file, pc, req, keysMade, kept, doomed, dead, stage, path>>
  BY <1>3 DEF SharedInv, ReadingFits, UpgradeFits, Upgrading, Safe, Spare, Done
<1>4. ASSUME NEW t \in Threads, CallStep(t), \A u \in Threads \ {t} : Alike(u)
      PROVE  SharedInv'
  <2>1. /\ pc[t] = "idle" /\ pc'[t] \in {"delMain", "existMain", "getMain"} /\ file' = file
        /\ Steady
    BY <1>4 DEF CallStep, Reading, Removing, Unmoved, Steady
  <2>2. req[t] = NoRequest
    BY <2>1 DEF Basics, RequestsFit, RequestFits
  <2>3. ASSUME NEW u \in Threads \ {t}
        PROVE  /\ pc'[u] \in ExistLabels \cup GetLabels => ReadingFits(u)'
               /\ ~Upgrading(u)'
    <3>1. pc'[u] = pc[u] /\ Alike(u)
      BY <1>4 DEF Alike
    <3>2. ~Upgrading(u)'
      BY <2>1 DEF ChangesAlone, Changing, Upgrading
    <3> QED
      BY <2>1, <3>1, <3>2, ReadersShare DEF SharedInv
  <2>4. ~Upgrading(t)'
    BY <2>1 DEF Upgrading, StoreLabels
  <2>5. FilesShared' /\ (pc'[t] \in ExistLabels \cup GetLabels => ReadingFits(t)')
    <3>1. CASE Reading(t)
      <4>1. pc'[t] \in {"existMain", "getMain"} /\ req'[t].buf = NoFile /\ Safe' = Safe
        BY <2>2, <3>1 DEF Reading, NoRequest, Unmoved, Safe
      <4>2. ReadingFits(t)'
        BY <4>1, NoKeys DEF ReadingFits, CopyLabels, RestoreLabels
      <4> QED
        BY <1>1, <2>1, <4>1, <4>2 DEF FilesShared
    <3>2. CASE Removing(t)
      <4>1. pc'[t] = "delMain" /\ Safe' = {}
        BY <3>2 DEF Removing, Safe
      <4> QED
        BY <1>1, <2>1, <4>1 DEF FilesShared, ExistLabels, GetLabels, CopyLabels, RestoreLabels
    <3> QED
      BY <1>4, <3>1, <3>2 DEF CallStep
  <2> QED
    BY <2>3, <2>4, <2>5 DEF FilesShared, SharedInv
<1>5. ASSUME NEW t \in Threads, WorkStep(t), \A u \in Threads \ {t} : Alike(u)
      PROVE  SharedInv'
  <2>1. pc[t] # "idle"
    BY <1>5, LabelKinds
       DEF WorkStep, Enters, Opens, Reads, Writes, Removes, ReadLabels, WriteLabels, RemoveLabels, Between,
           Walks, Sizes, Looks, Cleans, Upgrades, Makes, Answers, Forgets, Stores, Moves
  <2>2. CASE Changing(t)
    <3>1. ASSUME NEW u \in Threads \ {t} PROVE pc'[u] \notin ExistLabels \cup GetLabels /\ ~Upgrading(u)'
      <4>1. pc'[u] = "idle"
        BY <1>5, <2>2 DEF ChangesAlone, Alike
      <4> QED
        BY <4>1 DEF ExistLabels, GetLabels, CopyLabels, RestoreLabels, Upgrading, StoreLabels
    <3>2. /\ FilesShared' /\ pc'[t] \notin ExistLabels \cup GetLabels
          /\ Upgrading(t)' => UpgradeFits(t)'
      <4>1. CASE Deleting(t)
        BY <1>5, <4>1, DeletingSteps
      <4>2. CASE Upgrading(t)
        BY <1>5, <4>2, UpgradeSteps
      <4> QED
        BY <2>1, <2>2, <4>1, <4>2, ThreeKinds, RequestFacts
           DEF Changing, StoreLabels, ExistLabels, GetLabels, CopyLabels, RestoreLabels
    <3> QED
      BY <3>1, <3>2 DEF FilesShared, SharedInv
  <2>3. CASE ~Changing(t)
    <3>1. pc[t] \in ExistLabels \cup GetLabels
      BY <2>1, <2>3, ThreeKinds DEF Changing, Upgrading
    <3>2. /\ FilesShared' /\ Steady
          /\ pc'[t] \in ExistLabels \cup GetLabels => ReadingFits(t)'
          /\ Upgrading(t)' => UpgradeFits(t)'
      <4>1. CASE Enters(t) \/ Opens(t) \/ Reads(t) \/ Writes(t) \/ Removes(t)
        <5>1. FilesShared' /\ Steady /\ ReadingFits(t)' /\ pc'[t] = pc[t]
          BY <3>1, <4>1, ReadingAccess
        <5> QED
          BY <3>1, <5>1 DEF Upgrading, StoreLabels, ExistLabels, GetLabels, CopyLabels, RestoreLabels
      <4>2. CASE Between(t) /\ stage'[t] = "none"
        BY <3>1, <4>2, ReadingBetween
      <4> QED
        BY <1>5, <4>1, <4>2 DEF WorkStep
    <3>3. ASSUME NEW u \in Threads \ {t}
          PROVE  /\ pc'[u] \in ExistLabels \cup GetLabels => ReadingFits(u)'
                 /\ ~Upgrading(u)'
      <4>1. pc'[u] = pc[u] /\ Alike(u) /\ ~Upgrading(u)
        BY <1>5, <2>1 DEF Alike, ChangesAlone, Changing, Upgrading
      <4>2. ~Upgrading(u)'
        BY <4>1 DEF Alike, Upgrading
      <4> QED
        BY <3>2, <4>1, <4>2, ReadersShare DEF SharedInv
    <3> QED
      BY <3>2, <3>3 DEF FilesShared, SharedInv
  <2> QED
    BY <2>2, <2>3
<1> QED
  BY <1>2, <1>3, <1>4, <1>5 DEF StorageStep

\* The alias is new, or its key is in both files.
LEMMA InitShared == Init => SharedInv
<1> SUFFICES ASSUME Init PROVE SharedInv
  OBVIOUS
<1>1. /\ keysMade \in {0, 1} /\ kept = 1 .. keysMade /\ Paths = {"main", "bak"}
      /\ \A t \in Threads : pc[t] = "idle"
  BY StorageAssumption DEF Init
<1>2. \A t \in Threads : pc[t] \notin ExistLabels \cup GetLabels /\ ~Upgrading(t)
  BY <1>1 DEF ExistLabels, GetLabels, CopyLabels, RestoreLabels, Upgrading, StoreLabels
<1>3. CASE keysMade = 0
  <2>1. Safe = {} /\ file["main"] = file["bak"]
    BY <1>1, <1>3 DEF Init, Safe
  <2> QED
    BY <1>1, <1>2, <2>1 DEF SharedInv
<1>4. CASE keysMade = 1
  <2>1. Safe \subseteq {1}
    BY <1>1, <1>4 DEF Safe
  <2>2. \A p \in Paths : file[p].key = 1
    <3>1. ASSUME NEW b \in BOOLEAN, file = [p \in Paths |-> KeyBlob(1, b)]
          PROVE  \A p \in Paths : file[p].key = 1
      BY <3>1, NoKeys
    <3>2. keysMade # 0
      BY <1>4
    <3> QED
      BY <3>1, <3>2, StorageAssumption DEF Init
  <2> QED
    BY <1>1, <1>2, <2>1, <2>2 DEF SharedInv
<1> QED
  BY <1>1, <1>3, <1>4

\* Where changes are alone, deletions are.
LEMMA FewerAlone == (OneAtATime => ChangesAlone) /\ (ChangesAlone => DeletionsAlone)
<1>1. \A t \in Threads : Changing(t) => pc[t] # "idle"
  BY DEF Changing, Deleting, StoreLabels
<1> QED
  BY <1>1 DEF OneAtATime, ChangesAlone, DeletionsAlone, Changing

\* The invariants of changes alone.
LEMMA SpecShared == Spec /\ []ChangesAlone => [](Basics /\ GoneInv /\ SharedInv)
<1>1. Basics /\ GoneInv /\ SharedInv /\ ChangesAlone /\ ChangesAlone' /\ [Next]_vars => SharedInv'
  BY StorageSteps, NextShared DEF Basics
<1>2. ChangesAlone => DeletionsAlone
  BY FewerAlone
<1> QED
  BY <1>1, <1>2, InitShared, SpecBasics, SpecGone, PTL DEF Spec

(* Where upgrades do not overlap with other requests either, no stored key *)
(* that nobody asked to delete is lost, although any number of requests    *)
(* restore and copy it at the same time and file operations fail.          *)
THEOREM KeptAlone == Spec /\ []ChangesAlone => []KeyNeverLost
<1>1. SharedInv => KeyNeverLost
  BY DEF SharedInv, KeyNeverLost, Safe
<1> QED
  BY <1>1, SpecShared, PTL

(* As long as the requests for an alias come one after the other, a key    *)
(* whose deletion or replacement was answered with success stays out of    *)
(* both files.                                                             *)
THEOREM DeletedSerially == Spec /\ []OneAtATime => []DeletedStaysDeleted
<1>1. OneAtATime => DeletionsAlone
  BY FewerAlone
<1> QED
  BY <1>1, DeletedAlone, PTL

(* As long as they do, no stored key that nobody asked to delete is lost.  *)
THEOREM KeptSerially == Spec /\ []OneAtATime => []KeyNeverLost
<1>1. OneAtATime => ChangesAlone
  BY FewerAlone
<1> QED
  BY <1>1, KeptAlone, PTL
-----------------------------------------------------------------------------
(* The refinement of the register.  What the register holds are the keys   *)
(* of the files, and for the moment between opening and writing a file the *)
(* one in the buffer of a generation or an upgrade.                        *)

FileKeys == {k \in 1 .. MaxKeys : \E p \in Paths : file[p].key = k}

\* A generation or an upgrade that has opened a file and will write it.
StoringNow(t) == pc[t] \in StoreLabels /\ stage[t] = "writing" /\ ~req[t].failed

StoredFacts ==
    /\ \A k, l \in FileKeys : k = l
    /\ Safe \subseteq FileKeys /\ FileKeys \subseteq Stored
    /\ (\A t \in Threads : ~StoringNow(t)) => Stored = FileKeys
    /\ \A t \in Threads : pc[t] # "idle" =>
          Pending = IF pc[t] \in StoreLabels /\ req[t].call = "generate" THEN {req[t].buf.key} ELSE {}
    /\ (\A t \in Threads : pc[t] = "idle") => Pending = {}
    /\ \A t \in Threads : pc[t] \in StoreLabels =>
          /\ FileKeys \subseteq {req[t].buf.key}
          /\ Stored = IF StoringNow(t) THEN {req[t].buf.key} ELSE FileKeys
    /\ \A t \in Threads : Deleting(t) /\ pc[t] \notin StoreLabels => Stored = FileKeys /\ Pending = {}

AloneFacts == Basics /\ GoneInv /\ SharedInv /\ ChangesAlone

\* Nothing but the requests that store a key has one in a buffer that is in
\* no file.
LEMMA StoredKeys == AloneFacts => StoredFacts
<1> SUFFICES ASSUME AloneFacts PROVE StoredFacts
  OBVIOUS
<1>1. /\ Basics /\ GoneInv /\ SharedInv /\ ChangesAlone /\ FilesShared /\ Paths = {"main", "bak"}
      /\ 0 \notin Safe /\ MaxKeys \in Nat /\ keysMade <= MaxKeys /\ keysMade \in Nat
  BY FileFacts, SharedFacts, StorageAssumption DEF AloneFacts
<1>2. \A k, l \in FileKeys : k = l
  BY <1>1 DEF FilesShared, FileKeys
<1>3. Safe \subseteq FileKeys /\ FileKeys \subseteq Stored
  <2>1. Safe \subseteq 1 .. MaxKeys
    BY <1>1, FileFacts DEF Safe
  <2> QED
    BY <1>1, <2>1 DEF FilesShared, FileKeys, Stored
<1>4. ASSUME NEW t \in Threads, NEW k \in 1 .. MaxKeys, stage[t] = "writing", Written(t).key = k,
             ~req[t].failed
      PROVE  StoringNow(t) \/ \E p \in Paths : file[p].key = k
  <2>1. pc[t] \in WriteLabels \cup RemoveLabels /\ k # 0
    BY <1>1, <1>4 DEF Basics, StorageInv, LockedAtLabel
  <2>2. CASE pc[t] \in StoreLabels
    BY <1>4, <2>2 DEF StoringNow
  <2>3. CASE pc[t] \in {"restore", "copyWrite"}
    <3>1. ReadingFits(t)
      BY <1>1, <2>3 DEF SharedInv, ExistLabels, GetLabels, CopyLabels, RestoreLabels
    <3>2. Written(t) = req[t].buf
      BY <2>3 DEF Written
    <3> QED
      BY <1>1, <1>4, <2>1, <3>1, <3>2 DEF ReadingFits
  <2>4. CASE pc[t] \in DeleteLabels
    <3>1. pc[t] # "idle"
      BY <2>4 DEF DeleteLabels
    <3>2. req[t].buf = NoFile
      BY <1>1, <2>4, <3>1 DEF GoneInv, GoneFits
    <3>3. Written(t).key = 0
      BY <3>2, NoKeys DEF Written
    <3> QED
      BY <1>4, <2>1, <3>3
  <2> QED
    BY <2>1, <2>2, <2>3, <2>4 DEF WriteLabels, RemoveLabels, StoreLabels, DeleteLabels
<1>5. (\A t \in Threads : ~StoringNow(t)) => Stored = FileKeys
  BY <1>4 DEF Stored, FileKeys, InBuffer
<1>6. ASSUME NEW t \in Threads, Changing(t) PROVE \A u \in Threads \ {t} : pc[u] = "idle" /\ ~StoringNow(u)
  BY <1>1, <1>6 DEF ChangesAlone, StoringNow, StoreLabels
<1>7. ASSUME NEW t \in Threads, pc[t] # "idle"
      PROVE  Pending = IF pc[t] \in StoreLabels /\ req[t].call = "generate" THEN {req[t].buf.key} ELSE {}
  <2>1. \A u \in Threads : pc[u] \in StoreLabels => u = t
    BY <1>1, <1>7 DEF ChangesAlone, Changing
  <2> QED
    BY <2>1 DEF Pending
<1>8. (\A t \in Threads : pc[t] = "idle") => Pending = {}
  BY DEF Pending, StoreLabels
<1>9. ASSUME NEW t \in Threads, pc[t] \in StoreLabels
      PROVE  /\ FileKeys \subseteq {req[t].buf.key}
             /\ Stored = IF StoringNow(t) THEN {req[t].buf.key} ELSE FileKeys
  <2>1. /\ req[t].buf.key \in 1 .. MaxKeys /\ pc[t] # "idle"
        /\ req[t].call \in {"generate", "get"}
    BY <1>1, <1>9, RequestFacts DEF StoreLabels
  <2>2. \A p \in Paths : file[p].key \in {0, req[t].buf.key}
    BY <1>1, <1>9, <2>1 DEF GoneInv, GoneFits, SharedInv, UpgradeFits, Upgrading
  <2>3. FileKeys \subseteq {req[t].buf.key}
    BY <2>2 DEF FileKeys
  <2>4. CASE StoringNow(t)
    <3>1. Written(t) = req[t].buf
      BY <1>9 DEF Written, StoreLabels
    <3>2. InBuffer(req[t].buf.key)
      BY <2>4, <3>1 DEF StoringNow, InBuffer
    <3>3. \A u \in Threads \ {t} : pc[u] = "idle"
      BY <1>6, <1>9 DEF Changing
    <3>4. \A u \in Threads \ {t} : stage[u] = "none"
      BY <1>1, <3>3, RequestFacts, LabelKinds DEF RequestFits
    <3>5. \A k : InBuffer(k) => k = req[t].buf.key
      BY <3>1, <3>4 DEF InBuffer
    <3> QED
      BY <2>1, <2>2, <2>3, <2>4, <3>2, <3>5 DEF Stored
  <2>5. CASE ~StoringNow(t)
    BY <1>5, <1>6, <1>9, <2>3, <2>5 DEF Changing
  <2> QED
    BY <2>3, <2>4, <2>5
<1>10. ASSUME NEW t \in Threads, Deleting(t), pc[t] \notin StoreLabels
       PROVE  Stored = FileKeys /\ Pending = {}
  <2>1. ~StoringNow(t) /\ Changing(t) /\ pc[t] # "idle"
    BY <1>10 DEF StoringNow, Changing, Deleting
  <2> QED
    BY <1>5, <1>6, <1>7, <1>10, <2>1
<1> QED
  BY <1>2, <1>3, <1>5, <1>7, <1>8, <1>9, <1>10 DEF StoredFacts
\* A step of the register, or none.
RegisterStep == [Register!RegNext]_(Register!regVars)

\* A step that the register does not show.
LEMMA HiddenStep ==
    ASSUME UNCHANGED <<Stored, Pending, keysMade, kept, Safe, dead>>
    PROVE  RegisterStep
BY DEF RegisterStep, Register!regVars

\* The key fades, or a generation is given up, or nothing happens.
LEMMA FadingStep ==
    ASSUME Stored' \in {Stored, {}}, Pending' \in {Pending, {}}, Safe' \subseteq Stored', Safe' = Safe,
           UNCHANGED <<keysMade, kept, dead>>
    PROVE  RegisterStep
<1>1. CASE Stored' = Stored /\ Pending' = Pending
  BY <1>1, HiddenStep
<1>2. CASE Stored' = {} /\ Pending' = Pending
  BY <1>2 DEF RegisterStep, Register!RegNext, Register!Fade
<1>3. CASE Pending' = {}
  BY <1>3 DEF RegisterStep, Register!RegNext, Register!Abandon
<1> QED
  BY <1>1, <1>2, <1>3

\* Of one key some remain or none.
LEMMA FewerKeys ==
    ASSUME NEW S, NEW T, S \subseteq T, \A k, l \in T : k = l
    PROVE  S \in {T, {}}
OBVIOUS

\* A request begins.
LEMMA CallRegister ==
    ASSUME AloneFacts, AloneFacts', NEW t \in Threads, CallStep(t), \A u \in Threads \ {t} : Alike(u)
    PROVE  RegisterStep
<1>1. StoredFacts /\ StoredFacts'
  BY StoredKeys, PTL
<1>2. /\ pc[t] = "idle" /\ pc'[t] \in {"delMain", "existMain", "getMain"} /\ file' = file
      /\ UNCHANGED <<keysMade, kept, dead>>
  BY DEF CallStep, Reading, Removing, Unmoved
<1>3. \A u \in Threads : pc[u] \notin StoreLabels /\ pc'[u] \notin StoreLabels
  <2>1. pc[t] \notin StoreLabels /\ pc'[t] \notin StoreLabels
    BY <1>2 DEF StoreLabels
  <2>2. ASSUME NEW u \in Threads \ {t} PROVE pc[u] = pc'[u] /\ pc'[u] \notin StoreLabels
    BY <1>2 DEF AloneFacts, ChangesAlone, Changing, Alike
  <2> QED
    BY <2>1, <2>2
<1>4. Stored = FileKeys /\ Stored' = FileKeys' /\ Pending = {} /\ Pending' = {}
  <2>1. Pending = {} /\ Pending' = {}
    BY <1>3 DEF Pending
  <2> QED
    BY <1>1, <1>3, <2>1 DEF StoredFacts, StoringNow
<1>5. FileKeys' = FileKeys
  BY <1>2 DEF FileKeys
<1>6. CASE Reading(t)
  <2>1. Safe' = Safe
    BY <1>6 DEF Reading, Unmoved, Safe
  <2> QED
    BY <1>2, <1>4, <1>5, <2>1, HiddenStep
<1>7. CASE Removing(t)
  <2>1. Safe' = {}
    BY <1>7 DEF Removing, Safe
  <2> QED
    BY <1>2, <1>4, <1>5, <2>1 DEF RegisterStep, Register!RegNext, Register!Ask
<1> QED
  BY <1>6, <1>7 DEF CallStep

\* The service dies.
LEMMA CrashRegister ==
    ASSUME AloneFacts, AloneFacts', Crashes
    PROVE  RegisterStep
<1>1. StoredFacts /\ StoredFacts'
  BY StoredKeys, PTL
<1>2. /\ \A p \in Paths : file'[p].key = file[p].key
      /\ Safe' = Safe /\ UNCHANGED <<keysMade, kept, dead>> /\ \A t \in Threads : pc'[t] = "idle"
  BY NoKeys DEF Crashes, Safe
<1>3. Stored' = FileKeys' /\ Pending' = {}
  <2>1. \A t \in Threads : ~StoringNow(t)'
    BY <1>2 DEF StoringNow, StoreLabels
  <2> QED
    BY <1>1, <1>2, <2>1 DEF StoredFacts
<1>4. FileKeys' = FileKeys
  BY <1>2 DEF FileKeys
<1>5. FileKeys \in {Stored, {}}
  <2>1. FileKeys \subseteq Stored /\ \A k, l \in Stored : k = l
    <3>1. CASE \E t \in Threads : pc[t] \in StoreLabels
      <4>1. PICK t \in Threads : pc[t] \in StoreLabels
        BY <3>1
      <4>2. Stored = {req[t].buf.key} \/ Stored = FileKeys
        BY <1>1, <4>1 DEF StoredFacts
      <4> QED
        BY <1>1, <4>2 DEF StoredFacts
    <3>2. CASE \A t \in Threads : pc[t] \notin StoreLabels
      <4>1. Stored = FileKeys
        BY <1>1, <3>2 DEF StoredFacts, StoringNow
      <4> QED
        BY <1>1, <4>1 DEF StoredFacts
    <3> QED
      BY <3>1, <3>2
  <2> QED
    BY <2>1, FewerKeys
<1> QED
  BY <1>1, <1>2, <1>3, <1>4, <1>5, FadingStep DEF StoredFacts

\* A step of a request that asks for the key or reads it.
LEMMA ReadingRegister ==
    ASSUME AloneFacts, AloneFacts', NEW t \in Threads, WorkStep(t), \A u \in Threads \ {t} : Alike(u),
           pc[t] \in ExistLabels \cup GetLabels
    PROVE  RegisterStep
<1>1. StoredFacts /\ StoredFacts' /\ Basics /\ SharedInv
  BY StoredKeys, PTL DEF AloneFacts
<1>2. /\ Steady /\ pc[t] # "idle" /\ pc[t] \notin StoreLabels
      /\ UNCHANGED <<keysMade, kept, doomed, dead>>
  <2>1. CASE Enters(t) \/ Opens(t) \/ Reads(t) \/ Writes(t) \/ Removes(t)
    <3>1. Steady
      BY <1>1, <2>1, ReadingAccess
    <3>2. UNCHANGED <<keysMade, kept, doomed, dead>>
      BY <2>1 DEF Enters, Opens, Reads, Writes, Removes, Transfers, Unmoved
    <3> QED
      BY <3>1, <3>2 DEF ExistLabels, GetLabels, CopyLabels, RestoreLabels, StoreLabels
  <2>2. CASE Between(t) /\ stage'[t] = "none"
    <3>1. Steady
      BY <1>1, <2>2, ReadingBetween
    <3>2. Unmoved
      BY <2>2 DEF Between, Walks, Sizes, Looks, Cleans, Upgrades, Makes, Answers, Forgets, Stores, Moves,
                  ExistLabels, GetLabels, CopyLabels, RestoreLabels
    <3> QED
      BY <3>1, <3>2 DEF Unmoved, ExistLabels, GetLabels, CopyLabels, RestoreLabels, StoreLabels
  <2> QED
    BY <2>1, <2>2 DEF WorkStep
<1>3. FileKeys' = FileKeys
  BY <1>1, <1>2, SteadyKeys DEF FileKeys
<1>4. \A u \in Threads \ {t} : pc[u] \notin StoreLabels /\ pc'[u] = pc[u]
  BY <1>2 DEF AloneFacts, ChangesAlone, Changing, Alike
<1>5. Pending = {} /\ Stored = FileKeys
  BY <1>1, <1>2, <1>4 DEF Pending, StoredFacts, StoringNow
<1>6. Stored' = FileKeys' /\ Pending' = {}
  <2>1. CASE pc'[t] \in StoreLabels
    <3>1. Between(t) /\ stage'[t] = "none" /\ Upgrades(t)
      BY <1>1, <1>2, <2>1
         DEF WorkStep, Enters, Opens, Reads, Writes, Removes, Transfers, Between, Walks, Sizes, Looks,
             Cleans, Upgrades, Makes, Answers, Forgets, Stores, Moves,
             ExistLabels, GetLabels, CopyLabels, RestoreLabels, StoreLabels
    <3>2. req'[t].call = req[t].call /\ req[t].call # "generate"
      BY <1>1, <3>1, StepLocals, RequestFacts DEF Deleting
    <3>3. ~StoringNow(t)' /\ pc'[t] # "idle"
      BY <2>1, <3>1 DEF StoringNow, StoreLabels
    <3> QED
      BY <1>1, <2>1, <3>2, <3>3 DEF StoredFacts
  <2>2. CASE pc'[t] \notin StoreLabels
    BY <1>1, <1>4, <2>2 DEF Pending, StoredFacts, StoringNow
  <2> QED
    BY <2>1, <2>2
<1>7. Safe' = Safe
  BY <1>2 DEF Safe
<1> QED
  BY <1>2, <1>3, <1>5, <1>6, <1>7, HiddenStep

\* A step of a deletion, or of a generation before it has a key.
LEMMA DeletingRegister ==
    ASSUME AloneFacts, AloneFacts', NEW t \in Threads, WorkStep(t), \A u \in Threads \ {t} : Alike(u),
           pc[t] \in DeleteLabels \cup {"engine"}
    PROVE  RegisterStep
<1> USE DEF Moves
<1>1. StoredFacts /\ StoredFacts' /\ Basics /\ Basics' /\ Paths = {"main", "bak"} /\ file \in [Paths -> Contents]
  BY StoredKeys, FileFacts, PTL DEF AloneFacts
<1>2. /\ Deleting(t) /\ GoneFits(t) /\ pc[t] # "idle" /\ pc[t] \notin StoreLabels
      /\ (stage[t] # "none" => path[t] = FileOf(pc[t])) /\ FileOf(pc[t]) \in Paths
      /\ pc[t] \notin {"restore", "copyWrite"}
  BY <1>1, RequestFacts, FileOfPath DEF AloneFacts, GoneInv, DeleteLabels, StoreLabels, Deleting
<1>3. \A u \in Threads \ {t} : pc[u] = "idle" /\ pc'[u] = "idle"
  BY <1>2 DEF AloneFacts, ChangesAlone, Changing, Alike
<1>4. Safe = {} /\ req[t].buf = NoFile /\ Stored = FileKeys /\ Pending = {}
  BY <1>1, <1>2 DEF GoneFits, StoredFacts
<1>5. ASSUME pc'[t] \notin StoreLabels
      PROVE  Stored' = FileKeys' /\ Pending' = {}
  <2>1. \A u \in Threads : pc'[u] \notin StoreLabels
    BY <1>3, <1>5 DEF StoreLabels
  <2> QED
    BY <1>1, <2>1 DEF StoredFacts, StoringNow, Pending
<1>6. CASE Enters(t) \/ Opens(t) \/ Reads(t) \/ Writes(t) \/ Removes(t)
  <2>1. pc'[t] = pc[t] /\ UNCHANGED <<keysMade, kept, doomed, dead>>
    BY <1>6 DEF Enters, Opens, Reads, Writes, Removes, Transfers, Unmoved
  <2>2. \/ file' = file
        \/ /\ pc[t] \in WriteLabels \cup RemoveLabels
           /\ \E c : /\ c \in {NoFile, Empty, Junk} \/ (pc[t] \in WriteLabels /\ c = Written(t))
                     /\ file' = [file EXCEPT ![FileOf(pc[t])] = c]
    BY <1>2, <1>6 DEF Enters, Opens, Reads, Writes, Removes, Transfers, Unmoved
  <2>3. \A p \in Paths : file'[p] = file[p] \/ file'[p].key = 0
    <3>1. CASE file' = file
      BY <3>1
    <3>2. ASSUME NEW c, pc[t] \in WriteLabels \cup RemoveLabels,
                 c \in {NoFile, Empty, Junk} \/ (pc[t] \in WriteLabels /\ c = Written(t)),
                 file' = [file EXCEPT ![FileOf(pc[t])] = c]
          PROVE  \A p \in Paths : file'[p] = file[p] \/ file'[p].key = 0
      <4>1. c.key = 0
        BY <1>2, <3>2, WrittenKeys
      <4> QED
        BY <1>1, <1>2, <3>2, <4>1
    <3> QED
      BY <2>2, <3>1, <3>2
  <2>4. FileKeys' \subseteq FileKeys
    BY <2>3 DEF FileKeys
  <2>5. FileKeys' \in {FileKeys, {}}
    BY <1>1, <2>4, FewerKeys DEF StoredFacts
  <2>6. Safe' = {}
    BY <1>4, <2>1 DEF Safe
  <2> QED
    BY <1>2, <1>4, <1>5, <2>1, <2>5, <2>6, FadingStep
<1>7. CASE Walks(t) \/ Looks(t) \/ Cleans(t) \/ Answers(t)
  <2>1. Unmoved /\ pc'[t] \notin StoreLabels
    BY <1>2, <1>7 DEF Walks, Looks, Cleans, Answers, StoreLabels, DeleteLabels, AfterBak
  <2>2. FileKeys' = FileKeys /\ Safe' = Safe /\ UNCHANGED <<keysMade, kept, dead>>
    BY <2>1 DEF Unmoved, FileKeys, Safe
  <2> QED
    BY <1>4, <1>5, <2>1, <2>2, HiddenStep
<1>8. CASE Makes(t)
  <2>1. /\ pc[t] = "engine" /\ pc'[t] = "storeMain" /\ keysMade' = keysMade + 1
        /\ UNCHANGED <<file, kept, doomed, dead>>
    BY <1>8 DEF Makes
  <2>2. req'[t].call = "generate" /\ req'[t].buf.key = keysMade + 1
    <3>1. req[t] \in Request /\ req[t].call = "generate"
      BY <1>1, <2>1, RequestFacts
    <3>2. req'[t].call = req[t].call /\ req'[t].buf = KeyBlob(keysMade + 1, FALSE)
      BY <1>8, <3>1, StepLocals
    <3> QED
      BY <3>1, <3>2 DEF KeyBlob
  <2>3. FileKeys = {} /\ FileKeys' = {}
    <3>1. \A p \in Paths : file[p].key = 0
      BY <1>1, <1>2, <2>1, FileFacts DEF GoneFits, Exists
    <3> QED
      BY <2>1, <3>1 DEF FileKeys
  <2>4. keysMade' <= MaxKeys /\ keysMade \in Nat /\ MaxKeys \in Nat
    <3>1. keysMade' \in 0 .. MaxKeys /\ keysMade \in 0 .. MaxKeys
      BY <1>1 DEF Basics, TypeOK
    <3> QED
      BY <3>1, StorageAssumption
  <2>5. Pending' = {keysMade'}
    BY <1>1, <2>1, <2>2 DEF StoredFacts, StoreLabels
  <2>6. stage'[t] # "writing"
    <3>1. pc[t] \notin ReadLabels \cup WriteLabels \cup RemoveLabels /\ pc[t] \notin AccessLabels
      BY <2>1, LabelKinds DEF ReadLabels, WriteLabels, RemoveLabels
    <3> QED
      BY <3>1 DEF WorkStep, Enters, Opens, Reads, Writes, Removes
  <2>7. Stored' = {}
    BY <1>1, <2>1, <2>3, <2>6 DEF StoredFacts, StoreLabels, StoringNow
  <2>8. Safe' = {}
    BY <1>4, <2>1 DEF Safe
  <2>9. keysMade < MaxKeys
    BY <2>1, <2>4
  <2> QED
    BY <1>4, <2>1, <2>3, <2>5, <2>7, <2>8, <2>9 DEF RegisterStep, Register!RegNext, Register!Make
<1>9. CASE Forgets(t)
  <2>1. /\ pc[t] = "deleted" /\ pc'[t] = "idle" /\ UNCHANGED <<file, keysMade, kept, doomed>>
        /\ dead' = IF req[t].mainExists THEN dead \cup req[t].old ELSE dead
    BY <1>9 DEF Forgets
  <2>2. FileKeys = {} /\ FileKeys' = {}
    <3>1. \A p \in Paths : file[p].key = 0
      BY <1>1, <1>2, <2>1, FileFacts DEF GoneFits, Exists
    <3> QED
      BY <2>1, <3>1 DEF FileKeys
  <2>3. dead' \in {dead, kept}
    BY <1>1, <1>2, <2>1, FileFacts DEF GoneFits
  <2>4. Stored' = Stored /\ Pending' = Pending /\ Safe' = Safe /\ Stored = {}
    BY <1>4, <1>5, <2>1, <2>2 DEF Safe, StoreLabels
  <2>5. CASE dead' = dead
    BY <2>1, <2>4, <2>5, HiddenStep
  <2>6. CASE dead' = kept
    BY <2>1, <2>4, <2>6 DEF RegisterStep, Register!RegNext, Register!Delete
  <2> QED
    BY <2>3, <2>5, <2>6
<1>10. ~Sizes(t) /\ ~Upgrades(t) /\ ~Stores(t)
  BY <1>2 DEF Sizes, Upgrades, Stores, DeleteLabels
<1> QED
  BY <1>6, <1>7, <1>8, <1>9, <1>10 DEF WorkStep, Between

\* A step of a generation or an upgrade that stores its key.
LEMMA StoringRegister ==
    ASSUME AloneFacts, AloneFacts', NEW t \in Threads, WorkStep(t), \A u \in Threads \ {t} : Alike(u),
           pc[t] \in StoreLabels
    PROVE  RegisterStep
<1> USE DEF Moves
<1> DEFINE k == req[t].buf.key
<1>1. StoredFacts /\ StoredFacts' /\ Basics /\ Basics' /\ Paths = {"main", "bak"} /\ file \in [Paths -> Contents]
  BY StoredKeys, FileFacts, PTL DEF AloneFacts
<1>2. /\ pc[t] \in {"storeMain", "storeBak"} /\ pc[t] # "idle" /\ k \in 1 .. MaxKeys
      /\ req[t] \in Request /\ req[t].call \in {"generate", "get"}
      /\ req[t].call = "generate" => Deleting(t) /\ GoneFits(t)
      /\ req[t].call = "get" => UpgradeFits(t) /\ req[t].old = {}
  BY <1>1, RequestFacts DEF AloneFacts, GoneInv, SharedInv, Upgrading, StoreLabels
<1>3. \A u \in Threads \ {t} : pc[u] = "idle" /\ pc'[u] = "idle"
  BY <1>2 DEF AloneFacts, ChangesAlone, Changing, Alike
<1>4. /\ FileKeys \subseteq {k} /\ Stored = IF StoringNow(t) THEN {k} ELSE FileKeys
      /\ Pending = IF req[t].call = "generate" THEN {k} ELSE {}
      /\ FileKeys \in {{}, {k}} /\ Safe' \subseteq Stored'
  BY <1>1, <1>2 DEF StoredFacts
\* The key is in the main file where the backup is written.
<1>5. ASSUME file["main"] = req[t].buf PROVE FileKeys = {k}
  BY <1>1, <1>2, <1>4, <1>5 DEF FileKeys
<1>6. CASE Enters(t) \/ Opens(t) \/ Reads(t) \/ Writes(t) \/ Removes(t)
  <2>1. /\ pc'[t] = pc[t] /\ UNCHANGED <<keysMade, kept, doomed, dead>>
        /\ Enters(t) \/ Opens(t) \/ Writes(t)
    BY <1>2, <1>6 DEF Enters, Opens, Reads, Writes, Removes, Transfers, Unmoved, ReadLabels, RemoveLabels
  <2>2. req'[t].buf = req[t].buf /\ req'[t].call = req[t].call
    <3>1. CASE Enters(t)
      BY <3>1 DEF Enters
    <3>2. CASE Opens(t) \/ Writes(t)
      BY <1>2, <3>2, AccessLocals
    <3> QED
      BY <2>1, <3>1, <3>2
  <2>3. /\ FileKeys' \subseteq {k} /\ Stored' = IF StoringNow(t)' THEN {k} ELSE FileKeys'
        /\ Pending' = Pending
    BY <1>1, <1>2, <1>4, <2>1, <2>2 DEF StoredFacts
  <2>4. Stored \in {{}, {k}} /\ Stored' \in {{}, {k}}
    BY <1>4, <2>3
  <2>5. Safe' = Safe
    BY <2>1 DEF Safe
  <2>6. CASE Stored' \in {Stored, {}}
    BY <1>4, <2>1, <2>3, <2>5, <2>6, FadingStep
  <2>7. CASE Stored = {} /\ Stored' = {k} /\ req[t].call = "generate"
    BY <1>4, <2>1, <2>3, <2>5, <2>7 DEF RegisterStep, Register!RegNext, Register!Store
  <2>8. CASE Stored = {} /\ Stored' = {k} /\ req[t].call = "get"
    <3>1. FileKeys = {} /\ ~StoringNow(t)
      BY <1>4, <2>8
    <3>2. stage[t] \notin {"none", "created"}
      <4>1. \A p \in Paths : file[p].key # k
        BY <1>2, <3>1 DEF FileKeys
      <4> QED
        BY <1>1, <1>2, <2>8, <4>1 DEF UpgradeFits
    <3>3. Writes(t) /\ stage[t] = "writing"
      BY <1>1, <1>2, <2>1, <3>2
         DEF Enters, Opens, Writes, Transfers, Basics, StorageInv, LockedAtLabel, ReadLabels
    <3>4. req[t].failed
      BY <1>2, <3>1, <3>3 DEF StoringNow, StoreLabels
    <3>5. file' = file /\ stage'[t] = "unlocked"
      BY <3>3, <3>4 DEF Writes, Transfers
    <3>6. Stored' = FileKeys' /\ FileKeys' = FileKeys
      BY <2>3, <3>5 DEF StoringNow, FileKeys
    <3> QED
      BY <2>8, <3>1, <3>6
  <2> QED
    BY <1>2, <2>4, <2>6, <2>7, <2>8
\* The request ends.
<1>7. ASSUME pc'[t] = "idle", file' = file
      PROVE  Stored' = FileKeys /\ Pending' = {}
  <2>1. \A u \in Threads : pc'[u] = "idle"
    BY <1>3, <1>7
  <2>2. \A u \in Threads : ~StoringNow(u)'
    BY <2>1 DEF StoringNow, StoreLabels
  <2>3. FileKeys' = FileKeys
    BY <1>7 DEF FileKeys
  <2> QED
    BY <1>1, <2>1, <2>2, <2>3 DEF StoredFacts
<1>8. CASE Walks(t) /\ stage'[t] = "none"
  <2>1. pc'[t] = "storeBak" /\ Done(t) /\ req'[t] = req[t] /\ Unmoved
    BY <1>2, <1>8 DEF Walks, AfterBak
  <2>2. FileKeys' = FileKeys /\ Safe' = Safe /\ UNCHANGED <<keysMade, kept, dead>>
    BY <2>1 DEF FileKeys, Safe, Unmoved
  <2>3. Stored = FileKeys
    BY <1>4, <2>1 DEF StoringNow, Done
  <2>4. Stored' = FileKeys' /\ Pending' = Pending
    BY <1>1, <1>2, <1>4, <1>8, <2>1 DEF StoredFacts, StoringNow, StoreLabels
  <2> QED
    BY <2>2, <2>3, <2>4, HiddenStep
<1>9. CASE Answers(t)
  <2>1. Unmoved /\ pc'[t] = "idle"
    BY <1>9 DEF Answers
  <2>2. Stored' = FileKeys /\ Pending' = {} /\ Safe' = Safe /\ UNCHANGED <<keysMade, kept, dead>>
    BY <1>7, <2>1 DEF Unmoved, Safe
  <2>3. FileKeys \in {Stored, {}}
    BY <1>4
  <2> QED
    BY <1>4, <2>2, <2>3, FadingStep
<1>10. CASE Stores(t)
  <2>1. pc[t] = "storeBak" /\ pc'[t] = "idle" /\ stage[t] = "unlocked" /\ UNCHANGED <<file, keysMade>>
    BY <1>10 DEF Stores
  <2>2. FileKeys = {k}
    BY <1>2, <1>5, <2>1 DEF GoneFits, UpgradeFits, StoreLabels
  <2>3. Stored = {k} /\ Stored' = {k} /\ Pending' = {}
    BY <1>4, <1>7, <2>1, <2>2 DEF StoringNow
  <2>4. CASE req[t].call = "generate"
    <3>1. /\ Safe = {} /\ req[t].old = kept \ dead /\ ~req[t].clash /\ k \notin kept
          /\ doomed \subseteq kept /\ dead \subseteq kept
      BY <1>1, <1>2, <2>1, <2>4, FileFacts DEF GoneFits, AloneFacts, GoneInv, StoreLabels
    <3>2. kept' = kept \cup {k} /\ dead' = dead \cup req[t].old /\ doomed' = doomed
      BY <1>10, <2>4, <3>1 DEF Stores
    <3>3. dead' = kept /\ Safe' = {k}
      BY <3>1, <3>2 DEF Safe
    <3>4. Pending = {k}
      BY <1>4, <2>4
    <3> QED
      BY <2>1, <2>3, <3>2, <3>3, <3>4 DEF RegisterStep, Register!RegNext, Register!Answer
  <2>5. CASE req[t].call = "get"
    <3>1. UNCHANGED <<kept, doomed, dead>>
      BY <1>2, <1>10, <2>5 DEF Stores
    <3>2. Safe' = Safe /\ Pending = {}
      BY <1>4, <2>5, <3>1 DEF Safe
    <3> QED
      BY <2>1, <2>3, <3>1, <3>2, HiddenStep
  <2> QED
    BY <1>2, <2>4, <2>5
<1>11. ~Sizes(t) /\ ~Looks(t) /\ ~Cleans(t) /\ ~Upgrades(t) /\ ~Makes(t) /\ ~Forgets(t)
  BY <1>2 DEF Sizes, Looks, Cleans, Upgrades, Makes, Forgets
<1> QED
  BY <1>6, <1>8, <1>9, <1>10, <1>11 DEF WorkStep, Between

\* Every step while changes are alone.
LEMMA StepRegister == AloneFacts /\ AloneFacts' /\ StorageStep => RegisterStep
<1> SUFFICES ASSUME AloneFacts, AloneFacts', StorageStep PROVE RegisterStep
  OBVIOUS
<1>1. CASE Crashes
  BY <1>1, CrashRegister
<1>2. CASE UNCHANGED <<file, pc, req, keysMade, kept, doomed, dead, stage, path>>
  <2>1. \A k : InBuffer(k)' <=> InBuffer(k)
    BY <1>2 DEF InBuffer, Written
  <2>2. Stored' = Stored
    BY <1>2, <2>1 DEF Stored
  <2>3. Pending' = Pending /\ Safe' = Safe
    BY <1>2 DEF Pending, Safe
  <2> QED
    BY <1>2, <2>2, <2>3, HiddenStep
<1>3. ASSUME NEW t \in Threads, CallStep(t), \A u \in Threads \ {t} : Alike(u)
      PROVE  RegisterStep
  BY <1>3, CallRegister
<1>4. ASSUME NEW t \in Threads, WorkStep(t), \A u \in Threads \ {t} : Alike(u)
      PROVE  RegisterStep
  <2>1. pc[t] \in ExistLabels \cup GetLabels \cup StoreLabels \cup DeleteLabels \cup {"engine"}
    <3>1. Basics /\ pc[t] \in Labels
      BY DEF AloneFacts, Basics, TypeOK
    <3>2. pc[t] # "idle"
      BY <1>4, LabelKinds
         DEF WorkStep, Enters, Opens, Reads, Writes, Removes, ReadLabels, WriteLabels, RemoveLabels, Between,
             Walks, Sizes, Looks, Cleans, Upgrades, Makes, Answers, Forgets, Stores, Moves
    <3> QED
      BY <3>1, <3>2
         DEF Labels, AccessLabels, ReadLabels, WriteLabels, RemoveLabels,
             DeleteLabels, StoreLabels, ExistLabels, GetLabels, CopyLabels, RestoreLabels
  <2> QED
    BY <1>4, <2>1, ReadingRegister, StoringRegister, DeletingRegister
<1> QED
  BY <1>1, <1>2, <1>3, <1>4 DEF StorageStep

\* A new alias has no key, an old one the first.
LEMMA InitRegister == Init => Register!RegInit
<1> SUFFICES ASSUME Init PROVE Register!RegInit
  OBVIOUS
<1>1. /\ \A t \in Threads : pc[t] = "idle" /\ stage[t] = "none"
      /\ kept = 1 .. keysMade /\ doomed = {} /\ dead = {} /\ keysMade \in {0, 1}
  BY DEF Init, OnLoad
<1>2. Pending = {} /\ Safe = 1 .. keysMade
  BY <1>1 DEF Pending, StoreLabels, Safe
<1>3. \A k : ~InBuffer(k)
  BY <1>1 DEF InBuffer
<1>4. Stored = 1 .. keysMade
  <2>1. MaxKeys \in Nat /\ MaxKeys >= 1 /\ Paths = {"main", "bak"}
    BY StorageAssumption
  <2>2. CASE file = [p \in Paths |-> NoFile] /\ keysMade = 0
    BY <1>3, <2>1, <2>2, NoKeys DEF Stored
  <2>3. CASE /\ \E old \in {FALSE, OldVersions} : file = [p \in Paths |-> KeyBlob(1, old)]
             /\ keysMade = 1
    <3>1. \A p \in Paths : file[p].key = 1
      BY <2>3, NoKeys
    <3>2. Stored = {1}
      BY <1>3, <2>1, <3>1 DEF Stored
    <3> QED
      BY <2>3, <3>2
  <2> QED
    BY <2>2, <2>3 DEF Init
<1> QED
  BY <1>1, <1>2, <1>4 DEF Register!RegInit

(* Where changes do not overlap with other requests, the two files, what   *)
(* is copied, restored and upgraded between them, failing operations and   *)
(* crashes implement the register of a key: each step is one of its steps  *)
(* or does not show.                                                       *)
THEOREM RegisterImplemented == Spec /\ []ChangesAlone => ImplementsRegister
<1>1. AloneFacts /\ AloneFacts' /\ [Next]_vars => RegisterStep
  BY StorageSteps, StepRegister DEF AloneFacts, Basics
<1>2. AloneFacts <=> (Basics /\ GoneInv /\ SharedInv /\ ChangesAlone)
  BY DEF AloneFacts
<1> QED
  BY <1>1, <1>2, InitRegister, SpecShared, PTL
     DEF Spec, ImplementsRegister, Register!RegSpec, RegisterStep

-----------------------------------------------------------------------------
(* What the register promises follows from its own steps.                  *)

\* The key being made is a new one, and it is made while there is none.
RegisterInv ==
    /\ keysMade \in Nat
    /\ Pending \subseteq {keysMade} \cap (1 .. keysMade) /\ kept \subseteq 1 .. keysMade /\ dead \subseteq kept
    /\ Pending \cap kept = {}
    /\ Pending # {} => Stored \subseteq Pending /\ Safe = {}
    /\ Register!Reliable

(* A client of the register has one key at a time, finds the one that is   *)
(* promised, and never one that is gone.                                   *)
THEOREM RegisterReliable == ImplementsRegister => []Register!Reliable
<1> USE DEF RegisterInv, Register!Reliable
<1>1. Register!RegInit => RegisterInv
  <2> SUFFICES ASSUME Register!RegInit PROVE RegisterInv
    OBVIOUS
  <2>1. /\ keysMade \in {0, 1} /\ Stored = 1 .. keysMade /\ kept = Stored /\ Safe = Stored
        /\ Pending = {} /\ dead = {}
    BY DEF Register!RegInit
  <2>2. \A k, l \in 1 .. keysMade : k = l
    BY <2>1
  <2> QED
    BY <2>1, <2>2
<1>2. RegisterInv /\ RegisterStep => RegisterInv'
  <2> SUFFICES ASSUME RegisterInv, RegisterStep PROVE RegisterInv'
    OBVIOUS
  <2>1. CASE Register!Ask
    BY <2>1 DEF Register!Ask
  <2>2. CASE Register!Make
    <3>1. keysMade' = keysMade + 1 /\ Pending' = {keysMade + 1}
      BY <2>2 DEF Register!Make
    <3>2. UNCHANGED <<Stored, kept, Safe, dead>> /\ Stored = {} /\ Safe = {}
      BY <2>2 DEF Register!Make
    <3>3. keysMade + 1 \notin kept /\ kept \subseteq 1 .. (keysMade + 1) /\ keysMade + 1 \in Nat
      OBVIOUS
    <3> QED
      BY <3>1, <3>2, <3>3
  <2>3. CASE Register!Store
    BY <2>3 DEF Register!Store
  <2>4. CASE Register!Fade
    BY <2>4 DEF Register!Fade
  <2>5. CASE Register!Answer
    <3>1. /\ Pending # {} /\ Stored = Pending /\ dead' = kept /\ kept' = kept \cup Pending
          /\ Safe' = Pending /\ Pending' = {} /\ UNCHANGED <<Stored, keysMade>>
      BY <2>5 DEF Register!Answer
    <3>2. Pending = {keysMade} /\ keysMade \in 1 .. keysMade
      <4>1. Pending = {keysMade}
        BY <3>1
      <4> QED
        BY <4>1
    <3> QED
      BY <3>1, <3>2
  <2>6. CASE Register!Delete
    BY <2>6 DEF Register!Delete
  <2>7. CASE Register!Abandon
    BY <2>7 DEF Register!Abandon
  <2>8. CASE UNCHANGED Register!regVars
    BY <2>8 DEF Register!regVars
  <2> QED
    BY <2>1, <2>2, <2>3, <2>4, <2>5, <2>6, <2>7, <2>8 DEF RegisterStep, Register!RegNext
<1>3. RegisterInv => Register!Reliable
  OBVIOUS
<1> QED
  BY <1>1, <1>2, <1>3, PTL DEF ImplementsRegister, Register!RegSpec, RegisterStep
-----------------------------------------------------------------------------
(* A request that looks for a promised key.                                *)

\* At the labels that look at the backup it does not give up.
LEMMA BackupFound ==
    ASSUME Basics, SharedInv, NEW t \in Threads, NEW k \in Safe, Work(t),
           pc[t] \in {"existBak", "copySize", "getBak", "checkBak"}
    PROVE  pc'[t] # "idle"
<1>1. /\ pc[t] \in CopyLabels \cup RestoreLabels /\ pc[t] \notin AccessLabels /\ ReadingFits(t)
      /\ \A l : pc' = [pc EXCEPT ![t] = l] => pc'[t] = l
  BY LabelKinds DEF SharedInv, ExistLabels, GetLabels, CopyLabels, RestoreLabels, Basics, TypeOK
<1>2. Exists("bak") /\ HasSize("bak") /\ (pc[t] = "checkBak" => req[t].sized = file["bak"])
  <2>1. file["bak"].key = k /\ k # 0
    BY <1>1, SharedFacts, FileFacts DEF ReadingFits
  <2>2. file["bak"].kind = "key"
    BY <2>1, FileFacts
  <2> QED
    BY <1>1, <2>2 DEF Exists, HasSize, ReadingFits
<1>3. IsKeyBlobExist(t) \/ GetKeyFileData(t) \/ GetKeyBlobFromFile(t)
  BY <1>1 DEF Work, BeginAccess, Open, Transfer, DeleteKeyBlobMainExists, DeleteKeyBlobBakExists, CleanFile,
              FileCleaned, FileRemoved, Deleted, HuksAccessGenerateKey, MainStored, BakStored,
              CopyKeyBlobFromSrc, CheckAndUpgradeKeyIfNeed, FallBack, RestoreMain, LastAccess
<1>4. CASE IsKeyBlobExist(t)
  BY <1>1, <1>2, <1>4 DEF IsKeyBlobExist, Goto
<1>5. CASE GetKeyFileData(t)
  BY <1>1, <1>2, <1>5 DEF GetKeyFileData, Goto
<1>6. CASE GetKeyBlobFromFile(t)
  <2>1. pc[t] = "checkBak"
    BY <1>6 DEF GetKeyBlobFromFile
  <2> QED
    BY <1>1, <1>2, <1>6, <2>1 DEF GetKeyBlobFromFile, Goto
<1> QED
  BY <1>3, <1>4, <1>5, <1>6

\* What a request has at its end, if it had to turn to the backup.
LEMMA BackupHad ==
    ASSUME Basics, GoneInv, SharedInv, NEW t \in Threads, NEW k \in Safe,
           \/ pc[t] \in {"restore", "storeBak"}
           \/ pc[t] = "readBak" /\ Done(t)
    PROVE  req[t].buf.key = k
<1>1. \A p \in {"main", "bak"} : file[p].key \in {0, k}
  BY SharedFacts, FileFacts
<1>2. CASE pc[t] \in {"restore", "readBak"}
  <2>1. ReadingFits(t) /\ pc[t] \in RestoreLabels
    BY <1>2 DEF SharedInv, GetLabels, RestoreLabels
  <2>2. file["bak"].key = k
    BY <2>1, SharedFacts DEF ReadingFits
  <2> QED
    BY <1>2, <2>1, <2>2 DEF ReadingFits, Done
<1>3. CASE pc[t] = "storeBak"
  <2>1. /\ req[t].buf.key \in 1 .. MaxKeys /\ (~Deleting(t) => Upgrading(t)) /\ pc[t] # "idle"
    BY <1>3, RequestFacts DEF StoreLabels, Upgrading
  <2>2. ~Deleting(t)
    BY <2>1 DEF GoneInv, GoneFits
  <2>3. file["main"] = req[t].buf
    BY <1>3, <2>1, <2>2 DEF SharedInv, UpgradeFits
  <2> QED
    BY <1>1, <2>1, <2>3
<1> QED
  BY <1>2, <1>3

(* Where changes do not overlap with other requests, no request is told    *)
(* that there is no key while one is promised, and one that turned to the  *)
(* backup ends with the promised key.                                      *)
THEOREM PromisedKeyFound == Spec /\ []ChangesAlone => PromisedKeyIsFound
<1> DEFINE Found == \A t \in Threads, k \in Safe :
             pc'[t] = "idle" /\ crashes' = crashes =>
                 /\ pc[t] \notin {"existBak", "copySize", "getBak", "checkBak"}
                 /\ pc[t] \in {"restore", "storeBak"} \/ (pc[t] = "readBak" /\ Done(t)) =>
                       req[t].buf.key = k
<1>1. Basics /\ GoneInv /\ SharedInv /\ [Next]_vars => [Found]_vars
  <2> SUFFICES ASSUME Basics, GoneInv, SharedInv, Next, NEW t \in Threads, NEW k \in Safe,
                      pc'[t] = "idle", crashes' = crashes
               PROVE  /\ pc[t] \notin {"existBak", "copySize", "getBak", "checkBak"}
                      /\ pc[t] \in {"restore", "storeBak"} \/ (pc[t] = "readBak" /\ Done(t)) =>
                            req[t].buf.key = k
    OBVIOUS
  <2>1. Work(t) \/ pc[t] = "idle"
    <3>1. ~Crash
      <4>1. crashes \in Nat
        BY StorageAssumption DEF Basics, TypeOK
      <4> QED
        BY <4>1 DEF Crash
    <3>2. ASSUME NEW u \in Threads, Call(u) PROVE pc[t] = "idle"
      <4>1. pc[u] = "idle"
        BY <3>2 DEF Call
      <4>2. u # t => Alike(t)
        BY <3>2, CallSteps DEF Basics
      <4> QED
        BY <4>1, <4>2 DEF Alike
    <3>3. ASSUME NEW u \in Threads, Work(u), u # t PROVE pc[t] = "idle"
      <4>1. Alike(t)
        BY <3>3, WorkSteps DEF Basics
      <4> QED
        BY <4>1 DEF Alike
    <3> QED
      BY <3>1, <3>2, <3>3 DEF Next
  <2>2. pc[t] \notin {"existBak", "copySize", "getBak", "checkBak"}
    BY <2>1, BackupFound
  <2> QED
    BY <2>2, BackupHad
<1> QED
  BY <1>1, SpecShared, PTL DEF Spec, PromisedKeyIsFound
-----------------------------------------------------------------------------
(* Deletions alone, no errors and no crash: upgrades may overlap with each *)
(* other and with readers, whoever truncates the backup still has the key. *)

\* A thread that writes goes on to the end of its transfer.
LEMMA WritingEnds ==
    ASSUME Basics, NEW t \in Threads, Work(t), stage[t] = "writing"
    PROVE  Transfer(t)
<1>1. pc[t] \in AccessLabels
  BY DEF Basics, StorageInv, LockedAtLabel
<1>2. ~BeginAccess(t) /\ ~Open(t)
  BY DEF BeginAccess, Open, HksStorageFileLockCreate, HksStorageFileLockRead, HksStorageFileLockWrite
<1>3. ~HksStorageFileLockRelease(t)
  BY DEF HksStorageFileLockRelease
<1> QED
  BY <1>1, <1>2, <1>3, LabelKinds
     DEF Work, DeleteKeyBlobMainExists, DeleteKeyBlobBakExists, CleanFile, FileCleaned, FileRemoved, Deleted,
         HuksAccessGenerateKey, MainStored, BakStored, IsKeyBlobExist, CopyKeyBlobFromSrc, GetKeyFileData,
         GetKeyBlobFromFile, CheckAndUpgradeKeyIfNeed, FallBack, RestoreMain, LastAccess, EndAccess, FailAccess

\* A step at the label that stores the backup.
LEMMA BackupStored ==
    ASSUME Basics, CalmInv, ~IOErrors, NEW t \in Threads, WorkStep(t), pc'[t] = "storeBak"
    PROVE  /\ stage'[t] \notin {"none", "created"} => ~req'[t].failed
           /\ stage'[t] = "unlocked" => file'["bak"] = req[t].buf /\ req'[t].buf = req[t].buf
           /\ stage'[t] = "writing" => req'[t].buf = req[t].buf
<1>1. /\ req[t] \in Request /\ file \in [Paths -> Contents] /\ "bak" \in Paths /\ CalmFits(t)
      /\ stage[t] # "none" => path[t] = FileOf(pc[t])
  BY RequestFacts, FileFacts DEF CalmInv
<1>2. CASE Enters(t)
  BY <1>2 DEF Enters
<1>3. CASE Opens(t)
  <2>1. pc[t] = "storeBak" /\ stage'[t] \in {"reading", "writing"}
    BY <1>3 DEF Opens
  <2>2. Written(t) # Empty
    BY <1>1, <2>1, RequestFacts, NoKeys DEF Written, StoreLabels
  <2>3. req'[t].buf = req[t].buf /\ ~req'[t].failed
    BY <1>1, <1>3, <2>2, AccessLocals
  <2> QED
    BY <2>1, <2>3
<1>4. CASE Writes(t)
  <2>1. pc[t] = "storeBak" /\ stage[t] \in {"reading", "writing"} /\ stage'[t] = "unlocked"
    BY <1>4 DEF Writes, Transfers
  <2>2. ~req[t].failed /\ path[t] = "bak" /\ Written(t) = req[t].buf
    BY <1>1, <2>1, LabelKinds DEF CalmFits, Written
  <2>3. /\ req'[t].buf = req[t].buf /\ ~req'[t].failed
        /\ file' = [file EXCEPT !["bak"] = req[t].buf]
    BY <1>1, <1>4, <2>2, AccessLocals
  <2> QED
    BY <1>1, <2>1, <2>3
<1>5. CASE Reads(t) \/ Removes(t)
  BY <1>5 DEF Reads, Removes, Transfers, ReadLabels, RemoveLabels
<1>6. CASE stage'[t] = "none"
  BY <1>6
<1> QED
  BY <1>2, <1>3, <1>4, <1>5, <1>6 DEF WorkStep

\* A request that neither deletes nor generates promises and dooms no key.
LEMMA SafeStays ==
    ASSUME Basics, NEW t \in Threads, WorkStep(t), ~Deleting(t)
    PROVE  Safe' = Safe
<1>1. pc[t] \in StoreLabels => req[t].call = "get"
  BY RequestFacts
<1>2. kept' = kept /\ doomed' = doomed
  <2>1. CASE Stores(t)
    <3>1. req[t].call = "get"
      BY <1>1, <2>1 DEF Stores, StoreLabels, Moves
    <3> QED
      BY <2>1, <3>1 DEF Stores
  <2>2. CASE ~Stores(t)
    BY <2>2 DEF WorkStep, Enters, Opens, Reads, Writes, Removes, Transfers, Between, Walks, Sizes, Looks,
                Cleans, Upgrades, Makes, Answers, Forgets, Unmoved
  <2> QED
    BY <2>1, <2>2
<1> QED
  BY <1>2 DEF Safe

\* The step of a request that neither deletes nor generates.
LEMMA CalmReaders ==
    ASSUME Basics, Basics', CalmInv, ~IOErrors, NEW t \in Threads, Work(t), WorkStep(t), ~Deleting(t),
           pc[t] # "idle", \A u \in Threads \ {t} : Alike(u), NEW k \in Safe
    PROVE  /\ Safe' = Safe
           /\ \A p \in Paths : file'[p].key \in {0, k}
           /\ pc'[t] # "idle" => req'[t].buf.key \in {0, k}
           /\ \/ file'["bak"].key = k
              \/ \E u \in Threads : pc'[u] = "storeBak" /\ stage'[u] = "writing"
<1> USE DEF Moves
<1>1. /\ req[t] \in Request /\ file \in [Paths -> Contents] /\ Paths = {"main", "bak"} /\ CalmFits(t)
      /\ (stage[t] # "none" => path[t] = FileOf(pc[t])) /\ path[t] \in Paths /\ FileOf(pc[t]) \in Paths
      /\ req[t].buf.key \in {0, k} /\ \A p \in Paths : file[p].key \in {0, k}
  BY RequestFacts, FileFacts, FileOfPath DEF CalmInv, CalmFits
<1>2. /\ pc[t] \notin DeleteLabels /\ pc[t] # "engine"
      /\ pc[t] \in StoreLabels => req[t].call = "get" /\ req[t].buf.key = k
  <2>1. k # 0
    BY FileFacts
  <2> QED
    BY <1>1, <2>1, RequestFacts, StorageAssumption
<1>3. Safe' = Safe
  BY SafeStays
<1>4. \/ UNCHANGED file
      \/ /\ pc[t] \in WriteLabels \cup RemoveLabels /\ pc'[t] = pc[t]
         /\ \E c : /\ c \in {NoFile, Empty, Junk} \/ (pc[t] \in WriteLabels /\ c = Written(t))
                   /\ file' = [file EXCEPT ![FileOf(pc[t])] = c]
  <2>1. CASE Enters(t) \/ Opens(t) \/ Reads(t) \/ Writes(t) \/ Removes(t)
    BY <1>1, <2>1 DEF Enters, Opens, Reads, Writes, Removes, Transfers, Unmoved
  <2>2. CASE Between(t)
    BY <2>2 DEF Between, Walks, Sizes, Looks, Cleans, Upgrades, Makes, Answers, Forgets, Stores, Unmoved
  <2> QED
    BY <2>1, <2>2 DEF WorkStep
<1>5. \A p \in Paths : file'[p].key \in {0, k}
  <2>1. CASE UNCHANGED file
    BY <1>1, <2>1
  <2>2. ASSUME NEW c, pc[t] \in WriteLabels \cup RemoveLabels,
               c \in {NoFile, Empty, Junk} \/ (pc[t] \in WriteLabels /\ c = Written(t)),
               file' = [file EXCEPT ![FileOf(pc[t])] = c]
        PROVE  \A p \in Paths : file'[p].key \in {0, k}
    <3>1. c.key \in {0, k}
      BY <1>1, <2>2, WrittenKeys
    <3> QED
      BY <1>1, <2>2, <3>1
  <2> QED
    BY <1>4, <2>1, <2>2
<1>6. ASSUME pc'[t] # "idle" PROVE req'[t].buf.key \in {0, k}
  <2>1. CASE Enters(t) \/ Removes(t) \/ Walks(t)
    BY <1>1, <2>1 DEF Enters, Removes, Walks
  <2>2. CASE Opens(t) \/ Writes(t)
    BY <1>1, <2>2, AccessLocals
  <2>3. CASE Reads(t)
    <3>1. req'[t].buf \in {NoFile, Junk, file[path[t]]}
      BY <1>1, <2>3, AccessLocals
    <3> QED
      BY <1>1, <3>1, NoKeys
  <2>4. CASE Sizes(t) \/ Looks(t) \/ Cleans(t) \/ Upgrades(t)
    <3>1. req'[t].buf.key = req[t].buf.key
      BY <1>1, <2>4, StepLocals
    <3> QED
      BY <1>1, <3>1
  <2>5. CASE Makes(t) \/ Answers(t) \/ Forgets(t) \/ Stores(t)
    BY <1>2, <1>6, <2>5 DEF Makes, Answers, Forgets, Stores
  <2> QED
    BY <2>1, <2>2, <2>3, <2>4, <2>5 DEF WorkStep, Between
\* The backup is written only by who stores it.
<1>7. ASSUME pc[t] = "storeBak", pc'[t] = "storeBak"
      PROVE  \/ file'["bak"].key = k
             \/ \E u \in Threads : pc'[u] = "storeBak" /\ stage'[u] = "writing"
  <2>1. stage'[t] = "unlocked" => file'["bak"].key = k
    BY <1>2, <1>7, BackupStored DEF StoreLabels
  <2>2. stage'[t] # "reading"
    BY <1>7 DEF Basics, StorageInv, LockedAtLabel, ReadLabels
  <2>3. CASE Enters(t)
    <3>1. file' = file /\ \A u \in Threads : pc[u] = "storeBak" /\ stage[u] = "writing" => u # t
      BY <2>3 DEF Enters, Unmoved
    <3> QED
      BY <3>1 DEF CalmInv, Alike
  <2>4. CASE Opens(t)
    BY <1>7, <2>2, <2>4 DEF Opens
  <2>5. CASE Reads(t) \/ Writes(t) \/ Removes(t)
    BY <2>1, <2>5 DEF Reads, Writes, Removes, Transfers
  <2>6. CASE Between(t)
    BY <1>7, <2>6 DEF Between, Walks, Sizes, Looks, Cleans, Upgrades, Makes, Answers, Forgets, Stores, AfterBak
  <2> QED
    BY <2>3, <2>4, <2>5, <2>6 DEF WorkStep
<1>8. ASSUME ~(pc[t] = "storeBak" /\ pc'[t] = "storeBak")
      PROVE  \/ file'["bak"].key = k
             \/ \E u \in Threads : pc'[u] = "storeBak" /\ stage'[u] = "writing"
  <2>1. file'["bak"] = file["bak"]
    <3>1. ASSUME pc[t] \in WriteLabels \cup RemoveLabels, pc'[t] = pc[t] PROVE FileOf(pc[t]) = "main"
      BY <1>2, <1>8, <3>1, LabelKinds DEF DeleteLabels, WriteLabels, RemoveLabels
    <3> QED
      BY <1>1, <1>4, <3>1
  <2>2. ~(pc[t] = "storeBak" /\ stage[t] = "writing")
    <3> SUFFICES ASSUME pc[t] = "storeBak", stage[t] = "writing" PROVE FALSE
      OBVIOUS
    <3>1. Transfer(t)
      BY WritingEnds
    <3>2. pc'[t] = pc[t]
      BY <3>1 DEF Transfer
    <3> QED
      BY <1>8, <3>2
  <2> QED
    BY <2>1, <2>2 DEF CalmInv, Alike
<1> QED
  BY <1>3, <1>5, <1>6, <1>7, <1>8

\* The step of a deletion or generation: nothing is promised while it runs.
LEMMA CalmDeleting ==
    ASSUME Basics, GoneInv, CalmInv, ~IOErrors, NEW t \in Threads, WorkStep(t), Deleting(t)
    PROVE  /\ \A k \in Safe' : file'["bak"].key = k /\ \A p \in Paths : file'[p].key \in {0, k}
           /\ CalmFits(t)'
<1> USE DEF Moves
<1>1. /\ RequestFits(t) /\ GoneFits(t) /\ CalmFits(t) /\ req[t] \in Request /\ Safe = {}
      /\ req[t].call \in {"generate", "delete"} /\ ~req[t].clash
  BY RequestFacts DEF Deleting, GoneInv, CalmInv, GoneFits
<1>2. CASE Stores(t)
  <2>1. /\ pc[t] = "storeBak" /\ stage[t] = "unlocked" /\ pc'[t] = "idle" /\ file' = file
        /\ req[t].call = "generate"
    BY <1>1, <1>2 DEF Stores, RequestFits, StoreLabels
  <2>2. Safe' \subseteq {req[t].buf.key}
    BY <1>1, <1>2, <2>1 DEF Stores, Safe
  <2>3. file["bak"].key = req[t].buf.key /\ \A p \in Paths : file[p].key \in {0, req[t].buf.key}
    BY <1>1, <2>1 DEF CalmFits, GoneFits, StoreLabels
  <2> QED
    BY <2>1, <2>2, <2>3 DEF CalmFits
<1>3. CASE ~Stores(t)
  <2>1. Safe' = {}
    <3>1. kept' = kept /\ doomed' = doomed
      BY <1>3 DEF WorkStep, Enters, Opens, Reads, Writes, Removes, Transfers, Between, Walks, Sizes, Looks,
                  Cleans, Upgrades, Makes, Answers, Forgets, Unmoved
    <3> QED
      BY <1>1, <3>1 DEF Safe
  <2>2. pc'[t] = "storeBak" =>
           /\ stage'[t] \notin {"none", "created"} => ~req'[t].failed
           /\ stage'[t] = "unlocked" => file'["bak"].key = req'[t].buf.key
    BY BackupStored
  <2> QED
    BY <2>1, <2>2 DEF CalmFits
<1> QED
  BY <1>2, <1>3

\* A thread that does not step and is not generating.
LEMMA CalmOthers ==
    ASSUME NEW u \in Threads, CalmFits(u), Alike(u), ~Deleting(u) \/ file' = file, Safe' = Safe
    PROVE  CalmFits(u)'
BY DEF CalmFits, Alike, Deleting

\* Every step while deletions are alone and the service does not die.
LEMMA NextCalm ==
    ASSUME Basics, Basics', GoneInv, CalmInv, DeletionsAlone, DeletionsAlone', ~IOErrors, [Next]_vars, ~Crash
    PROVE  CalmInv'
<1>1. CASE UNCHANGED vars
  BY <1>1 DEF vars, lockVars, history, CalmInv, CalmFits, Safe
<1>2. ASSUME NEW t \in Threads, Call(t) PROVE CalmInv'
  <2>1. CallStep(t) /\ \A u \in Threads \ {t} : Alike(u)
    BY <1>2, CallSteps DEF Basics
  <2>2. /\ pc[t] = "idle" /\ pc'[t] \in {"delMain", "existMain", "getMain"} /\ file' = file
        /\ UNCHANGED stage
    BY <2>1 DEF CallStep, Reading, Removing, Unmoved
  <2>3. CASE Removing(t)
    <3>1. Safe' = {}
      BY <2>3 DEF Removing, Safe
    <3>2. ASSUME NEW u \in Threads PROVE CalmFits(u)'
      BY <2>1, <2>2, <3>1 DEF CalmInv, CalmFits, Alike
    <3> QED
      BY <3>1, <3>2 DEF CalmInv
  <2>4. CASE Reading(t)
    <3>1. Safe' = Safe /\ req'[t].buf = NoFile
      <4>1. req[t] = NoRequest
        BY <2>2 DEF Basics, RequestsFit, RequestFits
      <4> QED
        BY <2>4, <4>1 DEF Reading, NoRequest, Unmoved, Safe
    <3>2. CalmFits(t)'
      BY <2>2, <3>1, NoKeys DEF CalmFits
    <3>3. \A u \in Threads \ {t} : CalmFits(u)'
      BY <2>1, <2>2, <3>1, CalmOthers DEF CalmInv
    <3>4. \A u \in Threads : pc[u] = "storeBak" => pc'[u] = "storeBak" /\ stage'[u] = stage[u]
      BY <2>1, <2>2 DEF Alike
    <3> QED
      BY <2>2, <3>1, <3>2, <3>3, <3>4 DEF CalmInv
  <2> QED
    BY <2>1, <2>3, <2>4 DEF CallStep
<1>3. ASSUME NEW t \in Threads, Work(t) PROVE CalmInv'
  <2>1. WorkStep(t) /\ \A u \in Threads \ {t} : Alike(u)
    BY <1>3, WorkSteps DEF Basics
  <2>2. pc[t] # "idle"
    BY <2>1, LabelKinds
       DEF WorkStep, Enters, Opens, Reads, Writes, Removes, ReadLabels, WriteLabels, RemoveLabels, Between,
           Walks, Sizes, Looks, Cleans, Upgrades, Makes, Answers, Forgets, Stores, Moves
  <2>3. CASE Deleting(t)
    <3>1. ASSUME NEW u \in Threads \ {t} PROVE CalmFits(u)'
      <4>1. pc'[u] = "idle"
        BY <2>1, <2>3 DEF DeletionsAlone, Alike
      <4> QED
        BY <4>1 DEF CalmFits
    <3> QED
      BY <1>3, <2>1, <2>3, <3>1, CalmDeleting DEF CalmInv
  <2>4. CASE ~Deleting(t)
    <3>1. Safe' = Safe
      BY <2>1, <2>4, SafeStays
    <3>2. ASSUME NEW u \in Threads \ {t} PROVE CalmFits(u)'
      <4>1. CASE Deleting(u)
        BY <2>2, <4>1 DEF DeletionsAlone, Deleting
      <4>2. CASE ~Deleting(u)
        BY <2>1, <3>1, <4>2, CalmOthers DEF CalmInv
      <4> QED
        BY <4>1, <4>2
    <3>3. ASSUME NEW k \in Safe
          PROVE  /\ \A p \in Paths : file'[p].key \in {0, k}
                 /\ pc'[t] # "idle" => req'[t].buf.key \in {0, k}
                 /\ \/ file'["bak"].key = k
                    \/ \E u \in Threads : pc'[u] = "storeBak" /\ stage'[u] = "writing"
      BY <1>3, <2>1, <2>2, <2>4, <3>3, CalmReaders
    <3>4. CalmFits(t)'
      <4>1. pc'[t] = "storeBak" =>
               /\ stage'[t] \notin {"none", "created"} => ~req'[t].failed
               /\ stage'[t] = "unlocked" => file'["bak"].key = req'[t].buf.key
        BY <2>1, BackupStored
      <4> QED
        BY <3>1, <3>3, <4>1 DEF CalmFits
    <3> QED
      BY <3>1, <3>2, <3>3, <3>4 DEF CalmInv
  <2> QED
    BY <2>3, <2>4
<1> QED
  BY <1>1, <1>2, <1>3 DEF Next

\* At the start a key is in both files.
LEMMA InitCalm == Init => CalmInv
<1> SUFFICES ASSUME Init PROVE CalmInv
  OBVIOUS
<1>1. /\ keysMade \in {0, 1} /\ kept = 1 .. keysMade /\ Paths = {"main", "bak"}
      /\ \A t \in Threads : pc[t] = "idle"
  BY StorageAssumption DEF Init
<1>2. \A t \in Threads : CalmFits(t)
  BY <1>1 DEF CalmFits
<1>3. ASSUME NEW k \in Safe PROVE \A p \in Paths : file[p].key = k
  <2>1. k = 1 /\ keysMade # 0
    BY <1>1 DEF Safe
  <2>2. ASSUME NEW b \in BOOLEAN, file = [p \in Paths |-> KeyBlob(1, b)]
        PROVE  \A p \in Paths : file[p].key = 1
    BY <2>2, NoKeys
  <2> QED
    BY <2>1, <2>2, StorageAssumption DEF Init
<1> QED
  BY <1>1, <1>2, <1>3 DEF CalmInv

\* The backup, or the buffer of who stores it, has the promised key.
LEMMA CalmKept ==
    ASSUME Basics, CalmInv
    PROVE  KeyNeverLost
<1> SUFFICES ASSUME NEW k \in Safe PROVE InBuffer(k) \/ \E p \in Paths : file[p].key = k
  BY DEF KeyNeverLost, Safe
<1>1. CASE file["bak"].key = k
  BY <1>1, StorageAssumption
<1>2. ASSUME NEW t \in Threads, pc[t] = "storeBak", stage[t] = "writing" PROVE InBuffer(k)
  <2>1. req[t].buf.key = k /\ ~req[t].failed
    <3>1. req[t].buf.key \in 1 .. MaxKeys
      BY <1>2, RequestFacts DEF StoreLabels
    <3> QED
      BY <1>2, <3>1 DEF CalmInv, CalmFits
  <2> QED
    BY <1>2, <2>1 DEF InBuffer, Written
<1> QED
  BY <1>1, <1>2 DEF CalmInv

\* The invariant until the service dies.
CalmSoFar == crashes = 0 => CalmInv

(* Upgrades of one key may overlap with each other and with readers: as    *)
(* long as file operations do not fail and the service has not died, no    *)
(* stored key that nobody asked to delete is lost.  Of several requests    *)
(* that write over the two files at once one is the last to write the      *)
(* backup, and until then the key is in its buffer.                        *)
THEOREM KeptCalmly ==
    ASSUME ~IOErrors
    PROVE  Spec /\ []DeletionsAlone => [](crashes = 0 => KeyNeverLost)
<1>1. Init => CalmSoFar
  BY InitCalm DEF CalmSoFar
<1>2. Basics /\ Basics' /\ GoneInv /\ DeletionsAlone /\ DeletionsAlone' /\ CalmSoFar /\ [Next]_vars
         => CalmSoFar'
  <2> SUFFICES ASSUME Basics, Basics', GoneInv, DeletionsAlone, DeletionsAlone', CalmSoFar, [Next]_vars,
                      crashes' = 0
               PROVE  CalmInv'
    BY DEF CalmSoFar
  <2>1. crashes \in Nat
    BY StorageAssumption DEF Basics, TypeOK
  <2>2. ~Crash
    BY <2>1 DEF Crash
  <2>3. crashes = 0
    <3>1. CASE UNCHANGED vars
      BY <3>1 DEF vars
    <3>2. ASSUME NEW t \in Threads, Call(t) PROVE crashes' = crashes
      BY <3>2 DEF Call
    <3>3. ASSUME NEW t \in Threads, Work(t) PROVE crashes' = crashes
      BY <3>3 DEF Work, BeginAccess, Open, Transfer, DeleteKeyBlobMainExists, DeleteKeyBlobBakExists, CleanFile,
                  FileCleaned, FileRemoved, Deleted, HuksAccessGenerateKey, MainStored, BakStored,
                  IsKeyBlobExist, CopyKeyBlobFromSrc, GetKeyFileData, GetKeyBlobFromFile,
                  CheckAndUpgradeKeyIfNeed, FallBack, RestoreMain, LastAccess, EndAccess, FailAccess
    <3> QED
      BY <2>2, <3>1, <3>2, <3>3 DEF Next
  <2> QED
    BY <2>2, <2>3, NextCalm DEF CalmSoFar
<1>3. Basics /\ CalmSoFar => (crashes = 0 => KeyNeverLost)
  BY CalmKept DEF CalmSoFar
<1> QED
  BY <1>1, <1>2, <1>3, SpecBasics, SpecGone, PTL DEF Spec
=============================================================================

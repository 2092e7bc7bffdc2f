--------------------------- MODULE FileLocksProofs ---------------------------
(***************************************************************************)
(* The locks of the key files keep readers and writers of a file apart,    *)
(* for any number of threads, files and lock objects.                      *)
(***************************************************************************)
EXTENDS FileLocks, FiniteSetTheorems, TLAPS

(* Users of an object are finitely many: there are finitely many threads.  *)
LEMMA UsersFinite ==
    ASSUME NEW S \in SUBSET Threads
    PROVE  IsFiniteSet(S) /\ Cardinality(S) \in Nat
<1>1. IsFiniteSet(Threads)
  BY LockAssumption
<1>2. IsFiniteSet(S)
  BY <1>1, FS_Subset
<1> QED
  BY <1>2, FS_CardinalityType

(* The initial list of lock objects is empty (OnLoad).                     *)
LEMMA OnLoadLockInv == OnLoad => LockInv
<1> SUFFICES ASSUME OnLoad PROVE LockInv
  OBVIOUS
<1>1. AnyPath \in Paths
  BY LockAssumption DEF AnyPath
<1>2. LockTypeOK
  BY <1>1 DEF OnLoad, LockTypeOK, Freed, HksStorageFileLock, Stages
<1> QED
  BY <1>2 DEF OnLoad, LockInv, RefsExact, LocksLive, OneLockPerPath, LockOnlyInAccess,
              WriterAloneOnLock, NobodyUnlocked

(* A restart of the service leaves no lock object behind.                  *)
LEMMA ReloadLockInv == ASSUME LockInv, Reload PROVE LockInv'
<1>1. AnyPath \in Paths
  BY LockAssumption DEF AnyPath
<1>2. LockTypeOK'
  BY <1>1 DEF Reload, LockTypeOK, Freed, HksStorageFileLock, Stages
<1> QED
  BY <1>2 DEF Reload, LockInv, RefsExact, LocksLive, OneLockPerPath, LockOnlyInAccess,
              WriterAloneOnLock, NobodyUnlocked

(* Steps that only move a thread along: its object, the counts and the     *)
(* list stay, so all that can be disturbed is who has the lock.            *)
LEMMA StageStepLockInv ==
    ASSUME LockInv, NEW t \in Threads, NEW s \in Stages \ {"none"},
           stage[t] # "none",
           stage' = [stage EXCEPT ![t] = s],
           UNCHANGED <<lockList, fileLock, lock, path>>,
           s = "writing" => Holders(t, {"reading", "writing"}) = {},
           s = "reading" => Holders(t, {"writing"}) = {}
    PROVE  LockInv'
<1> USE DEF LockInv
<1>1. LockTypeOK'
  BY DEF LockTypeOK
<1>2. RefsExact'
  BY DEF RefsExact, Users
<1>3. LocksLive' /\ OneLockPerPath'
  BY DEF LocksLive, OneLockPerPath
<1>4. LockOnlyInAccess' /\ NobodyUnlocked'
  BY DEF LockOnlyInAccess, NobodyUnlocked, LockTypeOK
<1>5. WriterAloneOnLock'
  BY DEF WriterAloneOnLock, LockTypeOK, Holders
<1> QED
  BY <1>1, <1>2, <1>3, <1>4, <1>5

(* HksStorageFileLockCreate finds and counts the object, makes one, or     *)
(* leaves the thread without one.                                          *)
LEMMA CreateLockInv ==
    ASSUME LockInv, NEW t \in Threads, NEW p \in Paths, HksStorageFileLockCreate(t, p)
    PROVE  LockInv'
<1> USE DEF LockInv
<1>0. lock[t] = NoLock /\ NoLock \notin LockIds
  BY LockAssumption DEF HksStorageFileLockCreate, LockOnlyInAccess
<1>1. CASE \E l \in FindFileLock(p) :
              AddRef(l) /\ lock' = [lock EXCEPT ![t] = l] /\ UNCHANGED lockList
  <2>1. PICK l \in FindFileLock(p) :
              AddRef(l) /\ lock' = [lock EXCEPT ![t] = l] /\ UNCHANGED lockList
    BY <1>1
  <2>2. l \in lockList /\ fileLock[l].path = p /\ l \in LockIds
    BY DEF FindFileLock, LockTypeOK
  <2>3. LockTypeOK'
    BY <2>1, <2>2 DEF LockTypeOK, HksStorageFileLockCreate, AddRef, HksStorageFileLock, Stages
  <2>4. /\ \A m \in LockIds : fileLock'[m].path = fileLock[m].path
        /\ \A m \in LockIds \ {l} : fileLock'[m].ref = fileLock[m].ref
        /\ fileLock'[l].ref = fileLock[l].ref + 1
    BY <2>1, <2>2 DEF LockTypeOK, AddRef, HksStorageFileLock
  <2>5. Users(l)' = Users(l) \cup {t} /\ t \notin Users(l)
    BY <2>1, <2>2, <1>0 DEF Users, LockTypeOK
  <2>6. \A m \in LockIds \ {l} : Users(m)' = Users(m)
    BY <2>1, <2>2, <1>0 DEF Users, LockTypeOK
  <2>7. Cardinality(Users(l)') = Cardinality(Users(l)) + 1
    <3>1. IsFiniteSet(Users(l))
      BY UsersFinite DEF Users
    <3> QED
      BY <3>1, <2>5, FS_AddElement
  <2>8. RefsExact'
    <3> SUFFICES ASSUME NEW m \in lockList
                 PROVE  fileLock'[m].ref = Cardinality(Users(m)') /\ Users(m)' # {}
      BY <2>1 DEF RefsExact
    <3>1. CASE m = l
      BY <3>1, <2>2, <2>4, <2>5, <2>7 DEF RefsExact
    <3>2. CASE m # l
      BY <3>2, <2>4, <2>6 DEF RefsExact, LockTypeOK
    <3> QED
      BY <3>1, <3>2
  <2>9. LocksLive' /\ OneLockPerPath'
    BY <2>1, <2>2, <2>4 DEF LocksLive, OneLockPerPath, LockTypeOK, HksStorageFileLockCreate
  <2>10. LockOnlyInAccess' /\ NobodyUnlocked'
    BY <2>1, <2>2, <1>0 DEF LockOnlyInAccess, NobodyUnlocked, LockTypeOK, HksStorageFileLockCreate
  <2>11. WriterAloneOnLock'
    BY <2>1, <2>2 DEF WriterAloneOnLock, LockTypeOK, HksStorageFileLockCreate
  <2> QED
    BY <2>3, <2>8, <2>9, <2>10, <2>11
<1>2. CASE /\ FindFileLock(p) = {}
           /\ \E l \in LockIds \ lockList :
                 AppendFileLock(l, p) /\ lock' = [lock EXCEPT ![t] = l]
  <2>1. PICK l \in LockIds \ lockList :
              AppendFileLock(l, p) /\ lock' = [lock EXCEPT ![t] = l]
    BY <1>2
  <2>2. LockTypeOK'
    BY <2>1 DEF LockTypeOK, HksStorageFileLockCreate, AppendFileLock, HksStorageFileLock, Stages
  <2>3. /\ \A m \in LockIds \ {l} : fileLock'[m] = fileLock[m]
        /\ fileLock'[l].path = p /\ fileLock'[l].ref = 1
        /\ lockList' = lockList \cup {l}
    BY <2>1 DEF LockTypeOK, AppendFileLock
  <2>4. Users(l)' = {t}
    BY <2>1, <1>0 DEF Users, LockTypeOK, LocksLive
  <2>5. \A m \in LockIds \ {l} : Users(m)' = Users(m)
    BY <2>1, <1>0 DEF Users, LockTypeOK
  <2>6. RefsExact'
    <3> SUFFICES ASSUME NEW m \in lockList'
                 PROVE  fileLock'[m].ref = Cardinality(Users(m)') /\ Users(m)' # {}
      BY DEF RefsExact
    <3>1. CASE m = l
      <4>1. Cardinality({t}) = 1
        BY FS_Singleton
      <4> QED
        BY <3>1, <4>1, <2>3, <2>4
    <3>2. CASE m # l
      BY <3>2, <2>3, <2>5 DEF RefsExact, LockTypeOK
    <3> QED
      BY <3>1, <3>2
  <2>7. LocksLive'
    BY <2>1, <2>3, <1>0 DEF LocksLive, LockTypeOK, HksStorageFileLockCreate
  <2>8. OneLockPerPath'
    BY <1>2, <2>3 DEF OneLockPerPath, FindFileLock, LockTypeOK
  <2>9. LockOnlyInAccess' /\ NobodyUnlocked'
    BY <2>1, <1>0 DEF LockOnlyInAccess, NobodyUnlocked, LockTypeOK, HksStorageFileLockCreate
  <2>10. WriterAloneOnLock'
    BY <2>1 DEF WriterAloneOnLock, LockTypeOK, HksStorageFileLockCreate
  <2> QED
    BY <2>2, <2>6, <2>7, <2>8, <2>9, <2>10
<1>3. CASE MallocMayFail /\ UNCHANGED <<lockList, fileLock, lock>>
  <2>1. LockTypeOK'
    BY <1>3 DEF LockTypeOK, HksStorageFileLockCreate, Stages
  <2>2. RefsExact' /\ OneLockPerPath'
    BY <1>3 DEF RefsExact, OneLockPerPath, Users
  <2>3. LocksLive'
    BY <1>3, <1>0 DEF LocksLive, LockTypeOK, HksStorageFileLockCreate
  <2>4. LockOnlyInAccess' /\ NobodyUnlocked' /\ WriterAloneOnLock'
    BY <1>3, <1>0 DEF LockOnlyInAccess, NobodyUnlocked, WriterAloneOnLock, LockTypeOK,
                      HksStorageFileLockCreate
  <2> QED
    BY <2>1, <2>2, <2>3, <2>4
<1> QED
  BY <1>1, <1>2, <1>3 DEF HksStorageFileLockCreate

(* HksStorageFileLockRelease: the thread is no user any more; the object   *)
(* goes with its last user.                                                *)
LEMMA ReleaseLockInv ==
    ASSUME LockInv, NEW t \in Threads, HksStorageFileLockRelease(t)
    PROVE  LockInv'
<1> USE DEF LockInv
<1>0. /\ AnyPath \in Paths /\ NoLock \notin LockIds
      /\ lock' = [lock EXCEPT ![t] = NoLock]
      /\ stage' = [stage EXCEPT ![t] = "none"]
      /\ path' = [path EXCEPT ![t] = AnyPath]
  BY LockAssumption DEF AnyPath, HksStorageFileLockRelease
<1>1. LockOnlyInAccess' /\ NobodyUnlocked' /\ WriterAloneOnLock'
  BY <1>0 DEF LockOnlyInAccess, NobodyUnlocked, WriterAloneOnLock, LockTypeOK
<1>2. \A m \in LockIds \ {lock[t]} : Users(m)' = Users(m)
  BY <1>0 DEF Users, LockTypeOK
<1>3. CASE lock[t] \in lockList
  <2>0. PICK l \in LockIds : l = lock[t]
    BY <1>3 DEF LockTypeOK
  <2>1. Release(l) /\ l \in lockList
    BY <1>3, <2>0 DEF HksStorageFileLockRelease
  <2>2. Users(l)' = Users(l) \ {t} /\ t \in Users(l)
    BY <1>0, <2>0 DEF Users, LockTypeOK
  <2>3. /\ Cardinality(Users(l)') = Cardinality(Users(l)) - 1
        /\ IsFiniteSet(Users(l)') /\ Cardinality(Users(l)) \in Nat
    <3>1. IsFiniteSet(Users(l)) /\ Cardinality(Users(l)) \in Nat
      BY UsersFinite DEF Users
    <3> QED
      BY <3>1, <2>2, FS_RemoveElement
  <2>4. fileLock[l].ref = Cardinality(Users(l))
    BY <2>1 DEF RefsExact
  <2>5. CASE fileLock[l].ref = 1
    <3>1. lockList' = lockList \ {l} /\ fileLock' = [fileLock EXCEPT ![l] = Freed]
      BY <2>1, <2>5 DEF Release
    <3>2. Users(l)' = {}
      BY <2>3, <2>4, <2>5, FS_EmptySet
    <3>3. \A u \in Threads \ {t} : lock[u] # l
      BY <2>2, <3>2 DEF Users
    <3>4. LockTypeOK'
      BY <1>0, <2>1, <3>1 DEF LockTypeOK, Freed, HksStorageFileLock, Stages
    <3>5. RefsExact'
      BY <1>2, <2>0, <3>1 DEF RefsExact, LockTypeOK
    <3>6. LocksLive' /\ OneLockPerPath'
      BY <1>0, <3>1, <3>3 DEF LocksLive, OneLockPerPath, LockTypeOK
    <3> QED
      BY <1>1, <3>4, <3>5, <3>6
  <2>6. CASE fileLock[l].ref # 1
    <3>1. lockList' = lockList /\ fileLock' = [fileLock EXCEPT ![l].ref = @ - 1]
      BY <2>1, <2>6 DEF Release
    <3>2. /\ \A m \in LockIds : fileLock'[m].path = fileLock[m].path
          /\ \A m \in LockIds \ {l} : fileLock'[m].ref = fileLock[m].ref
          /\ fileLock'[l].ref = fileLock[l].ref - 1
      BY <2>1, <3>1 DEF LockTypeOK, HksStorageFileLock
    <3>3. fileLock[l].ref - 1 \in Nat \ {0}
      <4>1. Users(l) # {}
        BY <2>2
      <4>2. Cardinality(Users(l)) # 0
        <5>1. IsFiniteSet(Users(l))
          BY UsersFinite DEF Users
        <5> QED
          BY <5>1, <4>1, FS_EmptySet
      <4> QED
        BY <4>2, <2>3, <2>4, <2>6
    <3>4. LockTypeOK'
      BY <1>0, <2>1, <3>1, <3>3 DEF LockTypeOK, HksStorageFileLock, Stages
    <3>5. Users(l)' # {}
      <4>1. Cardinality(Users(l)') # 0
        BY <2>3, <2>4, <3>3
      <4> QED
        BY <4>1, FS_EmptySet
    <3>6. RefsExact'
      <4> SUFFICES ASSUME NEW m \in lockList
                   PROVE  fileLock'[m].ref = Cardinality(Users(m)') /\ Users(m)' # {}
        BY <3>1 DEF RefsExact
      <4>1. CASE m = l
        BY <4>1, <2>3, <2>4, <3>2, <3>5
      <4>2. CASE m # l
        BY <4>2, <1>2, <2>0, <3>2 DEF RefsExact, LockTypeOK
      <4> QED
        BY <4>1, <4>2
    <3>7. LocksLive' /\ OneLockPerPath'
      BY <1>0, <3>1, <3>2 DEF LocksLive, OneLockPerPath, LockTypeOK
    <3> QED
      BY <1>1, <3>4, <3>6, <3>7
  <2> QED
    BY <2>5, <2>6
<1>4. CASE lock[t] \notin lockList
  <2>1. UNCHANGED <<lockList, fileLock>> /\ lock[t] = NoLock
    BY <1>4 DEF HksStorageFileLockRelease, LocksLive
  <2>2. LockTypeOK'
    BY <1>0, <2>1 DEF LockTypeOK, Stages
  <2>3. RefsExact'
    BY <1>0, <1>2, <2>1 DEF RefsExact, LockTypeOK
  <2>4. LocksLive' /\ OneLockPerPath'
    BY <1>0, <2>1 DEF LocksLive, OneLockPerPath, LockTypeOK
  <2> QED
    BY <1>1, <2>2, <2>3, <2>4
<1> QED
  BY <1>3, <1>4

(* Every step of the locks keeps their invariant.                          *)
LEMMA LockNextLockInv == LockInv /\ [LockNext]_lockVars => LockInv'
<1> SUFFICES ASSUME LockInv, [LockNext]_lockVars PROVE LockInv'
  OBVIOUS
<1>1. CASE Reload
  BY <1>1, ReloadLockInv
<1>2. ASSUME NEW t \in Threads, NEW p \in Paths, HksStorageFileLockCreate(t, p)
      PROVE  LockInv'
  BY <1>2, CreateLockInv
<1>3. ASSUME NEW t \in Threads, HksStorageFileLockRead(t)
      PROVE  LockInv'
  BY <1>3, StageStepLockInv DEF HksStorageFileLockRead, Stages
<1>4. ASSUME NEW t \in Threads, HksStorageFileLockWrite(t)
      PROVE  LockInv'
  BY <1>4, StageStepLockInv DEF HksStorageFileLockWrite, Stages
<1>5. ASSUME NEW t \in Threads, HksStorageFileUnlock(t)
      PROVE  LockInv'
  BY <1>5, StageStepLockInv DEF HksStorageFileUnlock, Stages
<1>6. ASSUME NEW t \in Threads, HksStorageFileLockRelease(t)
      PROVE  LockInv'
  BY <1>6, ReleaseLockInv
<1>7. CASE UNCHANGED lockVars
  BY <1>7 DEF lockVars, LockInv, LockTypeOK, RefsExact, LocksLive, OneLockPerPath,
              LockOnlyInAccess, WriterAloneOnLock, NobodyUnlocked, Users
<1> QED
  BY <1>1, <1>2, <1>3, <1>4, <1>5, <1>6, <1>7 DEF LockNext, Access

(* A path has one object, so who is alone with the object is alone with    *)
(* the file.                                                               *)
LEMMA LockInvWriterAlone == LockInv => WriterAlone
  BY DEF LockInv, LocksLive, OneLockPerPath, WriterAloneOnLock, WriterAlone

(* The lock objects are counted exactly, live as long as they are used and *)
(* are never doubled, for any threads, paths and objects: the promise of   *)
(* HksStorageFileLockCreate and HksStorageFileLockRelease.                 *)
THEOREM LocksCorrect == LockSpec => []LockInv
<1>1. OnLoad => LockInv
  BY OnLoadLockInv
<1>2. LockInv /\ [LockNext]_lockVars => LockInv'
  BY LockNextLockInv
<1> QED
  BY <1>1, <1>2, PTL DEF LockSpec

(* A thread that locked a file for writing has the file for itself, for    *)
(* any threads, paths and objects.                                         *)
THEOREM WritersAlone == LockSpec => []WriterAlone
<1>1. LockInv => WriterAlone
  BY LockInvWriterAlone
<1> QED
  BY <1>1, LocksCorrect, PTL
=============================================================================

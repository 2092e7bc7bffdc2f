------------------------------ MODULE FileLocks ------------------------------
(***************************************************************************)
(* The locks of the key files (hks_storage_file_lock.c).  Every access to  *)
(* a file creates, or finds and counts, the lock object of its path, locks *)
(* it for reading or writing, and releases it afterwards; the last release *)
(* frees the object.  The list of objects is guarded by g_lockListLock,    *)
(* so HksStorageFileLockCreate and HksStorageFileLockRelease are one step  *)
(* each; the reader-writer lock inside an object is taken outside of it.   *)
(*                                                                         *)
(* An object's name is its address: it may be used again once it is freed. *)
(* Who has an object's reader-writer lock is recorded with the threads.    *)
(***************************************************************************)
EXTENDS Integers, FiniteSets

CONSTANTS
    Threads,       \* threads that access files
    Paths,         \* full names of the files
    LockIds,       \* addresses a lock object may have
    NoLock,        \* the NULL pointer
    MallocMayFail  \* whether the memory for a lock may be missing

ASSUME LockAssumption ==
    /\ IsFiniteSet(Threads)
    /\ NoLock \notin LockIds
    /\ Paths # {}
    /\ MallocMayFail \in BOOLEAN

VARIABLES
    lockList,  \* the objects in the list that begins at g_lockListFirst
    fileLock,  \* object -> its path and reference count
    lock,      \* thread -> its local pointer to an object
    path,      \* thread -> the file it accesses
    stage      \* thread -> how far its access is

lockVars == <<lockList, fileLock, lock, path, stage>>

Stages == {"none", "created", "reading", "writing", "unlocked"}

HksStorageFileLock == [path : Paths, ref : Nat]

LockTypeOK ==
    /\ lockList \subseteq LockIds
    /\ fileLock \in [LockIds -> HksStorageFileLock]
    /\ lock \in [Threads -> LockIds \cup {NoLock}]
    /\ path \in [Threads -> Paths]
    /\ stage \in [Threads -> Stages]

\* What memory that is no lock object, and a thread that accesses no file,
\* are taken to hold.
AnyPath == CHOOSE p \in Paths : TRUE

Freed == [path |-> AnyPath, ref |-> 0]

OnLoad ==
    /\ lockList = {}
    /\ fileLock = [l \in LockIds |-> Freed]
    /\ lock = [t \in Threads |-> NoLock]
    /\ path = [t \in Threads |-> AnyPath]
    /\ stage = [t \in Threads |-> "none"]

-----------------------------------------------------------------------------
FindFileLock(p) == {l \in lockList : fileLock[l].path = p}

\* Slip: an object that was found is not counted.
AddRefMissing(l) == UNCHANGED fileLock

AddRef(l) == fileLock' = [fileLock EXCEPT ![l].ref = @ + 1]

\* AllocFileLock and AppendFileLock.
AppendFileLock(l, p) ==
    /\ lockList' = lockList \cup {l}
    /\ fileLock' = [fileLock EXCEPT ![l] = [path |-> p, ref |-> 1]]

\* CreateStorageFileLock needs memory for the full path before it asks for
\* the object, and AllocFileLock for a new object: without it the pointer is
\* NULL, also when the path has an object.
HksStorageFileLockCreate(t, p) ==
    /\ stage[t] = "none"
    /\ \/ \E l \in FindFileLock(p) :
             /\ AddRef(l)
             /\ lock' = [lock EXCEPT ![t] = l]
             /\ UNCHANGED lockList
       \/ /\ FindFileLock(p) = {}
          /\ \E l \in LockIds \ lockList :
                AppendFileLock(l, p) /\ lock' = [lock EXCEPT ![t] = l]
       \/ /\ MallocMayFail
          /\ UNCHANGED <<lockList, fileLock, lock>>
    /\ path' = [path EXCEPT ![t] = p]
    /\ stage' = [stage EXCEPT ![t] = "created"]

\* Slip: whoever has the object stands in the way, waiting or not.
HoldersAnyUser(t, ways) ==
    {u \in Threads \ {t} : lock[t] # NoLock /\ lock[u] = lock[t]}

\* Slip: readers and writers do not exclude each other.
HoldersWritersOnly(t, ways) ==
    {u \in Threads \ {t} : lock[t] # NoLock /\ lock[u] = lock[t] /\ stage[u] = "writing"}

\* The threads that have the reader-writer lock of t's object in one of the
\* given ways.  Without an object nobody stands in the way.
Holders(t, ways) ==
    {u \in Threads \ {t} : lock[t] # NoLock /\ lock[u] = lock[t] /\ stage[u] \in ways}

HksStorageFileLockRead(t) ==
    /\ stage[t] = "created"
    /\ Holders(t, {"writing"}) = {}
    /\ stage' = [stage EXCEPT ![t] = "reading"]
    /\ UNCHANGED <<lockList, fileLock, lock, path>>

HksStorageFileLockWrite(t) ==
    /\ stage[t] = "created"
    /\ Holders(t, {"reading", "writing"}) = {}
    /\ stage' = [stage EXCEPT ![t] = "writing"]
    /\ UNCHANGED <<lockList, fileLock, lock, path>>

\* HksStorageFileUnlockRead, HksStorageFileUnlockWrite
HksStorageFileUnlock(t) ==
    /\ stage[t] \in {"reading", "writing"}
    /\ stage' = [stage EXCEPT ![t] = "unlocked"]
    /\ UNCHANGED <<lockList, fileLock, lock, path>>

\* Slip: the object is freed although somebody else has it.
ReleaseFrees(l) ==
    /\ lockList' = lockList \ {l}
    /\ fileLock' = [fileLock EXCEPT ![l] = Freed]

\* Uncount the object; take it out and free it when nobody is left.
Release(l) ==
    IF fileLock[l].ref = 1
    THEN /\ lockList' = lockList \ {l}
         /\ fileLock' = [fileLock EXCEPT ![l] = Freed]
    ELSE /\ fileLock' = [fileLock EXCEPT ![l].ref = @ - 1]
         /\ UNCHANGED lockList

HksStorageFileLockRelease(t) ==
    /\ stage[t] = "unlocked"
    /\ IF lock[t] \in lockList
       THEN Release(lock[t])
       ELSE UNCHANGED <<lockList, fileLock>>
    /\ lock' = [lock EXCEPT ![t] = NoLock]
    /\ stage' = [stage EXCEPT ![t] = "none"]
    /\ path' = [path EXCEPT ![t] = AnyPath]

\* The service starts again: nothing of this survives.
Reload ==
    /\ lockList' = {}
    /\ lock' = [t \in Threads |-> NoLock]
    /\ stage' = [t \in Threads |-> "none"]
    /\ fileLock' = [l \in LockIds |-> Freed]
    /\ path' = [t \in Threads |-> AnyPath]

-----------------------------------------------------------------------------
(* Threads that access any file in either way, as hks_storage.c does.      *)

Access(t) ==
    \/ \E p \in Paths : HksStorageFileLockCreate(t, p)
    \/ HksStorageFileLockRead(t)
    \/ HksStorageFileLockWrite(t)
    \/ HksStorageFileUnlock(t)
    \/ HksStorageFileLockRelease(t)

LockNext == Reload \/ \E t \in Threads : Access(t)

LockSpec == OnLoad /\ [][LockNext]_lockVars

-----------------------------------------------------------------------------
Users(l) == {t \in Threads : lock[t] = l}

(* The reference count of an object is the number of threads that have a   *)
(* pointer to it, so that the last of them frees it and no other.          *)
RefsExact ==
    \A l \in lockList : fileLock[l].ref = Cardinality(Users(l)) /\ Users(l) # {}

(* A thread's pointer leads to an object that has not been freed, or freed *)
(* and made again for another path, between creation and release.          *)
LocksLive ==
    \A t \in Threads : lock[t] # NoLock =>
        lock[t] \in lockList /\ fileLock[lock[t]].path = path[t]

(* A file has one lock object at a time.                                   *)
OneLockPerPath ==
    \A l, m \in lockList : fileLock[l].path = fileLock[m].path => l = m

(* Only a thread that is accessing a file has a lock object.               *)
LockOnlyInAccess == \A t \in Threads : stage[t] = "none" => lock[t] = NoLock

(* A thread that locked a file for writing has it for itself, also against *)
(* threads that created, found or freed the lock object of the file in the *)
(* meantime; unless it had to go on without one.                           *)
WriterAlone ==
    \A t, u \in Threads :
        /\ t # u /\ path[t] = path[u]
        /\ lock[t] # NoLock /\ lock[u] # NoLock
        /\ stage[t] = "writing"
        => stage[u] \notin {"reading", "writing"}

(* Writers and readers of one object, from which WriterAlone follows when  *)
(* a path has only one object.                                             *)
WriterAloneOnLock ==
    \A t, u \in Threads :
        t # u /\ lock[t] # NoLock /\ lock[u] = lock[t] /\ stage[t] = "writing"
        => stage[u] \notin {"reading", "writing"}

(* Without failing allocations everybody has an object.                    *)
NobodyUnlocked ==
    ~MallocMayFail => \A t \in Threads : stage[t] # "none" => lock[t] # NoLock

LockInv ==
    /\ LockTypeOK
    /\ RefsExact
    /\ LocksLive
    /\ OneLockPerPath
    /\ LockOnlyInAccess
    /\ WriterAloneOnLock
    /\ NobodyUnlocked
=============================================================================

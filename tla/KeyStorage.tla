----------------------------- MODULE KeyStorage -----------------------------
(***************************************************************************)
(* The two files of one key alias (hks_storage.c) and the requests that    *)
(* read and write them (hks_client_service.c): generating or importing a   *)
(* key, deleting it, asking whether it exists, and reading it for use,     *)
(* which upgrades a key of an old version and falls back to the backup.    *)
(* Aliases do not share files, so one is enough.                           *)
(*                                                                         *)
(* A thread's request is a walk over labels.  At the AccessLabels it       *)
(* reads, writes or removes a file under the file's lock: create the lock  *)
(* object, lock and open, transfer and unlock, release.  At the others it  *)
(* looks at a file without a lock, or calls the engine.                    *)
(***************************************************************************)
EXTENDS FileLocks

CONSTANTS
    Requests,    \* the kinds of requests clients make
    OldVersions, \* whether the first key may be of an old version
    IOErrors,    \* whether opening, writing and removing a file may fail
    MaxKeys,     \* bound: keys generated in a run
    MaxCrashes   \* bound: restarts of the service in a run

ASSUME StorageAssumption ==
    /\ Paths = {"main", "bak"}
    /\ Requests \subseteq {"generate", "delete", "exist", "get"}
    /\ OldVersions \in BOOLEAN
    /\ IOErrors \in BOOLEAN
    /\ MaxKeys \in Nat \ {0}
    /\ MaxCrashes \in Nat

VARIABLES
    file,     \* path -> what the file holds
    pc,       \* thread -> label
    req,      \* thread -> request and local variables
    keysMade, \* keys generated so far
    crashes,  \* restarts so far
    kept,     \* history: keys whose generation was answered with success
    doomed,   \* history: keys a deletion was asked for while they were kept
    dead      \* history: those whose deletion or replacement succeeded

history == <<kept, doomed, dead>>
vars == <<lockVars, file, pc, req, keysMade, crashes, history>>

NoFile == [kind |-> "none", key |-> 0, old |-> FALSE]
Empty == [kind |-> "empty", key |-> 0, old |-> FALSE]
Junk == [kind |-> "junk", key |-> 0, old |-> FALSE]
KeyBlob(k, old) == [kind |-> "key", key |-> k, old |-> old]

Contents ==
    [kind : {"none", "empty", "junk", "key"}, key : 0 .. MaxKeys, old : BOOLEAN]

\* The labels at which a file is accessed under its lock.
ReadLabels == {"readMain", "readBak", "copyRead"}
WriteLabels ==
    {"cleanBak", "cleanMain", "storeMain", "storeBak", "restore", "copyWrite"}
RemoveLabels == {"removeBak", "removeMain"}
AccessLabels == ReadLabels \cup WriteLabels \cup RemoveLabels

\* Slip: the key is stored in the main file twice.
BakLabelsNoStore == {"cleanBak", "removeBak", "readBak", "copyRead"}

BakLabels == {"cleanBak", "removeBak", "storeBak", "readBak", "copyRead"}

FileOf(l) == IF l \in BakLabels THEN "bak" ELSE "main"

Labels ==
    AccessLabels \cup
    {"idle", "delMain", "delBak", "sizeBak", "sizeMain", "deleted", "engine",
     "existMain", "existBak", "copySize", "getMain", "checkMain", "getBak", "checkBak"}

\* CleanFile writes zeros, then ones, then random bytes.
CleanWrites == 3

\* A request and its local variables: the blob in its buffer, the file whose
\* size the buffer was made for, DeleteKeyBlob's isMainFileExist, how often
\* CleanFile has written, and whether the access failed.  old and clash are
\* history: the keys there were when a deletion began, and whether another
\* deletion overlapped it.
Request ==
    [call : {"generate", "delete", "exist", "get"}, buf : Contents, sized : Contents,
     mainExists : BOOLEAN, cleans : 0 .. CleanWrites - 1, failed : BOOLEAN,
     old : SUBSET (0 .. MaxKeys), clash : BOOLEAN]

NoRequest ==
    [call |-> "get", buf |-> NoFile, sized |-> NoFile, mainExists |-> FALSE,
     cleans |-> 0, failed |-> FALSE, old |-> {}, clash |-> FALSE]

TypeOK ==
    /\ LockTypeOK
    /\ file \in [Paths -> Contents]
    /\ pc \in [Threads -> Labels]
    /\ req \in [Threads -> Request]
    /\ keysMade \in 0 .. MaxKeys
    /\ crashes \in 0 .. MaxCrashes
    /\ kept \in SUBSET (0 .. MaxKeys)
    /\ doomed \in SUBSET (0 .. MaxKeys)
    /\ dead \in SUBSET (0 .. MaxKeys)

\* The alias is new, or has a key in both files.
Init ==
    /\ OnLoad
    /\ \/ file = [p \in Paths |-> NoFile] /\ keysMade = 0
       \/ /\ \E old \in {FALSE, OldVersions} : file = [p \in Paths |-> KeyBlob(1, old)]
          /\ keysMade = 1
    /\ pc = [t \in Threads |-> "idle"]
    /\ req = [t \in Threads |-> NoRequest]
    /\ crashes = 0
    /\ kept = 1 .. keysMade
    /\ doomed = {}
    /\ dead = {}

-----------------------------------------------------------------------------
Exists(p) == file[p].kind # "none"

\* HksFileSize is not 0.
HasSize(p) == file[p].kind \notin {"none", "empty"}

\* Slip: the buffer is made for the main file whichever is read.
SizeBufferMain(t, p) == req' = [req EXCEPT ![t].sized = file["main"]]

\* A buffer of HksFileSize's bytes.
SizeBuffer(t, p) == req' = [req EXCEPT ![t].sized = file[p]]

Goto(t, l) == pc' = [pc EXCEPT ![t] = l]

Return(t) ==
    /\ Goto(t, "idle")
    /\ req' = [req EXCEPT ![t] = NoRequest]

Deleting(t) == pc[t] # "idle" /\ req[t].call \in {"generate", "delete"}

FirstLabel(call) ==
    CASE call \in {"generate", "delete"} -> "delMain"
      [] call = "exist" -> "existMain"
      [] call = "get" -> "getMain"

CallRead(t, call) ==
    /\ call \in {"exist", "get"}
    /\ req' = [req EXCEPT ![t].call = call]
    /\ UNCHANGED doomed

\* Generate and Delete begin with a deletion: from here on nothing is
\* promised about the keys there are, nor about those just being generated.
CallDelete(t, call) ==
    /\ call \in {"generate", "delete"}
    /\ LET overlap == {u \in Threads : Deleting(u)}
       IN  req' = [u \in Threads |->
                      IF u = t THEN [NoRequest EXCEPT !.call = call, !.old = kept \ dead,
                                                      !.clash = overlap # {}]
                      ELSE IF u \in overlap THEN [req[u] EXCEPT !.clash = TRUE]
                      ELSE req[u]]
    /\ doomed' = kept

Call(t) ==
    /\ pc[t] = "idle"
    /\ \E call \in Requests :
          /\ CallRead(t, call) \/ CallDelete(t, call)
          /\ Goto(t, FirstLabel(call))
    /\ UNCHANGED <<lockVars, file, keysMade, crashes, kept, dead>>

-----------------------------------------------------------------------------
(* Access to a file under its lock.                                        *)

\* CreateStorageFileLock
BeginAccess(t) ==
    /\ pc[t] \in AccessLabels
    /\ HksStorageFileLockCreate(t, FileOf(pc[t]))
    /\ UNCHANGED <<file, pc, req, keysMade, crashes, history>>

\* What is written: CleanFile's bytes leave no key.
Written(t) == IF pc[t] \in {"cleanBak", "cleanMain"} THEN Junk ELSE req[t].buf

\* Lock; then HksFileWrite refuses an empty blob, and fopen with "wb+"
\* empties the file.
Open(t) ==
    LET writes == pc[t] \in WriteLabels
        refused == writes /\ Written(t) = Empty
    IN  /\ pc[t] \in AccessLabels
        /\ IF pc[t] \in ReadLabels THEN HksStorageFileLockRead(t) ELSE HksStorageFileLockWrite(t)
        /\ \/ /\ ~refused
              /\ file' = IF writes THEN [file EXCEPT ![path[t]] = Empty] ELSE file
              /\ req' = [req EXCEPT ![t].failed = FALSE]
           \/ /\ refused \/ IOErrors
              /\ req' = [req EXCEPT ![t].failed = TRUE]
              /\ UNCHANGED file
        /\ UNCHANGED <<pc, keysMade, crashes, history>>

\* A buffer made for what was in the file before may be too short for a key.
HksFileRead(t) ==
    LET now == file[path[t]]
    IN  /\ pc[t] \in ReadLabels
        /\ \E got \in {now} \cup (IF now.kind = "key" /\ now # req[t].sized THEN {Junk} ELSE {}) :
              req' = [req EXCEPT ![t].buf = IF req[t].failed THEN NoFile ELSE got,
                                 ![t].sized = NoFile]
        /\ UNCHANGED file

HksFileWrite(t) ==
    /\ pc[t] \in WriteLabels
    /\ \/ /\ ~req[t].failed
          /\ file' = [file EXCEPT ![path[t]] = Written(t)]
          /\ UNCHANGED req
       \/ /\ ~req[t].failed /\ IOErrors
          /\ \E torn \in {Empty, Junk} : file' = [file EXCEPT ![path[t]] = torn]
          /\ req' = [req EXCEPT ![t].failed = TRUE]
       \/ req[t].failed /\ UNCHANGED <<file, req>>

HksFileRemove(t) ==
    /\ pc[t] \in RemoveLabels
    /\ file' = IF req[t].failed THEN file ELSE [file EXCEPT ![path[t]] = NoFile]
    /\ UNCHANGED req

\* Transfer and unlock.
Transfer(t) ==
    /\ pc[t] \in AccessLabels
    /\ HksStorageFileUnlock(t)
    /\ HksFileRead(t) \/ HksFileWrite(t) \/ HksFileRemove(t)
    /\ UNCHANGED <<pc, keysMade, crashes, history>>

\* Release the lock object and go on at l.
EndAccess(t, l) ==
    /\ HksStorageFileLockRelease(t)
    /\ Goto(t, l)
    /\ UNCHANGED <<file, keysMade, crashes>>

FailAccess(t) ==
    /\ HksStorageFileLockRelease(t)
    /\ Return(t)
    /\ UNCHANGED <<file, keysMade, crashes, history>>

-----------------------------------------------------------------------------
(* HksStoreDeleteKeyBlob: DeleteKeyBlob and HksStorageRemoveFile.          *)

DeleteKeyBlobMainExists(t) ==
    /\ pc[t] = "delMain"
    /\ req' = [req EXCEPT ![t].mainExists = Exists("main")]
    /\ Goto(t, "delBak")
    /\ UNCHANGED <<lockVars, file, keysMade, crashes, history>>

AfterBak(t) == IF req[t].mainExists THEN "sizeMain" ELSE "deleted"

\* Slip: a backup is removed only if there is no main file.
DeleteKeyBlobBakElseIf(t) ==
    /\ pc[t] = "delBak"
    /\ Goto(t, IF ~req[t].mainExists /\ Exists("bak") THEN "sizeBak" ELSE AfterBak(t))
    /\ UNCHANGED <<lockVars, file, req, keysMade, crashes, history>>

DeleteKeyBlobBakExists(t) ==
    /\ pc[t] = "delBak"
    /\ Goto(t, IF Exists("bak") THEN "sizeBak" ELSE AfterBak(t))
    /\ UNCHANGED <<lockVars, file, req, keysMade, crashes, history>>

\* CleanFile gives up on an empty file; the removal follows anyway.
CleanFile(t) ==
    /\ \/ pc[t] = "sizeBak" /\ Goto(t, IF HasSize("bak") THEN "cleanBak" ELSE "removeBak")
       \/ pc[t] = "sizeMain" /\ Goto(t, IF HasSize("main") THEN "cleanMain" ELSE "removeMain")
    /\ UNCHANGED <<lockVars, file, req, keysMade, crashes, history>>

\* Slip: one write too many.
FileCleanedOneMore(t) ==
    LET again == ~req[t].failed /\ req[t].cleans < CleanWrites
    IN  /\ pc[t] \in {"cleanBak", "cleanMain"}
        /\ EndAccess(t, IF again THEN pc[t]
                        ELSE IF pc[t] = "cleanBak" THEN "removeBak" ELSE "removeMain")
        /\ req' = [req EXCEPT ![t].cleans = IF again THEN @ + 1 ELSE 0]
        /\ UNCHANGED history

\* Three writes, each under the lock for itself; an error ends them.
FileCleaned(t) ==
    LET again == ~req[t].failed /\ req[t].cleans + 1 < CleanWrites
    IN  /\ pc[t] \in {"cleanBak", "cleanMain"}
        /\ EndAccess(t, IF again THEN pc[t]
                        ELSE IF pc[t] = "cleanBak" THEN "removeBak" ELSE "removeMain")
        /\ req' = [req EXCEPT ![t].cleans = IF again THEN @ + 1 ELSE 0]
        /\ UNCHANGED history

\* Slip: the result of HksStorageRemoveFile is not looked at.
FileRemovedUnchecked(t) ==
    /\ pc[t] \in {"removeBak", "removeMain"}
    /\ EndAccess(t, IF pc[t] = "removeBak" THEN AfterBak(t) ELSE "deleted")
    /\ UNCHANGED <<req, history>>

FileRemoved(t) ==
    /\ pc[t] \in {"removeBak", "removeMain"}
    /\ ~req[t].failed
    /\ EndAccess(t, IF pc[t] = "removeBak" THEN AfterBak(t) ELSE "deleted")
    /\ UNCHANGED <<req, history>>

\* HksServiceDeleteKey answers HKS_SUCCESS, or HKS_ERROR_NOT_EXIST if there
\* was no main file; CheckKeyCondition goes on with either.
Deleted(t) ==
    /\ pc[t] = "deleted"
    /\ dead' = IF req[t].call = "delete" /\ req[t].mainExists THEN dead \cup req[t].old ELSE dead
    /\ IF req[t].call = "delete"
       THEN Return(t)
       ELSE Goto(t, "engine") /\ UNCHANGED req
    /\ UNCHANGED <<lockVars, file, keysMade, crashes, kept, doomed>>

-----------------------------------------------------------------------------
(* HksServiceGenerateKey, HksServiceImportKey: the key, HksStoreKeyBlob.   *)

HuksAccessGenerateKey(t) ==
    /\ pc[t] = "engine"
    /\ \/ /\ keysMade < MaxKeys
          /\ keysMade' = keysMade + 1
          /\ req' = [req EXCEPT ![t].buf = KeyBlob(keysMade + 1, FALSE)]
          /\ Goto(t, "storeMain")
       \/ Return(t) /\ UNCHANGED keysMade
    /\ UNCHANGED <<lockVars, file, crashes, history>>

MainStored(t) ==
    /\ pc[t] = "storeMain"
    /\ ~req[t].failed
    /\ EndAccess(t, "storeBak")
    /\ UNCHANGED <<req, history>>

\* A backup that could not be written is only logged.  Generate answers:
\* its key is kept, and in no danger if no other deletion overlapped; the
\* keys before it are gone.
BakStored(t) ==
    /\ pc[t] = "storeBak"
    /\ HksStorageFileLockRelease(t)
    /\ Return(t)
    /\ LET new == IF req[t].call = "generate" THEN {req[t].buf.key} ELSE {}
       IN  /\ kept' = kept \cup new
           /\ dead' = dead \cup req[t].old
           /\ doomed' = IF req[t].clash THEN doomed \cup new ELSE doomed
    /\ UNCHANGED <<file, keysMade, crashes>>

-----------------------------------------------------------------------------
(* IsKeyBlobExist: a missing main file is copied from the backup.          *)

IsKeyBlobExist(t) ==
    /\ \/ pc[t] = "existMain" /\ (IF Exists("main") THEN Return(t)
                                  ELSE Goto(t, "existBak") /\ UNCHANGED req)
       \/ pc[t] = "existBak" /\ (IF Exists("bak") THEN Goto(t, "copySize") /\ UNCHANGED req
                                 ELSE Return(t))
       \/ pc[t] = "copySize" /\ (IF HasSize("bak") THEN Goto(t, "copyRead") /\ SizeBuffer(t, "bak")
                                 ELSE Return(t))
    /\ UNCHANGED <<lockVars, file, keysMade, crashes, history>>

CopyKeyBlobFromSrc(t) ==
    /\ pc[t] = "copyRead"
    /\ req[t].buf # NoFile
    /\ EndAccess(t, "copyWrite")
    /\ UNCHANGED <<req, history>>

-----------------------------------------------------------------------------
(* Reading a key for use: GetKeyData on the main file; on the backup, if   *)
(* that is missing, empty or corrupt.                                      *)

\* HksManageStoreGetKeyBlobSize.
GetKeyFileData(t) ==
    /\ \/ /\ pc[t] = "getMain" /\ HasSize("main")
          /\ Goto(t, "checkMain")
          /\ SizeBuffer(t, "main")
       \/ /\ pc[t] = "getMain" /\ ~HasSize("main")
          /\ Goto(t, "getBak")
          /\ UNCHANGED req
       \/ /\ pc[t] = "getBak" /\ HasSize("bak")
          /\ Goto(t, "checkBak")
          /\ SizeBuffer(t, "bak")
       \/ /\ pc[t] = "getBak" /\ ~HasSize("bak")
          /\ Return(t)
    /\ UNCHANGED <<lockVars, file, keysMade, crashes, history>>

\* GetKeyBlobFromFile asks for the size again; a file that has changed may
\* be too large for the buffer.
GetKeyBlobFromFile(t) ==
    LET p == IF pc[t] = "checkMain" THEN "main" ELSE "bak"
    IN  /\ pc[t] \in {"checkMain", "checkBak"}
        /\ \/ /\ HasSize(p)
              /\ Goto(t, IF p = "main" THEN "readMain" ELSE "readBak")
              /\ UNCHANGED req
           \/ HasSize(p) /\ file[p] # req[t].sized /\ Return(t)
           \/ /\ ~HasSize(p) /\ p = "main"
              /\ Goto(t, "getBak")
              /\ req' = [req EXCEPT ![t].sized = NoFile]
           \/ ~HasSize(p) /\ p = "bak" /\ Return(t)
        /\ UNCHANGED <<lockVars, file, keysMade, crashes, history>>

\* CheckAndUpgradeKeyIfNeed: an old key is stored again in the new version.
CheckAndUpgradeKeyIfNeed(t) ==
    /\ pc[t] \in {"readMain", "restore"}
    /\ req[t].buf.kind = "key" /\ req[t].buf.old
    /\ req' = [req EXCEPT ![t].buf.old = FALSE]
    /\ EndAccess(t, "storeMain")
    /\ UNCHANGED history

\* HKS_ERROR_CORRUPT_FILE from the main file.
FallBack(t) ==
    /\ pc[t] = "readMain"
    /\ req[t].buf.kind \in {"empty", "junk"}
    /\ EndAccess(t, "getBak")
    /\ UNCHANGED <<req, history>>

\* HksManageStoreGetKeyBlob writes what it read to the main file.
RestoreMain(t) ==
    /\ pc[t] = "readBak"
    /\ req[t].buf # NoFile
    /\ EndAccess(t, "restore")
    /\ UNCHANGED <<req, history>>

\* The request ends with this access: the key is used, in the version it
\* has or after an upgrade that failed, or it was copied, or there is none,
\* or it is corrupt in both files or in another way than
\* HKS_ERROR_CORRUPT_FILE, or an access failed.
LastAccess(t) ==
    /\ \/ pc[t] \in {"removeBak", "removeMain", "storeMain"} /\ req[t].failed
       \/ pc[t] \in {"copyRead", "readBak"} /\ req[t].buf = NoFile
       \/ pc[t] \in {"copyWrite", "readMain", "restore"}
    /\ FailAccess(t)

-----------------------------------------------------------------------------
\* The service dies and starts again: a file that was being written is torn.
Crash ==
    /\ crashes < MaxCrashes
    /\ crashes' = crashes + 1
    /\ Reload
    /\ LET torn == {p \in Paths : file[p] = Empty}
       IN  \E left \in [torn -> {Empty, Junk}] :
              file' = [p \in Paths |-> IF p \in torn THEN left[p] ELSE file[p]]
    /\ pc' = [t \in Threads |-> "idle"]
    /\ req' = [t \in Threads |-> NoRequest]
    /\ UNCHANGED <<keysMade, history>>

Work(t) ==
    \/ BeginAccess(t) \/ Open(t) \/ Transfer(t)
    \/ DeleteKeyBlobMainExists(t) \/ DeleteKeyBlobBakExists(t) \/ CleanFile(t)
    \/ FileCleaned(t) \/ FileRemoved(t) \/ Deleted(t)
    \/ HuksAccessGenerateKey(t) \/ MainStored(t) \/ BakStored(t)
    \/ IsKeyBlobExist(t) \/ CopyKeyBlobFromSrc(t)
    \/ GetKeyFileData(t) \/ GetKeyBlobFromFile(t) \/ CheckAndUpgradeKeyIfNeed(t) \/ FallBack(t)
    \/ RestoreMain(t) \/ LastAccess(t)

Next == Crash \/ \E t \in Threads : Call(t) \/ Work(t)

Spec == Init /\ [][Next]_vars

\* A request that has begun goes on.
FairSpec == Spec /\ \A t \in Threads : WF_vars(Work(t))

-----------------------------------------------------------------------------
(* A key whose deletion or replacement was answered with success is in no  *)
(* file, now and ever after.                                               *)
DeletedStaysDeleted == \A p \in Paths : file[p].key \notin dead

\* Between HksFileWrite's fopen and fwrite a key is in the buffer only.
InBuffer(k) == \E t \in Threads : stage[t] = "writing" /\ Written(t).key = k /\ ~req[t].failed

(* A key that was stored and that nobody asked to delete is in one of the  *)
(* files or just being written again, whatever crashes, restores and       *)
(* upgrades happen.                                                        *)
KeyNeverLost == \A k \in kept \ doomed : InBuffer(k) \/ \E p \in Paths : file[p].key = k

(* A file is torn only by a crash, by an error or for want of memory for a *)
(* lock object: else nobody reads a file that is just being written.       *)
NoTornRead ==
    ~IOErrors /\ ~MallocMayFail /\ crashes = 0 =>
        \A t \in Threads : req[t].buf.kind # "empty"

(* When no more requests come, those there are are answered: threads that  *)
(* wait for each other's files do not wait forever.                        *)
RequestsComplete ==
    <>[][\A t \in Threads : ~Call(t)]_vars => <>[](\A t \in Threads : pc[t] = "idle")

-----------------------------------------------------------------------------
(* Why the two hold, and where.  A restore, a copy or an upgrade writes a  *)
(* key from a buffer that was filled earlier: it is the one thing that can *)
(* bring back a key or write over the last copy of one.                    *)

DeleteLabels ==
    {"delMain", "delBak", "sizeBak", "cleanBak", "removeBak",
     "sizeMain", "cleanMain", "removeMain", "deleted"}
StoreLabels == {"storeMain", "storeBak"}
CopyLabels == {"existBak", "copySize", "copyRead", "copyWrite"}
RestoreLabels == {"getBak", "checkBak", "readBak", "restore"}
ExistLabels == {"existMain"} \cup CopyLabels
GetLabels == {"getMain", "checkMain", "readMain"} \cup RestoreLabels

\* Contents that some write of the service, or an interrupted one, leaves
\* when the given number of keys has been made.
Formed(c, made) == c \in {NoFile, Empty, Junk} \/ (c.kind = "key" /\ c.key \in 1 .. made)

RequestFits(t) ==
    /\ stage[t] # "none" => pc[t] \in AccessLabels /\ path[t] = FileOf(pc[t])
    /\ pc[t] = "idle" => req[t] = NoRequest
    /\ pc[t] \in DeleteLabels => req[t].call \in {"generate", "delete"}
    /\ pc[t] = "engine" => req[t].call = "generate"
    /\ pc[t] \in StoreLabels =>
          req[t].call \in {"generate", "get"} /\ req[t].buf.kind = "key" /\ ~req[t].buf.old
    /\ pc[t] \in ExistLabels => req[t].call = "exist"
    /\ pc[t] \in GetLabels => req[t].call = "get"
    /\ req[t].old \subseteq (IF req[t].call \in {"generate", "delete"} THEN kept ELSE {})
    /\ Formed(req[t].buf, keysMade)

RequestsFit ==
    /\ \A p \in Paths : Formed(file[p], keysMade)
    /\ kept \subseteq 1 .. keysMade /\ dead \subseteq kept
    /\ \A t \in Threads : RequestFits(t)

\* Without generation and upgrades no key ever comes into a file: the backup
\* is damaged before the main file, so there is nothing left to restore.
NothingStored(t) ==
    /\ req[t].call # "generate" /\ pc[t] \notin StoreLabels /\ ~req[t].buf.old
    /\ pc[t] \in CopyLabels \cup RestoreLabels =>
          file["main"].key = 0 /\ req[t].buf.key = 0
    /\ pc[t] \in {"existMain", "getMain", "checkMain"} => req[t].buf = NoFile
    /\ pc[t] \in {"checkMain", "readMain"} =>
          \/ file["main"].key = 0
          \/ stage[t] # "unlocked" /\ req[t].sized = file["main"] /\ req[t].buf = NoFile
          \/ stage[t] = "unlocked" /\ req[t].buf.kind \notin {"empty", "junk"}
    /\ pc[t] \in {"sizeMain", "cleanMain", "removeMain", "deleted"} => file["bak"].key = 0
    /\ pc[t] = "deleted" /\ req[t].mainExists => file["main"].key = 0
    /\ stage[t] = "unlocked" /\ ~req[t].failed =>
          /\ pc[t] = "removeBak" => file["bak"].key = 0
          /\ pc[t] = "removeMain" => file["main"].key = 0

DeleteInv ==
    /\ \A p \in Paths : ~file[p].old
    /\ file["main"].key = 0 => file["bak"].key = 0
    /\ dead # {} => file["main"].key = 0
    /\ \A t \in Threads : NothingStored(t)

\* Without errors and upgrades a key that nobody deletes is in the backup:
\* only a deletion or a generation writes there.
BackupFits(t) ==
    /\ ~req[t].buf.old
    /\ pc[t] \in StoreLabels => req[t].call = "generate"
    /\ Deleting(t) => kept \subseteq doomed
    /\ \A u \in Threads \ {t} : Deleting(t) /\ Deleting(u) => req[t].clash
    /\ pc[t] = "storeBak" /\ stage[t] \notin {"none", "created"} => ~req[t].failed
    /\ pc[t] = "storeBak" /\ stage[t] = "unlocked" /\ ~req[t].clash =>
          file["bak"].key = req[t].buf.key

BackupInv ==
    /\ \A p \in Paths : ~file[p].old
    /\ \A k \in kept \ doomed : file["bak"].key = k
    /\ \A t \in Threads : BackupFits(t)

\* Deletions and generations have the alias for themselves: the other
\* requests, with all they copy, restore and upgrade, overlap as they like.
DeletionsAlone == \A t, u \in Threads : Deleting(t) /\ pc[u] # "idle" => t = u

\* Upgrades, which store a key too, have it for themselves as well.
Changing(t) == Deleting(t) \/ pc[t] \in StoreLabels

ChangesAlone == \A t, u \in Threads : Changing(t) /\ pc[u] # "idle" => t = u

OneAtATime == \A t, u \in Threads : pc[t] # "idle" /\ pc[u] # "idle" => t = u

Safe == kept \ doomed

Done(t) == stage[t] = "unlocked" /\ ~req[t].failed

\* What a deletion left is what its answer and a generation find, and nobody
\* has a key that is gone in a buffer.
GoneFits(t) ==
    /\ req[t].buf.key \notin dead
    /\ Deleting(t) => Safe = {} /\ req[t].old = kept \ dead /\ ~req[t].clash
    /\ pc[t] \in DeleteLabels \cup {"engine"} => req[t].buf = NoFile
    /\ pc[t] \in {"delBak", "sizeBak", "cleanBak", "removeBak"} =>
          req[t].mainExists = Exists("main")
    /\ \/ pc[t] \in {"sizeMain", "cleanMain", "removeMain", "deleted", "engine"}
       \/ pc[t] = "removeBak" /\ Done(t)
       => ~Exists("bak")
    /\ pc[t] \in {"deleted", "engine"} \/ (pc[t] = "removeMain" /\ Done(t)) => ~Exists("main")
    /\ pc[t] \in StoreLabels /\ req[t].call = "generate" =>
          /\ req[t].buf.key \notin kept
          /\ \A p \in Paths : file[p].key \in {0, req[t].buf.key}
          /\ pc[t] = "storeBak" \/ Done(t) => file["main"] = req[t].buf

GoneInv ==
    /\ \A p \in Paths : file[p].key \notin dead
    /\ doomed \subseteq kept
    /\ \A t \in Threads : pc[t] # "idle" => GoneFits(t)

\* While nothing fails, a promised key is in the backup or just being stored
\* there, whoever else stores it at the same time.
CalmFits(t) ==
    /\ \A k \in Safe : pc[t] # "idle" => req[t].buf.key \in {0, k}
    /\ pc[t] = "storeBak" /\ stage[t] \notin {"none", "created"} => ~req[t].failed
    /\ pc[t] = "storeBak" /\ req[t].call = "generate" /\ stage[t] = "unlocked" =>
          file["bak"].key = req[t].buf.key

CalmInv ==
    /\ \A k \in Safe :
          /\ \A p \in Paths : file[p].key \in {0, k}
          /\ \/ file["bak"].key = k
             \/ \E t \in Threads : pc[t] = "storeBak" /\ stage[t] = "writing"
    /\ \A t \in Threads : CalmFits(t)

\* The main file has no key that the backup has not.
Spare == file["main"].key \in {0, file["bak"].key}

\* A request writes a copy of the backup only where the main file has
\* nothing more, and the backup is not written meanwhile.
ReadingFits(t) ==
    /\ req[t].buf.key = 0 \/ \E p \in Paths : file[p].key = req[t].buf.key
    /\ pc[t] \in CopyLabels \cup RestoreLabels => Spare /\ req[t].buf.key \in {0, file["bak"].key}
    /\ pc[t] \in {"existMain", "getMain", "checkMain"} => req[t].buf = NoFile
    /\ pc[t] = "checkMain" \/ (pc[t] = "readMain" /\ stage[t] # "unlocked") =>
          Spare \/ req[t].sized = file["main"]
    /\ pc[t] = "readMain" => Spare \/ req[t].buf \in {NoFile, file["main"]}
    /\ pc[t] = "checkBak" \/ (pc[t] = "readBak" /\ stage[t] # "unlocked") =>
          req[t].sized = file["bak"]
    /\ pc[t] = "readBak" /\ stage[t] = "unlocked" =>
          req[t].buf = IF req[t].failed THEN NoFile ELSE file["bak"]
    /\ pc[t] = "restore" => req[t].buf = file["bak"]

\* An upgrade writes the main file while the backup has the key, then the
\* backup while the main file has it.
UpgradeFits(t) ==
    /\ \A p \in Paths : file[p].key \in {0, req[t].buf.key}
    /\ pc[t] = "storeMain" => \A k \in Safe : file["bak"].key = k
    /\ pc[t] = "storeMain" /\ stage[t] \in {"none", "created"} =>
          \E p \in Paths : file[p].key = req[t].buf.key
    /\ pc[t] = "storeBak" \/ Done(t) => file["main"] = req[t].buf

Upgrading(t) == pc[t] \in StoreLabels /\ req[t].call = "get"

SharedInv ==
    /\ \A p, q \in Paths : file[p].key # 0 /\ file[q].key # 0 => file[p].key = file[q].key
    /\ \A k \in Safe : \E p \in Paths : file[p].key = k
    /\ file["main"].old /\ file["main"].key \in Safe => file["bak"].key = file["main"].key
    /\ \A t \in Threads :
          /\ pc[t] \in ExistLabels \cup GetLabels => ReadingFits(t)
          /\ Upgrading(t) => UpgradeFits(t)

-----------------------------------------------------------------------------
(* What all this is for.                                                   *)

\* The keys that can be read or recovered, and the one that was made and
\* whose generation was not answered yet.
Stored == {k \in 1 .. MaxKeys : InBuffer(k) \/ \E p \in Paths : file[p].key = k}

Pending ==
    {req[t].buf.key : t \in {u \in Threads : pc[u] \in StoreLabels /\ req[u].call = "generate"}}

Register == INSTANCE KeyRegister WITH
    stored <- Stored, pending <- Pending, made <- keysMade,
    known <- kept, promised <- Safe, gone <- dead

(* To its clients an alias is a register with one key or none: the two     *)
(* files, what is copied, restored and upgraded between them, failing      *)
(* operations and crashes do not show.                                     *)
ImplementsRegister == Register!RegSpec

(* No request is told that there is no key while one is promised, and one  *)
(* that turned to the backup gets the promised key: HksServiceKeyExist and *)
(* the readers see through a main file that is missing or torn.            *)
PromisedKeyIsFound ==
    [][\A t \in Threads, k \in Safe :
          pc'[t] = "idle" /\ crashes' = crashes =>
              /\ pc[t] \notin {"existBak", "copySize", "getBak", "checkBak"}
              /\ pc[t] \in {"restore", "storeBak"} \/ (pc[t] = "readBak" /\ Done(t)) =>
                    req[t].buf.key = k]_vars
=============================================================================

---------------------------- MODULE FileTransfer ----------------------------
(***************************************************************************)
(* The transfer of key files from the old directory to the storage level   *)
(* their owner needs (hks_file_transfer.c, hks_config_parser.c) and the    *)
(* move of the directory tree that goes before it (hks_sa.cpp).            *)
(*                                                                         *)
(* A key file goes el2/public ("old") -> el1/public in the old layout      *)
(* ("legacy") -> the temporary directory ("tmp") -> "de" or the            *)
(* credential-encrypted directory of a user, which can be reached only     *)
(* while that user is unlocked.                                            *)
(***************************************************************************)
EXTENDS Naturals, FiniteSets

CONSTANTS
    Keys,       \* key files
    KeyKind,    \* key -> what the configuration says of its owner
    KeyUser,    \* key -> the user id in the key file
    Users,      \* user ids
    FirstUser,  \* the front user until a user is unlocked (100)
    NoKey,
    MaxFaults   \* bound: file operations that fail in a run

ASSUME TransferAssumption ==
    /\ KeyKind \in [Keys -> {"ce", "de", "front", "rdb", "skip"}]
    /\ KeyUser \in [Keys -> Users]
    /\ FirstUser \in Users
    /\ Users \cap {"old", "legacy", "tmp", "de"} = {}  \* directories of their own
    /\ NoKey \notin Keys
    /\ MaxFaults \in Nat

VARIABLES
    file,          \* key -> place -> what is there
    tmpDir,        \* the temporary directory exists
    unlocked,      \* users whose credential-encrypted directory is open
    g_frontUserId,
    walk,          \* the transfer under way
    faults,        \* file operations that failed so far
    copyFailed     \* history: a copy of the tree failed part of the way

transferVars ==
    <<file, tmpDir, unlocked, g_frontUserId, walk, faults, copyFailed>>

Contents == {"none", "torn", "good"}
Places == {"old", "legacy", "tmp", "de"} \cup Users

\* One pass of nftw: where it reads, what it has yet to visit, the file it
\* is at and how far it is with that file.
Walks == [from : Places, todo : SUBSET Keys, key : Keys \cup {NoKey},
          at : {"rename", "visit", "open", "write", "unlink", "none"}]
NoWalk == [from |-> "tmp", todo |-> {}, key |-> NoKey, at |-> "none"]

\* Where a key file may be when the service first starts: in a tree of the
\* old layout, or, an rdb key file, in the directory of its user.
Homes(k) == {"old", "legacy"} \cup (IF KeyKind[k] = "rdb" THEN {KeyUser[k]} ELSE {})

TransferInit ==
    /\ \E home \in [Keys -> Places] :
         /\ \A k \in Keys : home[k] \in Homes(k)
         /\ file = [k \in Keys |-> [p \in Places |-> IF p = home[k] THEN "good" ELSE "none"]]
    /\ tmpDir = FALSE
    /\ unlocked = {}
    /\ g_frontUserId = FirstUser
    /\ walk = NoWalk
    /\ faults = 0
    /\ copyFailed = FALSE

Put(k, p, c) == file' = [file EXCEPT ![k][p] = c]
Fault == faults < MaxFaults /\ faults' = faults + 1

----------------------------------------------------------------------------
(* MoveDirectoryTree: copy everything, then remove the original.           *)

OldKeys == {k \in Keys : file[k]["old"] # "none"}

\* The files of s are copied, and one more (or none) in part.
Copied(s, t) ==
    [k \in Keys |-> CASE k \in s -> [file[k] EXCEPT !["legacy"] = file[k]["old"]]
                      [] k \notin s /\ k = t -> [file[k] EXCEPT !["legacy"] = "torn"]
                      [] OTHER -> file[k]]
Removed(s) == [k \in Keys |-> IF k \in s THEN [file[k] EXCEPT !["old"] = "none"]
                                         ELSE file[k]]

PartOfCopy == \E s \in SUBSET OldKeys : \E t \in (OldKeys \ s) \cup {NoKey} :
                /\ s # OldKeys
                /\ file' = Copied(s, t)

CopyTree ==
    /\ file' = Copied(OldKeys, NoKey)
    /\ UNCHANGED <<tmpDir, unlocked, g_frontUserId, walk, faults, copyFailed>>

\* The copy stops with an error part of the way: the original stays.
CopyTreeFails ==
    /\ Fault
    /\ PartOfCopy
    /\ copyFailed' = TRUE
    /\ UNCHANGED <<tmpDir, unlocked, g_frontUserId, walk>>

\* remove_all, which may leave files behind.
RemoveTree ==
    /\ UNCHANGED <<tmpDir, unlocked, g_frontUserId, walk, copyFailed>>
    /\ \/ file' = Removed(OldKeys) /\ UNCHANGED faults
       \/ Fault /\ \E s \in SUBSET OldKeys : s # OldKeys /\ file' = Removed(s)

----------------------------------------------------------------------------
(* HksUpgradeFileTransferOnPowerOn, under the write lock.                  *)

\* The place a key file belongs to (GetStoreMaterial).
Dest(k) ==
    CASE KeyKind[k] \in {"de", "rdb"} -> "de"
      [] KeyKind[k] = "front" -> g_frontUserId
      [] OTHER -> KeyUser[k]

\* A user's directory can be reached only while the user is unlocked.
CanReach(p) == p \in Users => p \in unlocked
Exists(k, p) == CanReach(p) /\ file[k][p] # "none"

\* The files nftw visits, and those of them that pass ProcessFileUpgrade or
\* ProcessRdbCeToDeUpgrade: readable, of an owner that is not skipped.
Visited(p) == {k \in Keys : Exists(k, p)}
Transferred(k, p) ==
    /\ file[k][p] = "good"
    /\ KeyKind[k] # "skip"
    /\ p \in Users => KeyKind[k] = "rdb"

Overwrites(k) == KeyKind[k] = "rdb"

BeginTransfer(user) ==
    /\ walk' = [NoWalk EXCEPT !.at = "rename"]
    /\ g_frontUserId' = user
    /\ UNCHANGED <<file, tmpDir, unlocked, faults, copyFailed>>

Start(p) == walk' = [from |-> p, todo |-> Visited(p), key |-> NoKey, at |-> "visit"]

\* Slip: the directory is made first, and a failed rename leaves it empty.
CopyDeToTmpPathIfNeedMkdir ==
    /\ walk.at = "rename"
    /\ \/ tmpDir /\ UNCHANGED <<file, faults>>
       \/ ~tmpDir /\ Fault /\ UNCHANGED file
       \/ /\ ~tmpDir
          /\ file' = [k \in Keys |-> [file[k] EXCEPT !["tmp"] = file[k]["legacy"], !["legacy"] = "none"]]
          /\ UNCHANGED faults
    /\ tmpDir' = TRUE
    /\ Start(g_frontUserId)
    /\ UNCHANGED <<unlocked, g_frontUserId, copyFailed>>

\* CopyDeToTmpPathIfNeed, whose result nobody looks at.  The empty directory
\* that HksMakeDir puts in place of the renamed one holds no key file, and
\* OpenNewFile makes what is missing of it.
CopyDeToTmpPathIfNeed ==
    /\ walk.at = "rename"
    /\ \/ tmpDir /\ UNCHANGED <<file, tmpDir, faults>>
       \/ ~tmpDir /\ Fault /\ UNCHANGED <<file, tmpDir>>
       \/ /\ ~tmpDir
          /\ file' = [k \in Keys |-> [file[k] EXCEPT !["tmp"] = file[k]["legacy"], !["legacy"] = "none"]]
          /\ tmpDir' = TRUE
          /\ UNCHANGED faults
    /\ Start(g_frontUserId)
    /\ UNCHANGED <<unlocked, g_frontUserId, copyFailed>>

\* The end of CopyRdbCeToDePathIfNeed, and the start of UpgradeFileTransfer.
NextPass ==
    /\ walk.at = "visit" /\ walk.todo = {} /\ walk.from \in Users
    /\ Start("tmp")
    /\ UNCHANGED <<file, tmpDir, unlocked, g_frontUserId, faults, copyFailed>>

TransferEnded == walk.at = "visit" /\ walk.todo = {} /\ walk.from = "tmp"

Goto(at) == walk' = [walk EXCEPT !.at = at]
\* Slip: the walk goes on but still points at the file it is done with.
NextFileSameKey == walk' = [walk EXCEPT !.at = "visit"]

NextFile == walk' = [walk EXCEPT !.at = "visit", !.key = NoKey]

\* A file is visited: skipped, removed because the new file exists, or taken.
VisitFile(k) ==
    /\ walk.at = "visit" /\ k \in walk.todo
    /\ walk' = [walk EXCEPT !.todo = @ \ {k},
                            !.key = IF Transferred(k, walk.from) THEN k ELSE NoKey,
                            !.at = IF Transferred(k, walk.from) THEN "open" ELSE "visit"]
    /\ UNCHANGED <<file, tmpDir, unlocked, g_frontUserId, faults, copyFailed>>

\* An rdb key file at the new place is removed before the directory is made.
RemoveOverwritten ==
    LET k == walk.key IN
    /\ walk.at = "open" /\ Overwrites(k) /\ file[k][Dest(k)] # "none"
    /\ \/ Put(k, Dest(k), "none") /\ UNCHANGED <<walk, faults>>
       \/ Fault /\ NextFile /\ UNCHANGED file
    /\ UNCHANGED <<tmpDir, unlocked, g_frontUserId, copyFailed>>

\* Any other file at the new place stays, and the old one is removed.
KeepExisting ==
    LET k == walk.key IN
    /\ walk.at = "open" /\ ~Overwrites(k) /\ Exists(k, Dest(k))
    /\ NextFile
    /\ \/ Put(k, walk.from, "none") /\ UNCHANGED faults
       \/ Fault /\ UNCHANGED file
    /\ UNCHANGED <<tmpDir, unlocked, g_frontUserId, copyFailed>>

\* HksMakeFullDir, and the fopen of HksFileWrite, which truncates the file.
OpenNewFile ==
    LET k == walk.key IN
    /\ walk.at = "open" /\ ~Exists(k, Dest(k))
    /\ \/ CanReach(Dest(k)) /\ Put(k, Dest(k), "torn") /\ Goto("write") /\ UNCHANGED faults
       \/ ~CanReach(Dest(k)) /\ NextFile /\ UNCHANGED <<file, faults>>
       \/ Fault /\ NextFile /\ UNCHANGED file
    /\ UNCHANGED <<tmpDir, unlocked, g_frontUserId, copyFailed>>

\* Slip: the result of the write is not looked at.
WriteNewFileUnchecked ==
    /\ walk.at = "write"
    /\ Goto("unlink")
    /\ \/ Put(walk.key, Dest(walk.key), "good") /\ UNCHANGED faults
       \/ Fault /\ UNCHANGED file
    /\ UNCHANGED <<tmpDir, unlocked, g_frontUserId, copyFailed>>

WriteNewFile ==
    /\ walk.at = "write"
    /\ \/ Put(walk.key, Dest(walk.key), "good") /\ Goto("unlink") /\ UNCHANGED faults
       \/ Fault /\ NextFile /\ UNCHANGED file
    /\ UNCHANGED <<tmpDir, unlocked, g_frontUserId, copyFailed>>

\* Slip: the old file is not removed.
RemoveOldFileNever ==
    /\ walk.at = "unlink"
    /\ NextFile
    /\ UNCHANGED <<file, faults, tmpDir, unlocked, g_frontUserId, copyFailed>>

\* The old file is removed; when that fails, the new one is.
RemoveOldFile ==
    /\ walk.at = "unlink"
    /\ NextFile
    /\ \/ Put(walk.key, walk.from, "none") /\ UNCHANGED faults
       \/ Fault /\ Put(walk.key, Dest(walk.key), "none")
       \/ /\ faults + 1 < MaxFaults /\ faults' = faults + 2
          /\ UNCHANGED file
    /\ UNCHANGED <<tmpDir, unlocked, g_frontUserId, copyFailed>>

EndTransfer ==
    /\ TransferEnded
    /\ walk' = NoWalk
    /\ UNCHANGED <<file, tmpDir, unlocked, g_frontUserId, faults, copyFailed>>

TransferStep ==
    \/ CopyDeToTmpPathIfNeed
    \/ NextPass
    \/ \E k \in Keys : VisitFile(k)
    \/ RemoveOverwritten
    \/ KeepExisting
    \/ OpenNewFile
    \/ WriteNewFile
    \/ RemoveOldFile
=============================================================================

# HUKS: a TLA+ verification project

HUKS is OpenHarmony's universal key store: a system service that generates,
imports, stores and uses keys for applications.  This directory models the
parts of it where threads, lists, locks, files and limits interact, and what
its C functions do with the memory they own, checks the models with TLC on small
instances and proves the main results with TLAPS for every value of the
constants.

Paths below are relative to `src/services/huks_standard/` unless they begin
with `src/`; `S` stands for `huks_service/main`, `E` for
`huks_engine/main/core/src` and `F` for `src/frameworks/huks_standard/main`.

## 1. Inventory

| part | source | state | operations |
|---|---|---|---|
| operation list (session manager) | `S/core/src/hks_session_manager.c` | `g_operationList`, `g_operationCount`, `g_lock` | create, query and mark in use, release, delete, sweep by process or user, evictions |
| key node list | `E/hks_keynode.c` | `g_keyNodeList`, `g_keyNodeCount`, the engine mutex | create, query, delete, evictions |
| three-stage handlers | `S/core/src/hks_client_service.c` (Init, Update, Finish, Abort, DeleteProcessInfo) | locals of the request | the session protocol of the service |
| three-stage engine | `E/hks_core_service_key_operate_three_stage.c` | the key node it works on | HksCoreInit, Update, Finish, Abort |
| request entry | `S/os_dependency/sa/hks_sa.cpp` | the IPC threads, `g_upgradeOrRequestLock` | OnRemoteRequest, OnStart, OnStop |
| event observer | `S/os_dependency/sa/hks_event_observer.cpp` | none | package removed, user removed, user unlocked |
| upgrade gate | `S/upgrade/`, `src/utils/condition/hks_condition.c` | condition, reader-writer lock | wait, notify, file transfer on power-on and on unlock |
| key storage | `S/hks_storage/src/hks_storage.c`, `hks_storage_manager.c`, `hks_storage_utils.c` | a main and a backup file per key | store, get, delete, exist (with restore), list |
| file locks | `S/hks_storage/src/hks_storage_file_lock.c` | reference-counted locks per path | create, release, read and write lock |
| key management handlers | `hks_client_service.c` (generate, import, delete, ...) | none of their own | sequences of storage and engine calls |
| user authentication | `E/hks_secure_access.c` | challenges and results in the key node, what the key blob records | auth tokens, access control, secure signing |
| algorithm stages | `E/hks_core_service_three_stage.c`, `..._key_operate_one_stage.c` | a context or cached data per key node | init, update, finish, abort per kind of session |
| key blobs | `E/hks_core_service_key_generate.c`, `hks_keyblob.c`, `hks_sm_import_wrap_key.c` | none that outlives a call | generate, import, wrap, build and open blobs |
| root key | `F/crypto_engine/rkc/src` | main key in memory; root key material and main key in two files each, and those of version 1 | make, load, repair, upgrade |
| file transfer | `S/upgrade/file_transfer`, `hks_sa.cpp` (MoveDirectoryTree) | key files per storage level, a temporary directory, the front user | on power-on, on user unlock |
| key upgrade | `E/hks_upgrade_key.c`, `S/core/src/hks_upgrade_helper.c` | key version | upgrade of old blobs |
| attestation | `huks_engine/main/device_cert_manager`, `S/os_dependency/sa/hks_dcm_callback_handler.cpp` | pending callbacks | attest, certificate chains |
| IPC | `S/os_dependency/idl/ipc`, `F/os_dependency/ipc/src` | none that outlives a call | unpack, handle, reply; pack, send, copy the answer |
| crypto engines | `F/crypto_engine/openssl`, `F/crypto_engine/mbedtls` | contexts of a session | keys, ciphers, signatures, agreement, digests |
| client SDK | `src/interfaces/inner_api`, `src/utils/crypto_adapter` | none | adapters, translation of public keys |
| plugin proxy | `S/plugin_proxy` | `g_pluginProxy` | init, destroy, dispatch |
| parameter sets, checks, bindings | `F/common`, `src/interfaces` | none that outlives a call | conversions, validation |

How they interact.  A client's IPC request arrives on one of a few threads
(`OnRemoteRequest`), waits for the power-on upgrade, takes the upgrade lock for
reading and runs a handler of `hks_client_service.c` to the end.  A three-stage
session has two halves that only share a handle: the engine's key node, made
by `HksCoreInit`, and after it the service's operation, made by
`CreateOperation`.  The service calls into the engine (`HuksAccess*`) with and
without `g_lock` held; the engine never calls back.  Common events arrive on a
thread of their own and sweep sessions and key files of what was removed.

What is hard.

* Two lists with two locks and two sets of limits describe one session.  Each
  evicts on its own terms: the service never an operation that is in use, the
  engine the oldest node whoever uses it.
* Pointers leave both locks.  `isInUse` protects an operation's; nothing
  protects a key node's.
* `MarkOperationUnUse` writes without the lock, and release and deletion are
  two steps, with a search by handle in the second.
* `AddOperation` holds `g_lock` over three limit checks and as many calls into
  the engine; every early return has to give it back.
* A batch session has two deadlines, computed at two moments.
* A key node is in the list before it says whose it is.
* Key storage: main and backup file are two steps, `IsKeyBlobExist` restores
  one from the other, a use of an old key stores it again, and files are read,
  tested and removed under separate locks.  Opening a file for writing empties
  it; the process may die before the bytes are there.
* Lock objects are made and freed per access: two threads exclude each other
  only if they got the same one.
* Files move between storage levels at start and when a user is unlocked, while
  requests arrive: a wait on a condition that is not repeated, a lock given up
  and taken again, directories that can be reached only while their user is
  unlocked, a copy cut off by a crash.
* One main key protects everything.  It and the material it is encrypted under
  are in four files written one after the other; every start may repair,
  upgrade or make them.
* A token is checked against a challenge, times, enrolled credentials and what
  the key recorded; sessions come in plain, batch and secure signing forms.
* Nearly every function owns memory across a dozen calls that can fail, and
  much of that memory holds plain keys.

Correctness, per part: the lists agree with their counters and limits; no
request keeps a pointer to something freed or shared; a session is used by one
request at a time and not closed under it; its owner's token is respected on
both sides; every request is answered.  A lock object lives as long as
somebody uses it, and a file has one; a key that was stored stays in one of its
files until somebody asks to delete it, and is in neither once that was
answered with success, whatever crashes or races happened; no file is read half
written.  No request runs during a transfer and none waits at the gate for
ever; a transfer loses no key.  The main key that was handed out stays the only
one and can be read back.  Nothing is done with a controlled key without a
token for this very session.  On every path of a function memory is used only
while it is allocated, freed once or handed on, and wiped if a key was in it.

## 2. Modules

| module | stands for |
|---|---|
| `KeyNodes` | the engine's list, `hks_keynode.c`: one operator per function; list functions are atomic under the engine's mutex |
| `SessionManager` | the service's list, `hks_session_manager.c`: searches, limits and updates as operators, `g_lock` as a variable |
| `ThreeStage` | the composition: handlers and engine operations as a program counter per thread over both lists |
| `Sessions` | what the session manager promises, without threads, locks and eviction order |
| `FileLocks` | `hks_storage_file_lock.c`: the list of lock objects, their reference counts, and how far each thread's access is |
| `KeyStorage` | `EXTENDS FileLocks`: the two files of an alias and the requests that read and write them, from `hks_storage.c`, `hks_file_operator.c` and the handlers of `hks_client_service.c` |
| `KeyRegister` | what the storage of an alias promises: a register that has one key or none, without files, locks, copies and crashes |
| `FileTransfer` | the places of a key file and the transfer between them, `hks_file_transfer.c`, `hks_config_parser.c`, and `MoveDirectoryTree` |
| `UpgradeGate` | `EXTENDS FileTransfer`: `OnStart` and `OnStop`, the condition, the writer-first lock, and the threads of requests and events that pass them |
| `RootKey` | the files and the life of the main key, `hks_rkc.c`, `hks_rkc_rw.c`, `hks_rkc_v1.c` |
| `SecureAccess` | user authentication in a three-stage session, `hks_secure_access.c` |
| `OwnershipSteps`, `Ownership` | the steps of which functions that own memory are made, and what those steps do to the heap |
| `OpensslKeys`, `OpensslCiphers`, `MbedtlsKeys`, `MbedtlsCiphers` | the functions of the crypto engines, as programs of such steps |
| `EngineKeys`, `EngineImports`, `EngineStages` | those of the key engine: one-stage operations, generation and blobs; import, wrapped import, key upgrade; the stages of sessions |
| `RkcKeys`, `Attestation` | those of the root key component and of certificate chains |
| `ServiceKeys`, `StorageFiles` | those of the service's handlers and helpers, and of its storage |
| `IpcService`, `ClientIpc`, `PublicKeys` | those of the IPC handlers, of the client's side, and of the client's adapters |
| `ThreeStageProofs`, `HandleProofs`, `NodeUseProofs` | theorems about sessions, each extending the one before |
| `FileLocksProofs`, `KeyStorageProofs`, `UpgradeGateProofs`, `RootKeyProofs`, `SecureAccessProofs` | theorems about the module each is named after |
| `MCThreeStage`, `MCKeyStorage`, `MCUpgradeGate`, `MCSecureAccess` | values and symmetry for TLC |
| `MCOwnership` | the entry functions, what each hands out, and the flaws known of it |

### Sessions

State.  Operations and key nodes are numbered in the order of their append, so
a list is a set of numbers and its head the smallest; a freed number stays
expressible, which is how a dangling pointer is.  A node's random handle is
its number: two live nodes never share one in the code
(`GenerateKeyNodeHandle` draws 64 random bits), and the model takes handles to
be fresh for the run.  `operation` and `keyNode` hold the fields the code
compares: owner (user, process name, token), handle, `isInUse`, batch flag and
deadline.  `req`, `held`, `victim`, `ptr` are the locals of a request.

Steps.  One action is what a thread does between two points where others can
see or change shared state: an action ends where a mutex is released, where
`g_lock` is kept but the engine's mutex is taken, and where a pointer is used
outside both.  `AddOperation` is therefore five actions (time-out, token limit,
count limit, append and an eviction shared by all), all but the first with
`g_lock` held.  Checks, allocation and cryptography succeed or fail.
`usedAfterFree` is a history variable: once a thread has followed a pointer to
a freed node the behaviour is undefined, the model lets the pointer reach any
node allocated since (`Deref`), and properties that only make sense before
that point say so.

Correspondence in detail: `Init`'s path is `CallInit`, `HksCreateKeyNode`
(`AddKeyNode` inside it), `PublishKeyNode` (the assignment of the parameter
sets after the mutex is released), `HksCoreInit`, `CreateOperation`,
`DeleteFirstTimeOutBatchOperation`, `DeleteForTokenIdIfExceedLimit`,
`DeleteFirstAbortableOperation`, `AddOperation`.  Update, Finish and Abort go
`QueryOperationAndMarkInUse`, `ChecksPass` or `ChecksFail` (token, batch
deadline, permissions), `GetParamsForUpdateAndFinish`, `HksCoreUpdate...` or
`HksCoreFinishOrAbort`, `CoreDelete`, `MarkOperationUnUse`, `DeleteOperation`.
Package and user removal: `DeleteSessionByProcessInfo`, then one
`DeleteSession` per operation of the list.  Operators whose comment begins
with "Slip" are deliberate mistakes, never used by the specification; they
show that each property can fail.

Simplifications.  Init's second attempt with the backup key is a failed Init
followed by another.  Mutex calls succeed, and so does `HksElapsedRealTime`,
which reads the clock of the system.  An eviction may find no memory for the call
of the engine and leave the key node behind (`StartEvict`).  A batch session's timeout is one
number (60 s by default, at most 600 s in the code).  Inside one `HksCoreInit`
a dangling pointer reaches one node throughout.  The deletion of key files in
`HksServiceDeleteProcessInfo` belongs to key storage.

### File locks and key storage

State.  `lockList` and `fileLock` are the list of lock objects; an object's name
is its address, which may be used again.  `lock`, `path` and `stage` are a
thread's pointer, the file it accesses and whether it has made the object, holds
its reader-writer lock or has given it back.  `file` gives what each of the two
files holds: nothing, no bytes, bytes that are no key, or a key, which is a
number and may be of an old version.  `req` holds a request's locals: the blob
in its buffer, the file its buffer was sized for, `isMainFileExist`, how often
`CleanFile` has written.  `kept`, `doomed` and `dead` are history: the keys whose
generation was answered with success, those a deletion or a replacement has
been asked for, and those whose deletion or replacement was answered with
success.

Steps.  `HksStorageFileLockCreate` and `HksStorageFileLockRelease` are one step
each, under `g_lockListLock`.  An access is four steps: `BeginAccess` (the
object), `Open` (lock, and `fopen`, which empties a file to be written),
`Transfer` (read, write or `unlink`, and unlock) and the step that releases the
object and goes on.  Between two accesses a request tests existence or size
without a lock, one test per step.  So `HksServiceDeleteKey` is
`DeleteKeyBlobMainExists`, `DeleteKeyBlobBakExists`, then per file `CleanFile`,
three writes (`FileCleaned`) and `FileRemoved`, the backup first, and `Deleted`;
`HksServiceGenerateKey` and `HksServiceImportKey` go on with
`HuksAccessGenerateKey`, `MainStored` and `BakStored`; `HksServiceKeyExist` is
`IsKeyBlobExist` and `CopyKeyBlobFromSrc`; a use of a key (`HksServiceSign` and
its kin) is `GetKeyFileData`, `GetKeyBlobFromFile`, `CheckAndUpgradeKeyIfNeed`,
`FallBack` and `RestoreMain`.  `LastAccess` is every early return after an
access.  `Crash` is the end of the process at any step: a file just opened for
writing stays empty or torn, and locks, buffers and requests are gone.

Simplifications.  One alias: aliases share no files.  A key's size is not
modelled; a file that changed since the buffer was sized may be too long for
it, which is both the early return of `GetKeyBlobFromFile` and a truncated read.
Bytes written by `CleanFile`, or torn, are not taken for a key.  What was
written and synced survives a crash; loss of directory entries is not modelled.
A lock that there is no memory for, for its object or for the full path
(`CreateStorageFileLock`), lets the access go on unlocked, also when the path
has an object; `storage_upgrade` has that, the other storage runs do not
(`MallocMayFail`).  The standard build is modelled: backups, cleaning, key
upgrade and threads on, the owner change from small systems off.

### Start, gate and file transfer

State.  `file` says for each key file and place (the old directory, the old
layout of the new one, the temporary directory, `de`, a user's directory)
whether nothing, a torn or a good file is there.  `walk` is the pass of `nftw`
under way: where it reads, what it has yet to visit, and how far it is with the
file it is at.  `start` is where `OnStart` is; `condition`, `gate`,
`g_isCeUpgradeSucc` and `g_frontUserId` are the variables of the code; `pc` and
`job` belong to the threads.

Steps.  `OnStart` goes `MoveDirectoryTree` (copy, then remove),
`ProcessConditionCreate`, `LockBeforeInit`, `InitService`, the transfer,
`PowerOnUpgraded`, `NotifyAll`; its early returns leave the write lock or the
condition as the code leaves them.  A request or event arrives, waits for the
condition or finds none, takes the read lock, and goes on; `WakeEarly` is a
`pthread_cond_wait` that returns without notification, which the code does not
repeat.  `Handle` gives the read lock up for the write lock, and
`ReadGuardAgain` takes it back.  A file is transferred in four steps (visit,
open, write, unlink the old one), each of which may fail within `MaxFaults`.
`Crash` ends the process at any step; the device may have been restarted, so
users may be locked again.

Simplifications.  What the configuration says of a key's owner is one of five
kinds (`ce`, `de`, `front`, `rdb`, `skip`); the parsing behind it
(`HksMatchConfig`, `HksIsRdbDeKey`) is the kind.  The order in which `nftw`
visits is open.  A key file starts in a tree of the old layout, or, when it is of
kind `rdb`, in its user's directory, from where `CopyRdbCeToDePathIfNeed` takes
it.  The empty directory that `HksMakeDir` puts in place of the renamed one is
left out: it holds no file, and the write of a key makes what is missing of it.

### Root key

`HksRkcInit` is a walk through `step`, one action per file access: names,
existence, reading (with the repair of a bad copy from a good one), decryption,
or making, or the upgrade from version 1, then the four writes one by one, the
deletion of the old generation, masking.  A write that fails or is cut off
leaves a torn file, whose hash does not match.  A main key decrypts only under
the material with the number it was encrypted with.  `HksRkcGetMainKey` is asked
when the start is over, as `HksService::Init` publishes the service only then;
its own check, `g_hksRkcMk.valid`, holds as soon as `RkcMakeMk` is done, before
the files are written.  `blind` is history: the
existence check failed for every existing file, so that the code took the
device for new.  `MaxFaults` counts operations that fail; crashes are free.

What reading and checking showed besides the properties.  Before the first
success of `HksRkcInit`, a crash in the first write of a main key file leaves a
torn file that keeps every later start from making the files; nothing was
encrypted yet, but the device does not start.  `UpgradeV1ToV2` leaves the
initialisation vector zero, which is harmless since it is stored with the key.
The version written after `HksCfgClearMem` is 0 and is never checked.

### User authentication

A key has one of several access controls (`SomePolicies`): which
authentication types, whether clearing the password or enrolling a face
invalidates it, challenge normal, custom or none, secure signing, controlled
purposes and batch purposes.  `Authenticate` issues a token for any challenge
put together from those of the sessions so far, of any shape of the set;
`Change` clears the password, sets it again or enrolls a face, and `changes` is
the history of that; `Tick` lets time pass.
`HksCoreInit` makes a session, `HksCoreUpdate`, `HksBatchUpdate` and
`HksCoreFinish` verify a token where the code does, append the authentication
info where it does, and do their work or fail; `Rejected` is a check that fails
and what it deletes.  The signature of a token is taken for good.

Two things the code does here are easily read otherwise.  A batch's updates
work for the purpose in their own parameters (`GetPurposeAndAlgorithm` in
`HksBatchUpdate`, and the node `HksCreateBatchKeyNode` builds), while
`BuildAuthRuntimeParamSet` and `HksBatchCheck` looked at the purpose of Init:
whether an update needs a token is settled by the purpose the batch was opened
for, and a batch opened for a purpose that is not under access control needs
none for any purpose its updates name.  `AuthorisedBeforeUse` therefore speaks
of batches opened for a controlled purpose and, for all other sessions, of the
work they did.  And clearing the password does not by itself refuse anybody:
the secure id a token carries stays until a password is set again, so a face
still opens the key in between.  `InvalidatedForGood` therefore says that no
setting of the password, and for a face no enrolment, lies between the making
of the key and of a token that opened it.

### Memory

`Ownership` runs one call of one entry function.  A function is a program, a
sequence of steps, and is named like the function; a step that may fail carries
what its function still does then, so that every early return and every `break`
of the code is a path.  The state is a stack of programs under way, the
pointers, and the heap, whose objects are live, handed on, freed, or freed with
key material in them.  `Get` is an allocation, `Try` and `With` a call that may
fail, `Fill` the arrival of key material, `Wipe` and `Free` what they say,
`Give` a change of owner.  A private number of a library (`BIGNUM`) is
memory with a key in it like any other until a key of the library owns it;
what the library does with its own keys, contexts and parameters is left to it.
The private number of `InitDhStruct` is among the leaks: it is never given back
at all.  Data is left out, so a branch on data goes either
way, and a loop is taken once or not at all, except where a second round
matters.  A call whose memory is another entry's is a `Try`.
In `PROJECT.json` a program is mapped to its function together with the helpers
next to it that it calls, whose steps it contains.

An entry in `MCOwnership` says which pointers the caller gets on success
(`keeps`) and which mishandling is known (`known`).  A session is an entry that
runs init, then updates or not, then finish, abort or eviction in any order the
engine allows.

## 3. Runs

Sessions.  Limits of 32 and 10 become 1 to 4 so that every Init meets them; `MaxNodes` and
`MaxOperations` bound how many sessions a run opens and are larger than the
limits, so that evictions happen and handles go stale; `MaxTime` bounds the
clock.  Two threads are what `HUKS_IPC_THREAD_NUM` gives the service; the
overrun in the creation race, which grows with the threads, is one node then.
Threads are interchangeable, hence the symmetry; it is not used where a run
checks liveness.

| run | instance | shows |
|---|---|---|
| `limits` | 2 threads, one process with two access tokens, 3 sessions; engine's limits 3 and 1 per token, service's 2 and 1; Init, Update, Finish | `OperationPointersGood`: pointers outside the lock stay good and are not shared; `SessionLimits`: counters and limits; `OnlyOwnKeyNode`: Update and Finish run on a node of the caller's token; `NodesPerToken`: the engine's limit per token is overrun by at most one node per other thread; `InductiveInvariant`: the strengthening the proofs use; `TypeOK` |
| `roomy` | engine's limits above the number of sessions, one token per process, all requests | `KeyNodeInUseIsLive`, `InUseMeansHeld`, `InitNeverRefused`, and `ImplementsSessions` (refinement of `Sessions`) |
| `live` | limits of 1, every Init evicts; batch and plain sessions, clock up to 2, timeout 1; Init, Update, Finish and process removal | `EngineDeadlineFirst`: the engine's deadline of a session is never later than the service's; `NodeCountExact`; `RequestsComplete` under `FairSpec` |
| `storage_delete` | 2 threads, delete, exist and use of one key, I/O errors, 1 crash | `DeletedStaysDeleted`: after a deletion that answered success the key is in neither file; `LockInv`: counts are exact, pointers live, one object per file; `WriterAlone`; `RequestsComplete` under weak fairness; `TypeOK` |
| `storage_generate` | 2 threads, all requests, 2 keys, 1 crash | `KeyNeverLost`: a key nobody asked to delete is in a file or being written; `NoTornRead`: nobody reads a file that another is writing |
| `storage_upgrade` | 2 threads, all requests, old versions, I/O errors, failing allocations, 1 crash, 2 keys; state constraint `ChangesAlone`: as long as deletions, generations and upgrades have the alias for themselves | `ImplementsRegister`: the two files refine `KeyRegister`; `PromisedKeyIsFound`: a request that turns to the backup while a key is promised ends with that key |
| `undelete` | violation | a use of an old key stores its upgraded form after the key's deletion has answered success; a unit test expects `HKS_ERROR_NOT_EXIST` then |
| `gate` | 2 threads, 2 keys of kinds ce and rdb, 1 fault, 1 crash, 1 stop | `NobodyInsideTransfer`: no request or event is at work while files move; `KeyKept`: a readable copy of each key is left, or a file cut off at the new place hides it; `NotStranded`: a key is left in a directory nothing reads only after a failed copy; `TypeOK` |
| `gate_live` | the same without faults and crashes, kinds front and ce, under `FairSpec` | `RequestsComplete`: everybody leaves the gate unless `OnStart` failed; `UnlockTransfers`: an unlock brings the user's keys to their place |
| `root_key` | 3 sets of material, 3 faults, crashes at any step | `OneMainKey`, `ServedIsStored`: the main key once handed out stays the only one and can be read back at every moment; `StartsAgain`: damage to the files alone never keeps the component down after a first success; `TypeOK` |
| `secure_access` | 2 sessions, 1 token, 2 changes, 2 uses each, 3 policies, 2 shapes of token; state constraint `FewSteps`: no further than two uses, two changes or one of each | `AuthorisedBeforeUse`, `TokenNotReplayed`, `InvalidatedForGood`, `InfoSignedOnce`, `TypeOK` |
| `ownership` | every entry function, every failure at every place, up to 40 allocations | `MemoryUsedWell`, `NothingLeaks`, `KeyMaterialWiped`, but for the flaws listed below |

Bounds of the others.  `gate`: a crash or fault matters at most once per file,
and two keys are enough for one to be transferred while the other is not; two
threads are a request and an event, or two of either.  `root_key`: making,
upgrade and one replacement take two sets of material, the third would show a
key made too often; three faults damage both copies of one file and one more.
`secure_access`: replay needs a token and two sessions; a token for another
setting of the password takes two changes (cleared, set), and a session that
outlives a use takes two uses; one batch set names a purpose that is not under
access control.  `ownership`: no entry
makes 40 objects, so the bound cuts nothing off.

`KeyNodeInUseIsLive` and `InUseMeansHeld` hold exactly as long as the engine has
nothing to evict and a process has one token.  With limits of 2 and 1,
`AddKeyNode` frees the node another request works on, where the log line says
"not using"; with two tokens, a Finish with the other token of the process
leaves `isInUse` set for ever; and an Abort that meets a session in use answers
success and leaves it open, where the comment says success means "not found".
TLC finds each of the three in the model when `roomy` is given those values;
`InUseLive` and `InUseHeld` prove the two properties under exactly these
hypotheses.

Where the storage properties end.  `DeletedStaysDeleted` holds for racing
deletions, tests and uses as long as no request brings a key back by itself:
`storage_delete` has keys of the current version and both files at the start.
`undelete` needs an old version.  `IsKeyBlobExist` brings a deleted key back in
the same way, between its read of the backup and its write of the main file,
but needs a main file that is missing while its backup is there.  A deletion
that overlaps a generation leaves that: it found no backup, the generation
then stores both files, and it removes the main one.  TLC finds this with
`Requests = {"generate", "delete", "exist"}`.
`KeyNeverLost` with two threads is checked for keys of the current version and
without I/O errors.  With errors, a use that found the main file empty while a
generation was writing it goes on to the backup; if the backup's write fails
and leaves a torn file, the generation still answers success, and the use then
writes what it read from the backup over the good main file.
With old ones two uses may upgrade at once, one with the main file truncated
and one with the backup: a crash there loses the key, and an I/O error in both
does too; without either nothing is lost (`KeptCalmly`, section 4).  TLC finds
this with `OldVersions` and two threads; no document of the repository promises
otherwise, so it is a hazard in `PROJECT.json` and not a run.  One crash
suffices for two threads (a state after the crash is an
initial state with one file damaged).

What is left when that is taken away.  All of these are overlaps of a change (a
deletion, a generation, or an upgrade while it stores) with another request.
`ChangesAlone` excludes them and nothing else: any number of requests that ask
for the key and read it go on at the same time, restore the main file from the
backup under each other's eyes, and fail anywhere.  `storage_upgrade` has it as
a state constraint, so that TLC follows a behaviour as long as it holds, with
everything else switched on.  There the alias is a register.  `Stored` of the refinement mapping
is the keys in the files, and between `fopen` and `fwrite` the one in the buffer;
`Pending` is the key of a generation that stores it and has not answered;
`Safe` is what was promised and nobody asked to delete; `dead` is gone.
Every access, restore, copy, upgrade, error and crash is a step of `KeyRegister`
or does not show, and that register is reliable (`Reliable`), which says again
what `DeletedStaysDeleted` and `KeyNeverLost` say, and that there is one key at a
time.  What the register cannot say is what a reader is told, hence
`PromisedKeyIsFound`.
The service does not enforce `ChangesAlone`: it is up to its clients, and for
upgrades to chance.

Fairness.  `Fairness` is strong fairness of `Work(t)` for each thread: once a
request runs, nothing but a mutex can hold it up, mutexes are released after a
bounded number of steps, and a thread that keeps asking gets one in the end.
Arrivals and the clock are not fair: clients need not call.  In `KeyStorage`
weak fairness of `Work(t)` is enough, because the property only speaks of
behaviours in which no more requests arrive: nothing is assumed about who gets
a contended lock.  `UpgradeGate` has weak fairness of the start and of a
transfer under way, and strong fairness of each thread: the writer-first lock
serves its waiters, and neither unlocks nor arrivals are fair.

Deadlock is checked in the runs of sessions, storage and root key, which can
always take another request or start again.  It is not in `gate`, `gate_live`
(a service that failed to start or stopped, with no more arrivals, stands
still), `secure_access` (all sessions used up) and `ownership` (the call has
returned).

### Flaws the entries of `ownership` list

Each is on one path or a few; the run shows that there are no others in the
functions modelled.

* Pointers: `HksOpensslDhAgreeKey` uses `dh` without a test for NULL;
  `HksOpensslHashInit` tests `opensslAlg` where it means the context;
  `HksCoreAttestKey` wipes and frees a raw key that was never set;
  `HksMbedtlsEd25519KeyAgreement` goes on after a failed conversion;
  `GetKeyAliasByProcessName` reads a name past the end of its list when the
  directory has grown since it was counted.
* Leaks: the `EVP_PKEY_CTX` of `Sm2InitKey`; the numbers of `InitDhStruct` when
  `DH_set0_key` fails; the raw key at the return inside the block of
  `HksCoreMacThreeStageInit`; the cached data of an SM2 cipher session that is
  evicted or aborted (`KeyNodeFreeCtx`); the plain text when a signature has
  length 0 in `hks_sm_import_wrap_key.c`; the contexts of mbedtls ECB
  sessions; the version 1 names in `HksRkcInit`; the specification in
  `BuildAttestSpec`; the set of `BuildFrontUserIdParamSet`; the output of
  `HksIpcServiceGetKeyParamSet` when unpacking fails.
* Keys freed without being wiped: the private number in `InitRsaStruct` and
  `InitDsaStructKey` when no key comes to own it, in `EccInitKey` when it cannot
  be set, in `ConstructSm2ParamsFromRawKey` always, and in
  `GetBnBinpadFromPkey` always, with its bytes in `EvpPkeyToKeyMaterialEc`;
  the key material of the latter when a copy fails; both buffers of
  `HksOpensslSmKdf`; buffers of `InitDsaStructKey` and `DsaSaveKeyMaterial`,
  `BuildParamSetOut`, `DeriveKeyByFactor`, `SplitKekAndSignData`, agreed and derived keys in the IPC
  handlers, and the client's request buffer in `HksClientImportKey`.

Noticed while reading, outside any property: `AuthChangeProcessName` fails
whenever the names differ unless `HKS_ENABLE_SMALL_TO_SERVICE` is set; the MAC
stages compare with different algorithm constants in Init and later;
`HksGetKeyInfoListUnpackFromService` answers success when a copy fails;
`DhToX509PublicKey` answers success without a key when a step before its last
fails (its caller's copy then fails); `RkcLoadKsf` allocates the main key's
structure with the size of the root key's, which is the larger.

## 4. Proofs

`ThreeStageProofs` proves, for any finite set of threads, any callers, any
positive limits and any bounds:

* `Safety`: `Spec => []InductiveInvariant`;
* `TypeCorrect`, `PointersGood`, `LimitsKept`, `NodeCountKept`: its parts that
  matter to a reader;
* `Refinement`: `Spec => ImplementsSessions`, the operation list implements
  the abstract sessions.

Assumptions are those of the modules that declare the constants: `NodeLimits`
(positive limits, the invalid token is no caller's), `OperationLimits` (finitely
many threads, `None` is none of them, there is a caller) and `TimeBounds`.

The invariant.  The properties do not carry themselves.  `SessionLimits` needs
to know, at the append, that the limits checked several steps earlier still
hold (`RoomMade`), which is so because only the owner of `g_lock` appends and
because every thread at a label inside `AddOperation` or the sweep is the owner
(`LockHeld`).  `OperationPointersGood` needs that frees happen under the lock to
operations that were idle when chosen and still are, because marking in use
needs the lock too.  So `InductiveInvariant` is the type invariant, both
counters' invariants, `LockHeld`, `OperationPointersGood` and `RoomMade`; the run
`limits` checked it before it was proved.  The lemmas follow the layers: each
operator on a list preserves that list's part; each kind of step (quiet, lock,
acquire, release, free, append) preserves the threads' part; one lemma per
group of actions puts them together.  `Refinement` uses the invariant and maps
each action to Open, Acquire, Release, Close or a stutter.

`FileLocksProofs` proves, for any finite set of threads and any paths and
addresses, with failing allocations and restarts:

* `LocksCorrect`: `LockSpec => []LockInv`.  The parts need each other: that a
  pointer is live follows from the count being the number of users, which is
  kept because a release finds the object in the list (live), and because
  users of a new object are none (nobody has a pointer to a free address);
* `WritersAlone`: from the exclusion on one object and one object per path.

`KeyStorageProofs` proves, for any number of threads, keys and crashes:

* `StorageUsesLocks`: `Spec => LockSpec`.  Every storage step is a step of the
  lock protocol or leaves it alone, so `LockInv` and `WriterAlone` hold of it
  (`StorageWritersAlone`);
* `StorageTypes`: `Spec => []TypeOK`;
* `NoTornReads`: `Spec => []NoTornRead`.  The invariant `StorageInv` says that
  the lock a thread holds is that of its label (`LockedAtLabel`) and, as long as
  nothing failed, that an empty file is one somebody has open for writing
  (`EmptyIsOpen`), that this thread will fill it (`WritersGoOn`), and that no
  buffer is empty (`BuffersWhole`).  A reader holds the lock of the file, so by
  exclusion nobody has it open for writing, so it is not empty.

* `StorageFits`: `Spec => []RequestsFit`.  Labels, locals, locks and files stay
  in step; the proofs below start from it, and from a description of every
  step by what it changes (`StorageStep`), proved once (`StorageSteps`);
* `DeletedForGood`: `DeletedStaysDeleted` without generation and without old
  keys, for any threads, with failing file operations, crashes and missing lock
  objects.  Nothing then brings a new key into a file, but restores and copies
  write buffers that were filled earlier.  `DeleteInv`: the backup is damaged
  before the main file, so once the main file has no key neither has the
  backup, and whoever has gone on to the backup found a main file without a key
  and reads none;
* `NeverLost`: `KeyNeverLost` without I/O errors and without old keys, for any
  threads, requests and crashes.  `BackupInv`: a key in no danger is in the
  backup, because only a deletion or a generation writes there, and while one
  is under way every key is in danger, or will be when it overlaps another
  (`clash`);
* `DeletedAlone`: `DeletedStaysDeleted` as long as deletions and generations have
  the alias for themselves (`[]DeletionsAlone`), with I/O errors, old keys,
  upgrades, crashes and failing allocations.  `GoneInv`: no buffer has a key that
  is gone; what a deletion left (no backup, then no main file) is what its answer
  and the generation after it find; and a generation that stores finds nothing
  but its own key;
* `KeptAlone`: `KeyNeverLost` as long as upgrades, while they store, have it for
  themselves too (`[]ChangesAlone`).  `SharedInv`: a reader writes a copy of the
  backup only where the main file has nothing more (`Spare`), and the backup is
  not written meanwhile (`ReadingFits`), so that the step of one reader leaves
  the others what they know (`Steady`, `ReadersShare`); an upgrade writes the
  main file while the backup has the key, then the backup while the main file
  has it (`UpgradeFits`);
* `DeletedSerially`, `KeptSerially`: the same where requests for the alias come
  one after the other (`[]OneAtATime`), which is a special case;
* `RegisterImplemented`: under `[]ChangesAlone` the storage implements
  `KeyRegister` (`ImplementsRegister`).  `StoredKeys` says what the mapping is at each label:
  but for a thread that writes from its buffer, what is stored is what is in the
  files.  Then each kind of request is mapped by itself (`ReadingRegister`,
  `StoringRegister`, `DeletingRegister`, `CallRegister`, `CrashRegister`): readers
  do not show, a deletion makes the key fade and answers `Delete`, a generation
  is `Ask`, `Make`, `Store` and `Answer`, or is abandoned;
* `RegisterReliable`: from the steps of the register alone, `ImplementsRegister`
  implies `[]Reliable`: one key at a time, a promised key is stored, a key that
  is gone is not;
* `PromisedKeyFound`: the action property `PromisedKeyIsFound` under
  `[]ChangesAlone`, from the same invariants: while a key is promised, `Spare`
  puts it into the backup of whoever looks there;
* `KeptCalmly`: upgrades may overlap with each other and with readers
  (`[]DeletionsAlone` only): without I/O errors, `KeyNeverLost` holds until the
  service dies, lock objects or not.  `CalmInv`: the promised key is in the
  backup, or some request has the backup open and the key in its buffer, and
  that one goes on to write it.

Outside these hypotheses `DeletedStaysDeleted` and `KeyNeverLost` are false (section 3), so each
theorem says where one of them holds.

`HandleProofs` proves, for any threads, callers, limits and bounds:

* `HandleInvariant`: `Spec => []HandleInv`.  The engine's list has its own mutex,
  so a node may vanish at any moment; the invariant is about nodes that are
  there.  `HeldFits`: a request that was let in holds an operation with its
  handle, process and, except for Abort, token.  `NodesMadeOnce`: the node a
  thread is making is known to no one else.  `NodesFit`: a node whose handle an
  operation or a request has carries the same token, batch flag and an
  engine's deadline not after the service's.  The last two hold until a
  dangling pointer is followed, after which anything may be in a node;
* `OwnKeyNode` (`OnlyOwnKeyNode`) and `DeadlineFirst` (`EngineDeadlineFirst`)
  from it;
* `NodesPending`, `TokenNodes` (`NodesPerToken`): the count alone is not
  inductive; with the nodes added and not yet published it is;
* `InUseHeld` (`InUseMeansHeld`) where a process and user have one token
  (`OneTokenEach`).

`NodeUseProofs` goes on:

* `NeverRefused` (`InitNeverRefused`, an action property) with `OneTokenEach` and
  limits not below the number of threads (`RoomForThreads`): the operations in
  use are held by distinct other threads, so one of those counted is idle;
* `NodesInUseLive`: in every behaviour in which `AddKeyNode` evicts nothing
  (`NothingEvicted`), `NodeUseInv`: no dangling pointer is ever followed, a
  handle belongs to one operation or one request (`HandlesApart`), and whoever
  deletes a node owns it (`DeletesOwn`).  So eviction in the engine is the only
  thing that can take a node from its user;
* `InUseLive` (`KeyNodeInUseIsLive`): limits not below the sessions opened.

`SecureAccessProofs`, for any policy, sessions, tokens, places of a challenge
and times: `AccessInvariant` and from it `AccessTypes`, `Authorised`, `NoReplay`,
`Invalidated`, `InfoOnce`.  `AccessInv` relates a session's key node to the
history of what was done with it (`NodeFitsRecord`, `RecordAddsUp`), each token
it accepted to the key and the challenge (`AcceptedFits`), the number of
tokens at its beginning to theirs (`IssuedBefore`), and the ids in the key, in
the tokens and at the user authentication service to the changes made before
them (`CredentialsFit`: an id is one more than the number of settings, or
enrolments, so far).  `Invalidated` needs the last: equal ids mean that equally
many such changes came before the key and before the token, hence none between.

`RootKeyProofs`, for any number of faults, crashes and sets of material:
`RootKeyInvariant` and from it `RootKeyTypes`, `OneKey`, `ServedStored`,
`Restarts`.  `RootKeyInv` has a part for the files at rest (`FilesFit`: good
copies of a file agree, and a key that was handed out has a good copy of its
main key file and of the material it is encrypted under, or of version 1) and
one for each step of `HksRkcInit` (`StepFits`: what was read, what is to be
written, in which order), as long as existing files were not taken for absent.

`UpgradeGateProofs`, for any threads, keys, users, faults, crashes and stops:
`GateInvariant` and from it `GateTypes`, `NobodyInside`, `Kept`, `Reachable`.
`GateInv` is that the lock follows the labels (`LockFits`), that a walk is under
way only for who holds it for writing (`WalkFits`), and for each key where its
copies are while the walk is at it (`CopyFits`), when one is torn (`TornFits`),
that one is left (`KeptFits`) and where (`PlacedFits`).

Assumptions are those of the modules: `LockAssumption`, `StorageAssumption`,
`SecureAccessAssumption`, `RootKeyAssumption`, `TransferAssumption` (which says
that the service's directories are not users') and `GateAssumption`; each is
about what the constants are, and TLC evaluates it in the runs.  TLC checked
every inductive invariant on instances like those of the runs before it was
proved.

Only model-checked: `RequestsComplete` of sessions, storage and gate, and
`UnlockTransfers`, because liveness under fairness is beyond this prover; and
`MemoryUsedWell`, `NothingLeaks` and `KeyMaterialWiped` of `Ownership`, which are
about some hundreds of given programs: the question is not one for every value of a
constant, and what an interpreter does with a program is an induction over it.
TLC runs every path of every one of them, so nothing is left open there but
the bound on allocations.

## 5. Plan

In order of importance:

1. (done) sessions: `KeyNodes`, `SessionManager`, `ThreeStage`, `Sessions`.
2. (done) `FileLocks`.
3. (done) `KeyStorage` over it, and `KeyRegister`, which it implements.  Left: the
   removal of directories (`HksStoreDestroy`, `HksServiceDeleteUIDKeyAliasFile`),
   which takes no file locks; so far only its memory is modelled.
4. (done) `FileTransfer` and `UpgradeGate`.
5. (done) `RootKey`, `SecureAccess`.
6. (done) memory of the engines, the key engine, the service, storage, IPC and
   client.
7. Left: listing aliases (count, then list) against concurrent stores and
   deletes; attestation callbacks and the late answer of the user
   authentication service.

Theorems next: for the storage, what of `KeyRegister` is left when a deletion
overlaps with readers of a key of the current version.

## 6. Not modelled

* The data: arithmetic, formats of parameter sets, blobs, messages and
  certificates, wording of logs and error-code tables.  Parameter checks
  (`hks_base_check.c`, `hks_check_paramset.c`, `hks_api_check` and the
  comparisons of `hks_auth.c`) are pure functions of one call over tables.
* The plugin proxy and the engine access layer (`hks_hal_access` tables), which
  forward calls.
* Callbacks of other services: anonymous attestation
  (`hks_dcm_callback_handler.cpp`) and an answer of the user authentication
  service that comes after its wait ended.
* The removal of key files with a process or user, against concurrent requests.
* Language bindings, reporting, tracing, and the iterative file reader, which
  only tests use.
* The lite variants (`hks_storage_lite.c`, `hks_keyblob_lite.c`, `crypto_lite`),
  which serve single-threaded devices.

`PROJECT.json` lists the parts with the reasons.

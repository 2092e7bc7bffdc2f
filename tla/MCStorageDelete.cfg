SPECIFICATION FairSpec
CONSTANTS
    Threads = {T1, T2}
    Paths = {"main", "bak"}
    LockIds = {L1, L2}
    NoLock = NoLock
    MallocMayFail = FALSE
    Requests = {"delete", "exist", "get"}
    OldVersions = FALSE
    IOErrors = TRUE
    MaxKeys = 1
    MaxCrashes = 1
INVARIANTS TypeOK LockInv WriterAlone DeletedStaysDeleted
PROPERTY RequestsComplete

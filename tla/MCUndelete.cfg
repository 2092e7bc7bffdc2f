SPECIFICATION Spec
CONSTANTS
    Threads = {T1, T2}
    Paths = {"main", "bak"}
    LockIds = {L1, L2}
    NoLock = NoLock
    MallocMayFail = FALSE
    Requests = {"delete", "get"}
    OldVersions = TRUE
    IOErrors = FALSE
    MaxKeys = 1
    MaxCrashes = 0
SYMMETRY StorageSymmetry
INVARIANT DeletedStaysDeleted

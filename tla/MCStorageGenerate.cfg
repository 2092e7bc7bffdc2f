SPECIFICATION Spec
CONSTANTS
    Threads = {T1, T2}
    Paths = {"main", "bak"}
    LockIds = {L1, L2}
    NoLock = NoLock
    MallocMayFail = FALSE
    Requests = {"generate", "delete", "exist", "get"}
    OldVersions = FALSE
    IOErrors = FALSE
    MaxKeys = 2
    MaxCrashes = 1
SYMMETRY StorageSymmetry
INVARIANTS KeyNeverLost NoTornRead

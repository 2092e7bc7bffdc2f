SPECIFICATION Spec
CONSTANTS
    Threads = {T1, T2}
    Paths = {"main", "bak"}
    LockIds = {L1, L2}
    NoLock = NoLock
    MallocMayFail = TRUE
    Requests = {"generate", "delete", "exist", "get"}
    OldVersions = TRUE
    IOErrors = TRUE
    MaxKeys = 2
    MaxCrashes = 1
CONSTRAINT ChangesAlone
PROPERTIES ImplementsRegister PromisedKeyIsFound

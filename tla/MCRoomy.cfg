SPECIFICATION Spec
CONSTANTS
    T1 = T1
    T2 = T2
    K1 = K1
    K2 = K2
    None = None
    INVALID_TOKEN_ID = INVALID_TOKEN_ID
    Threads = {T1, T2}
    Tokens = {K1, K2}
    Callers <- OneProcess
    MAX_KEY_NODES_COUNT = 3
    MAX_KEY_NODES_EACH_TOKEN_ID = 3
    MAX_OPERATIONS_COUNT = 2
    MAX_OPERATIONS_EACH_TOKEN_ID = 2
    MaxNodes = 3
    MaxOperations = 3
    BatchTimeout = 0
    MaxTime = 0
    ClientCalls = {"update", "finish", "abort", "removeProcess", "removeUser"}
    BatchModes = {FALSE}
SYMMETRY ThreadSymmetry
INVARIANTS KeyNodeInUseIsLive InUseMeansHeld
PROPERTIES InitNeverRefused ImplementsSessions

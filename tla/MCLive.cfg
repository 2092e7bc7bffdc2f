SPECIFICATION FairSpec
CONSTANTS
    T1 = T1
    T2 = T2
    K1 = K1
    K2 = K2
    None = None
    INVALID_TOKEN_ID = INVALID_TOKEN_ID
    Threads = {T1, T2}
    Tokens = {K1, K2}
    Callers <- OneProcess
    MAX_KEY_NODES_COUNT = 1
    MAX_KEY_NODES_EACH_TOKEN_ID = 1
    MAX_OPERATIONS_COUNT = 1
    MAX_OPERATIONS_EACH_TOKEN_ID = 1
    MaxNodes = 2
    MaxOperations = 2
    BatchTimeout = 1
    MaxTime = 2
    ClientCalls = {"update", "finish", "removeProcess"}
    BatchModes = {TRUE, FALSE}
INVARIANTS EngineDeadlineFirst NodeCountExact
PROPERTY RequestsComplete

SPECIFICATION FairSpec
CHECK_DEADLOCK FALSE
CONSTANTS
    K1 = K1  K2 = K2  U1 = U1
    Keys = {K1, K2}
    KeyKind <- FrontAndCe
    KeyUser <- OfFirst
    Users = {U1}
    FirstUser = U1
    NoKey = NoKey
    MaxFaults = 0
    Threads = {T1, T2}
    Main = Main
    Nobody = Nobody
    InitMayFail = TRUE
    MaxCrashes = 0
    MaxStops = 1
PROPERTIES RequestsComplete UnlockTransfers

SPECIFICATION Spec
CHECK_DEADLOCK FALSE
CONSTANTS
    K1 = K1  K2 = K2  U1 = U1
    Keys = {K1, K2}
    KeyKind <- CeAndRdb
    KeyUser <- OfFirst
    Users = {U1}
    FirstUser = U1
    NoKey = NoKey
    MaxFaults = 1
    Threads = {T1, T2}
    Main = Main
    Nobody = Nobody
    InitMayFail = TRUE
    MaxCrashes = 1
    MaxStops = 1
SYMMETRY ThreadSymmetry
INVARIANTS TypeOK NobodyInsideTransfer KeyKept NotStranded

SPECIFICATION Spec
CONSTANTS
    MaxMade = 3
    MaxFaults = 3
INVARIANTS TypeOK OneMainKey ServedIsStored StartsAgain

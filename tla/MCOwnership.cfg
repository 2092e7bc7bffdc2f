SPECIFICATION Spec
CHECK_DEADLOCK FALSE
CONSTANTS
    Entries <- AllEntries
    MaxObjects = 40
INVARIANTS MemoryUsedWell NothingLeaks KeyMaterialWiped

CONSTANTS
    Writers = {w1, w2}
    Ids = {a, b}
    ChunkSize = 2
    MaxBytes = 5
    MaxFaults = 2
SPECIFICATION Spec
INVARIANTS ListedIsComplete ClosedIsWhole
PROPERTY ListedIsFrozen
CHECK_DEADLOCK FALSE

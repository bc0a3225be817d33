CONSTANTS
    Sizes <- MCSizes
    Limits = {3, 6, 12}
    MaxInt = 15
    Preamble = 2
    MaxDocs = 4
SPECIFICATION Spec
INVARIANTS Tiled AllSent ChunkProgress CutFits
CHECK_DEADLOCK FALSE

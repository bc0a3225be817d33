CONSTANTS
    ChunkSize = 3
    Header = 1
    MaxLength = 7
    None = None
    MaxFaults = 2
SPECIFICATION Spec
INVARIANTS ReadsContent RoundInChunk
CHECK_DEADLOCK FALSE

CONSTANTS
    Ids = {a, b}
    Removers = {c1, c2}
    Readers = {r}
    Count = 2
    None = None
    MaxFaults = 1
SPECIFICATION FairSpec
INVARIANTS ListedHasChunks OrphansAccounted RemovedIsGone ShortWalkMeansRemoval
PROPERTY RemoveReturns

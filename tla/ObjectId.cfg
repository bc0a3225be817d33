CONSTANTS
    Processes = {p1, p2}
    Conns = {c1, c2}
    Half = 2
    Machines = 2
    MachineLow = 2
    SeqMod = 2
    MaxTime = 1
    MaxRequests = 2
    MaxResets = 1
    MaxDraws = 2
SPECIFICATION ObjectIdSpec
INVARIANT CollisionsExplained
SYMMETRY Symm

CONSTANTS
    p = p
    a = a
    b = b
    bad = bad
    c1 = c1
    c2 = c2
    Clients = {c1, c2}
    Self = p
    Bad = bad
    None = None
    HostLists <- MCHostLists
    MaxMasters = 2
    MaxSlaves = 3
SPECIFICATION Spec
INVARIANTS ExclusiveHandOut InUseIffHeld IdFindsConnection EvenSpread

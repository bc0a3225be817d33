CONSTANTS
    Conns = {c1, c2}
    Servers = {s1, s2}
    BadAddress = bad
    Users = {u}
    None = None
    Seeds = {s1, s2}
    Hosts = {bad, s1, s2}
    MaxSeeds = 2
SPECIFICATION CacheSpec
INVARIANT Accounted
SYMMETRY Symm

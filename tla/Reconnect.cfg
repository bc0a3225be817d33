CONSTANTS
    s1 = s1
    s2 = s2
    bad = bad
    None = None
    Servers = {s1, s2}
    Addrs = {s1, s2, bad}
    Members <- MCMembersBad
    Fds = {0, 1, 2}
    Slaveok = {FALSE}
    MaxEvents = 2
    MaxSeeds = 1
SPECIFICATION Spec
INVARIANTS FdOwnership OpenAccounted VerifiedReturn ReauthOnFailover

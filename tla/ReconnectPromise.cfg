CONSTANTS
    s1 = s1
    s2 = s2
    bad = bad
    None = None
    Servers = {s1, s2}
    Addrs = {s1, s2}
    Members <- MCMembers
    Fds = {1, 2, 3}
    Slaveok = {TRUE}
    MaxEvents = 1
    MaxSeeds = 2
SPECIFICATION FairSpec
PROPERTIES SettingsKept ImplementsFailover CallReturns

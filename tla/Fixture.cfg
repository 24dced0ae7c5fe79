SPECIFICATION MCSpec
CONSTANTS
    f1 = f1
    f2 = f2
    n1 = n1
    n2 = n2
    None = None
    Fixtures <- MCFixtures
    Subnets <- MCSubnets
    Bases <- MCBases
    Backends = {"nfs", "sbx-shared"}
    Firewall = {TRUE, FALSE}
    MaxFaults = 2
    MaxLate = 1
INVARIANTS
    HostRestored
    LeftoversKnown
PROPERTIES
    ForeignKept
CHECK_DEADLOCK FALSE

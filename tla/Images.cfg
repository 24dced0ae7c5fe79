SPECIFICATION MCSpec
CONSTANTS
    f1 = f1
    f2 = f2
    Fixtures <- MCFixtures
    Ids = {a, b}
    Prior = p
    References = 2
    Deadline = 24
    Attempts = 4
    MaxFaults = 2
    None = None
INVARIANTS
    TagRestored
    DeadlineKept
PROPERTIES
    EventuallyEnds
CHECK_DEADLOCK FALSE

SPECIFICATION Spec
CONSTANTS
    None = None
    N = 2
    Window5 = 4
    Window30 = 6
    Shortfall = 20
    MinSlow = 1
    MaxRows = 1
    MaxIntervals = 6
    MaxOdd = 2
INVARIANTS
    RatesSound
    SteadySound
    PublishedSound
CHECK_DEADLOCK FALSE

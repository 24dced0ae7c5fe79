CONSTANTS
    Selections <- MCArmed
    MaxRuns = 2
    MaxFaults = 2
    MaxDeaths = 1
    Sources <- MCSources
SPECIFICATION Spec
INVARIANTS
    CleanupComplete
    HomesSound
    ExitSound
PROPERTIES
    HomesGivenUp
CHECK_DEADLOCK FALSE

\* Every recovered attempt against what --collect demands.
SPECIFICATION Spec
CONSTANTS
    N = 2
    Signals = FALSE
    Background = FALSE
    MaxDeaths = 0
INVARIANTS
    RecoveryMakesCollectible

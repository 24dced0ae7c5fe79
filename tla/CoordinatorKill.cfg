\* Abrupt losses only: the Pod, its child and one command may be killed anywhere.
SPECIFICATION Spec
CONSTANTS
    N = 2
    Signals = FALSE
    Background = FALSE
    MaxDeaths = 1
INVARIANTS
    TypeOK
    SuccessIsTrue
    Collectable
    StatusConsistent
PROPERTIES
    LedgerContract
    EventuallyCollected

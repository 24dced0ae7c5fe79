\* TERM reaches the coordinator's traps, with all the losses of CoordinatorKill.
SPECIFICATION Spec
CONSTANTS
    N = 2
    Signals = TRUE
    Background = FALSE
    MaxDeaths = 1
INVARIANTS
    LedgerSound
    PublicationNeverRefused
    ImportIsFinal

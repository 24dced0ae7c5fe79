\* Three segments, drift, and one lifecycle command that dies.
SPECIFICATION Spec
CONSTANTS
    S = 3
    Drift = TRUE
    MaxDeaths = 1
INVARIANTS
    TypeOK
    SegmentsInOrder
    JournalSound
PROPERTIES
    OutcomeKept
    NothingStartsDuringCancel
    EventuallyOver

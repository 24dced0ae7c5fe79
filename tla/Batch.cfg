CONSTANTS
    Groups = 2
    GroupOf <- MCGroupOf
    Kind <- MCKind
    Quality <- MCQuality
    Requests <- MCRequests
    MaxRuns = 2
    MaxFaults = 1
    None = None
SPECIFICATION Spec
INVARIANTS
    CompleteIsTrue
    CombinedSound
    PublishedTogether
CHECK_DEADLOCK FALSE

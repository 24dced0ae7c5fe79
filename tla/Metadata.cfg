CONSTANTS
    None = None
    running = running
    archived = archived
    out = out
    replayed = replayed
    Running <- running
    Archived <- archived
    Out <- out
    Replayed <- replayed
    Plan <- MCPlan
    Target = "x"
    Archives <- MCArchives
    Measured <- MCMeasured
    Options <- MCOptions
    Inputs <- MCInputs
    Grain = 3
    Workers = 1
    MaxRuns = 2
    MaxStamps = 120
SPECIFICATION Spec
INVARIANTS
    DocumentSound
    TextSound
CHECK_DEADLOCK FALSE

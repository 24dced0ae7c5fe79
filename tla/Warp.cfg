SPECIFICATION Spec
CONSTANTS
    None = None
    Raised = Raised
    Uncaught = Uncaught
    Results <- MCResults
    Options <- MCOptions
    Kilo = 4
    Z = 1
    MinSegments = 1
    TopBars = 1
    TopBoxes = 1
    TopSeries = 1
    MaxClients = 5
    MaxFiles = 2
    MaxRuns = 2
    MaxScales = 14
INVARIANTS
    ReportSound
    FiguresTrue
CHECK_DEADLOCK FALSE

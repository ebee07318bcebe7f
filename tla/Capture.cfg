SPECIFICATION Spec
CONSTANTS
    c1 = c1
    c2 = c2
    Calls = {c1}
    ByObs = ByObs
    NoCall = NoCall
    NoFile = NoFile
    Awaited = Awaited
    Crossings = FALSE
    MaxTakes = 2
    MaxParts = 2
    MaxBreaks = 2
INVARIANTS
    OpenTakeIsRecorded
    TakesKeepTheirFiles
    OneSidecarPerTake
PROPERTIES
    CallsReturn
CHECK_DEADLOCK FALSE

SPECIFICATION DrivingSpec
CONSTANTS
    NoTime = NoTime
    NoSlot = NoSlot
    EndingSoon = 1
    Late = 1
    BreakSoon = 3
    Grace = 1
    TooEarly = 3
    Here = "a"
    Programmes <- TwoDays
    MaxTime = 11
    MaxGestures = 3
    MaxFaults = 1
INVARIANTS
    BadgeAgreesWithTarget
    InheritedBreaksFit
PROPERTIES
    AnnouncedUntilItsTurn
    TakeGoesFirst
    OverrunsEnd
CHECK_DEADLOCK FALSE

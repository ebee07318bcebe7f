SPECIFICATION Spec
CONSTANTS
    w1 = w1
    f1 = f1
    f2 = f2
    Trusted = {w1}
    Forms = {f1, f2}
    SnapshotSize = 1
    RoomLimit = 2
    MaxChanges = 2
    MaxGestures = 2
    MaxFaults = 1
INVARIANTS
    RejectedStaysOff
    NothingUnvetted
CHECK_DEADLOCK FALSE
PROPERTIES
    SourceIsFollowed
    RoomSettles
    ApprovedIsSeen

SPECIFICATION Spec
CONSTANTS
    w1 = w1
    f1 = f1
    f2 = f2
    Trusted = {}
    Forms = {f1}
    SnapshotSize = 2
    RoomLimit = 2
    MaxChanges = 0
    MaxGestures = 2
    MaxFaults = 1
PROPERTY RejectedLeaves
CHECK_DEADLOCK FALSE

SPECIFICATION Spec
CONSTANTS
    loop = loop
    camera = camera
    sponsors = sponsors
    Scenes = {loop, camera}
    NoScene = NoScene
    Overtaking = FALSE
    MaxSwitches = 2
    MaxHands = 2
    MaxFaults = 1
INVARIANTS
    NeverHurried
    LastAskedStays
PROPERTIES
    FrozenIsRepaired SwitchesReturn
CHECK_DEADLOCK FALSE

SPECIFICATION Spec
CONSTANTS
    hall = hall
    studio = studio
    opening = opening
    panel = panel
    workshop = workshop
    phone = phone
    tablet = tablet
    laptop = laptop
    ann = ann
    bob = bob
    Rooms = {hall, studio}
    Here = hall
    Talks = {opening, panel, workshop}
    Export <- Slots
    Tabs = {phone, tablet, laptop}
    Owner <- Operators
    NoOne = NoOne
    Ttl = 2
    Grace = 1
    MaxTime = 2
    MaxGestures = 3
INVARIANTS
    LifecycleCatchesUp
    PinsCatchUp
    BadgeFollowsTheLock
    SlotsArePermuted
    PinEndsWithItsTalk
PROPERTIES
    HeldWithoutAGap
SYMMETRY Alike

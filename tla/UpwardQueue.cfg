SPECIFICATION FairSpec
CONSTANTS
    Rooms = {r1}
    NoRoom = NoRoom
    Types <- QueueTypes
    BatchSize = 2
    MaxDepth = 1
    BackpressureEvery = 2
    MaxEvents = 2
    MaxLate = 1
INVARIANTS
    NothingVanishes
    ImpressionsCountedOnce
    LastSeqIsNewest
PROPERTIES
    ConsentNeverOlder
    RequiredArrives
    PromiseKept

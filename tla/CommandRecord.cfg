SPECIFICATION FairSpec
CONSTANTS
    Kinds <- SomeKinds
    MaxCommands = 2
    MaxRestores = 1
    MaxForgets = 1
    MaxCrashes = 1
INVARIANTS
    NothingSkipped
    InOrderAndOnce
    OutcomeIsTheLatest
PROPERTIES
    PhoneReadsTheLatest
    EveryCommandSettles

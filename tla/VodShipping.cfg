SPECIFICATION Spec
CONSTANTS
    Files = {rush}
    Cuts <- OneOrTwo
    PartBatch = 1
    MaxMultiparts = 2
    MaxCalls = 2
INVARIANTS
    SafeIsWhole
    ResumedPartsArrived
CONSTRAINT
    NotOvertaken

SPECIFICATION Spec
CONSTANTS
    Workers = {w1}
    NoWorker = NoWorker
    Talks = {keynote}
    MaxAttempts = 3
    MaxJobs = 1
    MaxTakes = 1
    MaxLeases = 2
    MaxCalls = 1
    MaxUploads = 2
INVARIANTS
    WritesUnderItsLease

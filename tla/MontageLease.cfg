SPECIFICATION Spec
CONSTANTS
    Workers = {w1}
    NoWorker = NoWorker
    Talks = {keynote}
    MaxAttempts = 2
    MaxJobs = 1
    MaxTakes = 1
    MaxLeases = 2
    MaxCalls = 2
    MaxUploads = 2
INVARIANTS
    NoEndlessRetry
    VideoIsThere
PROPERTIES
    OldLeaseIsPowerless

SPECIFICATION Spec
CONSTANTS
    MaxJobs = 3
    CreatedAt <- Advancing
    KeepRecent = 0
    MaxCrashes = 1
    Faults = {}
    Requests = {}
INVARIANT BytesSurvive

SPECIFICATION Spec
CONSTANTS
    MaxJobs = 3
    CreatedAt <- Advancing
    KeepRecent = 0
    MaxCrashes = 2
    Faults = {}
    Requests = {"delete", "reset"}
INVARIANTS CommittedIntact PublishedVerified PruneSparesLatest
PROPERTIES LedgerSpec VersionsRegistered

SPECIFICATION Spec
CONSTANTS
    MaxJobs = 2
    CreatedAt <- Advancing
    KeepRecent = 0
    MaxCrashes = 1
    Faults = {"io"}
    Requests = {"delete", "delete_latest", "reset", "reset_race"}
INVARIANTS SucceededHasVersion
PROPERTIES JobsSettle

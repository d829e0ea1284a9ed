SPECIFICATION Spec
CONSTANTS
    Storages = {"disk", "shuttle"}
    Declared0 = {"disk"}
    Devices = {"phone"}
    Jobs = {"j1", "j2"}
    Intervals = {0, 1}
    Mixes = {{"j1", "list"}, {"list", "edit", "recheck"}, {"j1", "interval", "insert", "scan"},
             {"j1", "schedule", "recheck", "scan"}, {"j1", "j2", "recheck"}}
INVARIANTS TriggerNotLost HealthHonest IntervalApplied
 
CHECK_DEADLOCK FALSE

SPECIFICATION BothSpec
CHECK_DEADLOCK FALSE
CONSTANTS
    Versions <- MCVersions
    DefaultLimit = 2
    MaxLimit = 3
    Chunk = 2
    Sessions = {"a", "b"}
    Reqs = {"r1", "r2"}
    Mixes <- MCMixes
    Rescans = {"r1", "r2"}
    CrashLoopThreshold = 2
    MaxBackoff = 1
    MaxExits = 2
    MaxServes = 1
INVARIANTS NoTornRead NothingLeft ReadsTrue RescanReplaces
PROPERTIES ExpiredEnds

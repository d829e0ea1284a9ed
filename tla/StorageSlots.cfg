SPECIFICATION StorageSpec
CHECK_DEADLOCK FALSE
CONSTANTS
    Names = {"a", "b"}
    Paths = {"p", "q"}
    Removable = {"p"}
    Edits <- MCEdits
    Puts <- MCPuts
    Rechecks = {"r1"}
    MaxIds = 2
    Mixes <- MCMixes
    MaxBackups = 3
    SnapTime <- MCSnapTime
    ZFSMixes <- MCZFSMixes
INVARIANTS SlotsFollowConfig SnapshotsWhole IdentityRecorded
PROPERTIES EditTakesEffect ZFSLedgerSpec

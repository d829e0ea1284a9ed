SPECIFICATION ServedSpec
CHECK_DEADLOCK FALSE
CONSTANTS
    Pairs = {"p", "q"}
    MaxTrials = 2
    MaxRewrites = 1
    CertMixes <- MCCertMixes
    Ids = {"o1", "o2"}
    Mixes <- MCMixes
    Backed = TRUE
    SoftCap = 1
    Queue = 1
INVARIANTS BadgeTrue KeeperTrue
PROPERTIES TrialSettles

SPECIFICATION GuardedSpec
CHECK_DEADLOCK FALSE
SYMMETRY Symmetry
CONSTANTS
    k1 = k1  k2 = k2
    Creds = {k1, k2}
    RpOf <- MCRpOf
    Requests = {r1, r2}
    Devices = {d1}
    Keys = {c1, c2}
    Links = {l1}
    MaxPasswords = 2  MaxSessions = 2  MaxProofs = 1
    Mixes <- MCMixes
INVARIANTS SessionBacked LinkBounded ScopeHolds WritesHeld
PROPERTIES WayInKept ProofSpentOnce

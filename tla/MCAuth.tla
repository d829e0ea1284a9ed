------------------------------- MODULE MCAuth -------------------------------
EXTENDS Auth, ApiGuards, TLC

CONSTANTS k1, k2

MCRpOf == [c \in Creds |-> "home"]
MCMixes == {
    {"login", "removePassword", "removePasskey", "reauth"},
    {"login", "changePassword", "removePasskey", "passkeyLogin", "sweepFails"},
    {"setup", "setupPasskey", "reset", "removePassword"},
    {"setup", "login", "changePassword", "logout"},
    {"enrol", "removePasskey", "subscribe", "restart", "expiry"},
    {"enrol", "addPasskey", "expiry", "passkeyLogin"},
    {}}
MCPushMix == {{"enrol", "removePasskey", "subscribe"}}
\* With no such requests, one of any kind on its way through the guards.
GuardedInit == Init /\ IF mix = {} /\ password = 0 THEN ApiInit ELSE ApiOff
GuardedNext == \/ Next /\ UNCHANGED apiVars
               \/ ApiNext /\ UNCHANGED vars
GuardedSpec == GuardedInit /\ [][GuardedNext]_<<vars, apiVars>>
Symmetry == Permutations(Requests) \cup Permutations(Keys) \cup Permutations(Creds)
=============================================================================

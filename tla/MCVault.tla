------------------------------ MODULE MCVault ------------------------------
EXTENDS VaultSessions, VaultReading, MuxSupervisor

\* One session and every operation; two sessions without the overview (whose
\* lock order against Messages is VaultDeadlock.cfg); the process ending.
MCMixes ==
    {[sessions |-> {"a"}, ends |-> FALSE, ops |-> {"unlock", "lock", "stream", "overview", "search"}],
     [sessions |-> {"a", "b"}, ends |-> FALSE, ops |-> {"unlock", "stream"}],
     [sessions |-> {"a", "b"}, ends |-> FALSE, ops |-> {"unlock", "chats"}],
     [sessions |-> {"a"}, ends |-> TRUE, ops |-> {"unlock", "lock", "browse", "chats"}],
     [sessions |-> {}, ends |-> FALSE, ops |-> {}]}
MCDeadlock == {[sessions |-> {"a", "b"}, ends |-> FALSE, ops |-> {"unlock", "overview", "chats"}]}
MCQuiet == {[sessions |-> {}, ends |-> FALSE, ops |-> {}]}

Plain == [bad |-> FALSE, size |-> 1, disk |-> 1]
Rows(n) == [i \in 1..n |-> Plain]
Bad == [bad |-> TRUE, size |-> 0, disk |-> 0]
\* Every listing of up to five rows at limits on both sides of the bounds, a
\* path on the first, the second or no page, and a file of every size.
MCListings == [arm : Arms, rows : {Rows(n) : n \in 0..5}, want : {0}, limit : 0..4]
MCPaths == [arm : {"encrypted", "unencrypted"}, rows : {Rows(4)}, want : 1..5, limit : {0}]
MCFiles == [arm : {"encrypted", "unencrypted"}, want : {1}, limit : {0},
            rows : {<<[bad |-> FALSE, size |-> s, disk |-> d]>> : s \in 0..4, d \in 0..4}]
MCVersions == MCListings \cup MCPaths \cup MCFiles
MCLastPage == {[arm |-> "encrypted", rows |-> Rows(n), want |-> 0, limit |-> 2] : n \in 1..5}
MCThread == {[arm |-> "thread", rows |-> <<Plain, Bad, Plain, Plain>>, want |-> 0, limit |-> 2]}

\* Sessions; when a run has none, readings; and, with neither, a muxer under
\* its supervisor.
Supervised == sup.at # "off"
BothInit ==
    /\ Init
    /\ \/ ReadInit(IF mix.sessions = {} THEN Versions ELSE {Off}) /\ SupInit("off")
       \/ mix.sessions = {} /\ ReadInit({Off}) /\ SupInit("top")
BothNext == \/ Next /\ UNCHANGED <<readVars, supVars>>
            \/ ReadNext /\ UNCHANGED <<vars, mix, supVars>>
            \/ SupNext /\ UNCHANGED <<vars, mix, readVars>>
BothSpec == /\ BothInit /\ [][BothNext]_<<vars, mix, readVars, supVars>>
            /\ Fairness /\ WF_readVars(ReadStep /\ UNCHANGED <<vars, mix>>) /\ SupFairness
=============================================================================

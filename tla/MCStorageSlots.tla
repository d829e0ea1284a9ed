--------------------------- MODULE MCStorageSlots ---------------------------
EXTENDS StorageSlots, ZFSCommit

Doc(a, b, def, k) == [kind |-> "doc", at |-> [n \in Names |-> IF n = "a" THEN a ELSE b], def |-> def, knob |-> k]
MCEdits == {Doc("p", "none", "a", FALSE), Doc("none", "none", "none", TRUE)}
MCPuts == {Doc("q", "none", "a", TRUE)}
MCMixes == {{"put", "section", "add", "edit", "break", "vanish", "write"},
            {"recheck", "put", "media", "row"},
            {"recheck", "add", "default", "forget"},
            {"add", "forget", "job", "row"}, {}}

\* The zfs store alone, while no request or fault meets the slots.  The third
\* version's name says an earlier time than the second's.
MCSnapTime == [v \in 1..MaxBackups |-> IF v = 3 THEN 1 ELSE v]
Mix(may, backups, crashes, host) == [may |-> may, backups |-> backups, crashes |-> crashes, host |-> host]
MCZFSMixes == {Mix({"truncated", "delete"}, 2, 2, 0), Mix({"reset", "delete"}, 3, 0, 1), Mix({"reset"}, 2, 1, 0),
               Mix({"reset", "lateBack"}, 1, 0, 0), Mix({"fault", "late"}, 1, 1, 0)}
MCZFSFaults == {Mix({"fault"}, 2, 1, 0)}
MCNoMix == {{}}
Alone == mix = {}
StorageInit == Init /\ ZFSInit(IF Alone THEN ZFSMixes ELSE {Mix({}, 0, 0, 0)})
StorageNext == \/ ~Alone /\ Next /\ UNCHANGED zfsVars
               \/ Alone /\ ZFSNext /\ UNCHANGED vars
\* The command answers or times out, the daemon is started again, and passes over
\* the registry go on; the tool owes nothing.
StorageSpec == /\ StorageInit /\ [][StorageNext]_<<vars, zfsVars>> /\ Fairness
               /\ WF_zfsVars(Alone /\ Committing) /\ WF_zfsVars(Alone /\ Booting)
               /\ WF_zfsVars(Alone /\ ScanDevice)
=============================================================================

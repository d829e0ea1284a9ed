----------------------------- MODULE ZFSCommit -----------------------------
(***************************************************************************)
(* The zfs version store of one device: a backup is written in place into  *)
(* the dataset head, and a snapshot of the head is the version.            *)
(*                                                                         *)
(* A job's number is its version's.  The zfs command runs on the host,     *)
(* perhaps over ssh: it may fail, or take effect and be reported failed,   *)
(* or take effect after the daemon stopped waiting.  One job at a time and *)
(* the scan's lease are the engine's and the namespace store's subject.    *)
(***************************************************************************)
EXTENDS Integers, Sequences, SequencesExt, FiniteSets

CONSTANTS
    MaxBackups,   \* bound: backups ever started
    SnapTime,     \* the rank of the time a version's snapshot name says; a clock may be set back
    ZFSMixes      \* what may happen, and bounds on backups, crashes and snapshots of the host's own

Backups == 1..MaxBackups
ZMixes == [may : SUBSET {"truncated", "delete", "reset", "race", "fault", "late", "lateBack"}, backups : 0..MaxBackups,
           crashes : Nat, host : Nat]
ASSUME ZFSAssumption ==
    /\ MaxBackups \in Nat /\ SnapTime \in [Backups -> Backups]
    /\ ZFSMixes \subseteq ZMixes

VARIABLES
    head,              \* the dataset root: whose bytes, whether all of them, whose marker
    snaps, order,      \* the snapshots, and the order in which the host took them (0: its own)
    dirty,             \* the work sentinel, in the parent dataset
    commitLog,         \* the commit journal, in the parent dataset
    known,             \* the versions table
    pc, live, cur,     \* the step, the running job, the version being committed
    verdict,
    late, lateBack,    \* a snapshot and a rollback command the host has yet to carry out
    deleting,          \* a request to delete a version
    resetting,         \* a request to reset the head: what is next, and what it goes back to
    condemned, ever,   \* history: versions asked to be deleted; versions ever taken
    zmix

zfsVars == <<head, snaps, order, dirty, commitLog, known, pc, live, cur, verdict, late, lateBack,
             deleting, resetting, condemned, ever, zmix>>
dataset == <<head, snaps, order>>
sidecars == <<dirty, commitLog>>
commands == <<late, lateBack>>
asked == <<commands, deleting, resetting, condemned, zmix>>

NoTree == [by |-> 0, whole |-> TRUE, marker |-> 0]
NoSnap == [by |-> 0, whole |-> FALSE, marker |-> 0]
NoDelete == [ver |-> 0, at |-> "none"]
NoReset == [at |-> "none", ver |-> 0]
NoLog == [phase |-> "none", ver |-> 0]
Version(v) == [by |-> v, whole |-> TRUE, marker |-> v]

Or0 == {0} \cup Backups
Trees == [by : Or0, whole : BOOLEAN, marker : Or0]

ZFSTypeOK ==
    /\ head \in Trees /\ snaps \in [Backups -> Trees] /\ dirty \in BOOLEAN
    /\ commitLog \in [phase : {"none", "prepared", "snapshot_created"}, ver : Or0]
    /\ known \in [Backups -> {"none", "present", "missing"}]
    /\ pc \in {"idle", "tool", "verify", "marker", "journal", "snapshot", "advance", "clean", "unjournal",
               "register", "judge", "down"}
    /\ live \in Or0 /\ cur \in Or0 /\ late \in Or0 /\ lateBack \in Or0
    /\ verdict \in [Backups -> {"none", "running", "succeeded", "failed"}]
    /\ deleting \in [ver : Or0, at : {"none", "snapshot", "row"}]
    /\ resetting \in [at : {"none", "rollback", "empty", "clean"}, ver : Or0]
    /\ condemned \subseteq Backups /\ ever \subseteq Backups
    /\ zmix \in ZMixes

\* The host lists a snapshot once.
OrderTrue ==
    \A v \in Backups : Cardinality({i \in DOMAIN order : order[i] = v}) = IF snaps[v] = NoSnap THEN 0 ELSE 1

ZFSInit(mixes) ==
    /\ zmix \in mixes /\ head = NoTree /\ snaps = [v \in Backups |-> NoSnap] /\ order = << >>
    /\ dirty = FALSE /\ commitLog = NoLog /\ known = [v \in Backups |-> "none"]
    /\ pc = "idle" /\ live = 0 /\ cur = 0 /\ verdict = [v \in Backups |-> "none"]
    /\ late = 0 /\ lateBack = 0 /\ deleting = NoDelete /\ resetting = NoReset /\ condemned = {} /\ ever = {}

Step(from, to) == pc = from /\ pc' = to

-----------------------------------------------------------------------------
(* A backup, in place                                                      *)

\* The engine refuses a reset while a backup runs, by a check before it: what
\* starts after the check meets the reset (ResetWorking).
PrepareWork(j) ==
    /\ resetting = NoReset \/ "race" \in zmix.may
    /\ j <= zmix.backups /\ live = 0 /\ verdict[j] = "none" /\ \A i \in 1..(j - 1) : verdict[i] # "none"
    /\ Step("idle", "tool") /\ live' = j /\ verdict' = [verdict EXCEPT ![j] = "running"] /\ dirty' = TRUE
    /\ UNCHANGED <<dataset, commitLog, known, cur, asked, ever>>

\* idevicebackup2 writes into the head; what it leaves out is what a failure
\* leaves out.
Transfer ==
    /\ pc = "tool" /\ head # [head EXCEPT !.by = live, !.whole = FALSE]
    /\ head' = [head EXCEPT !.by = live, !.whole = FALSE]
    /\ UNCHANGED <<snaps, order, sidecars, known, pc, live, cur, verdict, asked, ever>>
ToolExits(whole) ==
    /\ whole \/ "truncated" \in zmix.may
    /\ Step("tool", "verify") /\ head.by = live /\ head' = [head EXCEPT !.whole = whole]
    /\ UNCHANGED <<snaps, order, sidecars, known, live, cur, verdict, asked, ever>>

Ends(how) == live' = 0 /\ verdict' = IF live = 0 THEN verdict ELSE [verdict EXCEPT ![live] = how]
\* The dirty head is kept: a retry resumes into it.
Discard == UNCHANGED dirty

JobFails ==
    /\ pc = "tool" /\ pc' = "idle" /\ Ends("failed") /\ Discard
    /\ UNCHANGED <<dataset, commitLog, known, cur, asked, ever>>

\* Mutation: what the tool left is taken as it is.
VerifyNothing == TRUE
\* A sample of the manifest's records: it does not miss files that a cut-short
\* reset took before the tool resumed.
Verify == head.whole
VerifyHead ==
    /\ pc = "verify" /\ UNCHANGED <<dataset, commitLog, known, cur, asked, ever>>
    /\ \/ Verify /\ pc' = "marker" /\ UNCHANGED <<live, verdict, dirty>>
       \/ ~Verify /\ pc' = "idle" /\ Ends("failed") /\ Discard

-----------------------------------------------------------------------------
(* Commit                                                                  *)

WriteMarker ==
    /\ Step("marker", "journal") /\ head' = [head EXCEPT !.marker = live] /\ cur' = live
    /\ UNCHANGED <<snaps, order, sidecars, known, live, verdict, asked, ever>>
WriteJournal ==
    /\ Step("journal", "snapshot") /\ commitLog' = [phase |-> "prepared", ver |-> cur]
    /\ UNCHANGED <<dataset, dirty, known, live, cur, verdict, asked, ever>>

\* "already exists" is success.
Take(v) == IF snaps[v] # NoSnap THEN UNCHANGED <<snaps, order, ever>>
           ELSE /\ snaps' = [snaps EXCEPT ![v] = head] /\ order' = Append(order, v) /\ ever' = ever \cup {v}

Snapshot ==
    /\ Step("snapshot", "advance") /\ Take(cur)
    /\ UNCHANGED <<head, sidecars, known, live, cur, verdict, asked>>
\* A commit that fails leaves its journal; the daemon serves on.
SnapshotFails(how) ==
    /\ how \in zmix.may /\ pc = "snapshot" /\ pc' = IF live = 0 THEN "judge" ELSE "idle"
    /\ Ends("failed") /\ late' = IF how = "late" THEN cur ELSE late
    /\ UNCHANGED <<dataset, sidecars, known, cur, lateBack, deleting, resetting, condemned, ever, zmix>>
SnapshotLate ==
    /\ late # 0 /\ Take(late) /\ late' = 0
    /\ UNCHANGED <<head, sidecars, known, pc, live, cur, verdict, lateBack, deleting, resetting, condemned, zmix>>

AdvanceJournal ==
    /\ Step("advance", "clean") /\ commitLog' = [commitLog EXCEPT !.phase = "snapshot_created"]
    /\ UNCHANGED <<dataset, dirty, known, live, cur, verdict, asked, ever>>
RemoveSentinel ==
    /\ Step("clean", "unjournal") /\ dirty' = FALSE
    /\ UNCHANGED <<dataset, commitLog, known, live, cur, verdict, asked, ever>>
RemoveJournal ==
    /\ Step("unjournal", "register") /\ commitLog' = NoLog
    /\ UNCHANGED <<dataset, dirty, known, live, cur, verdict, asked, ever>>
\* committedFromSnapshot reads the marker back, registerCommitted inserts it.
RegisterVersion ==
    /\ pc = "register" /\ pc' = IF live = 0 THEN "judge" ELSE "idle"
    /\ known' = [known EXCEPT ![snaps[cur].marker] = "present"] /\ Ends("succeeded")
    /\ UNCHANGED <<dataset, sidecars, cur, asked, ever>>

-----------------------------------------------------------------------------
(* Crash, and roll-forward before anything is served                       *)

ZFSCrash ==
    /\ zmix.crashes > 0 /\ zmix' = [zmix EXCEPT !.crashes = @ - 1] /\ pc # "down" /\ pc' = "down"
    /\ live' = 0 /\ deleting' = NoDelete /\ resetting' = NoReset
    /\ UNCHANGED <<dataset, sidecars, known, cur, verdict, commands, condemned, ever>>

ResumeAt(phase) == CASE phase = "none" -> "judge" [] phase = "prepared" -> "snapshot" [] OTHER -> "clean"
RollForward ==
    /\ Step("down", ResumeAt(commitLog.phase)) /\ cur' = commitLog.ver
    /\ UNCHANGED <<dataset, sidecars, known, live, verdict, asked, ever>>
\* Engine.Reconcile: a job whose version is there succeeded.
JudgeOrphans ==
    /\ Step("judge", "idle")
    /\ verdict' = [v \in Backups |-> IF verdict[v] # "running" THEN verdict[v]
                                     ELSE IF known[v] = "present" THEN "succeeded" ELSE "failed"]
    /\ UNCHANGED <<dataset, sidecars, known, live, cur, asked, ever>>

-----------------------------------------------------------------------------
(* The scan, and what users ask for                                        *)

Scanned == {snaps[v].marker : v \in {u \in Backups : snaps[u] # NoSnap}}
ScanRows == [v \in Backups |-> IF v \in Scanned THEN "present" ELSE IF known[v] = "none" THEN "none" ELSE "missing"]

ScanDevice ==
    /\ pc = "idle" /\ known' = ScanRows
    /\ UNCHANGED <<dataset, sidecars, pc, live, cur, verdict, asked, ever>>

\* The newest by its name.
NewestSnap == CHOOSE v \in Backups : /\ snaps[v] # NoSnap
    /\ \A u \in Backups : snaps[u] # NoSnap => SnapTime[u] < SnapTime[v] \/ (SnapTime[u] = SnapTime[v] /\ u <= v)

\* Mutation: the newest snapshot goes.
VictimNewest == IF \A v \in Backups : snaps[v] = NoSnap THEN deleting.ver ELSE NewestSnap
\* The snapshot the version's row names.
Victim == deleting.ver

\* deleteVersion reads the row, destroys the snapshot, removes the row, holding
\* neither the lease nor the engine's lock.
DeleteRead(v) ==
    /\ "delete" \in zmix.may /\ (pc = "idle" \/ live # 0) /\ deleting.ver = 0 /\ known[v] # "none"
    /\ condemned' = condemned \cup {v} /\ deleting' = [ver |-> v, at |-> IF known[v] = "missing" THEN "row" ELSE "snapshot"]
    /\ UNCHANGED <<dataset, sidecars, known, pc, live, cur, verdict, commands, resetting, ever, zmix>>
DestroySnapshot ==
    /\ deleting.at = "snapshot" /\ deleting' = [deleting EXCEPT !.at = "row"]
    /\ snaps' = [snaps EXCEPT ![Victim] = NoSnap] /\ order' = SelectSeq(order, LAMBDA i : i # Victim)
    /\ UNCHANGED <<head, sidecars, known, pc, live, cur, verdict, commands, resetting, condemned, ever, zmix>>
DeleteRow ==
    /\ deleting.at = "row" /\ known' = [known EXCEPT ![deleting.ver] = "none"] /\ deleting' = NoDelete
    /\ UNCHANGED <<dataset, sidecars, pc, live, cur, verdict, commands, resetting, condemned, ever, zmix>>

HostSnapshot ==
    /\ zmix.host > 0 /\ zmix' = [zmix EXCEPT !.host = @ - 1] /\ order' = Append(order, 0)
    /\ UNCHANGED <<head, snaps, sidecars, known, pc, live, cur, verdict, commands, deleting, resetting, condemned, ever>>

\* RepairWorkingCopy: the snapshots are listed, the head is rolled back to the
\* newest or emptied, the sentinel is removed.  A request that names the storage
\* is not asked whether the head is dirty.
ResetLists ==
    /\ "reset" \in zmix.may /\ pc = "idle" /\ resetting = NoReset
    /\ resetting' = IF \A v \in Backups : snaps[v] = NoSnap THEN [at |-> "empty", ver |-> 0]
                     ELSE [at |-> "rollback", ver |-> NewestSnap]
    /\ UNCHANGED <<head, dirty, lateBack>>

\* zfs refuses when a snapshot, its own or the host's, is more recent.
Back(v) == snaps[v] # NoSnap /\ Last(order) = v
ResetRollback ==
    /\ resetting.at = "rollback" /\ UNCHANGED dirty
    /\ \/ /\ Back(resetting.ver) /\ head' = snaps[resetting.ver]
          /\ resetting' = [resetting EXCEPT !.at = "clean"] /\ UNCHANGED lateBack
       \/ /\ ~Back(resetting.ver)
          /\ resetting' = NoReset /\ UNCHANGED <<head, lateBack>>
       \/ /\ "lateBack" \in zmix.may /\ lateBack' = resetting.ver
          /\ resetting' = NoReset /\ UNCHANGED head
RollbackLate ==
    /\ lateBack # 0 /\ lateBack' = 0
    /\ head' = IF Back(lateBack) THEN snaps[lateBack] ELSE head
    /\ UNCHANGED <<dirty, resetting>>

\* emptyHead removes entry by entry, the marker at its turn, and gives up at the
\* first it cannot remove.
EmptyPartly ==
    /\ resetting.at = "empty" /\ UNCHANGED <<dirty, lateBack>>
    /\ head' \in {[head EXCEPT !.whole = FALSE, !.marker = m] : m \in {0, head.marker}} \ {head}
    /\ resetting' \in {resetting, NoReset}
EmptyHead ==
    /\ resetting.at = "empty" /\ head' = NoTree /\ resetting' = [resetting EXCEPT !.at = "clean"]
    /\ UNCHANGED <<dirty, lateBack>>
ResetCleans ==
    /\ resetting.at = "clean" /\ dirty' = FALSE /\ resetting' = NoReset
    /\ UNCHANGED <<head, lateBack>>

RepairHead ==
    /\ ResetLists \/ ResetRollback \/ RollbackLate \/ EmptyPartly \/ EmptyHead \/ ResetCleans
    /\ UNCHANGED <<snaps, order, commitLog, known, pc, live, cur, verdict, late, deleting, condemned, ever, zmix>>

-----------------------------------------------------------------------------

Committing == VerifyHead \/ WriteMarker \/ WriteJournal \/ Snapshot \/ AdvanceJournal \/ RemoveSentinel
              \/ RemoveJournal \/ RegisterVersion
ToolRuns == Transfer \/ (\E whole \in BOOLEAN : ToolExits(whole)) \/ JobFails
Booting == RollForward \/ JudgeOrphans
ZFSNext == \/ \E j \in Backups : PrepareWork(j) \/ DeleteRead(j)
           \/ ToolRuns \/ Committing
           \/ (\E how \in {"fault", "late"} : SnapshotFails(how)) \/ SnapshotLate
           \/ ZFSCrash \/ Booting \/ ScanDevice \/ DestroySnapshot \/ DeleteRow \/ HostSnapshot \/ RepairHead
ZFSSpec == ZFSInit(ZFSMixes) /\ [][ZFSNext]_zfsVars

-----------------------------------------------------------------------------
(* Properties                                                              *)

\* What a snapshot holds under a version's name is that backup, whole and
\* verified, with its marker: a commit that a crash interrupted is finished
\* from a head nobody has written to since.
SnapshotsWhole == \A v \in Backups : snaps[v] # NoSnap => snaps[v] = Version(v)

\* Without a sentinel there is nothing to reset: the head is a whole backup or
\* empty, at every moment between backups, while there is a version.  With none, a
\* reset that was cut short may have left part of a head nobody called dirty.
CleanIsWhole == pc = "idle" /\ ~dirty => head.whole \/ \A v \in Backups : snaps[v] = NoSnap

\* A reset puts back the version taken last, never an older one, though names
\* carry a clock that may have been set back; it empties only a head that has no
\* version to go back to.
ResetRestores == [][pc = "idle" /\ head' # head =>
                     /\ snaps' = snaps
                     /\ \/ (head' = NoTree \/ ~head'.whole) /\ \A v \in Backups : snaps[v] = NoSnap
                        \/ \E v \in Backups : head' = snaps[v] /\ Last(order) = v]_zfsVars

\* A snapshot the registry does not know gets its row, or is deleted, unless a
\* tool that hangs keeps the scan away for ever.
SnapshotsRegistered == []<>(pc # "tool") => \A v \in Backups : (snaps[v] # NoSnap) ~> (known[v] = "present" \/ snaps[v] = NoSnap)

\* The zfs store keeps the promise of every version store.
ZFSLedger == INSTANCE VersionLedger
               WITH Versions <- Backups, kept <- {v \in Backups : snaps[v] = Version(v)},
                    ever <- ever, condemned <- condemned
ZFSLedgerSpec == ZFSLedger!Spec

-----------------------------------------------------------------------------
(* The inductive invariant behind the theorems                             *)

\* Version v is being committed from the head, which is that backup and which
\* nobody else reads, registers or deletes.
Unknown(v) == v \in Backups /\ known[v] = "none" /\ deleting.ver # v /\ verdict[v] # "none"
Prepared(v) == Unknown(v) /\ head = Version(v) /\ (v \in ever => snaps[v] # NoSnap)
Taken(v) == Unknown(v) /\ head = Version(v) /\ snaps[v] = Version(v)

JobTrue ==
    /\ pc \in {"tool", "verify", "marker", "journal"} =>
          /\ live \in Backups \ ever /\ known[live] = "none" /\ verdict[live] = "running" /\ dirty
    /\ pc \in {"verify", "marker", "journal"} => head.by = live
    /\ pc \in {"marker", "journal"} => head.whole
    /\ pc = "journal" => cur = live /\ head.marker = live
    /\ pc \in {"idle", "judge", "down"} => live = 0
    /\ pc = "down" => deleting = NoDelete
\* What holds also when commands fail.
PlaceTrue ==
    /\ pc \in {"tool", "verify", "marker", "journal"} => live # 0
    /\ pc \in {"journal", "snapshot", "advance", "clean", "unjournal", "register"} => cur # 0
    /\ pc \in {"snapshot", "advance"} => commitLog = [phase |-> "prepared", ver |-> cur]
    /\ commitLog.phase = "none" <=> commitLog.ver = 0
    /\ resetting.at = "rollback" => resetting.ver # 0
LogTrue ==
    /\ pc = "snapshot" => Prepared(cur)
    /\ pc \in {"advance", "clean", "unjournal", "register"} => Taken(cur)
    /\ pc \in {"clean", "unjournal"} => commitLog = [phase |-> "snapshot_created", ver |-> cur]
    /\ pc \in {"idle", "tool", "verify", "marker", "journal", "register", "judge"} => commitLog = NoLog
    /\ pc = "down" /\ commitLog.phase = "prepared" => Prepared(commitLog.ver)
    /\ pc = "down" /\ commitLog.phase = "snapshot_created" => Taken(commitLog.ver)
HistoryTrue ==
    /\ \A v \in Backups : /\ snaps[v] # NoSnap => v \in ever
                          /\ known[v] # "none" => v \in ever
                          /\ verdict[v] = "none" => v \notin ever
    /\ deleting.ver # 0 => deleting.ver \in condemned \cap ever
    /\ deleting.at # "none" => deleting.ver # 0
\* A reset is alone with the head until it has removed the sentinel.
ResetTrue ==
    /\ lateBack = 0 /\ (resetting.at # "none" => pc = "idle")
    /\ resetting.at = "empty" => \A v \in Backups : snaps[v] = NoSnap
    /\ resetting.at = "clean" => head.whole
\* As long as every command is answered truthfully and no job meets a reset.
Answered == zmix.may \cap {"race", "fault", "late", "lateBack"} = {}
ZFSInv == PlaceTrue /\ (Answered => late = 0 /\ SnapshotsWhole /\ JobTrue /\ LogTrue /\ HistoryTrue /\ ResetTrue
                                    /\ (~dirty => head.whole \/ \A v \in Backups : snaps[v] = NoSnap))
=============================================================================

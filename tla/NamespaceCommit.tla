-------------------------- MODULE NamespaceCommit --------------------------
(***************************************************************************)
(* One device on one namespace storage (reflink, hardlink or copy): the    *)
(* working tree a backup is written into, latest/, versions/<ts>/, the     *)
(* work sentinel, the commit journal, the version registry, and everything *)
(* that moves them: the job that seeds, writes, verifies and commits, the  *)
(* start-up roll-forward, the reconciliation scan, retention, and the      *)
(* delete and reset requests.  The process may crash between any two       *)
(* steps, inside a journal write and inside the removal of a tree; only    *)
(* the disk and the database survive.                                      *)
(*                                                                         *)
(* A tree is abstracted to what tells versions apart: the version id in    *)
(* its marker, the job whose tool wrote it last, and whether it is whole.  *)
(* Job n commits at most one version, so version ids are job numbers.      *)
(***************************************************************************)
EXTENDS Naturals, FiniteSets

CONSTANTS
    MaxJobs,     \* bound: backup jobs ever started
    CreatedAt,   \* CreatedAt[v]: the clock second version v is committed in
    KeepRecent,  \* retention policy: non-latest versions kept
    MaxCrashes,  \* bound: process crashes
    Faults,      \* {"io"}: a journal write, rename or insert may fail
    Requests     \* what users ask for, see DeleteRead and ResetCheck

Jobs == 1..MaxJobs
Ids == 0..MaxJobs
Stamps == {CreatedAt[v] : v \in Jobs}

ASSUME BoundsAssumption ==
    /\ MaxJobs \in Nat /\ KeepRecent \in Nat /\ MaxCrashes \in Nat
    /\ CreatedAt \in [Jobs -> Nat]
    /\ Faults \subseteq {"io"}
    /\ Requests \subseteq {"delete", "delete_latest", "reset", "reset_race"}

\* Two commits of one device never fall in the same second of a clock that
\* was set back: finishRotation names versions/<ts>/ by that second.
ASSUME ClockAssumption == \A u, v \in Jobs : u < v => CreatedAt[u] < CreatedAt[v]

VARIABLES
    working, latest, versions, sentinel, journal,   \* the device directory
    rows, jobrow,                                   \* the SQLite tables
    pc, job, cur, victims, lease,                   \* the process: job or boot
    spc, onDisk,                                    \* the reconciliation scan
    del, resetting,                                 \* requests in flight
    crashes,
    published, removed, exposed                     \* history

disk == <<working, latest, versions, sentinel, journal>>
scanVars == <<spc, onDisk>>
requestVars == <<del, resetting>>
history == <<published, removed, exposed>>
vars == <<disk, rows, jobrow, pc, job, cur, victims, lease, scanVars,
          requestVars, crashes, history>>

-----------------------------------------------------------------------------
(* Trees, journals, registry rows                                          *)

NoTree == [ver |-> 0, by |-> 0, body |-> "none"]
Trees == [ver : Ids, by : Ids,
          body : {"none", "partial", "dirty", "whole", "gutted"}]

\* os.RemoveAll deletes file by file, the marker sooner or later among them:
\* what a tree is while it runs, and stays when it is cut short.
Gutted(t) == {[t EXCEPT !.ver = w, !.body = "gutted"] : w \in {0, t.ver}}
Guttable(t) == t # NoTree /\ t.body # "gutted"

NoJournal == [phase |-> "none", ver |-> 0, prev |-> 0]
TornJournal == [phase |-> "torn", ver |-> 0, prev |-> 0]
Journals == [phase : {"none", "prepared", "exchanged", "archived", "torn"},
             ver : Ids, prev : Ids]

NoRow == [live |-> FALSE, isLatest |-> FALSE, missing |-> FALSE, adopted |-> FALSE]
Rows == [live : BOOLEAN, isLatest : BOOLEAN, missing : BOOLEAN, adopted : BOOLEAN]

NoDelete == [pc |-> "idle", id |-> 0, isLatest |-> FALSE, missing |-> FALSE]

PrepareSteps == {"prepare", "gate", "seed", "clone", "unseal", "tool", "verify"}
JournalSteps == {"jprepared", "jexchanged", "jarchived"}
RotationSteps == {"exchange", "jexchanged", "archive", "sweep", "jarchived",
                  "rmjournal", "register", "promote"}
Steps == PrepareSteps \cup JournalSteps \cup RotationSteps \cup
         {"down", "roll", "judge", "idle", "claim", "marker", "select",
          "prune", "prune_row", "succeed"}

\* The HTTP server and the scan runner exist only once start-up is over; the
\* start-up thread drives pc with no job bound.
Serving == pc = "idle" \/ job # 0

TypeOK ==
    /\ working \in Trees /\ latest \in Trees
    /\ versions \in [Stamps -> Trees]
    /\ sentinel \in {"none", "seeding", "incremental", "full"}
    /\ journal \in Journals
    /\ rows \in [Jobs -> Rows]
    /\ jobrow \in [Jobs -> {"none", "running", "succeeded", "failed", "connection_lost"}]
    /\ pc \in Steps
    /\ job \in Ids /\ cur \in Ids /\ victims \subseteq Jobs
    /\ lease \in {"free", "commit", "scan"}
    /\ spc \in {"idle", "claim", "read", "apply", "latest"}
    /\ onDisk \in [Jobs -> {"no", "latest", "archived"}]
    /\ del \in [pc : {"idle", "artifact", "row"}, id : Ids,
                isLatest : BOOLEAN, missing : BOOLEAN]
    /\ resetting \in BOOLEAN
    /\ crashes \in 0..MaxCrashes
    /\ published \subseteq Jobs /\ removed \subseteq Jobs /\ exposed \subseteq Jobs

Init ==
    /\ working = NoTree /\ latest = NoTree
    /\ versions = [t \in Stamps |-> NoTree]
    /\ sentinel = "none" /\ journal = NoJournal
    /\ rows = [v \in Jobs |-> NoRow]
    /\ jobrow = [v \in Jobs |-> "none"]
    /\ pc = "roll" /\ job = 0 /\ cur = 0 /\ victims = {} /\ lease = "free"
    /\ spc = "idle" /\ onDisk = [v \in Jobs |-> "no"]
    /\ del = NoDelete /\ resetting = FALSE
    /\ crashes = 0
    /\ published = {} /\ removed = {} /\ exposed = {}

-----------------------------------------------------------------------------
(* The job: StartBackup, PrepareWork, the gated seed, the tool, verify     *)

\* Mutation: the terminal row of a failed job is not written.
AbandonSilently ==
    /\ UNCHANGED jobrow
    /\ pc' = IF job = 0 THEN "judge" ELSE "idle"
    /\ lease' = IF lease = "commit" THEN "free" ELSE lease
    /\ job' = 0 /\ cur' = 0 /\ victims' = {}

\* Every ending of a job or of a roll-forward that is not success: CommitJob
\* and rollForward release the lease by defer, the engine writes a terminal
\* row and unbinds; the disk keeps whatever is on it (Discard is a no-op).
Abandon ==
    /\ jobrow' = IF job = 0 THEN jobrow ELSE [jobrow EXCEPT ![job] = "failed"]
    /\ pc' = IF job = 0 THEN "judge" ELSE "idle"
    /\ lease' = IF lease = "commit" THEN "free" ELSE lease
    /\ job' = 0 /\ cur' = 0 /\ victims' = {}

StartBackup ==
    /\ pc = "idle"
    /\ resetting => "reset_race" \in Requests
    /\ \E j \in Jobs :
         /\ jobrow[j] = "none" /\ \A i \in Jobs : i < j => jobrow[i] # "none"
         /\ job' = j
         /\ jobrow' = [jobrow EXCEPT ![j] = "running"]
    /\ pc' = "prepare"
    /\ UNCHANGED <<disk, rows, cur, victims, lease, scanVars, requestVars, crashes, history>>

\* The device never appears, preflight refuses, the tool fails, stalls or is
\* cancelled, the clone fails.
JobFails ==
    /\ pc \in PrepareSteps
    /\ Abandon
    /\ UNCHANGED <<disk, rows, scanVars, requestVars, crashes, history>>

\* prepareWorkDirPhase1: resume a dirty tree unless its seed was killed;
\* otherwise start empty, with a clone pending when latest/ has content.
\* Mutation: any leftover tree is resumed, the seed sentinel is not consulted.
ResumableAlways == working # NoTree
Resumable == working # NoTree /\ sentinel # "seeding"

PrepareWork ==
    /\ pc = "prepare"
    /\ \/ /\ Resumable
          /\ pc' = "tool"
          /\ UNCHANGED <<working, sentinel>>
       \/ /\ ~Resumable
          /\ working' = NoTree
          /\ IF latest = NoTree
             THEN sentinel' = "full" /\ pc' = "tool"
             ELSE sentinel' = "seeding" /\ pc' = "gate"
    /\ UNCHANGED <<latest, versions, journal, rows, jobrow, job, cur, victims,
                   lease, scanVars, requestVars, crashes, history>>

\* superviseGatedSeed starts the tool behind its gate; the tool writes a fresh
\* Info.plist into the tree before the clone.
WriteInfoPlist ==
    /\ pc = "gate"
    /\ working' = [ver |-> 0, by |-> job, body |-> "dirty"]
    /\ pc' = "seed"
    /\ UNCHANGED <<latest, versions, sentinel, journal, rows, jobrow, job, cur,
                   victims, lease, scanVars, requestVars, crashes, history>>

\* finishSeed: empty the tree, then clone latest/ into it file by file ...
SeedClone ==
    /\ pc = "seed"
    /\ working' = [ver |-> 0, by |-> 0, body |-> "partial"]
    /\ pc' = "clone"
    /\ UNCHANGED <<latest, versions, sentinel, journal, rows, jobrow, job, cur,
                   victims, lease, scanVars, requestVars, crashes, history>>

\* ... until the clone, marker included, is complete ...
SeedCloned ==
    /\ pc = "clone" /\ latest # NoTree
    /\ working' = latest
    /\ pc' = "unseal"
    /\ UNCHANGED <<latest, versions, sentinel, journal, rows, jobrow, job, cur,
                   victims, lease, scanVars, requestVars, crashes, history>>

\* ... and only then clear seed_in_progress.
SeedMark ==
    /\ pc = "unseal"
    /\ sentinel' = "incremental"
    /\ pc' = "tool"
    /\ UNCHANGED <<working, latest, versions, journal, rows, jobrow, job, cur,
                   victims, lease, scanVars, requestVars, crashes, history>>

\* A tree resumed from a killed clone, or from a reset that was cut short,
\* never gets its missing blobs back: the tool only sends what changed.
Written(b) == [working EXCEPT !.by = job, !.body = IF @ \in {"partial", "gutted"} THEN @ ELSE b]

ToolWrite ==
    /\ pc = "tool"
    /\ working' = Written("dirty")
    /\ UNCHANGED <<latest, versions, sentinel, journal, rows, jobrow, pc, job, cur,
                   victims, lease, scanVars, requestVars, crashes, history>>

\* The tool exits 0 with "Backup Successful"; its tree may still be incomplete.
ToolExit ==
    /\ pc = "tool"
    /\ \E b \in {"dirty", "whole"} : working' = Written(b)
    /\ pc' = "verify"
    /\ UNCHANGED <<latest, versions, sentinel, journal, rows, jobrow, job, cur,
                   victims, lease, scanVars, requestVars, crashes, history>>

\* Verify samples Manifest records, so it can pass over missing blobs.
VerifyOK == working.body \in {"whole", "partial", "gutted"}

VerifyWork ==
    /\ pc = "verify" /\ VerifyOK
    /\ pc' = "claim"
    /\ UNCHANGED <<disk, rows, jobrow, job, cur, victims, lease, scanVars,
                   requestVars, crashes, history>>

-----------------------------------------------------------------------------
(* CommitJob and the rotation it shares with roll-forward                  *)

\* CommitJob waits for the lease.
ClaimLease ==
    /\ pc = "claim" /\ lease = "free"
    /\ lease' = "commit" /\ pc' = "marker"
    /\ UNCHANGED <<disk, rows, jobrow, job, cur, victims, scanVars,
                   requestVars, crashes, history>>

\* CommitJob verifies again under the lease; Commit then writes the marker.
WriteMarker ==
    /\ pc = "marker" /\ VerifyOK
    /\ working' = [working EXCEPT !.ver = job]
    /\ pc' = "jprepared"
    /\ UNCHANGED <<latest, versions, sentinel, journal, rows, jobrow, job, cur,
                   victims, lease, scanVars, requestVars, crashes, history>>

ReverifyFails ==
    /\ pc = "marker" /\ ~VerifyOK
    /\ Abandon
    /\ UNCHANGED <<disk, rows, scanVars, requestVars, crashes, history>>

\* The previous latest's timestamp is captured before the exchange moves it.
JournalPrepared ==
    /\ pc = "jprepared"
    /\ journal' = [phase |-> "prepared", ver |-> job, prev |-> latest.ver]
    /\ pc' = "exchange"
    /\ UNCHANGED <<working, latest, versions, sentinel, rows, jobrow, job, cur,
                   victims, lease, scanVars, requestVars, crashes, history>>

LatestHasVersion(v) == latest.ver = v

\* finishRotation: the exchange is skipped when latest/ already carries the
\* version; both directories must exist.
Exchange ==
    /\ pc = "exchange"
    /\ \/ /\ LatestHasVersion(journal.ver)
          /\ UNCHANGED <<working, latest, published>>
       \/ /\ ~LatestHasVersion(journal.ver) /\ working # NoTree
          /\ working' = latest /\ latest' = working
          /\ published' = published \cup ({working.ver} \cap Jobs)
    /\ pc' = "jexchanged"
    /\ UNCHANGED <<versions, sentinel, journal, rows, jobrow, job, cur, victims,
                   lease, scanVars, requestVars, crashes, removed, exposed>>

ExchangeFails ==
    /\ pc = "exchange"
    /\ ~LatestHasVersion(journal.ver) /\ working = NoTree
    /\ Abandon
    /\ UNCHANGED <<disk, rows, scanVars, requestVars, crashes, history>>

JournalExchanged ==
    /\ pc = "jexchanged"
    /\ journal' = [journal EXCEPT !.phase = "exchanged"]
    /\ pc' = "archive"
    /\ UNCHANGED <<working, latest, versions, sentinel, rows, jobrow, job, cur,
                   victims, lease, scanVars, requestVars, crashes, history>>

\* The displaced tree is renamed to versions/<prev-ts>/ unless that exists.
Archive ==
    /\ pc = "archive"
    /\ LET dst == CreatedAt[journal.prev] IN
       IF working # NoTree /\ journal.prev # 0 /\ versions[dst] = NoTree
       THEN /\ versions' = [versions EXCEPT ![dst] = working]
            /\ working' = NoTree
       ELSE UNCHANGED <<versions, working>>
    /\ pc' = "sweep"
    /\ UNCHANGED <<latest, sentinel, journal, rows, jobrow, job, cur, victims,
                   lease, scanVars, requestVars, crashes, history>>

RemoveWorking ==
    /\ pc = "sweep"
    /\ working' = NoTree /\ sentinel' = "none"
    /\ pc' = "jarchived"
    /\ UNCHANGED <<latest, versions, journal, rows, jobrow, job, cur, victims,
                   lease, scanVars, requestVars, crashes, history>>

JournalArchived ==
    /\ pc = "jarchived"
    /\ journal' = [journal EXCEPT !.phase = "archived"]
    /\ pc' = "rmjournal"
    /\ UNCHANGED <<working, latest, versions, sentinel, rows, jobrow, job, cur,
                   victims, lease, scanVars, requestVars, crashes, history>>

RemoveJournal ==
    /\ pc = "rmjournal"
    /\ journal' = NoJournal
    /\ pc' = "register"
    /\ UNCHANGED <<working, latest, versions, sentinel, rows, jobrow, job, cur,
                   victims, lease, scanVars, requestVars, crashes, history>>

\* registerCommitted inserts the version latest/ now carries.  Roll-forward
\* skips a version that already has a row; a job's insert fails on it.
InsertVersion ==
    /\ pc = "register" /\ latest.ver # 0 /\ ~rows[latest.ver].live
    /\ rows' = [rows EXCEPT ![latest.ver] =
                  [live |-> TRUE, isLatest |-> TRUE, missing |-> FALSE, adopted |-> FALSE]]
    /\ cur' = latest.ver
    /\ pc' = "promote"
    /\ UNCHANGED <<disk, jobrow, job, victims, lease, scanVars, requestVars, crashes, history>>

InsertRefused ==
    /\ pc = "register"
    /\ latest.ver # 0 => rows[latest.ver].live
    /\ Abandon
    /\ UNCHANGED <<disk, rows, scanVars, requestVars, crashes, history>>

PromoteRow(v) == [u \in Jobs |-> [rows[u] EXCEPT !.isLatest = rows[u].live /\ u = v]]

PromoteLatest ==
    /\ pc = "promote"
    /\ rows' = PromoteRow(cur)
    /\ cur' = 0
    /\ pc' = IF job = 0 THEN "judge" ELSE "select"
    /\ lease' = IF job = 0 THEN "free" ELSE lease
    /\ UNCHANGED <<disk, jobrow, job, victims, scanVars, requestVars, crashes, history>>

\* Mutation: retention does not spare the latest version.
PruneCandidatesAll ==
    {v \in Jobs : rows[v].live /\ ~rows[v].adopted /\ ~rows[v].missing}

PruneCandidates ==
    {v \in Jobs : rows[v].live /\ ~rows[v].adopted /\ ~rows[v].isLatest /\ ~rows[v].missing}

\* selectPrunable with the keep_recent rule alone: no daily or weekly buckets.
SelectPrunable ==
    {v \in PruneCandidates : Cardinality({u \in PruneCandidates : CreatedAt[u] > CreatedAt[v]}) >= KeepRecent}

PruneSelect ==
    /\ pc = "select"
    /\ victims' = SelectPrunable
    /\ removed' = removed \cup SelectPrunable
    /\ pc' = "prune"
    /\ UNCHANGED <<disk, rows, jobrow, job, cur, lease, scanVars, requestVars,
                   crashes, published, exposed>>

\* Mutation: deleting an archived version takes latest/ along.
DeleteArtifactBoth(v, isLatest) ==
    latest' = NoTree /\ versions' = [versions EXCEPT ![CreatedAt[v]] = NoTree]

\* namespaceBackend.DeleteArtifact: the row's is_latest decides the directory.
DeleteArtifactAt(v, isLatest) ==
    IF isLatest
    THEN latest' = NoTree /\ UNCHANGED versions
    ELSE versions' = [versions EXCEPT ![CreatedAt[v]] = NoTree] /\ UNCHANGED latest

\* The same directory while RemoveAll is at it.
GutArtifactAt(v, isLatest) ==
    IF isLatest
    THEN Guttable(latest) /\ latest' \in Gutted(latest) /\ UNCHANGED versions
    ELSE /\ Guttable(versions[CreatedAt[v]])
         /\ \E t \in Gutted(versions[CreatedAt[v]]) :
              versions' = [versions EXCEPT ![CreatedAt[v]] = t]
         /\ UNCHANGED latest

\* deleteVersion for one selected row, which it reads again; cur is the one
\* whose removal has begun.
PrunePartly ==
    /\ pc = "prune"
    /\ \E v \in victims :
         /\ cur = 0 /\ rows[v].live /\ ~rows[v].missing
         /\ GutArtifactAt(v, rows[v].isLatest)
         /\ cur' = v
    /\ UNCHANGED <<working, sentinel, journal, rows, jobrow, pc, job, victims, lease,
                   scanVars, requestVars, crashes, history>>

PruneArtifact ==
    /\ pc = "prune"
    /\ \E v \in victims :
         /\ cur = v \/ (cur = 0 /\ rows[v].live)
         /\ IF rows[v].missing THEN UNCHANGED <<latest, versions>>
                               ELSE DeleteArtifactAt(v, rows[v].isLatest)
         /\ cur' = v
    /\ pc' = "prune_row"
    /\ UNCHANGED <<working, sentinel, journal, rows, jobrow, job, victims, lease,
                   scanVars, requestVars, crashes, history>>

PruneRow ==
    /\ pc = "prune_row"
    /\ rows' = [rows EXCEPT ![cur] = NoRow]
    /\ victims' = victims \ {cur}
    /\ cur' = 0
    /\ pc' = "prune"
    /\ UNCHANGED <<disk, jobrow, job, lease, scanVars, requestVars, crashes, history>>

\* Prune ends when nothing is left, or on the first row that is already gone.
PruneDone ==
    /\ pc = "prune" /\ cur = 0
    /\ victims = {} \/ \E v \in victims : ~rows[v].live
    /\ victims' = {}
    /\ lease' = "free"
    /\ pc' = "succeed"
    /\ UNCHANGED <<disk, rows, jobrow, job, cur, scanVars, requestVars, crashes, history>>

Succeed ==
    /\ pc = "succeed"
    /\ jobrow' = [jobrow EXCEPT ![job] = "succeeded"]
    /\ pc' = "idle" /\ job' = 0
    /\ UNCHANGED <<disk, rows, cur, victims, lease, scanVars, requestVars, crashes, history>>

-----------------------------------------------------------------------------
(* Start-up: RollForwardAll, then Engine.Reconcile, then serving           *)

Restart ==
    /\ pc = "down"
    /\ pc' = "roll"
    /\ UNCHANGED <<disk, rows, jobrow, job, cur, victims, lease, scanVars,
                   requestVars, crashes, history>>

\* rollForward resumes the journal at its phase; an unreadable journal ends
\* RollForwardAll with an error that start-up only logs.
\* Mutation: an exchanged rotation resumes behind its archive step.
ResumeAtSkipsArchive(phase) == CASE phase = "prepared" -> "exchange"
                                 [] phase = "exchanged" -> "sweep"
                                 [] phase = "archived" -> "rmjournal"
                                 [] OTHER -> "judge"

ResumeAt(phase) == CASE phase = "prepared" -> "exchange"
                     [] phase = "exchanged" -> "archive"
                     [] phase = "archived" -> "rmjournal"
                     [] OTHER -> "judge"

RollForward ==
    /\ pc = "roll"
    /\ pc' = ResumeAt(journal.phase)
    /\ lease' = IF pc' = "judge" THEN lease ELSE "commit"
    /\ UNCHANGED <<disk, rows, jobrow, job, cur, victims, scanVars,
                   requestVars, crashes, history>>

\* Mutation: any version of the device answers for the job.
VersionForAnyJob(j) == \E v \in Jobs : rows[v].live /\ ~rows[v].adopted

\* VersionForJob: adopted rows carry no job id.
VersionForJob(j) == rows[j].live /\ ~rows[j].adopted

Reconcile ==
    /\ pc = "judge"
    /\ jobrow' = [j \in Jobs |->
                    IF jobrow[j] # "running" THEN jobrow[j]
                    ELSE IF VersionForJob(j) THEN "succeeded" ELSE "connection_lost"]
    /\ pc' = "idle"
    /\ UNCHANGED <<disk, rows, job, cur, victims, lease, scanVars, requestVars,
                   crashes, history>>

\* writeJournal is os.WriteFile, which truncates the file and then writes it:
\* cut short, it leaves one that does not parse.  Behind the exchange that
\* leaves the displaced version in working/ with nothing to say so.
Stranded == IF pc = "jexchanged" THEN {journal.prev} \cap Jobs ELSE {}

TearJournal ==
    /\ pc \in JournalSteps
    /\ journal' = TornJournal
    /\ exposed' = exposed \cup Stranded

Crash ==
    /\ crashes < MaxCrashes /\ pc # "down"
    /\ crashes' = crashes + 1
    /\ TearJournal \/ UNCHANGED <<journal, exposed>>
    /\ pc' = "down" /\ job' = 0 /\ cur' = 0 /\ victims' = {} /\ lease' = "free"
    /\ spc' = "idle" /\ del' = NoDelete /\ resetting' = FALSE
    /\ UNCHANGED <<working, latest, versions, sentinel, rows, jobrow, onDisk, published, removed>>

JournalWriteFails ==
    /\ "io" \in Faults
    /\ TearJournal
    /\ Abandon
    /\ UNCHANGED <<working, latest, versions, sentinel, rows, scanVars,
                   requestVars, crashes, published, removed>>

\* renameat2, rename or the registry insert returns an error.
CommitStepFails ==
    /\ "io" \in Faults /\ pc \in {"exchange", "archive", "register"}
    /\ Abandon
    /\ UNCHANGED <<disk, rows, scanVars, requestVars, crashes, history>>

\* RemoveAll returns an error to a request, wherever it has got to: the row
\* stays, or the sentinel.
RemovalFails ==
    /\ "io" \in Faults
    /\ \/ del.pc = "artifact" /\ del' = NoDelete /\ UNCHANGED resetting
       \/ resetting /\ resetting' = FALSE /\ UNCHANGED del
    /\ UNCHANGED <<disk, rows, jobrow, pc, job, cur, victims, lease, scanVars,
                   crashes, history>>

-----------------------------------------------------------------------------
(* reconcileDevice, run by the reconciliation runner while serving         *)

ScanCheckBinding ==
    /\ Serving /\ spc = "idle"
    /\ job = 0
    /\ spc' = "claim"
    /\ UNCHANGED <<disk, rows, jobrow, pc, job, cur, victims, lease, onDisk,
                   requestVars, crashes, history>>

\* TryClaim: a held lease defers the device to a later trigger.
TryClaim == lease = "free"

ScanTryClaim ==
    /\ spc = "claim"
    /\ IF TryClaim
       THEN lease' = "scan" /\ spc' = "read"
       ELSE spc' = "idle" /\ UNCHANGED lease
    /\ UNCHANGED <<disk, rows, jobrow, pc, job, cur, victims, onDisk,
                   requestVars, crashes, history>>

\* Scan reads markers, first latest/, then versions/*, the later one winning.
Scan ==
    /\ spc = "read"
    /\ onDisk' = [v \in Jobs |->
                    IF \E t \in Stamps : versions[t].ver = v THEN "archived"
                    ELSE IF latest.ver = v THEN "latest" ELSE "no"]
    /\ spc' = "apply"
    /\ UNCHANGED <<disk, rows, jobrow, pc, job, cur, victims, lease,
                   requestVars, crashes, history>>

\* Mutation: an artifact without a row is not adopted.
ScannedRowNoAdopt(v) ==
    IF rows[v].live THEN [rows[v] EXCEPT !.missing = (onDisk[v] = "no")] ELSE rows[v]

\* Adopt what has no row, clear and set `missing`.
ScannedRow(v) ==
    CASE rows[v].live -> [rows[v] EXCEPT !.missing = (onDisk[v] = "no")]
      [] ~rows[v].live /\ onDisk[v] # "no" ->
           [live |-> TRUE, isLatest |-> (onDisk[v] = "latest"), missing |-> FALSE,
            adopted |-> TRUE]
      [] OTHER -> rows[v]

ScanApply ==
    /\ spc = "apply"
    /\ rows' = [v \in Jobs |-> ScannedRow(v)]
    /\ spc' = "latest"
    /\ UNCHANGED <<disk, jobrow, pc, job, cur, victims, lease, onDisk,
                   requestVars, crashes, history>>

Present == {v \in Jobs : rows[v].live /\ ~rows[v].missing}

ReleaseScan == lease' = "free"

RecomputeLatest ==
    /\ spc = "latest"
    /\ IF Present = {} THEN UNCHANGED rows
       ELSE \E v \in Present : /\ \A u \in Present : CreatedAt[v] >= CreatedAt[u]
                               /\ rows' = PromoteRow(v)
    /\ spc' = "idle" /\ ReleaseScan
    /\ UNCHANGED <<disk, jobrow, pc, job, cur, victims, onDisk,
                   requestVars, crashes, history>>

-----------------------------------------------------------------------------
(* DELETE /api/versions/{id} and POST /api/devices/{udid}/reset-working    *)

\* deleteVersion reads the row, removes the artifact, removes the row; it
\* takes neither the lease nor the engine's lock.
DeleteRead ==
    /\ Serving /\ del.pc = "idle"
    /\ \E v \in Jobs :
         /\ rows[v].live
         /\ IF rows[v].isLatest THEN "delete_latest" \in Requests
                                ELSE "delete" \in Requests
         /\ del' = [pc |-> "artifact", id |-> v, isLatest |-> rows[v].isLatest,
                    missing |-> rows[v].missing]
         /\ removed' = removed \cup {v}
    /\ UNCHANGED <<disk, rows, jobrow, pc, job, cur, victims, lease, scanVars,
                   resetting, crashes, published, exposed>>

DeletePartly ==
    /\ del.pc = "artifact" /\ ~del.missing
    /\ GutArtifactAt(del.id, del.isLatest)
    /\ UNCHANGED <<working, sentinel, journal, rows, jobrow, pc, job, cur, victims,
                   lease, scanVars, requestVars, crashes, history>>

DeleteArtifact ==
    /\ del.pc = "artifact"
    /\ IF del.missing THEN UNCHANGED <<latest, versions>>
                      ELSE DeleteArtifactAt(del.id, del.isLatest)
    /\ del' = [del EXCEPT !.pc = "row"]
    /\ UNCHANGED <<working, sentinel, journal, rows, jobrow, pc, job, cur, victims,
                   lease, scanVars, resetting, crashes, history>>

DeleteRow ==
    /\ del.pc = "row"
    /\ rows' = [rows EXCEPT ![del.id] = NoRow]
    /\ del' = NoDelete
    /\ UNCHANGED <<disk, jobrow, pc, job, cur, victims, lease, scanVars,
                   resetting, crashes, history>>

\* ResetWorking asks under e.mu whether a job runs, unlocks, then repairs.
\* Without "reset_race" no job starts in between.
ResetCheck ==
    /\ pc = "idle" /\ ~resetting
    /\ Requests \cap {"reset", "reset_race"} # {}
    /\ resetting' = TRUE
    /\ UNCHANGED <<disk, rows, jobrow, pc, job, cur, victims, lease, scanVars,
                   del, crashes, history>>

\* working/ goes before its sentinel.  finishRotation removes what is left of
\* it in the same way; the removals of PrepareWork and SeedClone, cut short,
\* leave the half-seeded tree that the sentinel tells of.
RemoveWorkingPartly ==
    /\ resetting \/ pc = "sweep"
    /\ Guttable(working)
    /\ working' \in Gutted(working)
    /\ UNCHANGED <<latest, versions, sentinel, journal, rows, jobrow, pc, job, cur,
                   victims, lease, scanVars, requestVars, crashes, history>>

RepairWorkingCopy ==
    /\ resetting
    /\ working' = NoTree /\ sentinel' = "none"
    /\ resetting' = FALSE
    /\ UNCHANGED <<latest, versions, journal, rows, jobrow, pc, job, cur, victims,
                   lease, scanVars, del, crashes, history>>

-----------------------------------------------------------------------------
JobStep ==
    \/ JobFails \/ PrepareWork \/ WriteInfoPlist \/ SeedClone \/ SeedCloned
    \/ SeedMark \/ ToolExit \/ VerifyWork \/ ClaimLease \/ WriteMarker
    \/ ReverifyFails \/ JournalPrepared \/ PruneSelect \/ PrunePartly
    \/ PruneArtifact \/ PruneRow \/ PruneDone \/ Succeed
RotationStep ==
    \/ Exchange \/ ExchangeFails \/ JournalExchanged \/ Archive \/ RemoveWorking
    \/ JournalArchived \/ RemoveJournal \/ InsertVersion \/ InsertRefused
    \/ PromoteLatest
BootStep == Restart \/ RollForward \/ Reconcile
FaultStep == JournalWriteFails \/ CommitStepFails \/ RemovalFails
ScanStep == ScanCheckBinding \/ ScanTryClaim \/ Scan \/ ScanApply \/ RecomputeLatest
RequestStep ==
    \/ DeleteRead \/ DeletePartly \/ DeleteArtifact \/ DeleteRow \/ ResetCheck
    \/ RemoveWorkingPartly \/ RepairWorkingCopy

Next == StartBackup \/ ToolWrite \/ JobStep \/ RotationStep \/ BootStep
          \/ FaultStep \/ ScanStep \/ RequestStep \/ Crash

\* The job goroutine and the start-up thread run until they block, and the
\* runner keeps scanning.  Nothing is owed by the tool: it may hang before or
\* after it was let through its gate, and a stall is timed only from its first
\* sign of life.
ToolSteps == {"gate", "tool"}
Fairness == /\ WF_vars(pc \notin ToolSteps /\ (JobStep \/ RotationStep \/ BootStep))
            /\ WF_vars(ScanStep)

Spec == Init /\ [][Next]_vars /\ Fairness
-----------------------------------------------------------------------------
(* Properties                                                              *)

\* Version v as its job committed it.  Verification samples the manifest's
\* records, so it does not tell a tree that a cut-short reset gutted before the
\* job resumed it from a whole one.
CopyOf(t, v) == t.ver = v /\ t.by = v /\ t.body \in {"whole", "gutted"}

\* Where version v's verified content can be: latest/, versions/<ts>/, or the
\* working directory of a rotation that displaced it.
Displaced(v) == /\ CopyOf(working, v)
                /\ \/ v \in exposed
                   \/ /\ journal.phase \in {"prepared", "exchanged"}
                      /\ journal.prev = v /\ journal.ver # v
Intact(v) == \/ CopyOf(latest, v)
             \/ \E t \in Stamps : CopyOf(versions[t], v)
             \/ Displaced(v)

\* Once a version has been exchanged into latest/, its bytes stay on disk, in a
\* place recovery knows of, until a user or retention removes it: no later
\* job, resume, crash, roll-forward or reset damages it (finishRotation,
\* prepareWorkDirPhase1, RepairWorkingCopy).  The one exception is the version
\* that a crash inside the second journal write left behind in working/, and
\* that is never the newest one.
CommittedIntact ==
    /\ \A v \in published \ (removed \cup exposed) : Intact(v)
    /\ \A v \in exposed : \E u \in published : u > v

\* Whatever sits at latest/ or in versions/ is one tree carrying the marker of
\* the job that wrote it last and passed verification, unless its removal has
\* begun: a sync job never copies a half-written or half-seeded tree (Commit's
\* order of verify, marker, journal, exchange; the seed sentinel).
PublishedVerified ==
    /\ latest # NoTree => \E v \in Jobs : CopyOf(latest, v)
    /\ \A v \in Jobs : LET t == versions[CreatedAt[v]] IN
         t # NoTree => CopyOf(t, v) \/ (v \in removed /\ t.body = "gutted")

\* The promise without the exceptions: what is in latest/ is whole ("a version
\* only appears once it has been verified").
LatestIsWhole == latest.body \in {"none", "whole"}

\* A weaker promise that holds of the bytes alone: a committed version's tree
\* is still in one of the three places, whether or not recovery would look
\* for it there ("a new backup can never spoil an older one").
BytesSurvive ==
    \A v \in published \ removed :
        CopyOf(working, v) \/ CopyOf(latest, v) \/ \E t \in Stamps : CopyOf(versions[t], v)

\* When a job's commit comes to insert its row, no scan has adopted the
\* version first: the insert would fail on the primary key and a completed
\* backup be reported failed (the commit lease spans registerCommitted).
CommitInsertsFirst == (pc = "register" /\ job # 0) => ~rows[job].live

\* A job reported succeeded committed its version, whether the engine or the
\* start-up reconciliation wrote the verdict (succeed, Engine.Reconcile).
SucceededHasVersion == \A j \in Jobs : jobrow[j] = "succeeded" => j \in published

\* A job judged connection_lost at start-up did not commit a version
\* (RollForwardAll before Engine.Reconcile).
LostHasNoVersion == \A j \in Jobs : jobrow[j] = "connection_lost" => j \notin published

\* Retention never selects the version that sits in latest/, although it
\* decides from registry flags that crashes leave stale (selectPrunable).
PruneSparesLatest == latest.ver \notin victims

\* latest/ only moves to a later job's version, or is removed: resuming a
\* rotation never exchanges twice (the marker guard in finishRotation).
LatestMovesForward ==
    [][latest' # latest => latest' = NoTree \/ latest'.ver > latest.ver]_vars

\* A version whose commit crashed before its row was written gets a row in the
\* end, by roll-forward or by adoption (rollForward, adopt), unless a tool that
\* hangs keeps the device's binding, and with it the scan away, for ever.
VersionsRegistered ==
    []<>(pc \notin ToolSteps) =>
      \A v \in Jobs : (v \in published) ~> (rows[v].live \/ v \in removed \cup exposed)

OnDisk(v) == latest.ver = v \/ \E t \in Stamps : versions[t].ver = v

\* A row that claims a version which is not on disk does not stay that way:
\* the row goes, is marked missing, or the artifact is back.
PhantomRowsRepaired ==
    []<>(pc \notin ToolSteps) =>
      \A v \in Jobs : (rows[v].live /\ ~rows[v].missing /\ ~OnDisk(v))
                      ~> (~rows[v].live \/ rows[v].missing \/ OnDisk(v))

\* Once its tool has exited, or a crash has orphaned it, a job reaches a
\* terminal state: the commit's wait for the lease ends (Claim against the
\* scan's TryClaim), and start-up judges what no process runs any more.
AwaitsTool(j) == job = j /\ pc \in PrepareSteps \ {"verify"}
JobsSettle ==
    \A j \in Jobs : (jobrow[j] = "running" /\ ~AwaitsTool(j)) ~> (jobrow[j] # "running")

\* The version store implements the ledger: versions appear by commit, vanish
\* only after being condemned, and never come back.  A journal torn behind the
\* exchange condemns the version that was displaced.
IntactSet == {v \in published : Intact(v)}
Ledger == INSTANCE VersionLedger
            WITH Versions <- Jobs, kept <- IntactSet, ever <- published,
                 condemned <- removed \cup exposed
LedgerSpec == Ledger!Spec
-----------------------------------------------------------------------------
(* The inductive invariants behind the theorems                            *)

\* Whoever is past the insert has published, and so has whoever has a row.
Committed ==
    /\ pc \in {"down", "roll"} => job = 0
    /\ latest.ver # 0 => latest.ver \in published
    /\ \A v \in Jobs : rows[v].live /\ ~rows[v].adopted => v \in published
    /\ job # 0 /\ pc \in {"jprepared", "exchange"} => working.ver \in {0, job}
    /\ job # 0 /\ pc = "exchange" => journal.ver = job
    /\ job # 0 /\ pc \in RotationSteps \ {"exchange", "promote"} => latest.ver \in {0, job}
    /\ job # 0 /\ pc \in {"promote", "select", "prune", "prune_row", "succeed"} => job \in published

\* Who holds the lease, and who may be under way beside whom.
LeaseHeld ==
    /\ lease = "commit" <=> pc \in RotationSteps \cup {"marker", "jprepared", "select", "prune", "prune_row"}
    /\ lease = "scan" <=> spc \in {"read", "apply", "latest"}
    /\ spc # "idle" \/ del.pc # "idle" => Serving
    /\ resetting => pc = "idle"
    /\ job = 0 => pc \in RotationSteps \cup {"down", "roll", "judge", "idle"}
    /\ pc \in {"down", "roll", "judge", "idle"} => job = 0

\* While a job's commit holds the lease, latest/ is its version or was deleted,
\* its row is the latest one or was deleted, and retention did not select it:
\* neither faults nor requests disturb this.
RetentionTrue ==
    /\ lease = "commit" <=> pc \in RotationSteps \cup {"marker", "jprepared", "select", "prune", "prune_row"}
    /\ spc \in {"read", "apply", "latest"} => lease = "scan"
    /\ spc # "idle" => Serving
    /\ job = 0 => pc \in RotationSteps \cup {"down", "roll", "judge", "idle"}
    /\ job # 0 /\ pc \in (RotationSteps \ {"exchange"}) \cup {"select", "prune", "prune_row"}
         => latest.ver \in {0, job}
    /\ job # 0 /\ pc = "promote" => cur = job
    /\ pc = "select" /\ rows[job].live => rows[job].isLatest
    /\ pc \notin {"prune", "prune_row"} => victims = {}
    /\ job \notin victims

\* Nobody has heard of a version before its job marks the tree, only the tree
\* has it until the exchange, and no row has it before the job's own insert.
Unheard(v) == /\ latest.ver # v /\ (\A t \in Stamps : versions[t].ver # v)
              /\ onDisk[v] = "no" /\ ~rows[v].live
NewTrue ==
    /\ \A j \in Jobs : jobrow[j] = "none" => Unheard(j) /\ working.ver # j
    /\ job # 0 => jobrow[job] # "none"
    /\ job # 0 /\ pc \in PrepareSteps \cup {"claim", "marker"} => Unheard(job) /\ working.ver # job
    /\ job # 0 /\ pc \in {"jprepared", "exchange"} => Unheard(job)
    /\ job # 0 /\ pc \in RotationSteps \ {"promote"} => ~rows[job].live

\* Jobs start in the order of their numbers, and a rotation replaces an
\* earlier version.
Rising ==
    /\ \A i, j \in Jobs : i < j /\ jobrow[j] # "none" => jobrow[i] # "none"
    /\ job # 0 => \A j \in Jobs : jobrow[j] # "none" => j <= job
    /\ journal.phase = "prepared" => journal.prev < journal.ver

\* The journal on disk is the one of the step the rotation is at.
JournalAt ==
    /\ pc \in {"exchange", "jexchanged"} => journal.phase = "prepared"
    /\ pc \in {"archive", "sweep", "jarchived"} => journal.phase = "exchanged"
    /\ pc = "rmjournal" => journal.phase = "archived"
    /\ pc \in (Steps \ RotationSteps) \cup {"register", "promote"} =>
         pc \in {"down", "roll"} \/ journal.phase \in {"none", "torn"}
    /\ journal.phase \notin {"none", "torn"} =>
         /\ journal.ver \in Jobs /\ journal.ver # journal.prev
         /\ journal.prev # 0 => journal.prev \in published

Exchanged == /\ CopyOf(latest, journal.ver)
             /\ journal.prev = 0 => working = NoTree
             /\ journal.prev # 0 => CopyOf(working, journal.prev)

\* What recovery may conclude from a journal it finds.
JournalTrue ==
    /\ journal.phase = "prepared" =>
         \/ /\ CopyOf(working, journal.ver) /\ journal.ver \notin published
            /\ latest.ver = journal.prev /\ pc # "jexchanged"
         \/ Exchanged
    /\ journal.phase = "exchanged" =>
         CopyOf(latest, journal.ver) /\ (working = NoTree \/ Exchanged)
    /\ journal.phase = "archived" => CopyOf(latest, journal.ver) /\ working = NoTree
    /\ pc \in {"sweep", "jarchived"} => working = NoTree

\* latest/ and versions/ hold published trees as they were committed, each in
\* its place, or what a removal has left of them, and the place a displaced tree
\* will be renamed to is free.
Remains(v) == LET t == versions[CreatedAt[v]] IN
                v \in removed /\ t.ver \in {0, v} /\ t.body = "gutted"
PlacesTrue ==
    /\ latest # NoTree => /\ latest.ver \in published /\ CopyOf(latest, latest.ver)
                          /\ versions[CreatedAt[latest.ver]] = NoTree
    /\ \A v \in Jobs : versions[CreatedAt[v]] # NoTree =>
         v \in published /\ (CopyOf(versions[CreatedAt[v]], v) \/ Remains(v))
    /\ journal.phase \in {"prepared", "exchanged"} /\ Exchanged /\ journal.prev # 0
         => versions[CreatedAt[journal.prev]] = NoTree

\* A job that has not committed yet is new, and so is its version.
JobNew ==
    /\ \A v \in published : jobrow[v] # "none"
    /\ journal.phase \notin {"none", "torn"} => jobrow[journal.ver] # "none"
    /\ job # 0 => jobrow[job] # "none"
    /\ job # 0 /\ pc \in PrepareSteps \cup {"claim", "marker", "jprepared"} => job \notin published
    /\ job # 0 /\ pc = "exchange" => journal.ver = job
    /\ job # 0 /\ pc \in (RotationSteps \ {"exchange"}) \cup {"select", "prune", "prune_row", "succeed"}
         => CopyOf(latest, job)

\* A tree a clone was killed in is known by its sentinel, and nobody past the
\* seed works on one; what is verified was last written by this job, and a
\* published version that is there unwritten is as it was committed.
WorkTrue ==
    /\ working.body = "partial" => sentinel = "seeding"
    /\ pc \in {"gate", "seed", "clone", "unseal"} => sentinel = "seeding"
    /\ pc \in {"tool", "verify", "claim", "marker", "jprepared"} => sentinel # "seeding"
    /\ pc = "unseal" => working.body # "partial"
    /\ pc \in {"verify", "claim", "marker"} => working.by = job
    /\ pc = "jprepared" => CopyOf(working, job)
    /\ working.ver \in published /\ working.by = working.ver => CopyOf(working, working.ver)

\* What the registry, the scan and the requests know of is published; what is
\* about to be deleted is condemned and is not the version in latest/.
RegistryTrue ==
    /\ \A v \in Jobs : rows[v].live \/ onDisk[v] # "no" => v \in published
    /\ job # 0 /\ pc \in RotationSteps \ {"promote"} => ~rows[job].live
    /\ pc = "promote" => latest # NoTree /\ cur = latest.ver
    /\ job # 0 /\ pc \in {"promote", "select"} => rows[job].live /\ rows[job].isLatest
    /\ pc \in {"select", "prune", "prune_row"} =>
         \A v \in Jobs : rows[v].isLatest => v = job
    /\ victims \subseteq published \cap removed /\ job \notin victims
    /\ pc \notin {"prune", "prune_row"} => victims = {}
    /\ del.pc # "idle" => del.id \in published \cap removed /\ ~del.isLatest
    /\ del.pc # "idle" /\ job # 0 /\ pc \in RotationSteps \cup {"select"} => del.id # job

StoreInv == /\ LeaseHeld /\ JournalAt /\ JournalTrue /\ PlacesTrue /\ JobNew
            /\ WorkTrue /\ RegistryTrue /\ CommittedIntact
=============================================================================

----------------------------- MODULE JobEngine -----------------------------
(***************************************************************************)
(* The backup engine: one goroutine per job walking the state machine of   *)
(* design section 4, the idevicebackup2 child it supervises, the scanner   *)
(* that feeds the child's lines into the row, the liveness sampler, the    *)
(* HTTP goroutines that start and cancel jobs, shutdown, and the start-up  *)
(* verdict on the rows a dead process left behind.                         *)
(*                                                                         *)
(* Presence, preflight checks and the storage calls are their outcomes;    *)
(* what the storage does with them is NamespaceCommit's subject.  A row is *)
(* its state, whether it names a live phase, whether it claims a live      *)
(* process, and why it ended.  Time is counted in sampler ticks.           *)
(***************************************************************************)
EXTENDS Naturals

CONSTANTS
    Jobs,            \* bound: jobs ever started, each id minted once
    DeviceOf,        \* the device each job backs up
    LivenessTimeout, \* Config.LivenessTimeout, in sampler ticks
    MaxRestarts,     \* bound: process restarts
    Requests,        \* what arrives: {"cancel"}, {"shutdown"}
    Faults           \* {"store"}: UpdateJob may fail; {"seed"}: the clone may fail;
                     \* {"commit"}: CommitJob may fail with its journal written

ASSUME EngineAssumption ==
    /\ LivenessTimeout \in Nat \ {0} /\ MaxRestarts \in Nat
    /\ Faults \subseteq {"store", "seed", "commit"} /\ Requests \subseteq {"cancel", "shutdown"}

VARIABLES
    running,                     \* Engine.running: the jobs that hold their device
    pc, res,                     \* run: where it is, the outcome it decided
    row, stored,                 \* liveJob.row, and the row in the database
    mu, snap,                    \* the holder of liveJob.mu, the row it will write
    kill, ctx, runCtx,           \* killReason; job and tool contexts cancelled
    tool, success, paused, act,  \* the child; superviseState
    reader,                      \* the scanner, between a line and its row
    smp, idle, started,          \* the sampler goroutine and its clock
    cancel,                      \* a CancelJob call in flight, per job
    committed, journal,          \* jobs with a version; failed ones whose journal is left
    down, boot, restarts         \* baseCtx cancelled; reconciling; restarts

rowVars == <<row, stored, mu, snap>>
toolVars == <<tool, success, paused, act, reader>>
smpVars == <<smp, idle, started>>
storeVars == <<committed, journal>>
lifeVars == <<down, boot, restarts>>
vars == <<running, pc, res, rowVars, kill, ctx, runCtx, toolVars, smpVars, cancel,
          storeVars, lifeVars>>

LiveStates == {"queued", "waiting_for_device", "preflight", "seeding", "backing_up",
               "verifying", "committing"}
TerminalStates == {"succeeded", "failed", "cancelled", "connection_lost"}
JobIsTerminal(s) == s \in TerminalStates

\* The error codes the properties tell apart; every other refusal is "failed".
Codes == {"", "failed", "seed", "cancelled", "disconnected", "interrupted"}
JobRows == [state : LiveStates \cup TerminalStates \cup {"none"}, phase : {"", "live", "done"},
            live : BOOLEAN, code : Codes]
NoRow == [state |-> "none", phase |-> "", live |-> FALSE, code |-> ""]
Live(s) == [state |-> s, phase |-> "live", live |-> TRUE, code |-> ""]

Outcomes == {"none", "procOK", "procErr", "timeout", "cancel", "shutdown", "seedErr", "refused"}
Steps == {"none", "queued", "await", "preflight", "prepare", "gated", "start", "info", "seed",
          "narrate", "abort", "loop", "drained", "quitAsked", "failAsked", "ok", "verify",
          "commit", "succeed", "quit", "fail", "discard", "release", "done", "orphan"}

TypeOK ==
    /\ running \subseteq Jobs /\ committed \subseteq Jobs /\ journal \subseteq Jobs
    /\ pc \in [Jobs -> Steps] /\ res \in [Jobs -> Outcomes]
    /\ row \in [Jobs -> JobRows] /\ stored \in [Jobs -> JobRows] /\ snap \in [Jobs -> JobRows]
    /\ mu \in [Jobs -> {"", "sampler", "reader"}]
    /\ kill \in [Jobs -> {"", "cancel", "timeout"}]
    /\ ctx \in [Jobs -> BOOLEAN] /\ runCtx \in [Jobs -> BOOLEAN]
    /\ tool \in [Jobs -> {"none", "unstarted", "gated", "run", "ok", "err", "killed"}]
    /\ success \in [Jobs -> BOOLEAN] /\ paused \in [Jobs -> BOOLEAN] /\ act \in [Jobs -> BOOLEAN]
    /\ reader \in [Jobs -> {"scan", "line", "write"}]
    /\ smp \in [Jobs -> {"off", "tick", "sampled", "doomed", "killing"}]
    /\ idle \in [Jobs -> 0..LivenessTimeout] /\ started \in [Jobs -> BOOLEAN]
    /\ cancel \in [Jobs -> {"idle", "found", "marked"}]
    /\ down \in BOOLEAN /\ boot \in BOOLEAN /\ restarts \in 0..MaxRestarts

All(v) == [j \in Jobs |-> v]

Init ==
    /\ running = {} /\ committed = {} /\ journal = {}
    /\ pc = All("none") /\ res = All("none")
    /\ row = All(NoRow) /\ stored = All(NoRow) /\ snap = All(NoRow) /\ mu = All("")
    /\ kill = All("") /\ ctx = All(FALSE) /\ runCtx = All(FALSE)
    /\ tool = All("none") /\ success = All(FALSE) /\ paused = All(FALSE) /\ act = All(FALSE)
    /\ reader = All("scan")
    /\ smp = All("off") /\ idle = All(0) /\ started = All(FALSE)
    /\ cancel = All("idle")
    /\ down = FALSE /\ boot = FALSE /\ restarts = 0

-----------------------------------------------------------------------------
(* The row's writers                                                       *)

MuFree(j) == mu[j] = ""

\* UpdateJob: an error is logged and the row left as it was.
Persist(j, r) == \/ stored' = [stored EXCEPT ![j] = r]
                 \/ "store" \in Faults /\ UNCHANGED stored

\* transition mutates, persists and emits under the job's lock.
Transition(j, r) ==
    /\ MuFree(j)
    /\ row' = [row EXCEPT ![j] = r]
    /\ Persist(j, r)
    /\ UNCHANGED <<mu, snap>>

\* progress mutates under the lock ...
ProgressMutate(j, who, r) ==
    /\ MuFree(j)
    /\ mu' = [mu EXCEPT ![j] = who]
    /\ row' = [row EXCEPT ![j] = r]
    /\ snap' = [snap EXCEPT ![j] = r]
    /\ UNCHANGED stored

\* ... and, unless the throttle says not yet, writes before it unlocks.
ProgressWrite(j, who) ==
    /\ mu[j] = who
    /\ mu' = [mu EXCEPT ![j] = ""]
    /\ snap' = [snap EXCEPT ![j] = NoRow]
    /\ (Persist(j, snap[j]) \/ UNCHANGED stored)
    /\ UNCHANGED row

Goto(j, step) == pc' = [pc EXCEPT ![j] = step]
Decide(j, outcome) == res' = [res EXCEPT ![j] = outcome]

-----------------------------------------------------------------------------
(* StartBackup and run, up to the tool                                     *)

Busy(j) == \E k \in running : DeviceOf[k] = DeviceOf[j]

\* The busy check, the row's insert and the map entry under e.mu.  A refused
\* request changes nothing.
StartBackup(j) ==
    /\ ~boot /\ pc[j] = "none" /\ ~Busy(j)
    /\ running' = running \cup {j}
    /\ row' = [row EXCEPT ![j] = Live("queued")]
    /\ stored' = [stored EXCEPT ![j] = Live("queued")]
    /\ ctx' = [ctx EXCEPT ![j] = down]
    /\ Goto(j, "queued")
    /\ UNCHANGED <<res, mu, snap, kill, runCtx, toolVars, smpVars, cancel, storeVars, lifeVars>>

RunUnchanged == UNCHANGED <<running, kill, ctx, runCtx, toolVars, smpVars, cancel, storeVars, lifeVars>>

EnterWait(j) ==
    /\ pc[j] = "queued"
    /\ Transition(j, Live("waiting_for_device"))
    /\ Goto(j, "await") /\ UNCHANGED res
    /\ RunUnchanged

\* killOutcome, and run's own switch after awaitDevice, ask why a job ends.  The
\* first read is killReason, under the job's lock: a recorded reason decides ...
KillReason(j, otherwise, ending, asked) ==
    /\ MuFree(j)
    /\ Decide(j, IF kill[j] # "" THEN kill[j] ELSE otherwise)
    /\ Goto(j, IF kill[j] # "" THEN ending ELSE asked)

\* ... and after the unlock the context is read: done, it is taken for a shutdown.
KillContext(j) ==
    /\ pc[j] \in {"quitAsked", "failAsked"}
    /\ LET out == IF ctx[j] THEN "shutdown" ELSE res[j]
       IN /\ Decide(j, out)
          /\ Goto(j, IF pc[j] = "quitAsked" THEN "quit" ELSE IF out = "procOK" THEN "ok" ELSE "fail")
    /\ UNCHANGED rowVars /\ RunUnchanged

\* awaitDevice: the device appears ...
DeviceSeen(j) ==
    /\ pc[j] = "await"
    /\ Transition(j, Live("preflight"))
    /\ Goto(j, "preflight") /\ UNCHANGED res
    /\ RunUnchanged

\* ... or the context or the wait window ends; the reason is read afterwards.
AwaitFails(j) ==
    /\ pc[j] = "await"
    /\ KillReason(j, "refused", "quit", "quitAsked")
    /\ UNCHANGED rowVars /\ RunUnchanged

PreflightRefuses(j) ==
    /\ pc[j] = "preflight"
    /\ Decide(j, "refused") /\ Goto(j, "quit")
    /\ UNCHANGED rowVars /\ RunUnchanged

EnterSeeding(j) ==
    /\ pc[j] = "preflight"
    /\ Transition(j, Live("seeding"))
    /\ Goto(j, "prepare") /\ UNCHANGED res
    /\ RunUnchanged

\* PrepareWork fails, leaves a clone to be made behind the gate, or has none.
PrepareWork(j) ==
    /\ pc[j] = "prepare"
    /\ \/ "seed" \in Faults /\ Decide(j, "seedErr") /\ Goto(j, "quit") /\ UNCHANGED rowVars
       \/ Goto(j, "gated") /\ UNCHANGED <<res, rowVars>>
       \/ Transition(j, Live("backing_up")) /\ Goto(j, "start") /\ UNCHANGED res
    /\ RunUnchanged

-----------------------------------------------------------------------------
(* Supervision                                                             *)

\* Mutation: startTool's error path does not ask killOutcome (quince#644).
StartFailureUnasked(j) == MuFree(j) /\ Decide(j, "procErr") /\ Goto(j, "fail")
StartFailure(j) == KillReason(j, "procErr", "fail", "failAsked")

\* cmd.Start spawns nothing when the context is already done, or fails by itself.
StartFails(j) ==
    /\ pc[j] \in {"gated", "start"}
    /\ tool' = [tool EXCEPT ![j] = IF ctx[j] THEN "unstarted" ELSE "none"]
    /\ StartFailure(j)
    /\ UNCHANGED <<running, rowVars, kill, ctx, runCtx, success, paused, act, reader, smpVars,
                   cancel, storeVars, lifeVars>>

\* runToolLoop starts with a fresh sampler.  Output already seen counts as activity.
SamplerStarts(j) ==
    /\ smp' = [smp EXCEPT ![j] = "tick"]
    /\ idle' = [idle EXCEPT ![j] = 0] /\ started' = [started EXCEPT ![j] = FALSE]

StartTool(j) ==
    /\ pc[j] \in {"gated", "start"} /\ ~ctx[j]
    /\ \/ /\ pc[j] = "gated"
          /\ tool' = [tool EXCEPT ![j] = "gated"] /\ Goto(j, "info") /\ UNCHANGED smpVars
       \/ /\ pc[j] = "start"
          /\ tool' = [tool EXCEPT ![j] = "run"] /\ Goto(j, "loop") /\ SamplerStarts(j)
    /\ UNCHANGED <<running, res, rowVars, kill, ctx, runCtx, success, paused, act, reader,
                   cancel, storeVars, lifeVars>>

\* awaitInfoPlist: a settled Info.plist, else cancel, exit or the deadline,
\* which hand the still gated tool to the sampler loop.
AwaitInfoPlist(j) ==
    /\ pc[j] = "info"
    /\ \/ Goto(j, "seed") /\ UNCHANGED smpVars
       \/ Goto(j, "loop") /\ SamplerStarts(j)
    /\ UNCHANGED <<running, res, rowVars, kill, ctx, runCtx, toolVars, cancel, storeVars, lifeVars>>

\* SeedWork, the Info.plist restored, the gate opened; an error aborts the tool.
SeedWork(j) ==
    /\ pc[j] = "seed"
    /\ \/ /\ Goto(j, "narrate")
          /\ tool' = [tool EXCEPT ![j] = IF @ = "gated" THEN "run" ELSE @]
          /\ UNCHANGED runCtx
       \/ /\ "seed" \in Faults /\ Goto(j, "abort")
          /\ runCtx' = [runCtx EXCEPT ![j] = TRUE]
          /\ UNCHANGED tool
    /\ UNCHANGED <<running, res, rowVars, kill, ctx, success, paused, act, reader, smpVars,
                   cancel, storeVars, lifeVars>>

\* readers.Wait: the child closed its pipes and every line has been handled.
ReadersDone(j) == tool[j] \in {"ok", "err", "killed"} /\ reader[j] = "scan"

Abort(j) ==
    /\ pc[j] = "abort" /\ ReadersDone(j)
    /\ Decide(j, "seedErr") /\ Goto(j, "quit")
    /\ UNCHANGED rowVars /\ RunUnchanged

Narrate(j) ==
    /\ pc[j] = "narrate"
    /\ Transition(j, Live("backing_up"))
    /\ Goto(j, "loop") /\ SamplerStarts(j)
    /\ UNCHANGED <<running, res, kill, ctx, runCtx, toolVars, cancel, storeVars, lifeVars>>

\* runToolLoop: drain, close(sampleDone) ...
Drain(j) ==
    /\ pc[j] = "loop" /\ ReadersDone(j)
    /\ Goto(j, "drained")
    /\ UNCHANGED <<res, rowVars>> /\ RunUnchanged

\* ... cmd.Wait, then the outcome: a kill outranks the exit status.
Reap(j) ==
    /\ pc[j] = "drained"
    /\ KillReason(j, IF tool[j] = "ok" /\ success[j] THEN "procOK" ELSE "procErr", "fail", "failAsked")
    /\ runCtx' = [runCtx EXCEPT ![j] = TRUE]
    /\ UNCHANGED <<running, rowVars, kill, ctx, toolVars, smpVars, cancel, storeVars, lifeVars>>

EnterVerifying(j) ==
    /\ pc[j] = "ok"
    /\ Transition(j, Live("verifying"))
    /\ Goto(j, "verify") /\ UNCHANGED res
    /\ RunUnchanged

VerifyWork(j) ==
    /\ pc[j] = "verify"
    /\ \/ Decide(j, "procErr") /\ Goto(j, "fail") /\ UNCHANGED rowVars
       \/ Transition(j, Live("committing")) /\ Goto(j, "commit") /\ UNCHANGED res
    /\ RunUnchanged

\* CommitJob: the version is registered, or an error preserves the work area
\* and, past the journal's first write, the journal.
CommitJob(j) ==
    /\ pc[j] = "commit"
    /\ \/ committed' = committed \cup {j} /\ Goto(j, "succeed") /\ UNCHANGED <<res, journal>>
       \/ /\ Decide(j, "refused") /\ Goto(j, "quit") /\ UNCHANGED committed
          /\ \/ UNCHANGED journal
             \/ "commit" \in Faults /\ journal' = journal \cup {j}
    /\ UNCHANGED <<running, rowVars, kill, ctx, runCtx, toolVars, smpVars, cancel, lifeVars>>

-----------------------------------------------------------------------------
(* Endings                                                                 *)

Ended(state, code) == [state |-> state, phase |-> "", live |-> FALSE, code |-> code]
EndedAs(out) == CASE out = "cancel"   -> Ended("cancelled", "cancelled")
                  [] out = "timeout"  -> Ended("connection_lost", "disconnected")
                  [] out = "shutdown" -> Ended("connection_lost", "interrupted")
                  [] out = "seedErr"  -> Ended("failed", "seed")
                  [] OTHER            -> Ended("failed", "failed")
Succeeded == [state |-> "succeeded", phase |-> "done", live |-> FALSE, code |-> ""]

\* terminate, followed by discard where the tool may have written.
Terminate(j) ==
    /\ pc[j] \in {"quit", "fail"}
    /\ Transition(j, EndedAs(res[j]))
    /\ Goto(j, IF pc[j] = "fail" THEN "discard" ELSE "release") /\ UNCHANGED res
    /\ RunUnchanged

Succeed(j) ==
    /\ pc[j] = "succeed"
    /\ Transition(j, Succeeded)
    /\ Goto(j, "release") /\ UNCHANGED res
    /\ RunUnchanged

\* Mutation: the device is freed while the work area is still being discarded.
DiscardUnheld(j) ==
    /\ pc[j] = "discard"
    /\ running' = running \ {j}
    /\ Goto(j, "release")
    /\ UNCHANGED <<res, rowVars, kill, ctx, runCtx, toolVars, smpVars, cancel, storeVars, lifeVars>>
Discard(j) ==
    /\ pc[j] = "discard"
    /\ Goto(j, "release")
    /\ UNCHANGED <<res, rowVars>> /\ RunUnchanged

\* delete(e.running, udid).
ReleaseDevice(j) == running' = {k \in running : DeviceOf[k] # DeviceOf[j]}
\* What only run reads ends with it: superviseState, the sampler's clock, the
\* outcome, the contexts and the kill reason.
LocalsDropped(j) ==
    /\ kill' = [kill EXCEPT ![j] = ""]
    /\ ctx' = [ctx EXCEPT ![j] = FALSE] /\ runCtx' = [runCtx EXCEPT ![j] = FALSE]
    /\ tool' = [tool EXCEPT ![j] = "none"]
    /\ success' = [success EXCEPT ![j] = FALSE] /\ paused' = [paused EXCEPT ![j] = FALSE]
    /\ act' = [act EXCEPT ![j] = FALSE] /\ res' = [res EXCEPT ![j] = "none"]
    /\ idle' = [idle EXCEPT ![j] = 0] /\ started' = [started EXCEPT ![j] = FALSE]

Release(j) ==
    /\ pc[j] = "release"
    /\ ReleaseDevice(j) /\ LocalsDropped(j)
    /\ Goto(j, "done")
    /\ UNCHANGED <<rowVars, reader, smp, cancel, storeVars, lifeVars>>

-----------------------------------------------------------------------------
(* The child and its output.  One pending line stands for the stdout and   *)
(* the stderr scanner: they share superviseState and the job's lock.       *)

Alive(j) == tool[j] \in {"gated", "run"}

\* handleLine up to ss.mu: a log line, the passcode prompt, a phase header or
\* "Backup Successful", which a tool at its gate does not print.
ToolLine(j) ==
    /\ Alive(j) /\ reader[j] = "scan"
    /\ act' = [act EXCEPT ![j] = TRUE]
    /\ \/ UNCHANGED <<paused, success, reader>>
       \/ /\ \E waiting \in BOOLEAN : paused' = [paused EXCEPT ![j] = waiting]
          /\ reader' = [reader EXCEPT ![j] = "line"] /\ UNCHANGED success
       \/ /\ tool[j] = "run" /\ success' = [success EXCEPT ![j] = TRUE]
          /\ UNCHANGED <<paused, reader>>
    /\ UNCHANGED <<running, pc, res, rowVars, kill, ctx, runCtx, tool, smpVars, cancel,
                   storeVars, lifeVars>>

\* The tree's fingerprint changes; only a running sampler compares it.
ToolWrites(j) ==
    /\ Alive(j) /\ pc[j] = "loop"
    /\ act' = [act EXCEPT ![j] = TRUE]
    /\ UNCHANGED <<running, pc, res, rowVars, kill, ctx, runCtx, tool, success, paused, reader,
                   smpVars, cancel, storeVars, lifeVars>>

ToolExits(j) ==
    /\ Alive(j)
    /\ \E e \in {"ok", "err"} : /\ e = "ok" => tool[j] = "run"
                                /\ tool' = [tool EXCEPT ![j] = e]
    /\ UNCHANGED <<running, pc, res, rowVars, kill, ctx, runCtx, success, paused, act, reader,
                   smpVars, cancel, storeVars, lifeVars>>

\* The group SIGKILL of cmd.Cancel.
ToolKilled(j) ==
    /\ Alive(j) /\ (ctx[j] \/ runCtx[j])
    /\ tool' = [tool EXCEPT ![j] = "killed"]
    /\ UNCHANGED <<running, pc, res, rowVars, kill, ctx, runCtx, success, paused, act, reader,
                   smpVars, cancel, storeVars, lifeVars>>

ScannerUnchanged == UNCHANGED <<running, pc, res, kill, ctx, runCtx, tool, success, paused, act,
                                smpVars, cancel, storeVars, lifeVars>>

\* handleLine's progress: the phase and the figures go into the row.
LineMutate(j) ==
    /\ reader[j] = "line"
    /\ ProgressMutate(j, "reader", [row[j] EXCEPT !.phase = "live"])
    /\ reader' = [reader EXCEPT ![j] = "write"]
    /\ ScannerUnchanged

LineWrite(j) ==
    /\ reader[j] = "write"
    /\ ProgressWrite(j, "reader")
    /\ reader' = [reader EXCEPT ![j] = "scan"]
    /\ ScannerUnchanged

-----------------------------------------------------------------------------
(* The sampler goroutine                                                   *)

SamplerUnchanged == UNCHANGED <<running, pc, res, ctx, tool, success, paused, reader, cancel,
                                storeVars, lifeVars>>

\* Mutation: idle time never accrues.
GraceAlways(j) == TRUE
\* No idle accrues before the first sign of life, at the passcode prompt, or
\* when something happened.
Grace(j) == ~started[j] \/ paused[j] \/ act[j]

\* A tick: read and clear outputSince, compare the tree, judge.
Sample(j) ==
    /\ smp[j] = "tick" /\ pc[j] \in {"loop", "drained"}
    /\ act' = [act EXCEPT ![j] = FALSE]
    /\ started' = [started EXCEPT ![j] = @ \/ act[j]]
    /\ LET now == IF Grace(j) THEN 0 ELSE idle[j] + 1
       IN /\ idle' = [idle EXCEPT ![j] = now]
          /\ smp' = [smp EXCEPT ![j] = IF now >= LivenessTimeout THEN "doomed" ELSE "sampled"]
    /\ UNCHANGED <<kill, runCtx, rowVars>> /\ SamplerUnchanged

SamplerMutate(j) ==
    /\ smp[j] \in {"sampled", "doomed"}
    /\ ProgressMutate(j, "sampler", [row[j] EXCEPT !.live = TRUE])
    /\ UNCHANGED <<kill, runCtx, act, smpVars>> /\ SamplerUnchanged

SamplerWrite(j) ==
    /\ smp[j] \in {"sampled", "doomed"}
    /\ ProgressWrite(j, "sampler")
    /\ smp' = [smp EXCEPT ![j] = IF @ = "doomed" THEN "killing" ELSE "tick"]
    /\ UNCHANGED <<kill, runCtx, act, idle, started>> /\ SamplerUnchanged

SamplerKill(j) ==
    /\ smp[j] = "killing" /\ MuFree(j)
    /\ kill' = [kill EXCEPT ![j] = IF @ = "" THEN "timeout" ELSE @]
    /\ runCtx' = [runCtx EXCEPT ![j] = TRUE]
    /\ smp' = [smp EXCEPT ![j] = "off"]
    /\ UNCHANGED <<rowVars, act, idle, started>> /\ SamplerUnchanged

SamplerStops(j) ==
    /\ smp[j] = "tick" /\ (ctx[j] \/ runCtx[j] \/ pc[j] # "loop")
    /\ smp' = [smp EXCEPT ![j] = "off"]
    /\ UNCHANGED <<rowVars, kill, runCtx, act, idle, started>> /\ SamplerUnchanged

-----------------------------------------------------------------------------
(* CancelJob, shutdown, restart                                            *)

CancelUnchanged == UNCHANGED <<running, pc, res, rowVars, runCtx, toolVars, smpVars, storeVars, lifeVars>>

\* The job is looked up under e.mu ...
CancelFind(j) ==
    /\ "cancel" \in Requests
    /\ ~boot /\ j \in running /\ cancel[j] = "idle"
    /\ cancel' = [cancel EXCEPT ![j] = "found"]
    /\ UNCHANGED <<kill, ctx>> /\ CancelUnchanged

CancelReason(j) == kill' = [kill EXCEPT ![j] = IF @ = "" THEN "cancel" ELSE @]

\* ... the reason is recorded under the job's lock, 202 decided, ...
CancelMark(j) ==
    /\ cancel[j] = "found" /\ MuFree(j)
    /\ CancelReason(j)
    /\ cancel' = [cancel EXCEPT ![j] = "marked"]
    /\ UNCHANGED ctx /\ CancelUnchanged

\* Mutation: the context is not cancelled.
ContextKept(j) == UNCHANGED ctx
CancelContext(j) == ctx' = [ctx EXCEPT ![j] = TRUE]

\* ... and the context cancelled.
CancelFires(j) ==
    /\ cancel[j] = "marked"
    /\ CancelContext(j)
    /\ cancel' = [cancel EXCEPT ![j] = "idle"]
    /\ UNCHANGED kill /\ CancelUnchanged

\* SIGTERM: every job's context is a child of baseCtx.
Shutdown ==
    /\ "shutdown" \in Requests
    /\ ~boot /\ ~down /\ down' = TRUE
    /\ ctx' = [j \in Jobs |-> ctx[j] \/ j \in running]
    /\ UNCHANGED <<running, pc, res, rowVars, kill, runCtx, toolVars, smpVars, cancel,
                   storeVars, boot, restarts>>

\* Mutation: every row is listed.
ListAllJobs == {j \in Jobs : stored[j].state # "none"}
ListNonTerminalJobs == {j \in Jobs : stored[j].state \in LiveStates}

\* The process ends anywhere, its container and the child with it.  A commit
\* it was in, or whose journal a failure left, may be rolled forward before
\* the engine judges.
Restart ==
    /\ restarts < MaxRestarts /\ restarts' = restarts + 1
    /\ \E rolled \in SUBSET (journal \cup {j \in Jobs : pc[j] = "commit"}) :
          committed' = committed \cup rolled /\ journal' = journal \ rolled
    /\ running' = {} /\ mu' = All("") /\ snap' = All(NoRow) /\ row' = stored
    /\ pc' = [j \in Jobs |-> IF pc[j] = "none" THEN "none"
                             ELSE IF j \in ListNonTerminalJobs THEN "orphan" ELSE "done"]
    /\ tool' = All("none") /\ reader' = All("scan") /\ smp' = All("off") /\ cancel' = All("idle")
    /\ kill' = All("") /\ ctx' = All(FALSE) /\ runCtx' = All(FALSE)
    /\ success' = All(FALSE) /\ paused' = All(FALSE) /\ act' = All(FALSE)
    /\ idle' = All(0) /\ started' = All(FALSE) /\ res' = All("none")
    /\ down' = FALSE /\ boot' = TRUE
    /\ UNCHANGED stored

\* Mutation: VersionForJob is not asked.
VerdictUnasked(j) == Ended("connection_lost", "interrupted")
Verdict(j) == IF j \in committed THEN Succeeded ELSE Ended("connection_lost", "interrupted")

\* Reconcile, one orphaned row; a failed write is logged and skipped.
Reconcile(j) ==
    /\ boot /\ pc[j] = "orphan"
    /\ row' = [row EXCEPT ![j] = Verdict(j)]
    /\ Persist(j, Verdict(j))
    /\ Goto(j, "done")
    /\ UNCHANGED <<running, res, mu, snap, kill, ctx, runCtx, toolVars, smpVars, cancel,
                   storeVars, lifeVars>>

Serve ==
    /\ boot /\ \A j \in Jobs : pc[j] # "orphan"
    /\ boot' = FALSE
    /\ UNCHANGED <<running, pc, res, rowVars, kill, ctx, runCtx, toolVars, smpVars, cancel,
                   storeVars, down, restarts>>

-----------------------------------------------------------------------------
\* run, in one goroutine per job.
Run(j) ==
    \/ EnterWait(j) \/ DeviceSeen(j) \/ AwaitFails(j) \/ KillContext(j) \/ PreflightRefuses(j)
    \/ EnterSeeding(j) \/ PrepareWork(j) \/ StartFails(j) \/ StartTool(j) \/ AwaitInfoPlist(j) \/ SeedWork(j)
    \/ Abort(j) \/ Narrate(j) \/ Drain(j) \/ Reap(j) \/ EnterVerifying(j) \/ VerifyWork(j)
    \/ CommitJob(j) \/ Terminate(j) \/ Succeed(j) \/ Discard(j) \/ Release(j)
Scanner(j) == LineMutate(j) \/ LineWrite(j)
Sampler(j) == Sample(j) \/ SamplerMutate(j) \/ SamplerWrite(j) \/ SamplerKill(j) \/ SamplerStops(j)
Child(j) == ToolLine(j) \/ ToolWrites(j) \/ ToolExits(j) \/ ToolKilled(j)
Canceller(j) == CancelFind(j) \/ CancelMark(j) \/ CancelFires(j)

Next ==
    \/ \E j \in Jobs : \/ StartBackup(j) \/ Run(j) \/ Scanner(j) \/ Sampler(j) \/ Child(j)
                       \/ Canceller(j) \/ Reconcile(j)
    \/ Shutdown \/ Restart \/ Serve

\* Goroutines are scheduled and sync.Mutex does not starve a waiter, hence
\* strong fairness; storage calls return; a signalled child dies.  Nothing is
\* assumed of what the child prints, writes or whether it exits by itself.
Fairness ==
    /\ \A j \in Jobs : /\ SF_vars(Run(j)) /\ SF_vars(Scanner(j)) /\ SF_vars(Sampler(j))
                       /\ WF_vars(ToolKilled(j)) /\ SF_vars(CancelMark(j) \/ CancelFires(j))
                       /\ WF_vars(Reconcile(j))
    /\ WF_vars(Serve)

Spec == Init /\ [][Next]_vars /\ Fairness
-----------------------------------------------------------------------------
(* Properties                                                              *)

\* A verdict is never revised: once a terminal state is in the database no
\* late progress write, cancel, shutdown or restart replaces it (transition
\* and progress, quince#178; Reconcile).
TerminalFinal ==
    [][\A j \in Jobs : JobIsTerminal(stored[j].state) =>
           stored'[j].state = stored[j].state /\ stored'[j].code = stored[j].code]_vars

\* When the engine lets a job go, the database says how it ended: no writer
\* lands an older row on top (the lock spans the write, quince#178).
StoredSettled ==
    \A j \in Jobs : pc[j] = "done" => /\ JobIsTerminal(stored[j].state)
                                      /\ stored[j].state = row[j].state

\* The child is dead before its work area is verified, committed, discarded or
\* handed to the next job, and at most one job of a device is past StartBackup
\* (readers.Wait and cmd.Wait before every outcome; release last).
WorkAreaExclusive ==
    /\ \A j \in Jobs : Alive(j) => pc[j] \in {"info", "seed", "narrate", "abort", "loop"}
    /\ \A j, k \in Jobs :
          (j # k /\ DeviceOf[j] = DeviceOf[k] /\ pc[j] \notin {"none", "done", "orphan"})
            => pc[k] \in {"none", "done"}

\* The reason on the row is the true one: a tool that was killed, or refused to
\* start because of a kill, is not "backup failed" (quince#644); "interrupted"
\* is only said of a shutdown or a restart, or of a cancel that recorded its
\* reason and fired between killOutcome's two reads; "connection lost" only of a
\* timeout.
EndExplained ==
    \A j \in Jobs : LET r == row[j] IN
      /\ r.code = "failed" => tool[j] \notin {"killed", "unstarted"}
      /\ (r.code = "interrupted" /\ pc[j] # "done")
            => (down \/ restarts > 0 \/ (kill[j] # "" /\ ctx[j]))
      /\ r.code = "disconnected" /\ pc[j] # "done" => kill[j] = "timeout"

\* A job is reported succeeded exactly when its version is registered, however
\* the crash, the roll-forward and the verdict at start-up interleave.
VerdictTrue ==
    \A j \in Jobs : JobIsTerminal(stored[j].state) => (stored[j].state = "succeeded" <=> j \in committed)

\* The phase does not outlive the job: no scanner writes "waiting for passcode"
\* onto a row that has ended (terminate, quince#313).
PhaseEnds ==
    \A j \in Jobs : JobIsTerminal(row[j].state) =>
        row[j].phase = (IF row[j].state = "succeeded" THEN "done" ELSE "")

\* A cancelled job ends and frees its device, wherever the cancel lands and
\* whatever the child does.
CancelEnds == \A j \in Jobs : (kill[j] = "cancel") ~> (pc[j] \in {"done", "orphan"} /\ j \notin running)

\* A child that showed life and then falls silent, outside the passcode prompt,
\* does not hold its device forever (the sampler's timeout).
StallReaped == \A j \in Jobs : []<>(pc[j] # "loop" \/ act[j] \/ paused[j] \/ ~started[j])

\* A terminal job carries no liveness, succeeded included.
TerminalNotLive == \A j \in Jobs : JobIsTerminal(stored[j].state) => ~stored[j].live

\* CancelJob answers 202 only for a job that has not ended.
CancelAcceptsLive ==
    [][\A j \in Jobs : (cancel[j] = "found" /\ cancel'[j] = "marked")
                          => ~JobIsTerminal(row[j].state)]_vars

\* A wedged handshake handed to the sampler loop is killed by its backstop.
WedgeReaped == \A j \in Jobs : []<>(pc[j] # "loop" \/ act[j] \/ paused[j])
-----------------------------------------------------------------------------
(* The properties made inductive                                           *)

AtRest == {"none", "done", "orphan"}
Undecided == Steps \ {"discard", "release", "done", "orphan"}

\* WorkAreaExclusive: a job that runs is in the map, alone of its device.
Owned ==
    /\ \A j \in Jobs : j \in running <=> pc[j] \notin AtRest
    /\ \A j, k \in running : DeviceOf[j] = DeviceOf[k] => j = k
    /\ boot => running = {}
    /\ \A j \in Jobs : pc[j] = "orphan" => boot
    /\ \A j \in Jobs : Alive(j) => pc[j] \in {"info", "seed", "narrate", "abort", "loop"}

\* TerminalFinal: no row is terminal before its job decided; what a lock
\* holder will write, and what is stored as terminal, is what the row says.
DecidedAt(j) ==
    /\ pc[j] \in Undecided => ~\E r \in {row[j], stored[j], snap[j]} : JobIsTerminal(r.state)
    /\ pc[j] = "orphan" => ~JobIsTerminal(stored[j].state)
    /\ mu[j] # "" => snap[j].state = row[j].state /\ snap[j].code = row[j].code
    /\ JobIsTerminal(stored[j].state) => /\ row[j].state = stored[j].state
                                         /\ row[j].code = stored[j].code
Decided == \A j \in Jobs : DecidedAt(j)

\* VerdictTrue, when a commit fails only before its journal.
JudgedAt(j) ==
    /\ j \notin journal
    /\ pc[j] \in Undecided => (j \in committed <=> pc[j] = "succeed")
    /\ JobIsTerminal(row[j].state) => (row[j].state = "succeeded" <=> j \in committed)
Judged == \A j \in Jobs : JudgedAt(j)

\* StoredSettled, when no database write fails.
SettledAt(j) ==
    /\ pc[j] # "none" => row[j].state # "none" /\ stored[j].state # "none"
    /\ pc[j] \in {"discard", "release", "done"} => JobIsTerminal(stored[j].state)
Settled == \A j \in Jobs : SettledAt(j)

\* EndExplained.  What can make a job end: the child is not killed, and the
\* context not cancelled, before somebody recorded why, and the outcome run is
\* about to write agrees with that ...
Quitting == {"quit", "fail"}
BeforeTool == {"none", "queued", "await", "preflight", "prepare", "gated", "start"}
WithTool == {"info", "seed", "narrate", "loop", "drained"}
Asked == {"quitAsked", "failAsked"}
Interrupted == down \/ restarts > 0
Overtaken(j) == kill[j] # "" /\ ctx[j]
CausedAt(j) ==
    /\ pc[j] \in BeforeTool => tool[j] = "none"
    /\ pc[j] \in BeforeTool \cup WithTool /\ runCtx[j] => kill[j] # ""
    /\ pc[j] \in WithTool /\ tool[j] \in {"killed", "unstarted"} => kill[j] # "" \/ ctx[j]
    /\ pc[j] \in {"ok", "verify", "commit", "succeed"} => tool[j] = "ok"
    /\ pc[j] \notin {"done", "orphan"} /\ cancel[j] = "marked" => kill[j] # ""
    /\ pc[j] \notin AtRest /\ ctx[j] /\ kill[j] = "" => Interrupted
    /\ pc[j] \in Asked =>
          /\ res[j] \in {"refused", "procErr", "procOK"}
          /\ tool[j] \in {"killed", "unstarted"} => ctx[j]
          /\ res[j] = "procOK" => tool[j] = "ok"
    /\ pc[j] \in Quitting =>
          /\ res[j] \notin {"cancel", "timeout", "shutdown", "seedErr"}
                => tool[j] \notin {"killed", "unstarted"}
          /\ res[j] = "shutdown" => Interrupted \/ Overtaken(j)
          /\ res[j] = "timeout" => kill[j] = "timeout"
Caused == (\A j \in Jobs : CausedAt(j)) /\ (boot => restarts > 0)

\* ... and a reason is only on a row that has ended, where it stays true.
ReasonedAt(j) ==
    /\ \A r \in {row[j], stored[j], snap[j]} : ~JobIsTerminal(r.state) => r.code = ""
    /\ pc[j] = "orphan" => row[j].code = ""
    /\ row[j].code = "failed" => tool[j] \notin {"killed", "unstarted"}
    /\ row[j].code = "interrupted" /\ pc[j] # "done" => Interrupted \/ Overtaken(j)
    /\ row[j].code = "disconnected" /\ pc[j] # "done" => kill[j] = "timeout"
Reasoned == \A j \in Jobs : ReasonedAt(j)

\* PhaseEnds: the scanner is at rest once the child's pipes are drained.
PhaseTrue(r) == JobIsTerminal(r.state) => r.phase = (IF r.state = "succeeded" THEN "done" ELSE "")
PhasedAt(j) ==
    /\ reader[j] # "scan" => pc[j] \in {"info", "seed", "narrate", "abort", "loop"}
    /\ \A r \in {row[j], stored[j], snap[j]} : PhaseTrue(r)
Phased == \A j \in Jobs : PhasedAt(j)
=============================================================================

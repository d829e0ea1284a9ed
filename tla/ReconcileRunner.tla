-------------------------- MODULE ReconcileRunner --------------------------
(***************************************************************************)
(* The reconciliation runner and everything it runs against: the trigger   *)
(* queue of capacity one, the pass over every declared (storage, device),  *)
(* the schedule and its live interval, the job bindings that make a pass   *)
(* defer a device, the job-end re-trigger, and the storage list that       *)
(* config writes and rechecks replace under a running pass.                *)
(*                                                                         *)
(* What a pass repairs is abstracted to one bit per pair: `stale', the     *)
(* registry may not say what the disk holds.                               *)
(***************************************************************************)
EXTENDS Naturals

CONSTANTS
    Storages,   \* storages a config may declare
    Declared0,  \* the ones declared at start-up
    Devices,
    Jobs,       \* bound: backup jobs ever started, each used once
    Intervals,  \* values of reconcile.interval_minutes; 0 disables
    Mixes       \* what may happen in one behaviour: which jobs are started, if
                \* storages are added or forgotten ("list"), get a new path ("edit")
                \* or are rechecked, if the "interval" is edited or only "schedule"s
                \* passes, if an "insert" or a "scan" fails

NoStorage == "none"
NoDevice == "none"

ASSUME RunnerAssumption ==
    /\ Declared0 \subseteq Storages /\ Declared0 # {}
    /\ NoStorage \notin Storages /\ NoDevice \notin Devices
    /\ {"startup", "schedule", "config"} \cap Jobs = {}
    /\ Intervals \subseteq Nat /\ 0 \in Intervals
    /\ Mixes \subseteq SUBSET (Jobs \cup {"list", "edit", "recheck", "interval", "schedule",
                                      "insert", "scan"})

Pairs == Storages \X Devices
Callers == Jobs \cup {"startup", "schedule", "config"}

VARIABLES
    queued, pending, running,        \* Runner: len(trigger), the two flags
    loop, slots, todo, slot, dev,    \* the loop goroutine and its pass
    caller,                          \* each goroutine's place inside Trigger
    sched, armed, interval, wake,    \* the schedule goroutine, SetInterval
    edit,                            \* the config write holding writeMu
    declared, usable,                \* Manager.slots by name, the Usable() ones
    jpc, on,                         \* each job, and the pair it is bound to
    stale,                           \* pairs the registry may misreport
    mix,                             \* what may happen; never changes
    asked,                           \* history: a Trigger no pass started after
    late,                            \* history: storages resolved anew, without a
                                     \* trigger, since a pass took its snapshot
    failed                           \* history: pairs the last pass failed to scan

runnerVars == <<queued, pending, running>>
passVars == <<loop, slots, todo, slot, dev>>
schedVars == <<sched, armed, interval, wake>>
jobVars == <<jpc, on>>
slotVars == <<declared, usable, late, mix>>
vars == <<runnerVars, passVars, caller, schedVars, edit, slotVars, jobVars, stale, asked, failed>>

NoEdit == [op |-> "none", name |-> NoStorage]

TypeOK ==
    /\ queued \in 0..1 /\ pending \in BOOLEAN /\ running \in BOOLEAN
    /\ loop \in {"wait", "received", "snapshot", "slot", "device", "claim", "repair"}
    /\ slots \subseteq Storages /\ todo \subseteq Devices
    /\ slot \in Storages \cup {NoStorage} /\ dev \in Devices \cup {NoDevice}
    /\ caller \in [Callers -> {"idle", "flag", "send"}]
    /\ sched \in {"read", "off", "timer", "fired"}
    /\ armed \in Intervals /\ interval \in Intervals /\ wake \in 0..1
    /\ edit \in [op : {"none", "forget", "interval"}, name : Storages \cup {NoStorage}]
    /\ usable \subseteq declared /\ declared \subseteq Storages
    /\ mix \in Mixes /\ late \subseteq Storages
    /\ failed \subseteq (Storages \cup {NoStorage}) \X (Devices \cup {NoDevice})
    /\ jpc \in [Jobs -> {"none", "bound", "running", "commit", "ended", "released",
                         "done", "leaked"}]
    /\ on \in [Jobs -> Pairs \cup {<<NoStorage, NoDevice>>}]
    /\ stale \subseteq Pairs /\ asked \in BOOLEAN

\* main starts the loop and the schedule, then triggers, then serves.
Init ==
    /\ queued = 0 /\ pending = FALSE /\ running = FALSE
    /\ loop = "wait" /\ slots = {} /\ todo = {} /\ slot = NoStorage /\ dev = NoDevice
    /\ caller = [c \in Callers |-> IF c = "startup" THEN "flag" ELSE "idle"]
    /\ mix \in Mixes
    /\ interval \in Intervals /\ (interval # 0 => {"interval", "schedule"} \cap mix # {})
    /\ sched = "read" /\ armed = interval /\ wake = 0
    /\ edit = NoEdit
    /\ declared = Declared0 /\ usable \in SUBSET Declared0
    /\ jpc = [j \in Jobs |-> "none"] /\ on = [j \in Jobs |-> <<NoStorage, NoDevice>>]
    /\ stale = Declared0 \X Devices
    /\ asked = FALSE /\ late = {} /\ failed = {}

Serving == caller["startup"] = "idle"

-----------------------------------------------------------------------------
(* Trigger and Reconciling                                                 *)

\* Trigger sets `pending' under the mutex ...
TriggerFlag(c) ==
    /\ caller[c] = "flag"
    /\ pending' = TRUE /\ asked' = TRUE
    /\ caller' = [caller EXCEPT ![c] = "send"]
    /\ UNCHANGED <<queued, running, passVars, schedVars, edit, slotVars, jobVars, stale,
                   failed>>

\* Mutation: the trigger is dropped while a pass runs.
SendUnlessRunning == IF running THEN UNCHANGED queued ELSE queued' = 1
\* ... then sends without blocking: a full queue absorbs the request.
Send == queued' = 1

TriggerSend(c) ==
    /\ caller[c] = "send"
    /\ Send
    /\ caller' = [caller EXCEPT ![c] = "idle"]
    /\ UNCHANGED <<pending, running, passVars, schedVars, edit, slotVars, jobVars, stale, asked, failed>>

\* Mutation: health asks only whether a pass is running.
RunningOnly == running
Reconciling == pending \/ running \/ queued = 1

-----------------------------------------------------------------------------
(* loop, runOnce and ReconcileScan                                         *)

Receive ==
    /\ loop = "wait" /\ queued = 1
    /\ queued' = 0 /\ loop' = "received"
    /\ UNCHANGED <<pending, running, slots, todo, slot, dev, caller, schedVars, edit,
                   slotVars, jobVars, stale, asked, failed>>

RunOnce ==
    /\ loop = "received"
    /\ pending' = FALSE /\ running' = TRUE
    /\ asked' = FALSE
    /\ loop' = "snapshot"
    /\ UNCHANGED <<queued, slots, todo, slot, dev, caller, schedVars, edit, slotVars,
                   jobVars, stale, failed>>

\* An unreachable storage is skipped: its versions keep their last known state.
Usable == usable

UsableSlots ==
    /\ loop = "snapshot"
    /\ slots' = Usable
    /\ late' = {} /\ failed' = {}
    /\ loop' = "slot"
    /\ UNCHANGED <<runnerVars, todo, slot, dev, caller, schedVars, edit, declared, usable,
                   mix, jobVars, stale, asked>>

\* The declaration is read again before each slot of the snapshot.
NextSlot ==
    /\ loop = "slot"
    /\ \E s \in slots :
         /\ slots' = slots \ {s}
         /\ IF s \in declared
            THEN slot' = s /\ todo' = Devices /\ loop' = "device"
            ELSE UNCHANGED <<slot, todo, loop>>
    /\ UNCHANGED <<runnerVars, dev, caller, schedVars, edit, slotVars, jobVars, stale, asked, failed>>

\* A job's binding lasts from BindJobStorage to UnbindJob.
BoundSteps == {"bound", "running", "commit", "ended", "released", "leaked"}
Bound(p) == \E j \in Jobs : jpc[j] \in BoundSteps /\ on[j] = p

\* reconcileDevice defers a device that has a job bound on this storage.
CheckBinding ==
    /\ loop = "device"
    /\ \E d \in todo :
         /\ todo' = todo \ {d}
         /\ IF Bound(<<slot, d>>) THEN UNCHANGED <<loop, dev>>
                                  ELSE loop' = "claim" /\ dev' = d
    /\ UNCHANGED <<runnerVars, slots, slot, caller, schedVars, edit, slotVars, jobVars,
                   stale, asked, failed>>

\* The lease is held by a committing job, or by the pass while it repairs.
Committing(p) == \E j \in Jobs : jpc[j] = "commit" /\ on[j] = p

TryClaim ==
    /\ loop = "claim"
    /\ IF Committing(<<slot, dev>>) THEN loop' = "device" /\ dev' = NoDevice
                                    ELSE loop' = "repair" /\ UNCHANGED dev
    /\ UNCHANGED <<runnerVars, slots, todo, slot, caller, schedVars, edit, slotVars,
                   jobVars, stale, asked, failed>>

Repaired ==
    /\ loop = "repair"
    /\ loop' = "device" /\ dev' = NoDevice
    /\ UNCHANGED <<runnerVars, slots, todo, slot, caller, schedVars, edit, slotVars,
                   jobVars, asked>>

Repair == Repaired /\ stale' = stale \ {<<slot, dev>>} /\ UNCHANGED failed

\* A device whose scan fails is logged and left for the next trigger.
RepairFails ==
    "scan" \in mix /\ Repaired /\ failed' = failed \cup {<<slot, dev>>} /\ UNCHANGED stale

SlotDone ==
    /\ loop = "device" /\ todo = {}
    /\ loop' = "slot" /\ slot' = NoStorage
    /\ UNCHANGED <<runnerVars, slots, todo, dev, caller, schedVars, edit, slotVars,
                   jobVars, stale, asked, failed>>

PassEnd ==
    /\ loop = "slot" /\ slots = {}
    /\ running' = FALSE
    /\ loop' = "wait"
    /\ UNCHANGED <<queued, pending, slots, todo, slot, dev, caller, schedVars, edit,
                   slotVars, jobVars, stale, asked, failed>>

-----------------------------------------------------------------------------
(* schedule and SetInterval                                                *)

ReadInterval ==
    /\ sched = "read"
    /\ armed' = interval
    /\ sched' = IF interval = 0 THEN "off" ELSE "timer"
    /\ UNCHANGED <<runnerVars, passVars, caller, interval, wake, edit, slotVars, jobVars,
                   stale, asked, failed>>

IntervalChanged ==
    /\ sched \in {"off", "timer"} /\ wake = 1
    /\ wake' = 0 /\ sched' = "read"
    /\ UNCHANGED <<runnerVars, passVars, caller, armed, interval, edit, slotVars, jobVars,
                   stale, asked, failed>>

TimerFires ==
    /\ sched = "timer"
    /\ sched' = "fired"
    /\ caller' = [caller EXCEPT !["schedule"] = "flag"]
    /\ UNCHANGED <<runnerVars, passVars, armed, interval, wake, edit, slotVars, jobVars,
                   stale, asked, failed>>

ScheduleLoops ==
    /\ sched = "fired" /\ caller["schedule"] = "idle"
    /\ sched' = "read"
    /\ UNCHANGED <<runnerVars, passVars, caller, armed, interval, wake, edit, slotVars,
                   jobVars, stale, asked, failed>>

\* One config write at a time: writeMu covers the write and its appliers.
WriteMuFree == Serving /\ edit = NoEdit /\ caller["config"] = "idle"

SetInterval ==
    /\ WriteMuFree /\ "interval" \in mix
    /\ interval' \in Intervals \ {interval}
    /\ edit' = [op |-> "interval", name |-> NoStorage]
    /\ UNCHANGED <<runnerVars, passVars, caller, sched, armed, wake, slotVars, jobVars,
                   stale, asked, failed>>

\* Mutation: the scheduler is not woken.
WakeNever == UNCHANGED wake
Wake == wake' = 1

SetIntervalWakes ==
    /\ edit.op = "interval"
    /\ Wake
    /\ edit' = NoEdit
    /\ UNCHANGED <<runnerVars, passVars, caller, sched, armed, interval, slotVars, jobVars,
                   stale, asked, failed>>

-----------------------------------------------------------------------------
(* The storage list: ApplyStorages after a config write, RecheckStorage     *)

\* resolveSlot over the storages S: each turns out reachable or not.  What a
\* storage holds that was out of reach until now, or lies at a new path, the
\* registry has not seen.
Resolved(S, new) ==
    \E U \in SUBSET S :
        /\ usable' = ((usable \cap declared') \ S) \cup U
        /\ stale' = stale \cup (((U \ usable) \cup new) \X Devices)

AddTriggers == caller' = [caller EXCEPT !["config"] = "flag"]

\* A newly declared disk may already hold backups.
AddStorage ==
    /\ WriteMuFree /\ "list" \in mix
    /\ \E s \in Storages \ declared :
         /\ declared' = declared \cup {s}
         /\ Resolved(declared', {s})
    /\ AddTriggers
    /\ UNCHANGED <<runnerVars, passVars, schedVars, edit, late, mix, jobVars, asked, failed>>

\* A changed path rebuilds the list like an added entry, but asks for no pass.
EditStorage ==
    /\ WriteMuFree /\ "edit" \in mix
    /\ \E s \in declared :
         /\ UNCHANGED declared
         /\ Resolved(declared, {s})
         /\ late' = late \cup (usable' \ usable) \cup {s}
    /\ UNCHANGED <<runnerVars, passVars, caller, schedVars, edit, mix, jobVars, asked, failed>>

\* ForgetStorage refuses the default, hence the last one, and a storage with
\* a job bound to it; a job may still bind before the list is replaced.
ForgetStorage ==
    /\ WriteMuFree /\ "list" \in mix
    /\ \E s \in declared :
         /\ declared # {s}
         /\ \A d \in Devices : ~Bound(<<s, d>>)
         /\ edit' = [op |-> "forget", name |-> s]
    /\ UNCHANGED <<runnerVars, passVars, caller, schedVars, slotVars, jobVars, stale, asked, failed>>

ApplyForget ==
    /\ edit.op = "forget"
    /\ declared' = declared \ {edit.name}
    /\ Resolved(declared', {})
    /\ late' = late \cup (usable' \ usable)
    /\ edit' = NoEdit
    /\ UNCHANGED <<runnerVars, passVars, caller, schedVars, mix, jobVars, asked, failed>>

\* POST /api/storages/{name}/recheck resolves one slot and asks for no pass.
RecheckStorage ==
    /\ Serving /\ "recheck" \in mix
    /\ \E s \in declared : UNCHANGED declared /\ Resolved({s}, {})
    /\ late' = late \cup (usable' \ usable)
    /\ UNCHANGED <<runnerVars, passVars, caller, schedVars, edit, mix, jobVars, asked, failed>>

-----------------------------------------------------------------------------
(* Jobs: StartBackup, CommitJob, release                                   *)

\* e.running holds one job per device; e.mu is held from the busy check until
\* the row is inserted.
Busy(d) == \E j \in Jobs : jpc[j] \in {"running", "commit", "ended"} /\ on[j][2] = d

BindJobStorage(j) ==
    /\ Serving /\ jpc[j] = "none" /\ j \in mix
    /\ \A i \in Jobs : jpc[i] # "bound"
    /\ \E s \in usable, d \in Devices :
         /\ ~Busy(d)
         /\ on' = [on EXCEPT ![j] = <<s, d>>]
    /\ jpc' = [jpc EXCEPT ![j] = "bound"]
    /\ UNCHANGED <<runnerVars, passVars, caller, schedVars, edit, slotVars, stale, asked, failed>>

JobMoves(j, from, to) ==
    /\ jpc[j] = from
    /\ jpc' = [jpc EXCEPT ![j] = to]
    /\ UNCHANGED <<runnerVars, passVars, schedVars, edit, slotVars, on, asked, failed>>

InsertJob(j) == JobMoves(j, "bound", "running") /\ UNCHANGED <<caller, stale>>

\* StartBackup returns 500 and keeps the binding.
InsertFails(j) ==
    "insert" \in mix /\ JobMoves(j, "bound", "leaked") /\ UNCHANGED <<caller, stale>>

\* CommitJob resolves its slot, then waits for the lease.
CommitJob(j) ==
    /\ on[j][1] \in usable
    /\ ~(loop = "repair" /\ on[j] = <<slot, dev>>)
    /\ JobMoves(j, "running", "commit") /\ UNCHANGED <<caller, stale>>

\* A commit that fails half-way leaves what only a pass can register.
CommitEnds(j) ==
    /\ stale' \in {stale, stale \cup ({on[j]} \cap Pairs)}
    /\ JobMoves(j, "commit", "ended") /\ UNCHANGED caller

JobFails(j) == JobMoves(j, "running", "ended") /\ UNCHANGED <<caller, stale>>

\* release forgets the job, then drops its binding ...
Release(j) == JobMoves(j, "ended", "released") /\ UNCHANGED <<caller, stale>>

NotifyJobEnd(j) == caller' = [caller EXCEPT ![j] = "flag"]

\* ... which re-triggers a pass.
UnbindJob(j) == JobMoves(j, "released", "done") /\ NotifyJobEnd(j) /\ UNCHANGED stale

-----------------------------------------------------------------------------
TriggerStep == \E c \in Callers : TriggerFlag(c) \/ TriggerSend(c)
PassStep == \/ Receive \/ RunOnce \/ UsableSlots \/ NextSlot \/ CheckBinding
            \/ TryClaim \/ Repair \/ RepairFails \/ SlotDone \/ PassEnd
ScheduleStep == ReadInterval \/ IntervalChanged \/ TimerFires \/ ScheduleLoops
ConfigStep == \/ SetInterval \/ SetIntervalWakes \/ AddStorage \/ EditStorage
              \/ ForgetStorage \/ ApplyForget \/ RecheckStorage
JobStep(j) == \/ InsertJob(j) \/ InsertFails(j) \/ CommitJob(j) \/ CommitEnds(j)
              \/ JobFails(j) \/ Release(j) \/ UnbindJob(j)

Next == \/ TriggerStep \/ PassStep \/ ScheduleStep \/ ConfigStep
        \/ \E j \in Jobs : BindJobStorage(j) \/ JobStep(j)

\* Every goroutine runs, a job ends, a config write finishes, time passes.
\* Nobody has to start a job or edit the config.
Fairness == /\ \A c \in Callers : WF_vars(TriggerFlag(c) \/ TriggerSend(c))
            /\ WF_vars(PassStep)
            /\ WF_vars(ScheduleStep)
            /\ WF_vars(SetIntervalWakes \/ ApplyForget)
            /\ \A j \in Jobs : WF_vars(JobStep(j))

Spec == Init /\ [][Next]_vars /\ Fairness
-----------------------------------------------------------------------------
(* Properties                                                              *)

PassSteps == {"snapshot", "slot", "device", "claim", "repair"}

\* The pass in progress has not yet read pair p.
ToVisit(p) ==
    \/ loop = "snapshot"
    \/ loop \in PassSteps /\ p[1] \in slots
    \/ loop \in {"device", "claim", "repair"} /\ p[1] = slot /\ p[2] \in todo
    \/ loop \in {"claim", "repair"} /\ p[1] = slot /\ p[2] = dev

\* Nothing will look at pair p before the next trigger: its storage is out of
\* reach or came into reach behind the last pass, or the last scan of it failed.
LeftAside(p) == p[1] \notin usable \/ p[1] \in late \/ p \in failed

\* Every pair the registry may misreport is left aside, deferred behind a job,
\* or still ahead of the running pass, or a trigger that has started no pass yet
\* covers it.  This is HealthHonest made inductive.
Accounted(p) == \/ LeftAside(p) \/ Bound(p) \/ ToVisit(p) \/ pending
                \/ \E c \in Callers : caller[c] = "flag"
StaleAccounted == (running <=> loop \in PassSteps) /\ \A p \in stale : Accounted(p)

\* No accepted trigger is lost: until a pass starts after it, one is queued,
\* received, or about to be sent (Trigger's absorption against runOnce
\* clearing `pending' first).
TriggerNotLost ==
    asked => \/ queued = 1 \/ loop = "received"
             \/ \E c \in Callers : caller[c] = "send"

\* When health says false, every pair the registry may misreport is deferred
\* behind a bound job, or the trigger for it is being called, or it was left
\* aside: health says nothing of a storage that a recheck or a path edit brought
\* into reach, since neither asks for a pass (usableSlots, RecheckStorage).
HealthHonest ==
    Serving /\ ~Reconciling =>
      \A p \in stale : LeftAside(p) \/ Bound(p) \/ \E c \in Callers : caller[c] = "flag"

\* A schedule that waits on an outdated interval is going to be woken
\* (SetInterval's two steps against the scheduler's read).
IntervalApplied ==
    (sched \in {"off", "timer"} /\ armed # interval) => wake = 1 \/ edit.op = "interval"

\* Every pair the registry may misreport is repaired once no job holds it: the
\* deferral ends with the job and no trigger sequence starves it.  A storage
\* that came into reach without a trigger waits for the next one, which the
\* schedule gives it in the end unless it is disabled.
Leaked(p) == \E j \in Jobs : jpc[j] = "leaked" /\ on[j] = p
Healed(p) == p \notin stale \/ p[1] \notin usable \/ p \in failed \/ Leaked(p)

\* An interval edit reaches the waiting schedule.
IntervalReaches == (armed # interval) ~> (armed = interval)

\* `reconciling: false' means the last triggered pass completed.
FalseMeansCompleted == ~Reconciling => queued = 0 /\ loop = "wait"

\* A binding lives exactly as long as its job: StartBackup's error paths
\* leave none behind.
BindingLivesWithJob ==
    \A p \in Pairs : Bound(p) => \E j \in Jobs : jpc[j] \in BoundSteps \ {"leaked"} /\ on[j] = p
=============================================================================

----------------------- MODULE ReconcileRunnerProofs -----------------------
(***************************************************************************)
(* Theorems about ReconcileRunner, for every set of storages, devices,     *)
(* jobs and intervals.                                                     *)
(***************************************************************************)
EXTENDS ReconcileRunner, TLAPS

USE DEF runnerVars, passVars, schedVars, jobVars, slotVars

\* The actions, for the case distinctions below.
LEMMA Steps ==
    ASSUME Next
    PROVE  \/ \E c \in Callers : TriggerFlag(c) \/ TriggerSend(c)
           \/ Receive \/ RunOnce \/ UsableSlots \/ NextSlot \/ CheckBinding
           \/ TryClaim \/ Repair \/ RepairFails \/ SlotDone \/ PassEnd
           \/ ReadInterval \/ IntervalChanged \/ TimerFires \/ ScheduleLoops
           \/ SetInterval \/ SetIntervalWakes \/ AddStorage \/ EditStorage
           \/ ForgetStorage \/ ApplyForget \/ RecheckStorage
           \/ \E j \in Jobs : \/ BindJobStorage(j) \/ InsertJob(j) \/ InsertFails(j)
                              \/ CommitJob(j) \/ CommitEnds(j) \/ JobFails(j)
                              \/ Release(j) \/ UnbindJob(j)
  BY DEF Next, TriggerStep, PassStep, ScheduleStep, ConfigStep, JobStep

\* No edit is one of the values of the edit in flight.
LEMMA NoEditTyped ==
    NoEdit \in [op : {"none", "forget", "interval"}, name : Storages \cup {NoStorage}]
  BY DEF NoEdit

\* Resolving storages again leaves a list of declared ones.
LEMMA ResolvedTyped ==
    ASSUME TypeOK, NEW S, S \subseteq declared', NEW new, new \subseteq Storages,
           declared' \subseteq Storages, Resolved(S, new)
    PROVE  stale' \subseteq Pairs /\ usable' \subseteq declared' /\ declared' \subseteq Storages
<1>1. PICK U \in SUBSET S : /\ usable' = ((usable \cap declared') \ S) \cup U
                            /\ stale' = stale \cup (((U \ usable) \cup new) \X Devices)
  BY DEF Resolved
<1> QED
  BY <1>1 DEF TypeOK, Pairs

\* Type correctness is inductive.
LEMMA TypeStep == TypeOK /\ [Next]_vars => TypeOK'
<1> SUFFICES ASSUME TypeOK, [Next]_vars PROVE TypeOK'
  OBVIOUS
<1> USE RunnerAssumption DEF TypeOK
<1>1. ASSUME NEW c \in Callers, TriggerFlag(c) PROVE TypeOK'
  BY <1>1 DEF TriggerFlag
<1>2. ASSUME NEW c \in Callers, TriggerSend(c) PROVE TypeOK'
  BY <1>2 DEF TriggerSend, Send
<1>3. CASE Receive
  BY <1>3 DEF Receive
<1>4. CASE RunOnce
  BY <1>4 DEF RunOnce
<1>5. CASE UsableSlots
  BY <1>5 DEF UsableSlots, Usable
<1>6. CASE NextSlot
  BY <1>6 DEF NextSlot
<1>7. CASE CheckBinding
  BY <1>7 DEF CheckBinding
<1>8. CASE TryClaim
  BY <1>8 DEF TryClaim
<1>9. CASE Repair
  BY <1>9 DEF Repair, Repaired
<1>10. CASE RepairFails
  BY <1>10 DEF RepairFails, Repaired
<1>11. CASE SlotDone
  BY <1>11 DEF SlotDone
<1>12. CASE PassEnd
  BY <1>12 DEF PassEnd
<1>13. CASE ReadInterval
  BY <1>13 DEF ReadInterval
<1>14. CASE IntervalChanged
  BY <1>14 DEF IntervalChanged
<1>15. CASE TimerFires
  BY <1>15 DEF TimerFires
<1>16. CASE ScheduleLoops
  BY <1>16 DEF ScheduleLoops
<1>17. CASE SetInterval
  BY <1>17 DEF SetInterval
<1>18. CASE SetIntervalWakes
  BY <1>18, NoEditTyped DEF SetIntervalWakes, Wake
<1>19. CASE AddStorage
  <2>1. caller' \in [Callers -> {"idle", "flag", "send"}]
    BY <1>19 DEF AddStorage, AddTriggers
  <2>2. PICK s \in Storages \ declared : declared' = declared \cup {s} /\ Resolved(declared', {s})
    BY <1>19 DEF AddStorage
  <2>3. stale' \subseteq Pairs /\ usable' \subseteq declared' /\ declared' \subseteq Storages
    BY <2>2, ResolvedTyped
  <2> QED
    BY <1>19, <2>1, <2>3 DEF AddStorage
<1>20. CASE ForgetStorage
  BY <1>20 DEF ForgetStorage
<1>21. CASE ApplyForget
  <2>1. stale' \subseteq Pairs /\ usable' \subseteq declared' /\ declared' \subseteq Storages
    BY <1>21, ResolvedTyped DEF ApplyForget
  <2> QED
    BY <1>21, <2>1, NoEditTyped DEF ApplyForget
<1>27. CASE EditStorage
  <2>1. PICK s \in declared : /\ UNCHANGED declared /\ Resolved(declared, {s})
                              /\ late' = late \cup (usable' \ usable) \cup {s}
    BY <1>27 DEF EditStorage
  <2>2. stale' \subseteq Pairs /\ usable' \subseteq declared' /\ declared' \subseteq Storages
    BY <2>1, ResolvedTyped
  <2> QED
    BY <1>27, <2>1, <2>2 DEF EditStorage
<1>28. CASE RecheckStorage
  <2>1. PICK s \in declared : UNCHANGED declared /\ Resolved({s}, {})
    BY <1>28 DEF RecheckStorage
  <2>2. stale' \subseteq Pairs /\ usable' \subseteq declared' /\ declared' \subseteq Storages
    BY <2>1, ResolvedTyped
  <2> QED
    BY <1>28, <2>2 DEF RecheckStorage
<1>22. ASSUME NEW j \in Jobs, BindJobStorage(j) PROVE TypeOK'
  BY <1>22 DEF BindJobStorage, Pairs
<1>23. ASSUME NEW j \in Jobs, InsertJob(j) \/ InsertFails(j) \/ CommitJob(j) \/ JobFails(j) \/ Release(j)
       PROVE  TypeOK'
  BY <1>23 DEF InsertJob, InsertFails, CommitJob, JobFails, Release, JobMoves
<1>24. ASSUME NEW j \in Jobs, CommitEnds(j) PROVE TypeOK'
  BY <1>24 DEF CommitEnds, JobMoves
<1>25. ASSUME NEW j \in Jobs, UnbindJob(j) PROVE TypeOK'
  <2>1. caller' \in [Callers -> {"idle", "flag", "send"}]
    BY <1>25 DEF UnbindJob, NotifyJobEnd
  <2> QED
    BY <1>25, <2>1 DEF UnbindJob, JobMoves
<1>26. CASE UNCHANGED vars
  BY <1>26 DEF vars
<1> QED
  BY <1>1, <1>2, <1>3, <1>4, <1>5, <1>6, <1>7, <1>8, <1>9, <1>10, <1>11, <1>12, <1>13,
     <1>14, <1>15, <1>16, <1>17, <1>18, <1>19, <1>20, <1>21, <1>22, <1>23, <1>24, <1>25,
     <1>26, <1>27, <1>28, Steps

\* The types hold at start-up.
LEMMA InitTyped == Init => TypeOK
<1> SUFFICES ASSUME Init PROVE TypeOK
  OBVIOUS
<1>1. stale \subseteq Pairs /\ declared \subseteq Storages /\ usable \subseteq declared
  BY RunnerAssumption DEF Init, Pairs
<1>2. caller \in [Callers -> {"idle", "flag", "send"}]
  BY DEF Init
<1>3. interval \in Intervals /\ armed \in Intervals /\ queued \in 0..1 /\ wake \in 0..1
  BY DEF Init
<1> QED
  BY <1>1, <1>2, <1>3, NoEditTyped DEF Init, TypeOK

\* The runner, its pass, the schedule, the bindings and the storage list stay
\* well typed.
THEOREM TypeCorrect == Spec => []TypeOK
  BY InitTyped, TypeStep, PTL DEF Spec

-----------------------------------------------------------------------------
\* A goroutine calls Trigger only where the code does: the schedule after its
\* timer fired, a job's release after the binding is gone.
CallersIdle ==
    /\ sched # "fired" => caller["schedule"] = "idle"
    /\ \A j \in Jobs : jpc[j] # "done" => caller[j] = "idle"

\* Every step keeps CallersIdle.
LEMMA CallersStep == TypeOK /\ CallersIdle /\ [Next]_vars => CallersIdle'
<1> SUFFICES ASSUME TypeOK, CallersIdle, [Next]_vars PROVE CallersIdle'
  OBVIOUS
<1> USE RunnerAssumption DEF TypeOK, CallersIdle, Callers
<1>1. ASSUME NEW c \in Callers, TriggerFlag(c) PROVE CallersIdle'
  BY <1>1 DEF TriggerFlag
<1>2. ASSUME NEW c \in Callers, TriggerSend(c) PROVE CallersIdle'
  BY <1>2 DEF TriggerSend
<1>3. CASE Receive \/ RunOnce \/ UsableSlots \/ NextSlot \/ CheckBinding \/ TryClaim
           \/ Repair \/ RepairFails \/ SlotDone \/ PassEnd
  BY <1>3 DEF Receive, RunOnce, UsableSlots, NextSlot, CheckBinding, TryClaim, Repair,
     RepairFails, Repaired, SlotDone, PassEnd
<1>4. CASE ReadInterval \/ IntervalChanged \/ TimerFires \/ ScheduleLoops
  BY <1>4 DEF ReadInterval, IntervalChanged, TimerFires, ScheduleLoops
<1>5. CASE \/ SetInterval \/ SetIntervalWakes \/ AddStorage \/ EditStorage \/ ForgetStorage
           \/ ApplyForget \/ RecheckStorage
  BY <1>5 DEF SetInterval, SetIntervalWakes, AddStorage, AddTriggers, EditStorage, ForgetStorage,
     ApplyForget, RecheckStorage
<1>6. ASSUME NEW j \in Jobs, BindJobStorage(j) PROVE CallersIdle'
  BY <1>6 DEF BindJobStorage
<1>7. ASSUME NEW j \in Jobs, InsertJob(j) \/ InsertFails(j) \/ CommitJob(j) \/ CommitEnds(j)
                                \/ JobFails(j) \/ Release(j)
      PROVE  CallersIdle'
  BY <1>7 DEF InsertJob, InsertFails, CommitJob, CommitEnds, JobFails, Release, JobMoves
<1>8. ASSUME NEW j \in Jobs, UnbindJob(j) PROVE CallersIdle'
  BY <1>8 DEF UnbindJob, NotifyJobEnd, JobMoves
<1>9. CASE UNCHANGED vars
  BY <1>9 DEF vars
<1> QED
  BY <1>1, <1>2, <1>3, <1>4, <1>5, <1>6, <1>7, <1>8, <1>9, Steps

\* Receive moves the one queued item to the loop, RunOnce starts the pass that
\* answers everything asked so far, and no call of Trigger is overwritten.
LEMMA TriggerStepLemma ==
    TypeOK /\ CallersIdle /\ TriggerNotLost /\ [Next]_vars => TriggerNotLost'
<1> SUFFICES ASSUME TypeOK, CallersIdle, TriggerNotLost, [Next]_vars PROVE TriggerNotLost'
  OBVIOUS
<1> USE RunnerAssumption DEF TypeOK, TriggerNotLost
<1>1. ASSUME NEW c \in Callers, TriggerFlag(c) PROVE TriggerNotLost'
  BY <1>1 DEF TriggerFlag
<1>2. ASSUME NEW c \in Callers, TriggerSend(c) PROVE TriggerNotLost'
  BY <1>2 DEF TriggerSend, Send
<1>3. CASE Receive
  BY <1>3 DEF Receive
<1>4. CASE RunOnce
  BY <1>4 DEF RunOnce
<1>5. CASE UsableSlots \/ NextSlot \/ CheckBinding \/ TryClaim \/ Repair \/ RepairFails
           \/ SlotDone \/ PassEnd
  BY <1>5 DEF UsableSlots, NextSlot, CheckBinding, TryClaim, Repair, RepairFails, Repaired,
     SlotDone, PassEnd
<1>6. CASE TimerFires
  <2>1. \A c \in Callers : caller[c] = "send" => caller'[c] = "send"
    BY <1>6 DEF TimerFires, CallersIdle
  <2> QED
    BY <1>6, <2>1 DEF TimerFires
<1>7. CASE ReadInterval \/ IntervalChanged \/ ScheduleLoops
  BY <1>7 DEF ReadInterval, IntervalChanged, ScheduleLoops
<1>8. CASE AddStorage
  <2>1. \A c \in Callers : caller[c] = "send" => caller'[c] = "send"
    BY <1>8 DEF AddStorage, AddTriggers, WriteMuFree
  <2> QED
    BY <1>8, <2>1 DEF AddStorage
<1>9. CASE SetInterval \/ SetIntervalWakes \/ EditStorage \/ ForgetStorage \/ ApplyForget \/ RecheckStorage
  BY <1>9 DEF SetInterval, SetIntervalWakes, EditStorage, ForgetStorage, ApplyForget, RecheckStorage
<1>10. ASSUME NEW j \in Jobs, BindJobStorage(j) PROVE TriggerNotLost'
  BY <1>10 DEF BindJobStorage
<1>11. ASSUME NEW j \in Jobs, InsertJob(j) \/ InsertFails(j) \/ CommitJob(j) \/ CommitEnds(j)
                                 \/ JobFails(j) \/ Release(j)
       PROVE  TriggerNotLost'
  BY <1>11 DEF InsertJob, InsertFails, CommitJob, CommitEnds, JobFails, Release, JobMoves
<1>12. ASSUME NEW j \in Jobs, UnbindJob(j) PROVE TriggerNotLost'
  <2>1. \A c \in Callers : caller[c] = "send" => caller'[c] = "send"
    BY <1>12 DEF UnbindJob, NotifyJobEnd, JobMoves, CallersIdle
  <2> QED
    BY <1>12, <2>1 DEF UnbindJob, JobMoves
<1>13. CASE UNCHANGED vars
  BY <1>13 DEF vars
<1> QED
  BY <1>1, <1>2, <1>3, <1>4, <1>5, <1>6, <1>7, <1>8, <1>9, <1>10, <1>11, <1>12, <1>13, Steps

\* Whatever goroutines call Trigger and however their two steps interleave with
\* the loop, no accepted trigger is lost.
THEOREM NoTriggerLost == Spec => []TriggerNotLost
<1>1. Init => TypeOK /\ CallersIdle /\ TriggerNotLost
  <2> SUFFICES ASSUME Init PROVE CallersIdle /\ TriggerNotLost
    BY InitTyped
  <2>1. CallersIdle
    BY RunnerAssumption DEF Init, CallersIdle, Callers
  <2> QED
    BY <2>1 DEF Init, TriggerNotLost
<1> QED
  BY <1>1, TypeStep, CallersStep, TriggerStepLemma, PTL DEF Spec

-----------------------------------------------------------------------------
\* SetInterval writes before it wakes, and the schedule re-reads after every
\* wake, so a lost wake-up would need a write between read and wait.
LEMMA IntervalStep == TypeOK /\ IntervalApplied /\ [Next]_vars => IntervalApplied'
<1> SUFFICES ASSUME TypeOK, IntervalApplied, [Next]_vars PROVE IntervalApplied'
  OBVIOUS
<1> USE DEF TypeOK, IntervalApplied
<1>1. CASE ReadInterval \/ IntervalChanged \/ TimerFires \/ ScheduleLoops
  BY <1>1 DEF ReadInterval, IntervalChanged, TimerFires, ScheduleLoops
<1>2. CASE SetInterval \/ SetIntervalWakes
  BY <1>2 DEF SetInterval, SetIntervalWakes, Wake
<1>3. CASE AddStorage \/ EditStorage \/ ForgetStorage \/ ApplyForget \/ RecheckStorage
  BY <1>3 DEF AddStorage, EditStorage, ForgetStorage, ApplyForget, RecheckStorage, WriteMuFree, NoEdit
<1>4. CASE UNCHANGED <<schedVars, edit>>
  BY <1>4
<1> QED
  <2>1. ASSUME NEW c \in Callers, TriggerFlag(c) \/ TriggerSend(c)
        PROVE  UNCHANGED <<schedVars, edit>>
    BY <2>1 DEF TriggerFlag, TriggerSend
  <2>2. ASSUME \/ Receive \/ RunOnce \/ UsableSlots \/ NextSlot \/ CheckBinding
               \/ TryClaim \/ Repair \/ RepairFails \/ SlotDone \/ PassEnd
        PROVE  UNCHANGED <<schedVars, edit>>
    BY <2>2 DEF Receive, RunOnce, UsableSlots, NextSlot, CheckBinding, TryClaim, Repair,
       RepairFails, Repaired, SlotDone, PassEnd
  <2>3. ASSUME NEW j \in Jobs,
               \/ BindJobStorage(j) \/ InsertJob(j) \/ InsertFails(j) \/ CommitJob(j)
               \/ CommitEnds(j) \/ JobFails(j) \/ Release(j) \/ UnbindJob(j)
        PROVE  UNCHANGED <<schedVars, edit>>
    BY <2>3 DEF BindJobStorage, InsertJob, InsertFails, CommitJob, CommitEnds, JobFails,
       Release, UnbindJob, JobMoves
  <2>4. ASSUME UNCHANGED vars PROVE UNCHANGED <<schedVars, edit>>
    BY <2>4 DEF vars
  <2> HIDE DEF TypeOK, IntervalApplied
  <2> QED
    BY <1>1, <1>2, <1>3, <1>4, <2>1, <2>2, <2>3, <2>4, Steps

\* A schedule never keeps waiting on an outdated interval without a wake-up
\* already in its channel or about to be sent.
THEOREM IntervalNeverMissed == Spec => []IntervalApplied
<1>1. Init => TypeOK /\ IntervalApplied
  BY InitTyped DEF Init, IntervalApplied
<1> QED
  BY <1>1, TypeStep, IntervalStep, PTL DEF Spec

-----------------------------------------------------------------------------
\* The parts of a pair of storage and device.
LEMMA PairParts == \A p \in Pairs : p[1] \in Storages /\ p[2] \in Devices /\ p = <<p[1], p[2]>>
  BY DEF Pairs

\* A job that stays bound keeps its pair bound; a fresh job only adds one.
LEMMA BoundKept ==
    ASSUME TypeOK, NEW p \in Pairs, Bound(p), NEW j \in Jobs,
           \/ BindJobStorage(j) \/ InsertJob(j) \/ InsertFails(j) \/ CommitJob(j)
           \/ CommitEnds(j) \/ JobFails(j) \/ Release(j)
    PROVE  Bound(p)'
<1>1. PICK i \in Jobs : jpc[i] \in BoundSteps /\ on[i] = p
  BY DEF Bound
<1>2. jpc'[i] \in BoundSteps /\ on'[i] = p
  <2>1. CASE BindJobStorage(j)
    BY <1>1, <2>1 DEF BindJobStorage, BoundSteps, TypeOK
  <2>2. CASE InsertJob(j) \/ InsertFails(j) \/ CommitJob(j) \/ CommitEnds(j) \/ JobFails(j) \/ Release(j)
    BY <1>1, <2>2 DEF InsertJob, InsertFails, CommitJob, CommitEnds, JobFails, Release,
       JobMoves, BoundSteps, TypeOK
  <2> QED
    BY <2>1, <2>2
<1> QED
  BY <1>2 DEF Bound

\* A pair that storages resolved again make stale, or bring into reach, is of
\* one that was out of reach or is named as new.
LEMMA ResolvedStale ==
    ASSUME TypeOK, NEW S, NEW new, Resolved(S, new), NEW p \in stale'
    PROVE  \/ p \in stale /\ (p[1] \in usable' => p[1] \in usable \cup (usable' \ usable))
           \/ p[1] \in (usable' \ usable) \cup new
<1>1. PICK U \in SUBSET S : /\ usable' = ((usable \cap declared') \ S) \cup U
                            /\ stale' = stale \cup (((U \ usable) \cup new) \X Devices)
  BY DEF Resolved
<1> QED
  BY <1>1

\* Every step keeps each stale pair accounted for.
LEMMA AccountedStep ==
    TypeOK /\ CallersIdle /\ StaleAccounted /\ [Next]_vars => StaleAccounted'
<1> SUFFICES ASSUME TypeOK, CallersIdle, StaleAccounted, [Next]_vars PROVE StaleAccounted'
  OBVIOUS
<1> USE RunnerAssumption DEF LeftAside
<1>s. stale \subseteq Pairs /\ \A p \in stale : Accounted(p)
  BY DEF TypeOK, StaleAccounted
<1>r. running <=> loop \in PassSteps
  BY DEF StaleAccounted
<1>1. ASSUME NEW c \in Callers, TriggerFlag(c) PROVE StaleAccounted'
  BY <1>1, <1>s, <1>r DEF TriggerFlag, StaleAccounted, Accounted
<1>2. ASSUME NEW c \in Callers, TriggerSend(c) PROVE StaleAccounted'
  <2>1. \A d \in Callers : caller[d] = "flag" => caller'[d] = "flag"
    BY <1>2 DEF TriggerSend, TypeOK
  <2> QED
    BY <1>2, <2>1, <1>s, <1>r DEF TriggerSend, StaleAccounted, Accounted, Bound, ToVisit
<1>3. CASE Receive
  BY <1>3, <1>s, <1>r DEF Receive, StaleAccounted, Accounted, Bound, ToVisit, PassSteps
<1>4. CASE RunOnce
  BY <1>4, <1>s DEF RunOnce, StaleAccounted, Accounted, ToVisit, PassSteps
<1>5. CASE UsableSlots
  BY <1>5, <1>s, <1>r DEF UsableSlots, Usable, StaleAccounted, Accounted, Bound, ToVisit, PassSteps
<1>6. CASE NextSlot
  <2>1. PICK s \in slots : /\ slots' = slots \ {s}
                           /\ IF s \in declared
                              THEN slot' = s /\ todo' = Devices /\ loop' = "device"
                              ELSE UNCHANGED <<slot, todo, loop>>
    BY <1>6 DEF NextSlot
  <2>2. ASSUME NEW p \in stale PROVE Accounted(p)'
    <3>1. usable \subseteq declared
      BY DEF TypeOK
    <3>2. UNCHANGED <<runnerVars, dev, caller, slotVars, jobVars, failed>> /\ loop = "slot"
      BY <1>6 DEF NextSlot
    <3>3. Bound(p) <=> Bound(p)'
      BY <3>2 DEF Bound
    <3>4. p[1] \in usable => ToVisit(p)' \/ ~ToVisit(p)
      BY <2>1, <2>2, <3>1, <3>2, <1>s, PairParts DEF ToVisit, PassSteps
    <3> QED
      BY <3>2, <3>3, <3>4, <1>s DEF Accounted
  <2> QED
    BY <1>6, <2>1, <2>2, <1>r DEF NextSlot, StaleAccounted, PassSteps
<1>7. CASE CheckBinding
  <2>1. PICK d \in todo : /\ todo' = todo \ {d}
                          /\ IF Bound(<<slot, d>>) THEN UNCHANGED <<loop, dev>>
                                                   ELSE loop' = "claim" /\ dev' = d
    BY <1>7 DEF CheckBinding
  <2>2. \A p \in Pairs : Bound(p) <=> Bound(p)'
    BY <1>7 DEF CheckBinding, Bound
  <2>3. ASSUME NEW p \in stale PROVE Accounted(p)'
    <3>1. CASE ToVisit(p)
      BY <1>7, <2>1, <2>2, <3>1, <1>s, PairParts DEF CheckBinding, Accounted, ToVisit, PassSteps
    <3>2. CASE ~ToVisit(p)
      BY <1>7, <2>2, <3>2, <1>s DEF CheckBinding, Accounted
    <3> QED
      BY <3>1, <3>2
  <2> QED
    BY <1>7, <2>1, <2>3, <1>r DEF CheckBinding, StaleAccounted, PassSteps
<1>8. CASE TryClaim
  <2>1. Committing(<<slot, dev>>) => Bound(<<slot, dev>>)
    BY DEF Committing, Bound, BoundSteps
  <2>2. \A p : Bound(p) <=> Bound(p)'
    BY <1>8 DEF TryClaim, Bound
  <2>3. ASSUME NEW p \in stale PROVE Accounted(p)'
    <3>1. CASE ToVisit(p)
      BY <1>8, <2>1, <2>2, <3>1, <1>s, PairParts DEF TryClaim, Accounted, ToVisit, PassSteps
    <3>2. CASE ~ToVisit(p)
      BY <1>8, <2>2, <3>2, <1>s DEF TryClaim, Accounted
    <3> QED
      BY <3>1, <3>2
  <2> QED
    BY <1>8, <2>3, <1>r DEF TryClaim, StaleAccounted, PassSteps
<1>9. CASE Repair
  <2>1. ASSUME NEW p \in stale' PROVE Accounted(p)'
    <3>1. p \in stale /\ ~(p[1] = slot /\ p[2] = dev)
      BY <1>9, <2>1, <1>s, PairParts DEF Repair, Repaired
    <3> QED
      BY <1>9, <3>1, <1>s DEF Repair, Repaired, Accounted, Bound, ToVisit, PassSteps
  <2> QED
    BY <1>9, <2>1, <1>r DEF Repair, Repaired, StaleAccounted, PassSteps
<1>10. CASE RepairFails
  <2>1. ASSUME NEW p \in stale PROVE Accounted(p)'
    <3>1. p = <<slot, dev>> \/ ~(p[1] = slot /\ p[2] = dev)
      BY <2>1, <1>s, PairParts
    <3> QED
      BY <1>10, <3>1, <1>s DEF RepairFails, Repaired, Accounted, Bound, ToVisit, PassSteps
  <2> QED
    BY <1>10, <2>1, <1>r DEF RepairFails, Repaired, StaleAccounted, PassSteps
<1>11. CASE SlotDone
  BY <1>11, <1>s, <1>r DEF SlotDone, StaleAccounted, Accounted, Bound, ToVisit, PassSteps
<1>12. CASE PassEnd
  BY <1>12, <1>s, <1>r DEF PassEnd, StaleAccounted, Accounted, Bound, ToVisit, PassSteps
<1>13. CASE TimerFires
  <2>1. \A c \in Callers : caller[c] = "flag" => caller'[c] = "flag"
    BY <1>13 DEF TimerFires, TypeOK
  <2> QED
    BY <1>13, <2>1, <1>s, <1>r DEF TimerFires, StaleAccounted, Accounted, Bound, ToVisit
<1>14. CASE ReadInterval \/ IntervalChanged \/ ScheduleLoops \/ SetInterval \/ SetIntervalWakes
            \/ ForgetStorage
  BY <1>14, <1>s, <1>r DEF ReadInterval, IntervalChanged, ScheduleLoops, SetInterval,
     SetIntervalWakes, ForgetStorage, StaleAccounted, Accounted, Bound, ToVisit
<1>15. CASE AddStorage
  <2>1. caller'["config"] = "flag" /\ "config" \in Callers
    BY <1>15 DEF AddStorage, AddTriggers, TypeOK, Callers
  <2> QED
    BY <1>15, <2>1, <1>r DEF AddStorage, StaleAccounted, Accounted
<1>16. ASSUME NEW S, NEW new, Resolved(S, new), late \cup (usable' \ usable) \cup new \subseteq late',
              UNCHANGED <<runnerVars, passVars, caller, jobVars, failed>>
       PROVE  StaleAccounted'
  <2>1. ASSUME NEW p \in stale' PROVE Accounted(p)'
    <3>1. CASE p[1] \in (usable' \ usable) \cup new
      BY <1>16, <3>1 DEF Accounted
    <3>2. CASE p \in stale /\ p[1] \notin usable' \ usable
      BY <1>16, <3>2, <1>s DEF Accounted, Bound, ToVisit
    <3> QED
      BY <1>16, <3>1, <3>2, ResolvedStale
  <2> QED
    BY <1>16, <2>1, <1>r DEF StaleAccounted
<1>20. CASE ApplyForget
  BY <1>16, <1>20 DEF ApplyForget
<1>21. CASE EditStorage
  <2>1. PICK s \in declared : Resolved(declared, {s}) /\ late' = late \cup (usable' \ usable) \cup {s}
    BY <1>21 DEF EditStorage
  <2>2. UNCHANGED <<runnerVars, passVars, caller, jobVars, failed>>
    BY <1>21 DEF EditStorage
  <2> QED
    BY <1>16, <2>1, <2>2
<1>22. CASE RecheckStorage
  <2>1. PICK s \in declared : Resolved({s}, {})
    BY <1>22 DEF RecheckStorage
  <2>2. UNCHANGED <<runnerVars, passVars, caller, jobVars, failed>> /\ late' = late \cup (usable' \ usable)
    BY <1>22 DEF RecheckStorage
  <2> QED
    BY <1>16, <2>1, <2>2
<1>17. ASSUME NEW j \in Jobs,
              \/ BindJobStorage(j) \/ InsertJob(j) \/ InsertFails(j) \/ CommitJob(j)
              \/ CommitEnds(j) \/ JobFails(j) \/ Release(j)
       PROVE  StaleAccounted'
  <2>1. ASSUME NEW p \in stale PROVE Accounted(p)'
    <3>1. Bound(p) => Bound(p)'
      BY <1>17, <1>s, BoundKept
    <3>2. UNCHANGED <<runnerVars, passVars, caller, usable, late, failed>>
      BY <1>17 DEF BindJobStorage, InsertJob, InsertFails, CommitJob, CommitEnds, JobFails,
         Release, JobMoves
    <3> QED
      BY <3>1, <3>2, <1>s DEF Accounted, ToVisit
  <2>2. ASSUME NEW p \in stale', p \notin stale PROVE Accounted(p)'
    <3>1. CommitEnds(j) /\ p = on[j] /\ p \in Pairs
      BY <1>17, <2>2 DEF BindJobStorage, InsertJob, InsertFails, CommitJob, CommitEnds,
         JobFails, Release, JobMoves
    <3>2. jpc'[j] = "ended" /\ on'[j] = p
      BY <3>1 DEF CommitEnds, JobMoves, TypeOK
    <3> QED
      BY <3>2 DEF Accounted, Bound, BoundSteps
  <2>3. UNCHANGED <<running, loop>>
    BY <1>17 DEF BindJobStorage, InsertJob, InsertFails, CommitJob, CommitEnds, JobFails,
       Release, JobMoves
  <2> QED
    BY <2>1, <2>2, <2>3, <1>r DEF StaleAccounted
<1>18. ASSUME NEW j \in Jobs, UnbindJob(j) PROVE StaleAccounted'
  <2>1. caller'[j] = "flag" /\ j \in Callers
    BY <1>18 DEF UnbindJob, NotifyJobEnd, TypeOK, Callers
  <2> QED
    BY <1>18, <2>1, <1>r DEF UnbindJob, JobMoves, StaleAccounted, Accounted
<1>19. CASE UNCHANGED vars
  BY <1>19, <1>s, <1>r DEF vars, StaleAccounted, Accounted, Bound, ToVisit
<1> QED
  BY <1>1, <1>2, <1>3, <1>4, <1>5, <1>6, <1>7, <1>8, <1>9, <1>10, <1>11, <1>12, <1>13,
     <1>14, <1>15, <1>17, <1>18, <1>19, <1>20, <1>21, <1>22, Steps

\* Health never answers false while the registry of a storage that the last
\* pass found in reach, and scanned without an error, may be short and nothing
\* is about to repair it.
THEOREM HealthIsHonest == Spec => []HealthHonest
<1>1. Init => TypeOK /\ CallersIdle /\ StaleAccounted
  <2> SUFFICES ASSUME Init PROVE CallersIdle /\ StaleAccounted
    BY InitTyped
  <2>1. CallersIdle
    BY RunnerAssumption DEF Init, CallersIdle, Callers
  <2>2. "startup" \in Callers /\ caller["startup"] = "flag"
    BY DEF Init, Callers
  <2> QED
    BY <2>1, <2>2 DEF Init, StaleAccounted, Accounted, PassSteps
<1>2. StaleAccounted => HealthHonest
  BY DEF StaleAccounted, Accounted, ToVisit, PassSteps, HealthHonest, Reconciling
<1> QED
  BY <1>1, <1>2, TypeStep, CallersStep, AccountedStep, PTL DEF Spec
=============================================================================

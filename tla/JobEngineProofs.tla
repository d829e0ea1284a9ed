--------------------------- MODULE JobEngineProofs ---------------------------
(***************************************************************************)
(* Theorems about JobEngine, for every set of jobs and devices, every      *)
(* timeout and every number of restarts.                                   *)
(***************************************************************************)
EXTENDS JobEngine, TLAPS

USE DEF rowVars, toolVars, smpVars, storeVars, lifeVars

\* The actions, for the case distinctions below.
LEMMA Actions ==
    ASSUME Next
    PROVE  \/ \E j \in Jobs :
                 \/ StartBackup(j) \/ EnterWait(j) \/ DeviceSeen(j) \/ AwaitFails(j)
                 \/ KillContext(j) \/ PreflightRefuses(j) \/ EnterSeeding(j) \/ PrepareWork(j) \/ StartFails(j)
                 \/ StartTool(j) \/ AwaitInfoPlist(j) \/ SeedWork(j) \/ Abort(j) \/ Narrate(j)
                 \/ Drain(j) \/ Reap(j) \/ EnterVerifying(j) \/ VerifyWork(j) \/ CommitJob(j)
                 \/ Terminate(j) \/ Succeed(j) \/ Discard(j) \/ Release(j)
                 \/ LineMutate(j) \/ LineWrite(j)
                 \/ Sample(j) \/ SamplerMutate(j) \/ SamplerWrite(j) \/ SamplerKill(j) \/ SamplerStops(j)
                 \/ ToolLine(j) \/ ToolWrites(j) \/ ToolExits(j) \/ ToolKilled(j)
                 \/ CancelFind(j) \/ CancelMark(j) \/ CancelFires(j) \/ Reconcile(j)
           \/ Shutdown \/ Restart \/ Serve
  BY DEF Next, Run, Scanner, Sampler, Child, Canceller

\* Every row an action writes is a row.
LEMMA RowsTyped ==
    /\ NoRow \in JobRows /\ Succeeded \in JobRows
    /\ \A s \in LiveStates : Live(s) \in JobRows
    /\ \A s \in TerminalStates, c \in Codes : Ended(s, c) \in JobRows
    /\ \A o \in Outcomes : EndedAs(o) \in JobRows
    /\ \A j \in Jobs : Verdict(j) \in JobRows
<1>1. NoRow \in JobRows /\ Succeeded \in JobRows
  BY DEF NoRow, Succeeded, JobRows, Codes, TerminalStates
<1>2. \A s \in LiveStates : Live(s) \in JobRows
  BY DEF Live, JobRows, Codes
<1>3. \A s \in TerminalStates, c \in Codes : Ended(s, c) \in JobRows
  BY DEF Ended, JobRows
<1>4. \A o \in Outcomes : EndedAs(o) \in JobRows
  BY <1>3 DEF EndedAs, Outcomes, TerminalStates, Codes
<1>5. \A j \in Jobs : Verdict(j) \in JobRows
  BY <1>1, <1>3 DEF Verdict, TerminalStates, Codes
<1> QED
  BY <1>1, <1>2, <1>3, <1>4, <1>5

\* The type invariant in four parts: the rows and their lock, the child, the
\* sampler, and the flow of control.  A sampler that goes on ticking has not
\* used up the timeout; without that, the bound on its clock is not inductive.
RowTypeOK ==
    /\ row \in [Jobs -> JobRows] /\ stored \in [Jobs -> JobRows] /\ snap \in [Jobs -> JobRows]
    /\ mu \in [Jobs -> {"", "sampler", "reader"}]

ChildTypeOK ==
    /\ tool \in [Jobs -> {"none", "unstarted", "gated", "run", "ok", "err", "killed"}]
    /\ success \in [Jobs -> BOOLEAN] /\ paused \in [Jobs -> BOOLEAN] /\ act \in [Jobs -> BOOLEAN]
    /\ reader \in [Jobs -> {"scan", "line", "write"}]
ClockTypeOK ==
    /\ smp \in [Jobs -> {"off", "tick", "sampled", "doomed", "killing"}]
    /\ idle \in [Jobs -> 0..LivenessTimeout] /\ started \in [Jobs -> BOOLEAN]
    /\ \A j \in Jobs : smp[j] \in {"tick", "sampled"} => idle[j] < LivenessTimeout
FlowTypeOK ==
    /\ running \subseteq Jobs /\ committed \subseteq Jobs /\ journal \subseteq Jobs
    /\ pc \in [Jobs -> Steps] /\ res \in [Jobs -> Outcomes]
    /\ kill \in [Jobs -> {"", "cancel", "timeout"}]
    /\ ctx \in [Jobs -> BOOLEAN] /\ runCtx \in [Jobs -> BOOLEAN]
    /\ cancel \in [Jobs -> {"idle", "found", "marked"}]
    /\ down \in BOOLEAN /\ boot \in BOOLEAN /\ restarts \in 0..MaxRestarts

Typed == RowTypeOK /\ ChildTypeOK /\ ClockTypeOK /\ FlowTypeOK

\* A transition keeps the types of the rows.
LEMMA TransitionTyped ==
    ASSUME RowTypeOK, NEW j \in Jobs, NEW r \in JobRows, Transition(j, r)
    PROVE  RowTypeOK'
  BY DEF RowTypeOK, Transition, Persist

\* A progress write keeps the types of the rows.
LEMMA ProgressTyped ==
    ASSUME RowTypeOK, NEW j \in Jobs, NEW r \in JobRows, NEW who \in {"sampler", "reader"},
           ProgressMutate(j, who, r) \/ ProgressWrite(j, who)
    PROVE  RowTypeOK'
<1>1. CASE ProgressMutate(j, who, r)
  BY <1>1 DEF RowTypeOK, ProgressMutate
<1>2. CASE ProgressWrite(j, who)
  BY <1>2, RowsTyped DEF RowTypeOK, ProgressWrite, Persist
<1> QED
  BY <1>1, <1>2

\* Rows nobody writes keep their types.
LEMMA RowsKept == ASSUME RowTypeOK, UNCHANGED rowVars PROVE RowTypeOK'
  BY DEF RowTypeOK

\* The row's own changes by the scanner and the sampler.
LEMMA TouchedRowsTyped ==
    ASSUME NEW r \in JobRows
    PROVE  [r EXCEPT !.phase = "live"] \in JobRows /\ [r EXCEPT !.live = TRUE] \in JobRows
  BY DEF JobRows

\* Zero is on the clock and among the restarts.
LEMMA Zero == 0 \in 0..LivenessTimeout /\ 0 < LivenessTimeout /\ 0 \in 0..MaxRestarts
  BY EngineAssumption

\* A sampler starts its clock at zero.
LEMMA SamplerStartsTyped ==
    ASSUME NEW j \in Jobs, ClockTypeOK, SamplerStarts(j) PROVE ClockTypeOK'
<1>1. idle' \in [Jobs -> 0..LivenessTimeout]
  BY EngineAssumption DEF ClockTypeOK, SamplerStarts
<1>2. \A k \in Jobs : smp'[k] \in {"tick", "sampled"} => idle'[k] < LivenessTimeout
  BY EngineAssumption DEF ClockTypeOK, SamplerStarts
<1> QED
  BY <1>1, <1>2 DEF ClockTypeOK, SamplerStarts

\* Type correctness is inductive.
LEMMA TypeStep == Typed /\ [Next]_vars => Typed'
<1> USE DEF Typed
<1> SUFFICES ASSUME RowTypeOK, ChildTypeOK, ClockTypeOK, FlowTypeOK, [Next]_vars
             PROVE  Typed'
  OBVIOUS
<1>1. ASSUME NEW j \in Jobs, StartBackup(j) PROVE Typed'
  <2>1. RowTypeOK'
    BY <1>1, RowsTyped DEF StartBackup, Goto, LiveStates, RowTypeOK
  <2>2. ChildTypeOK'
    BY <1>1 DEF StartBackup, ChildTypeOK
  <2>3. ClockTypeOK'
    BY <1>1 DEF StartBackup, ClockTypeOK
  <2>4. FlowTypeOK'
    BY <1>1 DEF StartBackup, Goto, FlowTypeOK, Steps, Outcomes
  <2> QED
    BY <2>1, <2>2, <2>3, <2>4
<1>2. ASSUME NEW j \in Jobs, EnterWait(j) PROVE Typed'
  <2>1. RowTypeOK'
    BY <1>2, TransitionTyped, RowsKept, RowsTyped DEF EnterWait, LiveStates, TypeOK
  <2>2. ChildTypeOK'
    BY <1>2 DEF EnterWait, RunUnchanged, ChildTypeOK
  <2>3. ClockTypeOK'
    BY <1>2 DEF EnterWait, RunUnchanged, ClockTypeOK
  <2>4. FlowTypeOK'
    BY <1>2 DEF EnterWait, RunUnchanged, Goto, FlowTypeOK, Steps, Outcomes
  <2> QED
    BY <2>1, <2>2, <2>3, <2>4
<1>3. ASSUME NEW j \in Jobs, DeviceSeen(j) PROVE Typed'
  <2>1. RowTypeOK'
    BY <1>3, TransitionTyped, RowsKept, RowsTyped DEF DeviceSeen, LiveStates, TypeOK
  <2>2. ChildTypeOK'
    BY <1>3 DEF DeviceSeen, RunUnchanged, ChildTypeOK
  <2>3. ClockTypeOK'
    BY <1>3 DEF DeviceSeen, RunUnchanged, ClockTypeOK
  <2>4. FlowTypeOK'
    BY <1>3 DEF DeviceSeen, RunUnchanged, Goto, FlowTypeOK, Steps, Outcomes
  <2> QED
    BY <2>1, <2>2, <2>3, <2>4
<1>4. ASSUME NEW j \in Jobs, AwaitFails(j) PROVE Typed'
  <2>1. RowTypeOK'
    BY <1>4, RowsKept DEF AwaitFails, RunUnchanged
  <2>2. ChildTypeOK'
    BY <1>4 DEF AwaitFails, RunUnchanged, ChildTypeOK
  <2>3. ClockTypeOK'
    BY <1>4 DEF AwaitFails, RunUnchanged, ClockTypeOK
  <2>4. FlowTypeOK'
    BY <1>4 DEF AwaitFails, KillReason, RunUnchanged, Goto, Decide, FlowTypeOK, Steps, Outcomes
  <2> QED
    BY <2>1, <2>2, <2>3, <2>4
<1>4a. ASSUME NEW j \in Jobs, KillContext(j) PROVE Typed'
  <2>1. RowTypeOK'
    BY <1>4a, RowsKept DEF KillContext
  <2>2. ChildTypeOK'
    BY <1>4a DEF KillContext, RunUnchanged, ChildTypeOK
  <2>3. ClockTypeOK'
    BY <1>4a DEF KillContext, RunUnchanged, ClockTypeOK
  <2>4. FlowTypeOK'
    BY <1>4a DEF KillContext, RunUnchanged, Goto, Decide, FlowTypeOK, Steps, Outcomes
  <2> QED
    BY <2>1, <2>2, <2>3, <2>4
<1>5. ASSUME NEW j \in Jobs, PreflightRefuses(j) PROVE Typed'
  <2>1. RowTypeOK'
    BY <1>5, RowsKept DEF PreflightRefuses, RunUnchanged
  <2>2. ChildTypeOK'
    BY <1>5 DEF PreflightRefuses, RunUnchanged, ChildTypeOK
  <2>3. ClockTypeOK'
    BY <1>5 DEF PreflightRefuses, RunUnchanged, ClockTypeOK
  <2>4. FlowTypeOK'
    BY <1>5 DEF PreflightRefuses, RunUnchanged, Goto, Decide, FlowTypeOK, Steps, Outcomes
  <2> QED
    BY <2>1, <2>2, <2>3, <2>4
<1>6. ASSUME NEW j \in Jobs, EnterSeeding(j) PROVE Typed'
  <2>1. RowTypeOK'
    BY <1>6, TransitionTyped, RowsKept, RowsTyped DEF EnterSeeding, LiveStates, TypeOK
  <2>2. ChildTypeOK'
    BY <1>6 DEF EnterSeeding, RunUnchanged, ChildTypeOK
  <2>3. ClockTypeOK'
    BY <1>6 DEF EnterSeeding, RunUnchanged, ClockTypeOK
  <2>4. FlowTypeOK'
    BY <1>6 DEF EnterSeeding, RunUnchanged, Goto, FlowTypeOK, Steps, Outcomes
  <2> QED
    BY <2>1, <2>2, <2>3, <2>4
<1>7. ASSUME NEW j \in Jobs, PrepareWork(j) PROVE Typed'
  <2>1. RowTypeOK'
    BY <1>7, TransitionTyped, RowsKept, RowsTyped DEF PrepareWork, LiveStates, TypeOK
  <2>2. ChildTypeOK'
    BY <1>7 DEF PrepareWork, RunUnchanged, ChildTypeOK
  <2>3. ClockTypeOK'
    BY <1>7 DEF PrepareWork, RunUnchanged, ClockTypeOK
  <2>4. FlowTypeOK'
    BY <1>7 DEF PrepareWork, RunUnchanged, Goto, Decide, FlowTypeOK, Steps, Outcomes
  <2> QED
    BY <2>1, <2>2, <2>3, <2>4
<1>8. ASSUME NEW j \in Jobs, StartFails(j) PROVE Typed'
  <2>1. RowTypeOK'
    BY <1>8, RowsKept DEF StartFails
  <2>2. ChildTypeOK'
    BY <1>8 DEF StartFails, ChildTypeOK
  <2>3. ClockTypeOK'
    BY <1>8 DEF StartFails, ClockTypeOK
  <2>4. FlowTypeOK'
    BY <1>8 DEF StartFails, StartFailure, KillReason, Goto, Decide, FlowTypeOK, Steps, Outcomes
  <2> QED
    BY <2>1, <2>2, <2>3, <2>4
<1>9. ASSUME NEW j \in Jobs, StartTool(j) PROVE Typed'
  <2>1. RowTypeOK'
    BY <1>9, RowsKept DEF StartTool
  <2>2. ChildTypeOK'
    BY <1>9 DEF StartTool, ChildTypeOK
  <2>3. ClockTypeOK'
    BY <1>9, SamplerStartsTyped DEF StartTool, ClockTypeOK
  <2>4. FlowTypeOK'
    BY <1>9 DEF StartTool, Goto, FlowTypeOK, Steps, Outcomes
  <2> QED
    BY <2>1, <2>2, <2>3, <2>4
<1>10. ASSUME NEW j \in Jobs, AwaitInfoPlist(j) PROVE Typed'
  <2>1. RowTypeOK'
    BY <1>10, RowsKept DEF AwaitInfoPlist
  <2>2. ChildTypeOK'
    BY <1>10 DEF AwaitInfoPlist, ChildTypeOK
  <2>3. ClockTypeOK'
    BY <1>10, SamplerStartsTyped DEF AwaitInfoPlist, ClockTypeOK
  <2>4. FlowTypeOK'
    BY <1>10 DEF AwaitInfoPlist, Goto, FlowTypeOK, Steps, Outcomes
  <2> QED
    BY <2>1, <2>2, <2>3, <2>4
<1>11. ASSUME NEW j \in Jobs, SeedWork(j) PROVE Typed'
  <2>1. RowTypeOK'
    BY <1>11, RowsKept DEF SeedWork
  <2>2. ChildTypeOK'
    BY <1>11 DEF SeedWork, ChildTypeOK
  <2>3. ClockTypeOK'
    BY <1>11 DEF SeedWork, ClockTypeOK
  <2>4. FlowTypeOK'
    BY <1>11 DEF SeedWork, Goto, FlowTypeOK, Steps, Outcomes
  <2> QED
    BY <2>1, <2>2, <2>3, <2>4
<1>12. ASSUME NEW j \in Jobs, Abort(j) PROVE Typed'
  <2>1. RowTypeOK'
    BY <1>12, RowsKept DEF Abort, RunUnchanged
  <2>2. ChildTypeOK'
    BY <1>12 DEF Abort, RunUnchanged, ReadersDone, ChildTypeOK
  <2>3. ClockTypeOK'
    BY <1>12 DEF Abort, RunUnchanged, ReadersDone, ClockTypeOK
  <2>4. FlowTypeOK'
    BY <1>12 DEF Abort, RunUnchanged, Goto, Decide, ReadersDone, FlowTypeOK, Steps, Outcomes
  <2> QED
    BY <2>1, <2>2, <2>3, <2>4
<1>13. ASSUME NEW j \in Jobs, Narrate(j) PROVE Typed'
  <2>1. RowTypeOK'
    BY <1>13, TransitionTyped, RowsKept, RowsTyped DEF Narrate, LiveStates, TypeOK
  <2>2. ChildTypeOK'
    BY <1>13 DEF Narrate, ChildTypeOK
  <2>3. ClockTypeOK'
    BY <1>13, SamplerStartsTyped DEF Narrate, ClockTypeOK
  <2>4. FlowTypeOK'
    BY <1>13 DEF Narrate, Goto, FlowTypeOK, Steps, Outcomes
  <2> QED
    BY <2>1, <2>2, <2>3, <2>4
<1>14. ASSUME NEW j \in Jobs, Drain(j) PROVE Typed'
  <2>1. RowTypeOK'
    BY <1>14, RowsKept DEF Drain, RunUnchanged
  <2>2. ChildTypeOK'
    BY <1>14 DEF Drain, RunUnchanged, ReadersDone, ChildTypeOK
  <2>3. ClockTypeOK'
    BY <1>14 DEF Drain, RunUnchanged, ReadersDone, ClockTypeOK
  <2>4. FlowTypeOK'
    BY <1>14 DEF Drain, RunUnchanged, Goto, ReadersDone, FlowTypeOK, Steps, Outcomes
  <2> QED
    BY <2>1, <2>2, <2>3, <2>4
<1>15. ASSUME NEW j \in Jobs, Reap(j) PROVE Typed'
  <2>1. RowTypeOK'
    BY <1>15, RowsKept DEF Reap
  <2>2. ChildTypeOK'
    BY <1>15 DEF Reap, ChildTypeOK
  <2>3. ClockTypeOK'
    BY <1>15 DEF Reap, ClockTypeOK
  <2>4. FlowTypeOK'
    BY <1>15 DEF Reap, KillReason, Goto, Decide, FlowTypeOK, Steps, Outcomes
  <2> QED
    BY <2>1, <2>2, <2>3, <2>4
<1>16. ASSUME NEW j \in Jobs, EnterVerifying(j) PROVE Typed'
  <2>1. RowTypeOK'
    BY <1>16, TransitionTyped, RowsKept, RowsTyped DEF EnterVerifying, LiveStates, TypeOK
  <2>2. ChildTypeOK'
    BY <1>16 DEF EnterVerifying, RunUnchanged, ChildTypeOK
  <2>3. ClockTypeOK'
    BY <1>16 DEF EnterVerifying, RunUnchanged, ClockTypeOK
  <2>4. FlowTypeOK'
    BY <1>16 DEF EnterVerifying, RunUnchanged, Goto, FlowTypeOK, Steps, Outcomes
  <2> QED
    BY <2>1, <2>2, <2>3, <2>4
<1>17. ASSUME NEW j \in Jobs, VerifyWork(j) PROVE Typed'
  <2>1. RowTypeOK'
    BY <1>17, TransitionTyped, RowsKept, RowsTyped DEF VerifyWork, LiveStates, TypeOK
  <2>2. ChildTypeOK'
    BY <1>17 DEF VerifyWork, RunUnchanged, ChildTypeOK
  <2>3. ClockTypeOK'
    BY <1>17 DEF VerifyWork, RunUnchanged, ClockTypeOK
  <2>4. FlowTypeOK'
    BY <1>17 DEF VerifyWork, RunUnchanged, Goto, Decide, FlowTypeOK, Steps, Outcomes
  <2> QED
    BY <2>1, <2>2, <2>3, <2>4
<1>18. ASSUME NEW j \in Jobs, CommitJob(j) PROVE Typed'
  <2>1. RowTypeOK'
    BY <1>18, RowsKept DEF CommitJob
  <2>2. ChildTypeOK'
    BY <1>18 DEF CommitJob, ChildTypeOK
  <2>3. ClockTypeOK'
    BY <1>18 DEF CommitJob, ClockTypeOK
  <2>4. FlowTypeOK'
    BY <1>18 DEF CommitJob, Goto, Decide, FlowTypeOK, Steps, Outcomes
  <2> QED
    BY <2>1, <2>2, <2>3, <2>4
<1>19. ASSUME NEW j \in Jobs, Terminate(j) PROVE Typed'
  <2>1. RowTypeOK'
    BY <1>19, TransitionTyped, RowsTyped DEF Terminate, FlowTypeOK
  <2>2. ChildTypeOK'
    BY <1>19 DEF Terminate, RunUnchanged, ChildTypeOK
  <2>3. ClockTypeOK'
    BY <1>19 DEF Terminate, RunUnchanged, ClockTypeOK
  <2>4. FlowTypeOK'
    BY <1>19 DEF Terminate, RunUnchanged, Goto, FlowTypeOK, Steps, Outcomes
  <2> QED
    BY <2>1, <2>2, <2>3, <2>4
<1>20. ASSUME NEW j \in Jobs, Succeed(j) PROVE Typed'
  <2>1. RowTypeOK'
    BY <1>20, TransitionTyped, RowsKept, RowsTyped DEF Succeed, LiveStates, TypeOK
  <2>2. ChildTypeOK'
    BY <1>20 DEF Succeed, RunUnchanged, ChildTypeOK
  <2>3. ClockTypeOK'
    BY <1>20 DEF Succeed, RunUnchanged, ClockTypeOK
  <2>4. FlowTypeOK'
    BY <1>20 DEF Succeed, RunUnchanged, Goto, FlowTypeOK, Steps, Outcomes
  <2> QED
    BY <2>1, <2>2, <2>3, <2>4
<1>21. ASSUME NEW j \in Jobs, Discard(j) PROVE Typed'
  <2>1. RowTypeOK'
    BY <1>21, RowsKept DEF Discard, RunUnchanged
  <2>2. ChildTypeOK'
    BY <1>21 DEF Discard, RunUnchanged, ChildTypeOK
  <2>3. ClockTypeOK'
    BY <1>21 DEF Discard, RunUnchanged, ClockTypeOK
  <2>4. FlowTypeOK'
    BY <1>21 DEF Discard, RunUnchanged, Goto, FlowTypeOK, Steps, Outcomes
  <2> QED
    BY <2>1, <2>2, <2>3, <2>4
<1>22. ASSUME NEW j \in Jobs, Release(j) PROVE Typed'
  <2>1. RowTypeOK'
    BY <1>22, RowsKept DEF Release
  <2>2. ChildTypeOK'
    BY <1>22 DEF Release, ReleaseDevice, LocalsDropped, ChildTypeOK
  <2>3. ClockTypeOK'
    <3>1. /\ idle' = [idle EXCEPT ![j] = 0] /\ started' = [started EXCEPT ![j] = FALSE]
          /\ smp' = smp
      BY <1>22 DEF Release, LocalsDropped
    <3> QED
      BY <3>1, Zero DEF ClockTypeOK
  <2>4. FlowTypeOK'
    BY <1>22 DEF Release, Goto, ReleaseDevice, LocalsDropped, FlowTypeOK, Steps, Outcomes
  <2> QED
    BY <2>1, <2>2, <2>3, <2>4
<1>23. ASSUME NEW j \in Jobs, LineMutate(j) PROVE Typed'
  <2>1. RowTypeOK'
    BY <1>23, ProgressTyped, TouchedRowsTyped, RowsTyped DEF LineMutate, RowTypeOK
  <2>2. ChildTypeOK'
    BY <1>23 DEF LineMutate, ScannerUnchanged, ChildTypeOK
  <2>3. ClockTypeOK'
    BY <1>23 DEF LineMutate, ScannerUnchanged, ClockTypeOK
  <2>4. FlowTypeOK'
    BY <1>23 DEF LineMutate, ScannerUnchanged, FlowTypeOK, Steps, Outcomes
  <2> QED
    BY <2>1, <2>2, <2>3, <2>4
<1>24. ASSUME NEW j \in Jobs, LineWrite(j) PROVE Typed'
  <2>1. RowTypeOK'
    BY <1>24, ProgressTyped, TouchedRowsTyped, RowsTyped DEF LineWrite, RowTypeOK
  <2>2. ChildTypeOK'
    BY <1>24 DEF LineWrite, ScannerUnchanged, ChildTypeOK
  <2>3. ClockTypeOK'
    BY <1>24 DEF LineWrite, ScannerUnchanged, ClockTypeOK
  <2>4. FlowTypeOK'
    BY <1>24 DEF LineWrite, ScannerUnchanged, FlowTypeOK, Steps, Outcomes
  <2> QED
    BY <2>1, <2>2, <2>3, <2>4
<1>25. ASSUME NEW j \in Jobs, Sample(j) PROVE Typed'
  <2>1. RowTypeOK'
    BY <1>25, RowsKept DEF Sample, SamplerUnchanged
  <2>2. ChildTypeOK'
    BY <1>25 DEF Sample, SamplerUnchanged, Grace, ChildTypeOK
  <2>3. ClockTypeOK'
    BY <1>25, EngineAssumption DEF Sample, ClockTypeOK
  <2>4. FlowTypeOK'
    BY <1>25 DEF Sample, SamplerUnchanged, Grace, FlowTypeOK, Steps, Outcomes
  <2> QED
    BY <2>1, <2>2, <2>3, <2>4
<1>26. ASSUME NEW j \in Jobs, SamplerMutate(j) PROVE Typed'
  <2>1. RowTypeOK'
    BY <1>26, ProgressTyped, TouchedRowsTyped, RowsTyped DEF SamplerMutate, RowTypeOK
  <2>2. ChildTypeOK'
    BY <1>26 DEF SamplerMutate, SamplerUnchanged, ChildTypeOK
  <2>3. ClockTypeOK'
    BY <1>26 DEF SamplerMutate, ClockTypeOK
  <2>4. FlowTypeOK'
    BY <1>26 DEF SamplerMutate, SamplerUnchanged, FlowTypeOK, Steps, Outcomes
  <2> QED
    BY <2>1, <2>2, <2>3, <2>4
<1>27. ASSUME NEW j \in Jobs, SamplerWrite(j) PROVE Typed'
  <2>1. RowTypeOK'
    BY <1>27, ProgressTyped, TouchedRowsTyped, RowsTyped DEF SamplerWrite, RowTypeOK
  <2>2. ChildTypeOK'
    BY <1>27 DEF SamplerWrite, SamplerUnchanged, ChildTypeOK
  <2>3. ClockTypeOK'
    <3>1. idle' = idle /\ started' = started
      BY <1>27 DEF SamplerWrite
    <3>2. CASE smp[j] = "doomed"
      <4>1. smp' = [smp EXCEPT ![j] = "killing"]
        BY <1>27, <3>2 DEF SamplerWrite
      <4> QED
        BY <4>1, <3>1 DEF ClockTypeOK
    <3>3. CASE smp[j] = "sampled"
      <4>1. smp' = [smp EXCEPT ![j] = "tick"]
        BY <1>27, <3>3 DEF SamplerWrite
      <4> QED
        BY <4>1, <3>1, <3>3 DEF ClockTypeOK
    <3> QED
      BY <1>27, <3>2, <3>3 DEF SamplerWrite
  <2>4. FlowTypeOK'
    BY <1>27 DEF SamplerWrite, SamplerUnchanged, FlowTypeOK, Steps, Outcomes
  <2> QED
    BY <2>1, <2>2, <2>3, <2>4
<1>28. ASSUME NEW j \in Jobs, SamplerKill(j) PROVE Typed'
  <2>1. RowTypeOK'
    BY <1>28, RowsKept DEF SamplerKill, SamplerUnchanged
  <2>2. ChildTypeOK'
    BY <1>28 DEF SamplerKill, SamplerUnchanged, ChildTypeOK
  <2>3. ClockTypeOK'
    BY <1>28 DEF SamplerKill, SamplerUnchanged, ClockTypeOK
  <2>4. FlowTypeOK'
    BY <1>28 DEF SamplerKill, SamplerUnchanged, FlowTypeOK, Steps, Outcomes
  <2> QED
    BY <2>1, <2>2, <2>3, <2>4
<1>29. ASSUME NEW j \in Jobs, SamplerStops(j) PROVE Typed'
  <2>1. RowTypeOK'
    BY <1>29, RowsKept DEF SamplerStops, SamplerUnchanged
  <2>2. ChildTypeOK'
    BY <1>29 DEF SamplerStops, SamplerUnchanged, ChildTypeOK
  <2>3. ClockTypeOK'
    BY <1>29 DEF SamplerStops, SamplerUnchanged, ClockTypeOK
  <2>4. FlowTypeOK'
    BY <1>29 DEF SamplerStops, SamplerUnchanged, FlowTypeOK, Steps, Outcomes
  <2> QED
    BY <2>1, <2>2, <2>3, <2>4
<1>30. ASSUME NEW j \in Jobs, ToolLine(j) PROVE Typed'
  <2>1. RowTypeOK'
    BY <1>30, RowsKept DEF ToolLine
  <2>2. ChildTypeOK'
    BY <1>30 DEF ToolLine, Alive, ChildTypeOK
  <2>3. ClockTypeOK'
    BY <1>30 DEF ToolLine, Alive, ClockTypeOK
  <2>4. FlowTypeOK'
    BY <1>30 DEF ToolLine, Alive, FlowTypeOK, Steps, Outcomes
  <2> QED
    BY <2>1, <2>2, <2>3, <2>4
<1>31. ASSUME NEW j \in Jobs, ToolWrites(j) PROVE Typed'
  <2>1. RowTypeOK'
    BY <1>31, RowsKept DEF ToolWrites
  <2>2. ChildTypeOK'
    BY <1>31 DEF ToolWrites, Alive, ChildTypeOK
  <2>3. ClockTypeOK'
    BY <1>31 DEF ToolWrites, Alive, ClockTypeOK
  <2>4. FlowTypeOK'
    BY <1>31 DEF ToolWrites, Alive, FlowTypeOK, Steps, Outcomes
  <2> QED
    BY <2>1, <2>2, <2>3, <2>4
<1>32. ASSUME NEW j \in Jobs, ToolExits(j) PROVE Typed'
  <2>1. RowTypeOK'
    BY <1>32, RowsKept DEF ToolExits
  <2>2. ChildTypeOK'
    BY <1>32 DEF ToolExits, Alive, ChildTypeOK
  <2>3. ClockTypeOK'
    BY <1>32 DEF ToolExits, Alive, ClockTypeOK
  <2>4. FlowTypeOK'
    BY <1>32 DEF ToolExits, Alive, FlowTypeOK, Steps, Outcomes
  <2> QED
    BY <2>1, <2>2, <2>3, <2>4
<1>33. ASSUME NEW j \in Jobs, ToolKilled(j) PROVE Typed'
  <2>1. RowTypeOK'
    BY <1>33, RowsKept DEF ToolKilled
  <2>2. ChildTypeOK'
    BY <1>33 DEF ToolKilled, Alive, ChildTypeOK
  <2>3. ClockTypeOK'
    BY <1>33 DEF ToolKilled, Alive, ClockTypeOK
  <2>4. FlowTypeOK'
    BY <1>33 DEF ToolKilled, Alive, FlowTypeOK, Steps, Outcomes
  <2> QED
    BY <2>1, <2>2, <2>3, <2>4
<1>34. ASSUME NEW j \in Jobs, CancelFind(j) PROVE Typed'
  <2>1. RowTypeOK'
    BY <1>34, RowsKept DEF CancelFind, CancelUnchanged
  <2>2. ChildTypeOK'
    BY <1>34 DEF CancelFind, CancelUnchanged, ChildTypeOK
  <2>3. ClockTypeOK'
    BY <1>34 DEF CancelFind, CancelUnchanged, ClockTypeOK
  <2>4. FlowTypeOK'
    BY <1>34 DEF CancelFind, CancelUnchanged, FlowTypeOK, Steps, Outcomes
  <2> QED
    BY <2>1, <2>2, <2>3, <2>4
<1>35. ASSUME NEW j \in Jobs, CancelMark(j) PROVE Typed'
  <2>1. RowTypeOK'
    BY <1>35, RowsKept DEF CancelMark, CancelUnchanged
  <2>2. ChildTypeOK'
    BY <1>35 DEF CancelMark, CancelUnchanged, CancelReason, ChildTypeOK
  <2>3. ClockTypeOK'
    BY <1>35 DEF CancelMark, CancelUnchanged, CancelReason, ClockTypeOK
  <2>4. FlowTypeOK'
    BY <1>35 DEF CancelMark, CancelUnchanged, CancelReason, FlowTypeOK, Steps, Outcomes
  <2> QED
    BY <2>1, <2>2, <2>3, <2>4
<1>36. ASSUME NEW j \in Jobs, CancelFires(j) PROVE Typed'
  <2>1. RowTypeOK'
    BY <1>36, RowsKept DEF CancelFires, CancelUnchanged
  <2>2. ChildTypeOK'
    BY <1>36 DEF CancelFires, CancelUnchanged, CancelContext, ChildTypeOK
  <2>3. ClockTypeOK'
    BY <1>36 DEF CancelFires, CancelUnchanged, CancelContext, ClockTypeOK
  <2>4. FlowTypeOK'
    BY <1>36 DEF CancelFires, CancelUnchanged, CancelContext, FlowTypeOK, Steps, Outcomes
  <2> QED
    BY <2>1, <2>2, <2>3, <2>4
<1>37. ASSUME NEW j \in Jobs, Reconcile(j) PROVE Typed'
  <2>1. RowTypeOK'
    BY <1>37, RowsTyped DEF Reconcile, Persist, Goto, LiveStates, RowTypeOK
  <2>2. ChildTypeOK'
    BY <1>37 DEF Reconcile, ChildTypeOK
  <2>3. ClockTypeOK'
    BY <1>37 DEF Reconcile, ClockTypeOK
  <2>4. FlowTypeOK'
    BY <1>37 DEF Reconcile, Goto, FlowTypeOK, Steps, Outcomes
  <2> QED
    BY <2>1, <2>2, <2>3, <2>4
<1>38. CASE Shutdown
  <2>1. RowTypeOK'
    BY <1>38, RowsKept DEF Shutdown
  <2>2. ChildTypeOK'
    BY <1>38 DEF Shutdown, ChildTypeOK
  <2>3. ClockTypeOK'
    BY <1>38 DEF Shutdown, ClockTypeOK
  <2>4. FlowTypeOK'
    BY <1>38 DEF Shutdown, FlowTypeOK, Steps, Outcomes
  <2> QED
    BY <2>1, <2>2, <2>3, <2>4
<1>39. CASE Restart
  <2>1. RowTypeOK'
    BY <1>39, RowsTyped DEF Restart, ListNonTerminalJobs, All, LiveStates, RowTypeOK
  <2>2. ChildTypeOK'
    BY <1>39 DEF Restart, ListNonTerminalJobs, All, ChildTypeOK
  <2>3. ClockTypeOK'
    <3>1. /\ smp' = [k \in Jobs |-> "off"] /\ started' = [k \in Jobs |-> FALSE]
          /\ idle' = [k \in Jobs |-> 0]
      BY <1>39 DEF Restart, All
    <3> QED
      BY <3>1, Zero DEF ClockTypeOK
  <2>4. FlowTypeOK'
    <3>1. restarts' \in 0..MaxRestarts
      <4>1. restarts \in 0..MaxRestarts /\ restarts < MaxRestarts /\ restarts' = restarts + 1
        BY <1>39 DEF Restart, FlowTypeOK
      <4> QED
        BY <4>1, EngineAssumption
    <3>2. running' \subseteq Jobs /\ committed' \subseteq Jobs /\ journal' \subseteq Jobs
      BY <1>39 DEF Restart, FlowTypeOK
    <3>3. pc' \in [Jobs -> Steps] /\ res' \in [Jobs -> Outcomes]
      BY <1>39 DEF Restart, All, Steps, Outcomes
    <3>4. /\ kill' \in [Jobs -> {"", "cancel", "timeout"}]
          /\ cancel' \in [Jobs -> {"idle", "found", "marked"}]
          /\ ctx' \in [Jobs -> BOOLEAN] /\ runCtx' \in [Jobs -> BOOLEAN]
      BY <1>39 DEF Restart, All
    <3> QED
      BY <1>39, <3>1, <3>2, <3>3, <3>4 DEF Restart, FlowTypeOK
  <2> QED
    BY <2>1, <2>2, <2>3, <2>4
<1>40. CASE Serve
  <2>1. RowTypeOK'
    BY <1>40, RowsKept DEF Serve
  <2>2. ChildTypeOK'
    BY <1>40 DEF Serve, ChildTypeOK
  <2>3. ClockTypeOK'
    BY <1>40 DEF Serve, ClockTypeOK
  <2>4. FlowTypeOK'
    BY <1>40 DEF Serve, FlowTypeOK, Steps, Outcomes
  <2> QED
    BY <2>1, <2>2, <2>3, <2>4
<1>41. CASE UNCHANGED vars
  BY <1>41 DEF vars, RowTypeOK, ChildTypeOK, ClockTypeOK, FlowTypeOK
<1> QED
  BY <1>1, <1>2, <1>3, <1>4, <1>4a, <1>5, <1>6, <1>7, <1>8, <1>9, <1>10, <1>11, <1>12, <1>13,
      <1>14, <1>15, <1>16, <1>17, <1>18, <1>19, <1>20, <1>21, <1>22, <1>23, <1>24, <1>25,
      <1>26, <1>27, <1>28, <1>29, <1>30, <1>31, <1>32, <1>33, <1>34, <1>35, <1>36, <1>37,
      <1>38, <1>39, <1>40, <1>41, Actions

\* The types hold at start-up.
LEMMA TypeInit == Init => Typed
<1> SUFFICES ASSUME Init PROVE Typed
  OBVIOUS
<1>1. RowTypeOK
  BY RowsTyped DEF Init, All, RowTypeOK
<1>2. ChildTypeOK
  BY DEF Init, All, ChildTypeOK
<1>3. FlowTypeOK
  <2>1. restarts \in 0..MaxRestarts
    BY Zero DEF Init
  <2> QED
    BY <2>1 DEF Init, All, FlowTypeOK, Steps, Outcomes
<1>4. ClockTypeOK
  <2>1. idle \in [Jobs -> 0..LivenessTimeout]
    BY Zero DEF Init, All
  <2>2. \A j \in Jobs : smp[j] \notin {"tick", "sampled"}
    BY DEF Init, All
  <2> QED
    BY <2>1, <2>2 DEF Init, All, ClockTypeOK
<1> QED
  BY <1>1, <1>2, <1>3, <1>4 DEF Typed

\* The types always hold.
LEMMA AlwaysTyped == Spec => []Typed
  BY TypeInit, TypeStep, PTL DEF Spec

\* Every variable of the engine keeps its type.
THEOREM TypeCorrect == Spec => []TypeOK
<1>1. Typed => TypeOK
  BY DEF Typed, TypeOK, RowTypeOK, ChildTypeOK, ClockTypeOK, FlowTypeOK
<1> QED
  BY <1>1, AlwaysTyped, PTL

\* Owned is inductive: StartBackup asks before it enters the map, and every way
\* out of run passes through Release.
LEMMA OwnedStep == Typed /\ Owned /\ [Next]_vars => Owned'
<1> SUFFICES ASSUME FlowTypeOK, ChildTypeOK, Owned, [Next]_vars PROVE Owned'
  BY DEF Typed
<1> USE DEF Owned, FlowTypeOK, ChildTypeOK, AtRest, Alive
<1>1. ASSUME NEW j \in Jobs, StartBackup(j) PROVE Owned'
  BY <1>1 DEF StartBackup, Goto, Busy
<1>2. ASSUME NEW j \in Jobs, EnterWait(j) PROVE Owned'
  BY <1>2 DEF EnterWait, RunUnchanged, Goto
<1>3. ASSUME NEW j \in Jobs, DeviceSeen(j) PROVE Owned'
  BY <1>3 DEF DeviceSeen, RunUnchanged, Goto
<1>4. ASSUME NEW j \in Jobs, AwaitFails(j) PROVE Owned'
  BY <1>4 DEF AwaitFails, KillReason, RunUnchanged, Goto
<1>4a. ASSUME NEW j \in Jobs, KillContext(j) PROVE Owned'
  BY <1>4a DEF KillContext, RunUnchanged, Goto
<1>5. ASSUME NEW j \in Jobs, PreflightRefuses(j) PROVE Owned'
  BY <1>5 DEF PreflightRefuses, RunUnchanged, Goto
<1>6. ASSUME NEW j \in Jobs, EnterSeeding(j) PROVE Owned'
  BY <1>6 DEF EnterSeeding, RunUnchanged, Goto
<1>7. ASSUME NEW j \in Jobs, PrepareWork(j) PROVE Owned'
  <2>1. pc[j] = "prepare" /\ UNCHANGED <<running, tool, boot>>
    BY <1>7 DEF PrepareWork, RunUnchanged
  <2>2. pc' = [pc EXCEPT ![j] = "quit"] \/ pc' = [pc EXCEPT ![j] = "gated"] \/ pc' = [pc EXCEPT ![j] = "start"]
    BY <1>7, Zenon DEF PrepareWork, Goto
  <2>3. CASE pc' = [pc EXCEPT ![j] = "quit"]
    BY <2>1, <2>3
  <2>4. CASE pc' = [pc EXCEPT ![j] = "gated"]
    BY <2>1, <2>4
  <2>5. CASE pc' = [pc EXCEPT ![j] = "start"]
    BY <2>1, <2>5
  <2> QED
    BY <2>2, <2>3, <2>4, <2>5
<1>8. ASSUME NEW j \in Jobs, StartFails(j) PROVE Owned'
  BY <1>8 DEF StartFails, StartFailure, KillReason, Goto
<1>9. ASSUME NEW j \in Jobs, StartTool(j) PROVE Owned'
  <2>1. pc[j] \in {"gated", "start"} /\ UNCHANGED <<running, boot>>
    BY <1>9 DEF StartTool
  <2>2. \/ pc' = [pc EXCEPT ![j] = "info"] /\ tool' = [tool EXCEPT ![j] = "gated"]
        \/ pc' = [pc EXCEPT ![j] = "loop"] /\ tool' = [tool EXCEPT ![j] = "run"]
    BY <1>9, Zenon DEF StartTool, Goto
  <2>3. CASE pc' = [pc EXCEPT ![j] = "info"] /\ tool' = [tool EXCEPT ![j] = "gated"]
    BY <2>1, <2>3
  <2>4. CASE pc' = [pc EXCEPT ![j] = "loop"] /\ tool' = [tool EXCEPT ![j] = "run"]
    BY <2>1, <2>4
  <2> QED
    BY <2>2, <2>3, <2>4
<1>10. ASSUME NEW j \in Jobs, AwaitInfoPlist(j) PROVE Owned'
  <2>1. pc[j] = "info" /\ UNCHANGED <<running, tool, boot>>
    BY <1>10 DEF AwaitInfoPlist
  <2>2. pc' = [pc EXCEPT ![j] = "seed"] \/ pc' = [pc EXCEPT ![j] = "loop"]
    BY <1>10, Zenon DEF AwaitInfoPlist, Goto
  <2>3. CASE pc' = [pc EXCEPT ![j] = "seed"]
    BY <2>1, <2>3
  <2>4. CASE pc' = [pc EXCEPT ![j] = "loop"]
    BY <2>1, <2>4
  <2> QED
    BY <2>2, <2>3, <2>4
<1>11. ASSUME NEW j \in Jobs, SeedWork(j) PROVE Owned'
  <2>1. pc[j] = "seed" /\ UNCHANGED <<running, boot>>
    BY <1>11 DEF SeedWork
  <2>2. \/ /\ pc' = [pc EXCEPT ![j] = "narrate"]
           /\ tool' = [tool EXCEPT ![j] = IF tool[j] = "gated" THEN "run" ELSE tool[j]]
        \/ pc' = [pc EXCEPT ![j] = "abort"] /\ tool' = tool
    BY <1>11, Zenon DEF SeedWork, Goto
  <2>3. CASE /\ pc' = [pc EXCEPT ![j] = "narrate"]
             /\ tool' = [tool EXCEPT ![j] = IF tool[j] = "gated" THEN "run" ELSE tool[j]]
    BY <2>1, <2>3
  <2>4. CASE pc' = [pc EXCEPT ![j] = "abort"] /\ tool' = tool
    BY <2>1, <2>4
  <2> QED
    BY <2>2, <2>3, <2>4
<1>12. ASSUME NEW j \in Jobs, Abort(j) PROVE Owned'
  BY <1>12 DEF Abort, RunUnchanged, Goto, ReadersDone
<1>13. ASSUME NEW j \in Jobs, Narrate(j) PROVE Owned'
  BY <1>13 DEF Narrate, Goto
<1>14. ASSUME NEW j \in Jobs, Drain(j) PROVE Owned'
  BY <1>14 DEF Drain, RunUnchanged, Goto, ReadersDone
<1>15. ASSUME NEW j \in Jobs, Reap(j) PROVE Owned'
  BY <1>15 DEF Reap, KillReason, Goto
<1>16. ASSUME NEW j \in Jobs, EnterVerifying(j) PROVE Owned'
  BY <1>16 DEF EnterVerifying, RunUnchanged, Goto
<1>17. ASSUME NEW j \in Jobs, VerifyWork(j) PROVE Owned'
  <2>1. pc[j] = "verify" /\ UNCHANGED <<running, tool, boot>>
    BY <1>17 DEF VerifyWork, RunUnchanged
  <2>2. pc' = [pc EXCEPT ![j] = "fail"] \/ pc' = [pc EXCEPT ![j] = "commit"]
    BY <1>17, Zenon DEF VerifyWork, Goto
  <2>3. CASE pc' = [pc EXCEPT ![j] = "fail"]
    BY <2>1, <2>3
  <2>4. CASE pc' = [pc EXCEPT ![j] = "commit"]
    BY <2>1, <2>4
  <2> QED
    BY <2>2, <2>3, <2>4
<1>18. ASSUME NEW j \in Jobs, CommitJob(j) PROVE Owned'
  <2>1. pc[j] = "commit" /\ UNCHANGED <<running, tool, boot>>
    BY <1>18 DEF CommitJob
  <2>2. pc' = [pc EXCEPT ![j] = "succeed"] \/ pc' = [pc EXCEPT ![j] = "quit"]
    BY <1>18, Zenon DEF CommitJob, Goto
  <2>3. CASE pc' = [pc EXCEPT ![j] = "succeed"]
    BY <2>1, <2>3
  <2>4. CASE pc' = [pc EXCEPT ![j] = "quit"]
    BY <2>1, <2>4
  <2> QED
    BY <2>2, <2>3, <2>4
<1>19. ASSUME NEW j \in Jobs, Terminate(j) PROVE Owned'
  BY <1>19 DEF Terminate, RunUnchanged, Goto
<1>20. ASSUME NEW j \in Jobs, Succeed(j) PROVE Owned'
  BY <1>20 DEF Succeed, RunUnchanged, Goto
<1>21. ASSUME NEW j \in Jobs, Discard(j) PROVE Owned'
  BY <1>21 DEF Discard, RunUnchanged, Goto
<1>22. ASSUME NEW j \in Jobs, Release(j) PROVE Owned'
  BY <1>22 DEF Release, Goto, ReleaseDevice, LocalsDropped
<1>23. ASSUME NEW j \in Jobs, ToolExits(j) PROVE Owned'
  BY <1>23 DEF ToolExits
<1>24. ASSUME NEW j \in Jobs, ToolKilled(j) PROVE Owned'
  BY <1>24 DEF ToolKilled
<1>25. ASSUME NEW j \in Jobs, Reconcile(j) PROVE Owned'
  BY <1>25 DEF Reconcile, Goto
<1>26. ASSUME NEW j \in Jobs,
            LineMutate(j) \/ LineWrite(j) \/ Sample(j) \/ SamplerMutate(j) \/ SamplerWrite(j)
             \/             SamplerKill(j) \/ SamplerStops(j) \/ ToolLine(j) \/ ToolWrites(j) \/ CancelFind(j)
             \/             CancelMark(j) \/ CancelFires(j)
       PROVE  Owned'
  <2>1. UNCHANGED <<running, pc, tool, boot>>
    BY <1>26 DEF LineMutate, ScannerUnchanged, LineWrite, Sample, SamplerUnchanged,
        SamplerMutate, SamplerWrite, SamplerKill, SamplerStops, ToolLine, ToolWrites,
        CancelFind, CancelUnchanged, CancelMark, CancelFires
  <2> QED
    BY <2>1
<1>27. CASE Shutdown
  BY <1>27 DEF Shutdown
<1>28. CASE Restart
  BY <1>28 DEF Restart, All
<1>29. CASE Serve
  BY <1>29 DEF Serve
<1>30. CASE UNCHANGED vars
  BY <1>30 DEF vars
<1> QED
  BY <1>1, <1>2, <1>3, <1>4, <1>4a, <1>5, <1>6, <1>7, <1>8, <1>9, <1>10, <1>11, <1>12, <1>13,
      <1>14, <1>15, <1>16, <1>17, <1>18, <1>19, <1>20, <1>21, <1>22, <1>23, <1>24, <1>25,
      <1>26, <1>27, <1>28, <1>29, <1>30, Actions

\* The map of running jobs always agrees with the program counters.
LEMMA AlwaysOwned == Spec => []Owned
<1>1. Init => Owned
  BY DEF Init, All, Owned, AtRest, Alive
<1> QED
  BY <1>1, AlwaysTyped, OwnedStep, PTL DEF Spec

\* A device's work area has one owner, and the child is dead before it is
\* verified, committed, discarded or handed on.
THEOREM WorkAreaHasOneOwner == Spec => []WorkAreaExclusive
<1>1. FlowTypeOK /\ Owned => WorkAreaExclusive
  BY DEF Owned, WorkAreaExclusive, AtRest, FlowTypeOK
<1>2. Typed => FlowTypeOK
  BY DEF Typed
<1> QED
  BY <1>1, <1>2, AlwaysTyped, AlwaysOwned, PTL

-----------------------------------------------------------------------------
(* What one step does to the row of one job                                *)

Going == Undecided \ {"none", "succeed"}

RowsSame(k) == /\ row'[k] = row[k] /\ stored'[k] = stored[k]
               /\ snap'[k] = snap[k] /\ mu'[k] = mu[k]
VersionSame(k) == (k \in committed' <=> k \in committed) /\ (k \in journal' <=> k \in journal)
Kept(k) == pc'[k] = pc[k] /\ RowsSame(k) /\ VersionSame(k)

\* transition writes r, or the database keeps what it had.
Becomes(k, r) == /\ mu[k] = "" /\ row'[k] = r /\ snap'[k] = snap[k] /\ mu'[k] = mu[k]
                 /\ \/ stored'[k] = r
                    \/ "store" \in Faults /\ stored'[k] = stored[k]

Begun(k) == /\ pc[k] = "none" /\ pc'[k] = "queued" /\ VersionSame(k)
            /\ row'[k] = Live("queued") /\ stored'[k] = Live("queued")
            /\ snap'[k] = snap[k] /\ mu'[k] = mu[k]
Advanced(k) == /\ pc[k] \in Going /\ pc'[k] \in Going /\ VersionSame(k)
               /\ RowsSame(k) \/ \E s \in LiveStates : Becomes(k, Live(s))
Ending(k) == /\ pc[k] \in {"quit", "fail"} /\ pc'[k] \in {"discard", "release"} /\ VersionSame(k)
             /\ res[k] \in Outcomes /\ Becomes(k, EndedAs(res[k]))
Left(k) == /\ pc[k] \in {"discard", "release"} /\ pc'[k] \in {"release", "done"}
           /\ RowsSame(k) /\ VersionSame(k)
Touched(k) == /\ pc'[k] = pc[k] /\ VersionSame(k)
              /\ \/ /\ row'[k].state = row[k].state /\ row'[k].code = row[k].code
                    /\ snap'[k] = row'[k] /\ stored'[k] = stored[k]
                 \/ /\ mu[k] # "" /\ row'[k] = row[k] /\ mu'[k] = "" /\ snap'[k] = NoRow
                    /\ stored'[k] \in {snap[k], stored[k]}
Versioned(k) == /\ pc[k] = "commit" /\ RowsSame(k)
                /\ \/ pc'[k] = "succeed" /\ k \in committed' /\ (k \in journal' <=> k \in journal)
                   \/ /\ pc'[k] = "quit" /\ (k \in committed' <=> k \in committed)
                      /\ \/ k \in journal' <=> k \in journal
                         \/ "commit" \in Faults
Won(k) == /\ pc[k] = "succeed" /\ pc'[k] = "release" /\ VersionSame(k)
          /\ Becomes(k, Succeeded)
Ruled(k) == /\ pc[k] = "orphan" /\ pc'[k] = "done" /\ VersionSame(k)
            /\ row'[k] = Verdict(k) /\ snap'[k] = snap[k] /\ mu'[k] = mu[k]
            /\ \/ stored'[k] = Verdict(k)
               \/ "store" \in Faults /\ stored'[k] = stored[k]
Rebooted(k) == /\ row'[k] = stored[k] /\ stored'[k] = stored[k] /\ snap'[k] = NoRow /\ mu'[k] = ""
               /\ pc'[k] = (IF pc[k] = "none" THEN "none"
                            ELSE IF stored[k].state \in LiveStates THEN "orphan" ELSE "done")
               /\ k \in committed => k \in committed'
               /\ k \in committed' => k \in committed \/ k \in journal \/ pc[k] = "commit"
               /\ k \in journal' => k \in journal

Effect(k) == \/ Kept(k) \/ Begun(k) \/ Advanced(k) \/ Ending(k) \/ Left(k) \/ Touched(k)
             \/ Versioned(k) \/ Won(k) \/ Ruled(k) \/ Rebooted(k)

\* A transition gives one job its row and leaves the others alone.
LEMMA TransitionEffect ==
    ASSUME RowTypeOK, NEW j \in Jobs, NEW k \in Jobs, NEW r, Transition(j, r)
    PROVE  (k = j => Becomes(k, r)) /\ (k # j => RowsSame(k))
  BY DEF RowTypeOK, Transition, MuFree, Persist, Becomes, RowsSame

\* A progress write touches one job's row and never its state or code.
LEMMA ProgressEffect ==
    ASSUME RowTypeOK, NEW j \in Jobs, NEW k \in Jobs, NEW who \in {"sampler", "reader"}, NEW r,
           r.state = row[j].state, r.code = row[j].code,
           ProgressMutate(j, who, r) \/ ProgressWrite(j, who), UNCHANGED <<pc, storeVars>>
    PROVE  Touched(k) \/ Kept(k)
<1>1. CASE k # j
  BY <1>1 DEF RowTypeOK, ProgressMutate, ProgressWrite, Persist, Kept, RowsSame, VersionSame
<1>2. CASE k = j /\ ProgressMutate(j, who, r)
  BY <1>2 DEF RowTypeOK, ProgressMutate, Touched, VersionSame
<1>3. CASE k = j /\ ProgressWrite(j, who)
  BY <1>3 DEF RowTypeOK, ProgressWrite, Persist, Touched, VersionSame
<1> QED
  BY <1>1, <1>2, <1>3

\* A step of run that writes no row.
LEMMA QuietEffect ==
    ASSUME FlowTypeOK, NEW j \in Jobs, NEW k \in Jobs, NEW step, Goto(j, step),
           UNCHANGED rowVars, UNCHANGED storeVars
    PROVE  /\ k # j => Kept(k)
           /\ k = j /\ pc[j] \in Going /\ step \in Going => Advanced(k)
           /\ k = j /\ pc[j] \in {"discard", "release"} /\ step \in {"release", "done"} => Left(k)
  BY DEF FlowTypeOK, Goto, Kept, Advanced, Left, RowsSame, VersionSame

\* A step of run that moves the row to a live state.
LEMMA LiveEffect ==
    ASSUME RowTypeOK, FlowTypeOK, NEW j \in Jobs, NEW k \in Jobs, NEW step \in Going, Goto(j, step),
           pc[j] \in Going, NEW s \in LiveStates, Transition(j, Live(s)), UNCHANGED storeVars
    PROVE  Effect(k)
<1>1. CASE k # j
  <2>1. RowsSame(k)
    BY <1>1, TransitionEffect
  <2> QED
    BY <1>1, <2>1 DEF FlowTypeOK, Goto, Kept, VersionSame, Effect
<1>2. CASE k = j
  <2>1. Becomes(k, Live(s))
    BY <1>2, TransitionEffect
  <2>2. pc'[k] \in Going /\ pc[k] \in Going /\ VersionSame(k)
    BY <1>2 DEF FlowTypeOK, Goto, VersionSame
  <2> QED
    BY <2>1, <2>2 DEF Advanced, Effect
<1> QED
  BY <1>1, <1>2

\* Every step has one of these effects on every job.
LEMMA Effects ==
    ASSUME Typed, [Next]_vars, NEW k \in Jobs
    PROVE  Effect(k)
<1> SUFFICES ASSUME RowTypeOK, FlowTypeOK PROVE Effect(k)
  BY DEF Typed
<1>1. ASSUME NEW j \in Jobs, EnterWait(j) PROVE Effect(k)
  <2>1. /\ pc[j] \in Going /\ "await" \in Going /\ Goto(j, "await")
        /\ "waiting_for_device" \in LiveStates /\ Transition(j, Live("waiting_for_device")) /\ UNCHANGED storeVars
    BY <1>1 DEF EnterWait, RunUnchanged, Going, Undecided, Steps, LiveStates
  <2> QED
    BY <2>1, LiveEffect
<1>2. ASSUME NEW j \in Jobs, DeviceSeen(j) PROVE Effect(k)
  <2>1. /\ pc[j] \in Going /\ "preflight" \in Going /\ Goto(j, "preflight")
        /\ "preflight" \in LiveStates /\ Transition(j, Live("preflight")) /\ UNCHANGED storeVars
    BY <1>2 DEF DeviceSeen, RunUnchanged, Going, Undecided, Steps, LiveStates
  <2> QED
    BY <2>1, LiveEffect
<1>3. ASSUME NEW j \in Jobs, EnterSeeding(j) PROVE Effect(k)
  <2>1. /\ pc[j] \in Going /\ "prepare" \in Going /\ Goto(j, "prepare")
        /\ "seeding" \in LiveStates /\ Transition(j, Live("seeding")) /\ UNCHANGED storeVars
    BY <1>3 DEF EnterSeeding, RunUnchanged, Going, Undecided, Steps, LiveStates
  <2> QED
    BY <2>1, LiveEffect
<1>4. ASSUME NEW j \in Jobs, Narrate(j) PROVE Effect(k)
  <2>1. /\ pc[j] \in Going /\ "loop" \in Going /\ Goto(j, "loop")
        /\ "backing_up" \in LiveStates /\ Transition(j, Live("backing_up")) /\ UNCHANGED storeVars
    BY <1>4 DEF Narrate, Going, Undecided, Steps, LiveStates
  <2> QED
    BY <2>1, LiveEffect
<1>5. ASSUME NEW j \in Jobs, EnterVerifying(j) PROVE Effect(k)
  <2>1. /\ pc[j] \in Going /\ "verify" \in Going /\ Goto(j, "verify")
        /\ "verifying" \in LiveStates /\ Transition(j, Live("verifying")) /\ UNCHANGED storeVars
    BY <1>5 DEF EnterVerifying, RunUnchanged, Going, Undecided, Steps, LiveStates
  <2> QED
    BY <2>1, LiveEffect
<1>6. ASSUME NEW j \in Jobs, AwaitFails(j) PROVE Effect(k)
  <2>1. Goto(j, "quit") \/ Goto(j, "quitAsked")
    BY <1>6, Zenon DEF AwaitFails, KillReason
  <2>2. pc[j] \in Going /\ UNCHANGED rowVars /\ UNCHANGED storeVars
    BY <1>6 DEF AwaitFails, RunUnchanged, Going, Undecided, Steps
  <2>3. "quit" \in Going /\ "quitAsked" \in Going
    BY DEF Going, Undecided, Steps
  <2>4. Kept(k) \/ Advanced(k)
    BY <2>1, <2>2, <2>3, QuietEffect
  <2> QED
    BY <2>4 DEF Effect
<1>6a. ASSUME NEW j \in Jobs, KillContext(j) PROVE Effect(k)
  <2>1. Goto(j, "quit") \/ Goto(j, "ok") \/ Goto(j, "fail")
    BY <1>6a, Zenon DEF KillContext
  <2>2. pc[j] \in Going /\ UNCHANGED rowVars /\ UNCHANGED storeVars
    BY <1>6a DEF KillContext, RunUnchanged, Going, Undecided, Steps
  <2>3. "quit" \in Going /\ "ok" \in Going /\ "fail" \in Going
    BY DEF Going, Undecided, Steps
  <2>4. Kept(k) \/ Advanced(k)
    BY <2>1, <2>2, <2>3, QuietEffect
  <2> QED
    BY <2>4 DEF Effect
<1>7. ASSUME NEW j \in Jobs, PreflightRefuses(j) PROVE Effect(k)
  <2>1. Goto(j, "quit")
    BY <1>7, Zenon DEF PreflightRefuses
  <2>2. pc[j] \in Going /\ UNCHANGED rowVars /\ UNCHANGED storeVars
    BY <1>7 DEF PreflightRefuses, RunUnchanged, Going, Undecided, Steps
  <2>3. "quit" \in Going
    BY DEF Going, Undecided, Steps
  <2>4. Kept(k) \/ Advanced(k)
    BY <2>1, <2>2, <2>3, QuietEffect
  <2> QED
    BY <2>4 DEF Effect
<1>8. ASSUME NEW j \in Jobs, StartFails(j) PROVE Effect(k)
  <2>1. Goto(j, "fail") \/ Goto(j, "failAsked")
    BY <1>8, Zenon DEF StartFails, StartFailure, KillReason
  <2>2. pc[j] \in Going /\ UNCHANGED rowVars /\ UNCHANGED storeVars
    BY <1>8 DEF StartFails, Going, Undecided, Steps
  <2>3. "fail" \in Going /\ "failAsked" \in Going
    BY DEF Going, Undecided, Steps
  <2>4. Kept(k) \/ Advanced(k)
    BY <2>1, <2>2, <2>3, QuietEffect
  <2> QED
    BY <2>4 DEF Effect
<1>9. ASSUME NEW j \in Jobs, StartTool(j) PROVE Effect(k)
  <2>1. Goto(j, "info") \/ Goto(j, "loop")
    BY <1>9, Zenon DEF StartTool
  <2>2. pc[j] \in Going /\ UNCHANGED rowVars /\ UNCHANGED storeVars
    BY <1>9 DEF StartTool, Going, Undecided, Steps
  <2>3. "info" \in Going /\ "loop" \in Going
    BY DEF Going, Undecided, Steps
  <2>4. Kept(k) \/ Advanced(k)
    BY <2>1, <2>2, <2>3, QuietEffect
  <2> QED
    BY <2>4 DEF Effect
<1>10. ASSUME NEW j \in Jobs, AwaitInfoPlist(j) PROVE Effect(k)
  <2>1. Goto(j, "seed") \/ Goto(j, "loop")
    BY <1>10, Zenon DEF AwaitInfoPlist
  <2>2. pc[j] \in Going /\ UNCHANGED rowVars /\ UNCHANGED storeVars
    BY <1>10 DEF AwaitInfoPlist, Going, Undecided, Steps
  <2>3. "seed" \in Going /\ "loop" \in Going
    BY DEF Going, Undecided, Steps
  <2>4. Kept(k) \/ Advanced(k)
    BY <2>1, <2>2, <2>3, QuietEffect
  <2> QED
    BY <2>4 DEF Effect
<1>11. ASSUME NEW j \in Jobs, SeedWork(j) PROVE Effect(k)
  <2>1. Goto(j, "narrate") \/ Goto(j, "abort")
    BY <1>11, Zenon DEF SeedWork
  <2>2. pc[j] \in Going /\ UNCHANGED rowVars /\ UNCHANGED storeVars
    BY <1>11 DEF SeedWork, Going, Undecided, Steps
  <2>3. "narrate" \in Going /\ "abort" \in Going
    BY DEF Going, Undecided, Steps
  <2>4. Kept(k) \/ Advanced(k)
    BY <2>1, <2>2, <2>3, QuietEffect
  <2> QED
    BY <2>4 DEF Effect
<1>12. ASSUME NEW j \in Jobs, Abort(j) PROVE Effect(k)
  <2>1. Goto(j, "quit")
    BY <1>12, Zenon DEF Abort
  <2>2. pc[j] \in Going /\ UNCHANGED rowVars /\ UNCHANGED storeVars
    BY <1>12 DEF Abort, RunUnchanged, Going, Undecided, Steps
  <2>3. "quit" \in Going
    BY DEF Going, Undecided, Steps
  <2>4. Kept(k) \/ Advanced(k)
    BY <2>1, <2>2, <2>3, QuietEffect
  <2> QED
    BY <2>4 DEF Effect
<1>13. ASSUME NEW j \in Jobs, Drain(j) PROVE Effect(k)
  <2>1. Goto(j, "drained")
    BY <1>13, Zenon DEF Drain
  <2>2. pc[j] \in Going /\ UNCHANGED rowVars /\ UNCHANGED storeVars
    BY <1>13 DEF Drain, RunUnchanged, Going, Undecided, Steps
  <2>3. "drained" \in Going
    BY DEF Going, Undecided, Steps
  <2>4. Kept(k) \/ Advanced(k)
    BY <2>1, <2>2, <2>3, QuietEffect
  <2> QED
    BY <2>4 DEF Effect
<1>14. ASSUME NEW j \in Jobs, Reap(j) PROVE Effect(k)
  <2>1. Goto(j, "failAsked") \/ Goto(j, "fail")
    BY <1>14, Zenon DEF Reap, KillReason
  <2>2. pc[j] \in Going /\ UNCHANGED rowVars /\ UNCHANGED storeVars
    BY <1>14 DEF Reap, Going, Undecided, Steps
  <2>3. "failAsked" \in Going /\ "fail" \in Going
    BY DEF Going, Undecided, Steps
  <2>4. Kept(k) \/ Advanced(k)
    BY <2>1, <2>2, <2>3, QuietEffect
  <2> QED
    BY <2>4 DEF Effect
<1>15. ASSUME NEW j \in Jobs, Discard(j) PROVE Effect(k)
  <2>1. Goto(j, "release")
    BY <1>15, Zenon DEF Discard
  <2>2. pc[j] \in {"discard", "release"} /\ UNCHANGED rowVars /\ UNCHANGED storeVars
    BY <1>15 DEF Discard, RunUnchanged, Going, Undecided, Steps
  <2>3. "release" \in {"release", "done"}
    BY DEF Going, Undecided, Steps
  <2>4. Kept(k) \/ Left(k)
    BY <2>1, <2>2, <2>3, QuietEffect
  <2> QED
    BY <2>4 DEF Effect
<1>16. ASSUME NEW j \in Jobs, Release(j) PROVE Effect(k)
  <2>1. Goto(j, "done")
    BY <1>16, Zenon DEF Release
  <2>2. pc[j] \in {"discard", "release"} /\ UNCHANGED rowVars /\ UNCHANGED storeVars
    BY <1>16 DEF Release, Going, Undecided, Steps
  <2>3. "done" \in {"release", "done"}
    BY DEF Going, Undecided, Steps
  <2>4. Kept(k) \/ Left(k)
    BY <2>1, <2>2, <2>3, QuietEffect
  <2> QED
    BY <2>4 DEF Effect
<1>17. ASSUME NEW j \in Jobs, PrepareWork(j) PROVE Effect(k)
  <2>1. /\ pc[j] \in Going /\ UNCHANGED storeVars /\ "backing_up" \in LiveStates
        /\ "quit" \in Going /\ "gated" \in Going /\ "start" \in Going
    BY <1>17 DEF PrepareWork, RunUnchanged, Going, Undecided, Steps, LiveStates
  <2>2. \/ UNCHANGED rowVars /\ (Goto(j, "quit") \/ Goto(j, "gated"))
        \/ Transition(j, Live("backing_up")) /\ Goto(j, "start")
    BY <1>17, Zenon DEF PrepareWork
  <2>3. CASE UNCHANGED rowVars /\ (Goto(j, "quit") \/ Goto(j, "gated"))
    BY <2>1, <2>3, QuietEffect DEF Effect
  <2>4. CASE Transition(j, Live("backing_up")) /\ Goto(j, "start")
    BY <2>1, <2>4, LiveEffect
  <2> QED
    BY <2>2, <2>3, <2>4
<1>18. ASSUME NEW j \in Jobs, VerifyWork(j) PROVE Effect(k)
  <2>1. /\ pc[j] \in Going /\ UNCHANGED storeVars /\ "committing" \in LiveStates
        /\ "fail" \in Going /\ "commit" \in Going
    BY <1>18 DEF VerifyWork, RunUnchanged, Going, Undecided, Steps, LiveStates
  <2>2. \/ UNCHANGED rowVars /\ Goto(j, "fail")
        \/ Transition(j, Live("committing")) /\ Goto(j, "commit")
    BY <1>18, Zenon DEF VerifyWork
  <2>3. CASE UNCHANGED rowVars /\ Goto(j, "fail")
    BY <2>1, <2>3, QuietEffect DEF Effect
  <2>4. CASE Transition(j, Live("committing")) /\ Goto(j, "commit")
    BY <2>1, <2>4, LiveEffect
  <2> QED
    BY <2>2, <2>3, <2>4
<1>19. ASSUME NEW j \in Jobs, StartBackup(j) PROVE Effect(k)
  <2>1. CASE k = j
    <3>1. Begun(k)
      BY <1>19, <2>1 DEF StartBackup, Goto, FlowTypeOK, RowTypeOK, Begun, VersionSame
    <3> QED
      BY <3>1 DEF Effect
  <2>2. CASE k # j
    <3>1. Kept(k)
      BY <1>19, <2>2 DEF StartBackup, Goto, FlowTypeOK, RowTypeOK, Kept, RowsSame, VersionSame
    <3> QED
      BY <3>1 DEF Effect
  <2> QED
    BY <2>1, <2>2
<1>20. ASSUME NEW j \in Jobs, CommitJob(j) PROVE Effect(k)
  <2>1. pc[j] = "commit" /\ UNCHANGED rowVars
    BY <1>20 DEF CommitJob
  <2>2. \/ committed' = committed \cup {j} /\ Goto(j, "succeed") /\ journal' = journal
        \/ /\ committed' = committed /\ Goto(j, "quit")
           /\ journal' = journal \/ ("commit" \in Faults /\ journal' = journal \cup {j})
    BY <1>20, Zenon DEF CommitJob
  <2>3. CASE k # j
    <3>1. pc'[k] = pc[k] /\ VersionSame(k)
      BY <2>2, <2>3 DEF FlowTypeOK, Goto, VersionSame
    <3> QED
      BY <2>1, <3>1 DEF Kept, RowsSame, Effect
  <2>4. CASE k = j
    <3>1. Versioned(k)
      BY <2>1, <2>2, <2>4 DEF FlowTypeOK, Goto, Versioned, RowsSame
    <3> QED
      BY <3>1 DEF Effect
  <2> QED
    BY <2>3, <2>4
<1>21. ASSUME NEW j \in Jobs, Terminate(j) PROVE Effect(k)
  <2>1. /\ pc[j] \in {"quit", "fail"} /\ Transition(j, EndedAs(res[j])) /\ UNCHANGED storeVars
        /\ Goto(j, IF pc[j] = "fail" THEN "discard" ELSE "release") /\ res[j] \in Outcomes
    BY <1>21 DEF Terminate, RunUnchanged, FlowTypeOK
  <2>2. CASE k # j
    <3>1. RowsSame(k)
      BY <2>1, <2>2, TransitionEffect
    <3> QED
      BY <2>1, <2>2, <3>1 DEF FlowTypeOK, Goto, Kept, VersionSame, Effect
  <2>3. CASE k = j
    <3>1. Becomes(k, EndedAs(res[k])) /\ res[k] \in Outcomes
      BY <2>1, <2>3, TransitionEffect
    <3>2. pc[k] \in {"quit", "fail"} /\ pc'[k] \in {"discard", "release"} /\ VersionSame(k)
      BY <2>1, <2>3 DEF FlowTypeOK, Goto, VersionSame
    <3> QED
      BY <3>1, <3>2 DEF Ending, Effect
  <2> QED
    BY <2>2, <2>3
<1>22. ASSUME NEW j \in Jobs, Succeed(j) PROVE Effect(k)
  <2>1. /\ pc[j] = "succeed" /\ Transition(j, Succeeded) /\ UNCHANGED storeVars
        /\ Goto(j, "release")
    BY <1>22 DEF Succeed, RunUnchanged
  <2>2. CASE k # j
    <3>1. RowsSame(k)
      BY <2>1, <2>2, TransitionEffect
    <3> QED
      BY <2>1, <2>2, <3>1 DEF FlowTypeOK, Goto, Kept, VersionSame, Effect
  <2>3. CASE k = j
    <3>1. Becomes(k, Succeeded)
      BY <2>1, <2>3, TransitionEffect
    <3>2. pc[k] = "succeed" /\ pc'[k] = "release" /\ VersionSame(k)
      BY <2>1, <2>3 DEF FlowTypeOK, Goto, VersionSame
    <3> QED
      BY <3>1, <3>2 DEF Won, Effect
  <2> QED
    BY <2>2, <2>3
<1>23. ASSUME NEW j \in Jobs, LineMutate(j) \/ LineWrite(j) PROVE Effect(k)
  <2> DEFINE r == [row[j] EXCEPT !.phase = "live"]
  <2>0. row[j] \in JobRows
    BY DEF RowTypeOK
  <2>1. r.state = row[j].state /\ r.code = row[j].code
    BY <2>0 DEF JobRows
  <2>2. /\ ProgressMutate(j, "reader", r) \/ ProgressWrite(j, "reader")
        /\ UNCHANGED <<pc, storeVars>>
    BY <1>23, Zenon DEF LineMutate, LineWrite, ScannerUnchanged
  <2> HIDE DEF r
  <2>3. Touched(k) \/ Kept(k)
    BY <2>1, <2>2, ProgressEffect
  <2> QED
    BY <2>3 DEF Effect
<1>24. ASSUME NEW j \in Jobs, SamplerMutate(j) \/ SamplerWrite(j) PROVE Effect(k)
  <2> DEFINE r == [row[j] EXCEPT !.live = TRUE]
  <2>0. row[j] \in JobRows
    BY DEF RowTypeOK
  <2>1. r.state = row[j].state /\ r.code = row[j].code
    BY <2>0 DEF JobRows
  <2>2. /\ ProgressMutate(j, "sampler", r) \/ ProgressWrite(j, "sampler")
        /\ UNCHANGED <<pc, storeVars>>
    BY <1>24, Zenon DEF SamplerMutate, SamplerWrite, SamplerUnchanged
  <2> HIDE DEF r
  <2>3. Touched(k) \/ Kept(k)
    BY <2>1, <2>2, ProgressEffect
  <2> QED
    BY <2>3 DEF Effect
<1>25. ASSUME NEW j \in Jobs, Reconcile(j) PROVE Effect(k)
  <2>1. CASE k = j
    <3>1. Ruled(k)
      BY <1>25, <2>1 DEF Reconcile, Persist, Goto, FlowTypeOK, RowTypeOK, Ruled, VersionSame
    <3> QED
      BY <3>1 DEF Effect
  <2>2. CASE k # j
    <3>1. Kept(k)
      BY <1>25, <2>2 DEF Reconcile, Persist, Goto, FlowTypeOK, RowTypeOK, Kept, RowsSame, VersionSame
    <3> QED
      BY <3>1 DEF Effect
  <2> QED
    BY <2>1, <2>2
<1>26. CASE Restart
  <2>1. /\ row' = stored /\ stored' = stored /\ snap' = All(NoRow) /\ mu' = All("")
        /\ pc' = [j \in Jobs |-> IF pc[j] = "none" THEN "none"
                                 ELSE IF j \in ListNonTerminalJobs THEN "orphan" ELSE "done"]
    BY <1>26 DEF Restart
  <2>2. /\ k \in committed => k \in committed'
        /\ k \in committed' => k \in committed \/ k \in journal \/ pc[k] = "commit"
        /\ k \in journal' => k \in journal
    BY <1>26 DEF Restart
  <2>3. Rebooted(k)
    BY <2>1, <2>2 DEF All, ListNonTerminalJobs, Rebooted
  <2> QED
    BY <2>3 DEF Effect
<1>27. ASSUME NEW j \in Jobs,
            \/ Sample(j) \/ SamplerKill(j) \/ SamplerStops(j) \/ ToolLine(j) \/ ToolWrites(j)
            \/ ToolExits(j) \/ ToolKilled(j) \/ CancelFind(j) \/ CancelMark(j) \/ CancelFires(j)
       PROVE  Effect(k)
  <2>1. UNCHANGED <<pc, rowVars, storeVars>>
    BY <1>27 DEF Sample, SamplerUnchanged, SamplerKill, SamplerStops, ToolLine, ToolWrites,
        ToolExits, ToolKilled, CancelFind, CancelUnchanged, CancelMark, CancelFires
  <2> QED
    BY <2>1 DEF Kept, RowsSame, VersionSame, Effect
<1>28. CASE Shutdown \/ Serve \/ UNCHANGED vars
  <2>1. UNCHANGED <<pc, rowVars, storeVars>>
    BY <1>28 DEF Shutdown, Serve, vars
  <2> QED
    BY <2>1 DEF Kept, RowsSame, VersionSame, Effect
<1> QED
  BY <1>1, <1>2, <1>3, <1>4, <1>5, <1>6, <1>6a, <1>7, <1>8, <1>9, <1>10, <1>11, <1>12, <1>13, <1>14,
      <1>15, <1>16, <1>17, <1>18, <1>19, <1>20, <1>21, <1>22, <1>23, <1>24, <1>25, <1>26, <1>27,
      <1>28, Actions

-----------------------------------------------------------------------------
(* The verdict                                                             *)

\* The states the rows written by an ending carry.
LEMMA EndStates ==
    /\ \A s \in LiveStates : Live(s).state = s /\ Live(s).code = "" /\ ~JobIsTerminal(s)
    /\ \A o \in Outcomes : JobIsTerminal(EndedAs(o).state) /\ EndedAs(o).state # "succeeded"
    /\ Succeeded.state = "succeeded" /\ JobIsTerminal(Succeeded.state)
    /\ \A k \in Jobs : /\ JobIsTerminal(Verdict(k).state)
                       /\ Verdict(k).state = "succeeded" <=> k \in committed
    /\ NoRow.state = "none" /\ ~JobIsTerminal("none")
<1>1. \A s \in LiveStates : Live(s).state = s /\ Live(s).code = "" /\ ~JobIsTerminal(s)
  BY DEF Live, LiveStates, JobIsTerminal, TerminalStates
<1>2. \A o \in Outcomes : JobIsTerminal(EndedAs(o).state) /\ EndedAs(o).state # "succeeded"
  BY DEF EndedAs, Ended, Outcomes, JobIsTerminal, TerminalStates
<1>3. Succeeded.state = "succeeded" /\ JobIsTerminal(Succeeded.state)
  BY DEF Succeeded, JobIsTerminal, TerminalStates
<1>4. \A k \in Jobs : /\ JobIsTerminal(Verdict(k).state)
                      /\ Verdict(k).state = "succeeded" <=> k \in committed
  BY <1>3 DEF Verdict, Ended, JobIsTerminal, TerminalStates
<1>5. NoRow.state = "none" /\ ~JobIsTerminal("none")
  BY DEF NoRow, JobIsTerminal, TerminalStates
<1> QED
  BY <1>1, <1>2, <1>3, <1>4, <1>5

\* Which steps come before the verdict.
LEMMA Stages ==
    /\ Going \subseteq Undecided /\ "queued" \in Going /\ "commit" \in Going
    /\ "quit" \in Going /\ "fail" \in Going
    /\ "none" \in Undecided /\ "succeed" \in Undecided /\ "succeed" \notin Going
    /\ \A s \in {"discard", "release", "done", "orphan"} : s \notin Undecided
    /\ "orphan" \notin Going /\ "none" \notin Going /\ "none" \notin {"discard", "release", "done", "orphan"}
  BY DEF Going, Undecided, Steps

\* The states of a job's three copies of its row.
LEMMA RowsOf ==
    ASSUME RowTypeOK, NEW k \in Jobs
    PROVE  \A r \in {row[k], stored[k], snap[k]} :
              r.state \in LiveStates \cup TerminalStates \cup {"none"}
  BY DEF RowTypeOK, JobRows

\* Nobody touches the row of a job that has not started, or that waits for
\* the verdict of the start-up: without a child no scanner and no sampler runs.
DormantAt(j) == pc[j] \in {"none", "orphan"} => mu[j] = "" /\ reader[j] = "scan" /\ smp[j] = "off"
Dormant == \A j \in Jobs : DormantAt(j)

\* A step of run, or one that starts or judges a job, wakes no dormant job.
LEMMA DormantMove ==
    ASSUME Typed, Dormant, NEW j \in Jobs, NEW step \in Steps \ {"none", "orphan"}, Goto(j, step),
           UNCHANGED <<mu, reader>>, UNCHANGED smp \/ SamplerStarts(j)
    PROVE  Dormant'
<1> SUFFICES ASSUME NEW k \in Jobs PROVE DormantAt(k)'
  BY DEF Dormant
<1>1. DormantAt(k) /\ pc \in [Jobs -> Steps] /\ smp \in [Jobs -> {"off", "tick", "sampled", "doomed", "killing"}]
  BY DEF Dormant, Typed, FlowTypeOK, ClockTypeOK
<1>2. CASE k = j
  BY <1>1, <1>2 DEF DormantAt, Goto
<1>3. CASE k # j
  BY <1>1, <1>3 DEF DormantAt, Goto, SamplerStarts
<1> QED
  BY <1>2, <1>3

\* Neither does a step of another goroutine of a job that runs.
LEMMA DormantBeside ==
    ASSUME Typed, Dormant, NEW j \in Jobs, pc[j] \notin {"none", "orphan"}, UNCHANGED pc,
           \A k \in Jobs \ {j} : mu'[k] = mu[k] /\ reader'[k] = reader[k] /\ smp'[k] = smp[k]
    PROVE  Dormant'
  BY DEF Dormant, DormantAt

\* Every step keeps Dormant.
LEMMA DormantStep == Typed /\ Owned /\ Dormant /\ [Next]_vars => Dormant'
<1> SUFFICES ASSUME Typed, Owned, Dormant, [Next]_vars PROVE Dormant'
  OBVIOUS
<1>1. ASSUME NEW j \in Jobs, StartBackup(j) PROVE Dormant'
  <2>1. Goto(j, "queued")
    BY <1>1, Zenon DEF StartBackup
  <2>2. UNCHANGED <<mu, reader>> /\ (UNCHANGED smp)
    BY <1>1 DEF StartBackup
  <2> QED
    BY <2>1, <2>2, DormantMove DEF Steps
<1>2. ASSUME NEW j \in Jobs, EnterWait(j) PROVE Dormant'
  <2>1. Goto(j, "await")
    BY <1>2, Zenon DEF EnterWait
  <2>2. UNCHANGED <<mu, reader>> /\ (UNCHANGED smp)
    BY <1>2 DEF EnterWait, RunUnchanged, Transition
  <2> QED
    BY <2>1, <2>2, DormantMove DEF Steps
<1>3. ASSUME NEW j \in Jobs, DeviceSeen(j) PROVE Dormant'
  <2>1. Goto(j, "preflight")
    BY <1>3, Zenon DEF DeviceSeen
  <2>2. UNCHANGED <<mu, reader>> /\ (UNCHANGED smp)
    BY <1>3 DEF DeviceSeen, RunUnchanged, Transition
  <2> QED
    BY <2>1, <2>2, DormantMove DEF Steps
<1>4. ASSUME NEW j \in Jobs, AwaitFails(j) PROVE Dormant'
  <2>1. Goto(j, "quit") \/ Goto(j, "quitAsked")
    BY <1>4, Zenon DEF AwaitFails, KillReason
  <2>2. UNCHANGED <<mu, reader>> /\ (UNCHANGED smp)
    BY <1>4 DEF AwaitFails, RunUnchanged
  <2> QED
    BY <2>1, <2>2, DormantMove DEF Steps
<1>4a. ASSUME NEW j \in Jobs, KillContext(j) PROVE Dormant'
  <2>1. Goto(j, "quit") \/ Goto(j, "ok") \/ Goto(j, "fail")
    BY <1>4a, Zenon DEF KillContext
  <2>2. UNCHANGED <<mu, reader>> /\ (UNCHANGED smp)
    BY <1>4a DEF KillContext, RunUnchanged
  <2> QED
    BY <2>1, <2>2, DormantMove DEF Steps
<1>5. ASSUME NEW j \in Jobs, PreflightRefuses(j) PROVE Dormant'
  <2>1. Goto(j, "quit")
    BY <1>5, Zenon DEF PreflightRefuses
  <2>2. UNCHANGED <<mu, reader>> /\ (UNCHANGED smp)
    BY <1>5 DEF PreflightRefuses, RunUnchanged
  <2> QED
    BY <2>1, <2>2, DormantMove DEF Steps
<1>6. ASSUME NEW j \in Jobs, EnterSeeding(j) PROVE Dormant'
  <2>1. Goto(j, "prepare")
    BY <1>6, Zenon DEF EnterSeeding
  <2>2. UNCHANGED <<mu, reader>> /\ (UNCHANGED smp)
    BY <1>6 DEF EnterSeeding, RunUnchanged, Transition
  <2> QED
    BY <2>1, <2>2, DormantMove DEF Steps
<1>7. ASSUME NEW j \in Jobs, PrepareWork(j) PROVE Dormant'
  <2>1. Goto(j, "quit") \/ Goto(j, "gated") \/ Goto(j, "start")
    BY <1>7, Zenon DEF PrepareWork
  <2>2. UNCHANGED <<mu, reader>> /\ (UNCHANGED smp)
    BY <1>7 DEF PrepareWork, RunUnchanged, Transition
  <2> QED
    BY <2>1, <2>2, DormantMove DEF Steps
<1>8. ASSUME NEW j \in Jobs, StartFails(j) PROVE Dormant'
  <2>1. Goto(j, "fail") \/ Goto(j, "failAsked")
    BY <1>8, Zenon DEF StartFails, StartFailure, KillReason
  <2>2. UNCHANGED <<mu, reader>> /\ (UNCHANGED smp)
    BY <1>8 DEF StartFails
  <2> QED
    BY <2>1, <2>2, DormantMove DEF Steps
<1>9. ASSUME NEW j \in Jobs, StartTool(j) PROVE Dormant'
  <2>1. Goto(j, "info") \/ Goto(j, "loop")
    BY <1>9, Zenon DEF StartTool
  <2>2. UNCHANGED <<mu, reader>> /\ (UNCHANGED smp \/ SamplerStarts(j))
    BY <1>9 DEF StartTool
  <2> QED
    BY <2>1, <2>2, DormantMove DEF Steps
<1>10. ASSUME NEW j \in Jobs, AwaitInfoPlist(j) PROVE Dormant'
  <2>1. Goto(j, "seed") \/ Goto(j, "loop")
    BY <1>10, Zenon DEF AwaitInfoPlist
  <2>2. UNCHANGED <<mu, reader>> /\ (UNCHANGED smp \/ SamplerStarts(j))
    BY <1>10 DEF AwaitInfoPlist
  <2> QED
    BY <2>1, <2>2, DormantMove DEF Steps
<1>11. ASSUME NEW j \in Jobs, SeedWork(j) PROVE Dormant'
  <2>1. Goto(j, "narrate") \/ Goto(j, "abort")
    BY <1>11, Zenon DEF SeedWork
  <2>2. UNCHANGED <<mu, reader>> /\ (UNCHANGED smp)
    BY <1>11 DEF SeedWork
  <2> QED
    BY <2>1, <2>2, DormantMove DEF Steps
<1>12. ASSUME NEW j \in Jobs, Abort(j) PROVE Dormant'
  <2>1. Goto(j, "quit")
    BY <1>12, Zenon DEF Abort
  <2>2. UNCHANGED <<mu, reader>> /\ (UNCHANGED smp)
    BY <1>12 DEF Abort, RunUnchanged
  <2> QED
    BY <2>1, <2>2, DormantMove DEF Steps
<1>13. ASSUME NEW j \in Jobs, Narrate(j) PROVE Dormant'
  <2>1. Goto(j, "loop")
    BY <1>13, Zenon DEF Narrate
  <2>2. UNCHANGED <<mu, reader>> /\ (UNCHANGED smp \/ SamplerStarts(j))
    BY <1>13 DEF Narrate, Transition
  <2> QED
    BY <2>1, <2>2, DormantMove DEF Steps
<1>14. ASSUME NEW j \in Jobs, Drain(j) PROVE Dormant'
  <2>1. Goto(j, "drained")
    BY <1>14, Zenon DEF Drain
  <2>2. UNCHANGED <<mu, reader>> /\ (UNCHANGED smp)
    BY <1>14 DEF Drain, RunUnchanged
  <2> QED
    BY <2>1, <2>2, DormantMove DEF Steps
<1>15. ASSUME NEW j \in Jobs, Reap(j) PROVE Dormant'
  <2>1. Goto(j, "fail") \/ Goto(j, "failAsked")
    BY <1>15, Zenon DEF Reap, KillReason
  <2>2. UNCHANGED <<mu, reader>> /\ (UNCHANGED smp)
    BY <1>15 DEF Reap
  <2> QED
    BY <2>1, <2>2, DormantMove DEF Steps
<1>16. ASSUME NEW j \in Jobs, EnterVerifying(j) PROVE Dormant'
  <2>1. Goto(j, "verify")
    BY <1>16, Zenon DEF EnterVerifying
  <2>2. UNCHANGED <<mu, reader>> /\ (UNCHANGED smp)
    BY <1>16 DEF EnterVerifying, RunUnchanged, Transition
  <2> QED
    BY <2>1, <2>2, DormantMove DEF Steps
<1>17. ASSUME NEW j \in Jobs, VerifyWork(j) PROVE Dormant'
  <2>1. Goto(j, "fail") \/ Goto(j, "commit")
    BY <1>17, Zenon DEF VerifyWork
  <2>2. UNCHANGED <<mu, reader>> /\ (UNCHANGED smp)
    BY <1>17 DEF VerifyWork, RunUnchanged, Transition
  <2> QED
    BY <2>1, <2>2, DormantMove DEF Steps
<1>18. ASSUME NEW j \in Jobs, CommitJob(j) PROVE Dormant'
  <2>1. Goto(j, "succeed") \/ Goto(j, "quit")
    BY <1>18, Zenon DEF CommitJob
  <2>2. UNCHANGED <<mu, reader>> /\ (UNCHANGED smp)
    BY <1>18 DEF CommitJob
  <2> QED
    BY <2>1, <2>2, DormantMove DEF Steps
<1>19. ASSUME NEW j \in Jobs, Terminate(j) PROVE Dormant'
  <2>1. Goto(j, "discard") \/ Goto(j, "release")
    BY <1>19, Zenon DEF Terminate
  <2>2. UNCHANGED <<mu, reader>> /\ (UNCHANGED smp)
    BY <1>19 DEF Terminate, RunUnchanged, Transition
  <2> QED
    BY <2>1, <2>2, DormantMove DEF Steps
<1>20. ASSUME NEW j \in Jobs, Succeed(j) PROVE Dormant'
  <2>1. Goto(j, "release")
    BY <1>20, Zenon DEF Succeed
  <2>2. UNCHANGED <<mu, reader>> /\ (UNCHANGED smp)
    BY <1>20 DEF Succeed, RunUnchanged, Transition
  <2> QED
    BY <2>1, <2>2, DormantMove DEF Steps
<1>21. ASSUME NEW j \in Jobs, Discard(j) PROVE Dormant'
  <2>1. Goto(j, "release")
    BY <1>21, Zenon DEF Discard
  <2>2. UNCHANGED <<mu, reader>> /\ (UNCHANGED smp)
    BY <1>21 DEF Discard, RunUnchanged
  <2> QED
    BY <2>1, <2>2, DormantMove DEF Steps
<1>22. ASSUME NEW j \in Jobs, Release(j) PROVE Dormant'
  <2>1. Goto(j, "done")
    BY <1>22, Zenon DEF Release
  <2>2. UNCHANGED <<mu, reader>> /\ (UNCHANGED smp)
    BY <1>22 DEF Release
  <2> QED
    BY <2>1, <2>2, DormantMove DEF Steps
<1>23. ASSUME NEW j \in Jobs, Reconcile(j) PROVE Dormant'
  <2>1. Goto(j, "done")
    BY <1>23, Zenon DEF Reconcile
  <2>2. UNCHANGED <<mu, reader>> /\ (UNCHANGED smp)
    BY <1>23 DEF Reconcile
  <2> QED
    BY <2>1, <2>2, DormantMove DEF Steps
<1>24. ASSUME NEW j \in Jobs, LineMutate(j) \/ LineWrite(j) PROVE Dormant'
  <2>1. pc[j] \notin {"none", "orphan"} /\ UNCHANGED pc
    BY <1>24 DEF LineMutate, LineWrite, ScannerUnchanged, Dormant, DormantAt
  <2>2. \A k \in Jobs \ {j} : mu'[k] = mu[k] /\ reader'[k] = reader[k] /\ smp'[k] = smp[k]
    BY <1>24 DEF LineMutate, LineWrite, ScannerUnchanged, ProgressMutate, ProgressWrite, Typed, RowTypeOK,
        ChildTypeOK, ClockTypeOK
  <2> QED
    BY <2>1, <2>2, DormantBeside
<1>25. ASSUME NEW j \in Jobs, SamplerMutate(j) \/ SamplerWrite(j) PROVE Dormant'
  <2>1. pc[j] \notin {"none", "orphan"} /\ UNCHANGED pc
    BY <1>25 DEF SamplerMutate, SamplerWrite, SamplerUnchanged, Dormant, DormantAt
  <2>2. \A k \in Jobs \ {j} : mu'[k] = mu[k] /\ reader'[k] = reader[k] /\ smp'[k] = smp[k]
    BY <1>25 DEF SamplerMutate, SamplerWrite, SamplerUnchanged, ProgressMutate, ProgressWrite, Typed, RowTypeOK,
        ChildTypeOK, ClockTypeOK
  <2> QED
    BY <2>1, <2>2, DormantBeside
<1>26. ASSUME NEW j \in Jobs, Sample(j) \/ SamplerKill(j) \/ SamplerStops(j) PROVE Dormant'
  <2>1. pc[j] \notin {"none", "orphan"} /\ UNCHANGED <<pc, mu, reader>>
    BY <1>26 DEF Sample, SamplerKill, SamplerStops, SamplerUnchanged, Dormant, DormantAt
  <2>2. \A k \in Jobs \ {j} : smp'[k] = smp[k]
    BY <1>26 DEF Sample, SamplerKill, SamplerStops, Typed, ClockTypeOK
  <2> QED
    BY <2>1, <2>2, DormantBeside
<1>27. ASSUME NEW j \in Jobs, ToolLine(j) PROVE Dormant'
  <2>1. pc[j] \notin {"none", "orphan"} /\ UNCHANGED <<pc, mu, smp>>
    BY <1>27 DEF ToolLine, Owned
  <2>2. \A k \in Jobs \ {j} : reader'[k] = reader[k]
    BY <1>27 DEF ToolLine, Typed, ChildTypeOK
  <2> QED
    BY <2>1, <2>2, DormantBeside
<1>28. ASSUME NEW j \in Jobs,
            \/ ToolWrites(j) \/ ToolExits(j) \/ ToolKilled(j)
            \/ CancelFind(j) \/ CancelMark(j) \/ CancelFires(j)
       PROVE  Dormant'
  <2>1. UNCHANGED <<pc, mu, reader, smp>>
    BY <1>28 DEF ToolWrites, ToolExits, ToolKilled, CancelFind, CancelUnchanged, CancelMark, CancelFires
  <2> QED
    BY <2>1 DEF Dormant, DormantAt
<1>29. CASE Shutdown \/ Serve \/ UNCHANGED vars
  <2>1. UNCHANGED <<pc, mu, reader, smp>>
    BY <1>29 DEF Shutdown, Serve, vars
  <2> QED
    BY <2>1 DEF Dormant, DormantAt
<1>30. CASE Restart
  BY <1>30 DEF Restart, All, Dormant, DormantAt
<1> QED
  BY <1>1, <1>2, <1>3, <1>4, <1>4a, <1>5, <1>6, <1>7, <1>8, <1>9, <1>10, <1>11, <1>12, <1>13, <1>14,
      <1>15, <1>16, <1>17, <1>18, <1>19, <1>20, <1>21, <1>22, <1>23, <1>24, <1>25, <1>26, <1>27,
      <1>28, <1>29, <1>30, Actions

\* Nobody ever holds the lock of a job that has not begun or is orphaned.
LEMMA AlwaysDormant == Spec => []Dormant
<1>1. Init => Dormant
  BY DEF Init, All, Dormant, DormantAt
<1> QED
  BY <1>1, AlwaysTyped, AlwaysOwned, DormantStep, PTL DEF Spec

\* Every effect keeps a decided job's verdict.
LEMMA DecidedStep ==
    ASSUME Typed, NEW k \in Jobs, DecidedAt(k), Effect(k),
           pc[k] \in {"none", "orphan"} => mu[k] = ""
    PROVE  DecidedAt(k)'
<1>t. mu[k] \in {"", "sampler", "reader"}
  BY DEF Typed, RowTypeOK
<1> USE DEF DecidedAt
<1>1. CASE Kept(k)
  BY <1>1 DEF Kept, RowsSame
<1>2. CASE Begun(k)
  BY <1>2, EndStates, Stages DEF Begun, LiveStates
<1>3. CASE Advanced(k)
  <2>1. pc[k] \in Undecided /\ pc'[k] \in Undecided /\ pc'[k] # "orphan"
    BY <1>3, Stages DEF Advanced
  <2>2. CASE RowsSame(k)
    BY <2>1, <2>2 DEF RowsSame
  <2>3. ASSUME NEW s \in LiveStates, Becomes(k, Live(s)) PROVE DecidedAt(k)'
    <3>1. ~JobIsTerminal(Live(s).state)
      BY EndStates
    <3>2. /\ ~JobIsTerminal(stored[k].state) /\ ~JobIsTerminal(snap[k].state)
          /\ row'[k] = Live(s) /\ stored'[k] \in {Live(s), stored[k]} /\ snap'[k] = snap[k] /\ mu'[k] = ""
      BY <2>1, <2>3 DEF Becomes
    <3>3. /\ ~JobIsTerminal(row'[k].state) /\ ~JobIsTerminal(stored'[k].state)
          /\ ~JobIsTerminal(snap'[k].state)
      BY <3>1, <3>2
    <3> QED
      BY <2>1, <3>2, <3>3
  <2> QED
    BY <1>3, <2>2, <2>3 DEF Advanced
<1>4. CASE Ending(k)
  BY <1>4, EndStates, Stages DEF Ending, Becomes
<1>5. CASE Left(k)
  BY <1>5, Stages DEF Left, RowsSame
<1>6. CASE Touched(k)
  BY <1>6, <1>t, EndStates DEF Touched
<1>7. CASE Versioned(k)
  BY <1>7, Stages DEF Versioned, RowsSame
<1>8. CASE Won(k)
  BY <1>8, EndStates, Stages DEF Won, Becomes
<1>9. CASE Ruled(k)
  BY <1>9, EndStates, Stages DEF Ruled
<1>10. CASE Rebooted(k)
  BY <1>10, EndStates, Stages DEF Rebooted
<1> QED
  BY <1>1, <1>2, <1>3, <1>4, <1>5, <1>6, <1>7, <1>8, <1>9, <1>10 DEF Effect

\* No row is ever terminal before its job decides.
LEMMA AlwaysDecided == Spec => []Decided
<1>1. Init => Decided
  <2>1. ASSUME Init, NEW k \in Jobs
        PROVE  row[k] = NoRow /\ stored[k] = NoRow /\ snap[k] = NoRow /\ mu[k] = ""
    BY <2>1 DEF Init, All
  <2> QED
    BY <2>1, EndStates DEF Decided, DecidedAt
<1>2. Typed /\ Dormant /\ Decided /\ [Next]_vars => Decided'
  BY Effects, DecidedStep DEF Decided, Dormant, DormantAt
<1> QED
  BY <1>1, <1>2, AlwaysTyped, AlwaysDormant, PTL DEF Spec

\* A terminal row in the database is never revised, whatever writes race,
\* fail or are repeated.
THEOREM VerdictsAreFinal == Spec => TerminalFinal
<1>1. ASSUME Typed, Decided, [Next]_vars
      PROVE  [\A j \in Jobs : JobIsTerminal(stored[j].state) =>
                 stored'[j].state = stored[j].state /\ stored'[j].code = stored[j].code]_vars
  <2> SUFFICES ASSUME NEW k \in Jobs, JobIsTerminal(stored[k].state)
               PROVE  stored'[k].state = stored[k].state /\ stored'[k].code = stored[k].code
    OBVIOUS
  <2>1. Effect(k) /\ DecidedAt(k)
    BY <1>1, Effects DEF Decided
  <2>2. pc[k] \notin Undecided /\ pc[k] # "orphan"
    BY <2>1 DEF DecidedAt
  <2>3. mu[k] # "" => snap[k].state = stored[k].state /\ snap[k].code = stored[k].code
    BY <2>1 DEF DecidedAt
  <2> QED
    BY <2>1, <2>2, <2>3, Stages DEF Effect, Kept, RowsSame, Begun, Advanced, Ending, Left, Touched,
        Versioned, Won, Ruled, Rebooted
<1> QED
  BY <1>1, AlwaysTyped, AlwaysDecided, PTL DEF Spec, TerminalFinal

\* Every effect keeps a version with the job about to be declared successful.
LEMMA JudgedStep ==
    ASSUME "commit" \notin Faults, Typed, NEW k \in Jobs, DecidedAt(k), JudgedAt(k), Effect(k)
    PROVE  JudgedAt(k)'
<1> USE DEF JudgedAt
<1>1. CASE Kept(k)
  BY <1>1 DEF Kept, RowsSame, VersionSame
<1>2. CASE Begun(k)
  BY <1>2, EndStates, Stages DEF Begun, VersionSame, LiveStates
<1>3. CASE Advanced(k)
  BY <1>3, EndStates, Stages DEF Advanced, RowsSame, Becomes, VersionSame
<1>4. CASE Ending(k)
  BY <1>4, EndStates, Stages DEF Ending, Becomes, VersionSame
<1>5. CASE Left(k)
  BY <1>5, Stages DEF Left, RowsSame, VersionSame
<1>6. CASE Touched(k)
  BY <1>6 DEF Touched, VersionSame
<1>7. CASE Versioned(k)
  BY <1>7, Stages DEF Versioned, RowsSame, DecidedAt
<1>8. CASE Won(k)
  BY <1>8, EndStates, Stages DEF Won, Becomes, VersionSame
<1>9. CASE Ruled(k)
  BY <1>9, EndStates, Stages DEF Ruled, VersionSame
<1>10. CASE Rebooted(k)
  BY <1>10, Stages DEF Rebooted, DecidedAt
<1> QED
  BY <1>1, <1>2, <1>3, <1>4, <1>5, <1>6, <1>7, <1>8, <1>9, <1>10 DEF Effect

\* A job is reported succeeded exactly when its version is registered, as long
\* as a failing commit leaves no journal behind.
THEOREM VerdictsAreTrue == ASSUME "commit" \notin Faults PROVE Spec => []VerdictTrue
<1>1. Init => Judged
  <2>1. ASSUME Init, NEW k \in Jobs
        PROVE  row[k] = NoRow /\ pc[k] = "none" /\ k \notin committed /\ k \notin journal
    BY <2>1 DEF Init, All
  <2> QED
    BY <2>1, EndStates DEF Judged, JudgedAt
<1>2. Typed /\ Decided /\ Judged /\ [Next]_vars => Judged'
  BY Effects, JudgedStep DEF Decided, Judged
<1>3. Decided /\ Judged => VerdictTrue
  BY DEF Decided, DecidedAt, Judged, JudgedAt, VerdictTrue
<1> QED
  BY <1>1, <1>2, <1>3, AlwaysTyped, AlwaysDecided, PTL DEF Spec

\* Every effect keeps the database ahead of the decision.
LEMMA SettledStep ==
    ASSUME "store" \notin Faults, Typed, NEW k \in Jobs, DecidedAt(k), SettledAt(k), Effect(k)
    PROVE  SettledAt(k)'
<1>t. mu[k] \in {"", "sampler", "reader"}
  BY DEF Typed, RowTypeOK
<1>n. \A s \in LiveStates : s # "none"
  BY DEF LiveStates
<1>m. \A s : JobIsTerminal(s) => s # "none"
  BY DEF JobIsTerminal, TerminalStates
<1> USE DEF SettledAt
<1>1. CASE Kept(k)
  BY <1>1 DEF Kept, RowsSame
<1>2. CASE Begun(k)
  BY <1>2, EndStates DEF Begun, LiveStates
<1>3. CASE Advanced(k)
  BY <1>3, <1>n, EndStates, Stages DEF Advanced, RowsSame, Becomes
<1>4. CASE Ending(k)
  BY <1>4, <1>m, EndStates DEF Ending, Becomes
<1>5. CASE Left(k)
  BY <1>5, Stages DEF Left, RowsSame
<1>6. CASE Touched(k)
  BY <1>6, <1>t, <1>m DEF Touched, DecidedAt
<1>7. CASE Versioned(k)
  BY <1>7 DEF Versioned, RowsSame
<1>8. CASE Won(k)
  BY <1>8, <1>m, EndStates DEF Won, Becomes
<1>9. CASE Ruled(k)
  BY <1>9, <1>m, EndStates DEF Ruled
<1>10. CASE Rebooted(k)
  <2>1. stored[k].state \in LiveStates \cup TerminalStates \cup {"none"}
    BY RowsOf DEF Typed
  <2> QED
    BY <1>10, <2>1 DEF Rebooted, JobIsTerminal
<1> QED
  BY <1>1, <1>2, <1>3, <1>4, <1>5, <1>6, <1>7, <1>8, <1>9, <1>10 DEF Effect

\* When the engine lets a job go the database holds its verdict, as long as no
\* database write fails.
THEOREM RowsSettle == ASSUME "store" \notin Faults PROVE Spec => []StoredSettled
<1>1. Init => Settled
  <2>1. ASSUME Init, NEW k \in Jobs PROVE pc[k] = "none"
    BY <2>1 DEF Init, All
  <2> QED
    BY <2>1 DEF Settled, SettledAt
<1>2. Typed /\ Decided /\ Settled /\ [Next]_vars => Settled'
  BY Effects, SettledStep DEF Decided, Settled
<1>3. Decided /\ Settled => StoredSettled
  BY DEF Decided, DecidedAt, Settled, SettledAt, StoredSettled
<1> QED
  BY <1>1, <1>2, <1>3, AlwaysTyped, AlwaysDecided, PTL DEF Spec

-----------------------------------------------------------------------------
(* The reason on the row                                                   *)

\* Restarts are counted in Nat.
LEMMA Counted == ASSUME Typed PROVE restarts \in Nat
<1>1. restarts \in 0..MaxRestarts
  BY DEF Typed, FlowTypeOK
<1>2. MaxRestarts \in Nat
  BY EngineAssumption
<1> QED
  BY <1>1, <1>2

\* A restart is counted.
LEMMA RestartCounts == ASSUME Typed, Restart PROVE restarts' > 0
<1>1. restarts \in Nat /\ restarts' = restarts + 1
  BY Counted DEF Restart
<1> QED
  BY <1>1

\* Every step keeps each kill with its cause.
LEMMA CausedStep ==
    ASSUME Typed, Owned, NEW k \in Jobs, CausedAt(k), boot => restarts > 0, [Next]_vars
    PROVE  CausedAt(k)'
<1>t. /\ pc \in [Jobs -> Steps] /\ res \in [Jobs -> Outcomes] /\ kill \in [Jobs -> {"", "cancel", "timeout"}]
      /\ tool \in [Jobs -> {"none", "unstarted", "gated", "run", "ok", "err", "killed"}]
      /\ ctx \in [Jobs -> BOOLEAN] /\ runCtx \in [Jobs -> BOOLEAN]
      /\ cancel \in [Jobs -> {"idle", "found", "marked"}]
  BY DEF Typed, ChildTypeOK, FlowTypeOK
<1>r. restarts \in Nat
  BY Counted
<1>a. Alive(k) => pc[k] \in {"info", "seed", "narrate", "abort", "loop"}
  BY DEF Owned
<1> USE <1>t, <1>r, <1>a DEF Steps, AtRest, Alive, CausedAt, Quitting, BeforeTool, WithTool,
       Interrupted, Asked, Overtaken
<1>1. ASSUME NEW j \in Jobs, StartBackup(j) PROVE CausedAt(k)'
  BY <1>1 DEF StartBackup, Goto
<1>2. ASSUME NEW j \in Jobs, EnterWait(j) PROVE CausedAt(k)'
  BY <1>2 DEF EnterWait, Goto, RunUnchanged
<1>3. ASSUME NEW j \in Jobs, DeviceSeen(j) PROVE CausedAt(k)'
  BY <1>3 DEF DeviceSeen, Goto, RunUnchanged
<1>4. ASSUME NEW j \in Jobs, AwaitFails(j) PROVE CausedAt(k)'
  BY <1>4 DEF AwaitFails, KillReason, Goto, Decide, RunUnchanged
<1>4a. ASSUME NEW j \in Jobs, KillContext(j) PROVE CausedAt(k)'
  BY <1>4a DEF KillContext, Goto, Decide, RunUnchanged
<1>5. ASSUME NEW j \in Jobs, PreflightRefuses(j) PROVE CausedAt(k)'
  <2>1. CASE k = j
    BY <1>5, <2>1 DEF PreflightRefuses, Goto, Decide, RunUnchanged
  <2>2. CASE k # j
    BY <1>5, <2>2 DEF PreflightRefuses, Goto, Decide, RunUnchanged
  <2> QED
    BY <2>1, <2>2
<1>6. ASSUME NEW j \in Jobs, EnterSeeding(j) PROVE CausedAt(k)'
  BY <1>6 DEF EnterSeeding, Goto, RunUnchanged
<1>7. ASSUME NEW j \in Jobs, PrepareWork(j) PROVE CausedAt(k)'
  <2>1. CASE k = j
    BY <1>7, <2>1 DEF PrepareWork, Goto, Decide, RunUnchanged
  <2>2. CASE k # j
    BY <1>7, <2>2 DEF PrepareWork, Goto, Decide, RunUnchanged
  <2> QED
    BY <2>1, <2>2
<1>8. ASSUME NEW j \in Jobs, StartFails(j) PROVE CausedAt(k)'
  <2>1. CASE k = j
    BY <1>8, <2>1 DEF StartFails, Goto, Decide, StartFailure, KillReason
  <2>2. CASE k # j
    BY <1>8, <2>2 DEF StartFails, Goto, Decide, StartFailure, KillReason
  <2> QED
    BY <2>1, <2>2
<1>9. ASSUME NEW j \in Jobs, StartTool(j) PROVE CausedAt(k)'
  <2>1. CASE k = j
    BY <1>9, <2>1 DEF StartTool, Goto
  <2>2. CASE k # j
    BY <1>9, <2>2 DEF StartTool, Goto
  <2> QED
    BY <2>1, <2>2
<1>10. ASSUME NEW j \in Jobs, AwaitInfoPlist(j) PROVE CausedAt(k)'
  <2>1. CASE k = j
    BY <1>10, <2>1 DEF AwaitInfoPlist, Goto
  <2>2. CASE k # j
    BY <1>10, <2>2 DEF AwaitInfoPlist, Goto
  <2> QED
    BY <2>1, <2>2
<1>11. ASSUME NEW j \in Jobs, SeedWork(j) PROVE CausedAt(k)'
  <2>1. CASE k = j
    BY <1>11, <2>1 DEF SeedWork, Goto
  <2>2. CASE k # j
    BY <1>11, <2>2 DEF SeedWork, Goto
  <2> QED
    BY <2>1, <2>2
<1>12. ASSUME NEW j \in Jobs, Abort(j) PROVE CausedAt(k)'
  BY <1>12 DEF Abort, Goto, Decide, RunUnchanged, ReadersDone
<1>13. ASSUME NEW j \in Jobs, Narrate(j) PROVE CausedAt(k)'
  <2>1. CASE k = j
    BY <1>13, <2>1 DEF Narrate, Goto
  <2>2. CASE k # j
    BY <1>13, <2>2 DEF Narrate, Goto
  <2> QED
    BY <2>1, <2>2
<1>14. ASSUME NEW j \in Jobs, Drain(j) PROVE CausedAt(k)'
  BY <1>14 DEF Drain, Goto, RunUnchanged, ReadersDone
<1>15. ASSUME NEW j \in Jobs, Reap(j) PROVE CausedAt(k)'
  <2>1. CASE k = j
    BY <1>15, <2>1 DEF Reap, Goto, Decide, KillReason
  <2>2. CASE k # j
    BY <1>15, <2>2 DEF Reap, Goto, Decide, KillReason
  <2> QED
    BY <2>1, <2>2
<1>16. ASSUME NEW j \in Jobs, EnterVerifying(j) PROVE CausedAt(k)'
  BY <1>16 DEF EnterVerifying, Goto, RunUnchanged
<1>17. ASSUME NEW j \in Jobs, VerifyWork(j) PROVE CausedAt(k)'
  <2>1. CASE k = j
    BY <1>17, <2>1 DEF VerifyWork, Goto, Decide, RunUnchanged
  <2>2. CASE k # j
    BY <1>17, <2>2 DEF VerifyWork, Goto, Decide, RunUnchanged
  <2> QED
    BY <2>1, <2>2
<1>18. ASSUME NEW j \in Jobs, CommitJob(j) PROVE CausedAt(k)'
  <2>1. CASE k = j
    BY <1>18, <2>1 DEF CommitJob, Goto, Decide
  <2>2. CASE k # j
    BY <1>18, <2>2 DEF CommitJob, Goto, Decide
  <2> QED
    BY <2>1, <2>2
<1>19. ASSUME NEW j \in Jobs, Terminate(j) PROVE CausedAt(k)'
  <2>1. CASE k = j
    BY <1>19, <2>1 DEF Terminate, Goto, RunUnchanged
  <2>2. CASE k # j
    BY <1>19, <2>2 DEF Terminate, Goto, RunUnchanged
  <2> QED
    BY <2>1, <2>2
<1>20. ASSUME NEW j \in Jobs, Succeed(j) PROVE CausedAt(k)'
  BY <1>20 DEF Succeed, Goto, RunUnchanged
<1>21. ASSUME NEW j \in Jobs, Discard(j) PROVE CausedAt(k)'
  BY <1>21 DEF Discard, Goto, RunUnchanged
<1>22. ASSUME NEW j \in Jobs, Release(j) PROVE CausedAt(k)'
  BY <1>22 DEF Release, Goto, LocalsDropped
<1>23. ASSUME NEW j \in Jobs, LineMutate(j) PROVE CausedAt(k)'
  BY <1>23 DEF LineMutate, ScannerUnchanged
<1>24. ASSUME NEW j \in Jobs, LineWrite(j) PROVE CausedAt(k)'
  BY <1>24 DEF LineWrite, ScannerUnchanged
<1>25. ASSUME NEW j \in Jobs, Sample(j) PROVE CausedAt(k)'
  BY <1>25 DEF Sample, SamplerUnchanged
<1>26. ASSUME NEW j \in Jobs, SamplerMutate(j) PROVE CausedAt(k)'
  BY <1>26 DEF SamplerMutate, SamplerUnchanged
<1>27. ASSUME NEW j \in Jobs, SamplerWrite(j) PROVE CausedAt(k)'
  BY <1>27 DEF SamplerWrite, SamplerUnchanged
<1>28. ASSUME NEW j \in Jobs, SamplerKill(j) PROVE CausedAt(k)'
  BY <1>28 DEF SamplerKill, SamplerUnchanged
<1>29. ASSUME NEW j \in Jobs, SamplerStops(j) PROVE CausedAt(k)'
  BY <1>29 DEF SamplerStops, SamplerUnchanged
<1>30. ASSUME NEW j \in Jobs, ToolLine(j) PROVE CausedAt(k)'
  BY <1>30 DEF ToolLine
<1>31. ASSUME NEW j \in Jobs, ToolWrites(j) PROVE CausedAt(k)'
  BY <1>31 DEF ToolWrites
<1>32. ASSUME NEW j \in Jobs, ToolExits(j) PROVE CausedAt(k)'
  BY <1>32 DEF ToolExits
<1>33. ASSUME NEW j \in Jobs, ToolKilled(j) PROVE CausedAt(k)'
  BY <1>33 DEF ToolKilled
<1>34. ASSUME NEW j \in Jobs, CancelFind(j) PROVE CausedAt(k)'
  BY <1>34 DEF CancelFind, CancelUnchanged
<1>35. ASSUME NEW j \in Jobs, CancelMark(j) PROVE CausedAt(k)'
  BY <1>35 DEF CancelMark, CancelUnchanged, CancelReason
<1>36. ASSUME NEW j \in Jobs, CancelFires(j) PROVE CausedAt(k)'
  BY <1>36 DEF CancelFires, CancelUnchanged, CancelContext
<1>37. ASSUME NEW j \in Jobs, Reconcile(j) PROVE CausedAt(k)'
  BY <1>37 DEF Reconcile, Goto
<1>38. CASE Shutdown
  BY <1>38 DEF Shutdown
<1>39. CASE Restart
  BY <1>39 DEF Restart, All
<1>40. CASE Serve
  BY <1>40 DEF Serve
<1>41. CASE UNCHANGED vars
  BY <1>41 DEF vars
<1> QED
  BY <1>1, <1>2, <1>3, <1>4, <1>4a, <1>5, <1>6, <1>7, <1>8, <1>9, <1>10, <1>11, <1>12, <1>13, <1>14, <1>15,
     <1>16, <1>17, <1>18, <1>19, <1>20, <1>21, <1>22, <1>23, <1>24, <1>25, <1>26, <1>27, <1>28,
     <1>29, <1>30, <1>31, <1>32, <1>33, <1>34, <1>35, <1>36, <1>37, <1>38, <1>39, <1>40, <1>41,
     Actions

\* Start-up after a crash is always a restart.
LEMMA BootStep ==
    ASSUME Typed, boot => restarts > 0, [Next]_vars
    PROVE  (boot => restarts > 0)'
<1>r. restarts \in Nat
  BY Counted
<1> USE <1>r
<1>1. ASSUME NEW j \in Jobs, StartBackup(j) PROVE (boot => restarts > 0)'
  BY <1>1 DEF StartBackup
<1>2. ASSUME NEW j \in Jobs, EnterWait(j) PROVE (boot => restarts > 0)'
  BY <1>2 DEF EnterWait, RunUnchanged
<1>3. ASSUME NEW j \in Jobs, DeviceSeen(j) PROVE (boot => restarts > 0)'
  BY <1>3 DEF DeviceSeen, RunUnchanged
<1>4. ASSUME NEW j \in Jobs, AwaitFails(j) PROVE (boot => restarts > 0)'
  BY <1>4 DEF AwaitFails, RunUnchanged
<1>4a. ASSUME NEW j \in Jobs, KillContext(j) PROVE (boot => restarts > 0)'
  BY <1>4a DEF KillContext, RunUnchanged
<1>5. ASSUME NEW j \in Jobs, PreflightRefuses(j) PROVE (boot => restarts > 0)'
  BY <1>5 DEF PreflightRefuses, RunUnchanged
<1>6. ASSUME NEW j \in Jobs, EnterSeeding(j) PROVE (boot => restarts > 0)'
  BY <1>6 DEF EnterSeeding, RunUnchanged
<1>7. ASSUME NEW j \in Jobs, PrepareWork(j) PROVE (boot => restarts > 0)'
  BY <1>7 DEF PrepareWork, RunUnchanged
<1>8. ASSUME NEW j \in Jobs, StartFails(j) PROVE (boot => restarts > 0)'
  BY <1>8 DEF StartFails
<1>9. ASSUME NEW j \in Jobs, StartTool(j) PROVE (boot => restarts > 0)'
  BY <1>9 DEF StartTool
<1>10. ASSUME NEW j \in Jobs, AwaitInfoPlist(j) PROVE (boot => restarts > 0)'
  BY <1>10 DEF AwaitInfoPlist
<1>11. ASSUME NEW j \in Jobs, SeedWork(j) PROVE (boot => restarts > 0)'
  BY <1>11 DEF SeedWork
<1>12. ASSUME NEW j \in Jobs, Abort(j) PROVE (boot => restarts > 0)'
  BY <1>12 DEF Abort, RunUnchanged
<1>13. ASSUME NEW j \in Jobs, Narrate(j) PROVE (boot => restarts > 0)'
  BY <1>13 DEF Narrate
<1>14. ASSUME NEW j \in Jobs, Drain(j) PROVE (boot => restarts > 0)'
  BY <1>14 DEF Drain, RunUnchanged
<1>15. ASSUME NEW j \in Jobs, Reap(j) PROVE (boot => restarts > 0)'
  BY <1>15 DEF Reap
<1>16. ASSUME NEW j \in Jobs, EnterVerifying(j) PROVE (boot => restarts > 0)'
  BY <1>16 DEF EnterVerifying, RunUnchanged
<1>17. ASSUME NEW j \in Jobs, VerifyWork(j) PROVE (boot => restarts > 0)'
  BY <1>17 DEF VerifyWork, RunUnchanged
<1>18. ASSUME NEW j \in Jobs, CommitJob(j) PROVE (boot => restarts > 0)'
  BY <1>18 DEF CommitJob
<1>19. ASSUME NEW j \in Jobs, Terminate(j) PROVE (boot => restarts > 0)'
  BY <1>19 DEF Terminate, RunUnchanged
<1>20. ASSUME NEW j \in Jobs, Succeed(j) PROVE (boot => restarts > 0)'
  BY <1>20 DEF Succeed, RunUnchanged
<1>21. ASSUME NEW j \in Jobs, Discard(j) PROVE (boot => restarts > 0)'
  BY <1>21 DEF Discard, RunUnchanged
<1>22. ASSUME NEW j \in Jobs, Release(j) PROVE (boot => restarts > 0)'
  BY <1>22 DEF Release
<1>23. ASSUME NEW j \in Jobs, LineMutate(j) PROVE (boot => restarts > 0)'
  BY <1>23 DEF LineMutate, ScannerUnchanged
<1>24. ASSUME NEW j \in Jobs, LineWrite(j) PROVE (boot => restarts > 0)'
  BY <1>24 DEF LineWrite, ScannerUnchanged
<1>25. ASSUME NEW j \in Jobs, Sample(j) PROVE (boot => restarts > 0)'
  BY <1>25 DEF Sample, SamplerUnchanged
<1>26. ASSUME NEW j \in Jobs, SamplerMutate(j) PROVE (boot => restarts > 0)'
  BY <1>26 DEF SamplerMutate, SamplerUnchanged
<1>27. ASSUME NEW j \in Jobs, SamplerWrite(j) PROVE (boot => restarts > 0)'
  BY <1>27 DEF SamplerWrite, SamplerUnchanged
<1>28. ASSUME NEW j \in Jobs, SamplerKill(j) PROVE (boot => restarts > 0)'
  BY <1>28 DEF SamplerKill, SamplerUnchanged
<1>29. ASSUME NEW j \in Jobs, SamplerStops(j) PROVE (boot => restarts > 0)'
  BY <1>29 DEF SamplerStops, SamplerUnchanged
<1>30. ASSUME NEW j \in Jobs, ToolLine(j) PROVE (boot => restarts > 0)'
  BY <1>30 DEF ToolLine
<1>31. ASSUME NEW j \in Jobs, ToolWrites(j) PROVE (boot => restarts > 0)'
  BY <1>31 DEF ToolWrites
<1>32. ASSUME NEW j \in Jobs, ToolExits(j) PROVE (boot => restarts > 0)'
  BY <1>32 DEF ToolExits
<1>33. ASSUME NEW j \in Jobs, ToolKilled(j) PROVE (boot => restarts > 0)'
  BY <1>33 DEF ToolKilled
<1>34. ASSUME NEW j \in Jobs, CancelFind(j) PROVE (boot => restarts > 0)'
  BY <1>34 DEF CancelFind, CancelUnchanged
<1>35. ASSUME NEW j \in Jobs, CancelMark(j) PROVE (boot => restarts > 0)'
  BY <1>35 DEF CancelMark, CancelUnchanged
<1>36. ASSUME NEW j \in Jobs, CancelFires(j) PROVE (boot => restarts > 0)'
  BY <1>36 DEF CancelFires, CancelUnchanged
<1>37. ASSUME NEW j \in Jobs, Reconcile(j) PROVE (boot => restarts > 0)'
  BY <1>37 DEF Reconcile
<1>38. CASE Shutdown
  BY <1>38 DEF Shutdown
<1>39. CASE Restart
  BY <1>39, RestartCounts
<1>40. CASE Serve
  BY <1>40 DEF Serve
<1>41. CASE UNCHANGED vars
  BY <1>41 DEF vars
<1> QED
  BY <1>1, <1>2, <1>3, <1>4, <1>4a, <1>5, <1>6, <1>7, <1>8, <1>9, <1>10, <1>11, <1>12, <1>13, <1>14, <1>15,
     <1>16, <1>17, <1>18, <1>19, <1>20, <1>21, <1>22, <1>23, <1>24, <1>25, <1>26, <1>27, <1>28,
     <1>29, <1>30, <1>31, <1>32, <1>33, <1>34, <1>35, <1>36, <1>37, <1>38, <1>39, <1>40, <1>41,
     Actions

\* What a step leaves of a job's locals: a recorded reason and a cancelled
\* context stay until run has returned, a child that is gone does not come back, and an interruption is
\* not forgotten.
Locals(k) ==
    /\ Interrupted => Interrupted'
    /\ kill[k] # "" => kill'[k] = kill[k] \/ pc'[k] \in AtRest
    /\ pc[k] \notin AtRest /\ ctx[k] => ctx'[k] \/ pc'[k] \in AtRest
    /\ pc[k] \in Quitting \/ pc[k] \notin Undecided => tool'[k] \in {tool[k], "none"}

\* What each step may do to a job's tool, kill and context.
LEMMA LocalsStep ==
    ASSUME Typed, Owned, NEW k \in Jobs, [Next]_vars
    PROVE  Locals(k)
<1>t. /\ pc \in [Jobs -> Steps] /\ kill \in [Jobs -> {"", "cancel", "timeout"}]
      /\ tool \in [Jobs -> {"none", "unstarted", "gated", "run", "ok", "err", "killed"}]
      /\ ctx \in [Jobs -> BOOLEAN]
  BY DEF Typed, ChildTypeOK, FlowTypeOK
<1>r. restarts \in Nat
  BY Counted
<1>a. Alive(k) => pc[k] \in {"info", "seed", "narrate", "abort", "loop"}
  BY DEF Owned
<1> USE <1>t, <1>r, <1>a DEF Locals, Steps, Undecided, AtRest, Alive, Quitting, Interrupted
<1>1. ASSUME NEW j \in Jobs, StartBackup(j) PROVE Locals(k)
  BY <1>1 DEF StartBackup, Goto
<1>2. ASSUME NEW j \in Jobs, EnterWait(j) PROVE Locals(k)
  BY <1>2 DEF EnterWait, Goto, RunUnchanged
<1>3. ASSUME NEW j \in Jobs, DeviceSeen(j) PROVE Locals(k)
  BY <1>3 DEF DeviceSeen, Goto, RunUnchanged
<1>4. ASSUME NEW j \in Jobs, AwaitFails(j) PROVE Locals(k)
  BY <1>4 DEF AwaitFails, KillReason, Goto, Decide, RunUnchanged
<1>4a. ASSUME NEW j \in Jobs, KillContext(j) PROVE Locals(k)
  BY <1>4a DEF KillContext, Goto, Decide, RunUnchanged
<1>5. ASSUME NEW j \in Jobs, PreflightRefuses(j) PROVE Locals(k)
  BY <1>5 DEF PreflightRefuses, Goto, Decide, RunUnchanged
<1>6. ASSUME NEW j \in Jobs, EnterSeeding(j) PROVE Locals(k)
  BY <1>6 DEF EnterSeeding, Goto, RunUnchanged
<1>7. ASSUME NEW j \in Jobs, PrepareWork(j) PROVE Locals(k)
  BY <1>7 DEF PrepareWork, Goto, Decide, RunUnchanged
<1>8. ASSUME NEW j \in Jobs, StartFails(j) PROVE Locals(k)
  BY <1>8 DEF StartFails, Goto, Decide, StartFailure, KillReason
<1>9. ASSUME NEW j \in Jobs, StartTool(j) PROVE Locals(k)
  BY <1>9 DEF StartTool, Goto
<1>10. ASSUME NEW j \in Jobs, AwaitInfoPlist(j) PROVE Locals(k)
  BY <1>10 DEF AwaitInfoPlist, Goto
<1>11. ASSUME NEW j \in Jobs, SeedWork(j) PROVE Locals(k)
  BY <1>11 DEF SeedWork, Goto
<1>12. ASSUME NEW j \in Jobs, Abort(j) PROVE Locals(k)
  BY <1>12 DEF Abort, Goto, Decide, RunUnchanged, ReadersDone
<1>13. ASSUME NEW j \in Jobs, Narrate(j) PROVE Locals(k)
  BY <1>13 DEF Narrate, Goto
<1>14. ASSUME NEW j \in Jobs, Drain(j) PROVE Locals(k)
  BY <1>14 DEF Drain, Goto, RunUnchanged, ReadersDone
<1>15. ASSUME NEW j \in Jobs, Reap(j) PROVE Locals(k)
  BY <1>15 DEF Reap, Goto, Decide, KillReason
<1>16. ASSUME NEW j \in Jobs, EnterVerifying(j) PROVE Locals(k)
  BY <1>16 DEF EnterVerifying, Goto, RunUnchanged
<1>17. ASSUME NEW j \in Jobs, VerifyWork(j) PROVE Locals(k)
  BY <1>17 DEF VerifyWork, Goto, Decide, RunUnchanged
<1>18. ASSUME NEW j \in Jobs, CommitJob(j) PROVE Locals(k)
  BY <1>18 DEF CommitJob, Goto, Decide
<1>19. ASSUME NEW j \in Jobs, Terminate(j) PROVE Locals(k)
  BY <1>19 DEF Terminate, Goto, RunUnchanged
<1>20. ASSUME NEW j \in Jobs, Succeed(j) PROVE Locals(k)
  BY <1>20 DEF Succeed, Goto, RunUnchanged
<1>21. ASSUME NEW j \in Jobs, Discard(j) PROVE Locals(k)
  BY <1>21 DEF Discard, Goto, RunUnchanged
<1>22. ASSUME NEW j \in Jobs, Release(j) PROVE Locals(k)
  BY <1>22 DEF Release, Goto, LocalsDropped, ReleaseDevice
<1>23. ASSUME NEW j \in Jobs, LineMutate(j) PROVE Locals(k)
  BY <1>23 DEF LineMutate, ScannerUnchanged
<1>24. ASSUME NEW j \in Jobs, LineWrite(j) PROVE Locals(k)
  BY <1>24 DEF LineWrite, ScannerUnchanged
<1>25. ASSUME NEW j \in Jobs, Sample(j) PROVE Locals(k)
  BY <1>25 DEF Sample, SamplerUnchanged
<1>26. ASSUME NEW j \in Jobs, SamplerMutate(j) PROVE Locals(k)
  BY <1>26 DEF SamplerMutate, SamplerUnchanged
<1>27. ASSUME NEW j \in Jobs, SamplerWrite(j) PROVE Locals(k)
  BY <1>27 DEF SamplerWrite, SamplerUnchanged
<1>28. ASSUME NEW j \in Jobs, SamplerKill(j) PROVE Locals(k)
  BY <1>28 DEF SamplerKill, SamplerUnchanged
<1>29. ASSUME NEW j \in Jobs, SamplerStops(j) PROVE Locals(k)
  BY <1>29 DEF SamplerStops, SamplerUnchanged
<1>30. ASSUME NEW j \in Jobs, ToolLine(j) PROVE Locals(k)
  BY <1>30 DEF ToolLine
<1>31. ASSUME NEW j \in Jobs, ToolWrites(j) PROVE Locals(k)
  BY <1>31 DEF ToolWrites
<1>32. ASSUME NEW j \in Jobs, ToolExits(j) PROVE Locals(k)
  BY <1>32 DEF ToolExits
<1>33. ASSUME NEW j \in Jobs, ToolKilled(j) PROVE Locals(k)
  BY <1>33 DEF ToolKilled
<1>34. ASSUME NEW j \in Jobs, CancelFind(j) PROVE Locals(k)
  BY <1>34 DEF CancelFind, CancelUnchanged
<1>35. ASSUME NEW j \in Jobs, CancelMark(j) PROVE Locals(k)
  BY <1>35 DEF CancelMark, CancelUnchanged, CancelReason
<1>36. ASSUME NEW j \in Jobs, CancelFires(j) PROVE Locals(k)
  BY <1>36 DEF CancelFires, CancelUnchanged, CancelContext
<1>37. ASSUME NEW j \in Jobs, Reconcile(j) PROVE Locals(k)
  BY <1>37 DEF Reconcile, Goto
<1>38. CASE Shutdown
  BY <1>38 DEF Shutdown
<1>39. CASE Restart
  <2>1. tool' = All("none") /\ pc' = [j \in Jobs |-> IF pc[j] = "none" THEN "none"
                             ELSE IF j \in ListNonTerminalJobs THEN "orphan" ELSE "done"]
    BY <1>39 DEF Restart
  <2>2. pc'[k] \in {"none", "orphan", "done"} /\ tool'[k] = "none"
    BY <2>1 DEF All
  <2>3. restarts' > 0
    BY <1>39, RestartCounts
  <2> QED
    BY <2>2, <2>3
<1>40. CASE Serve
  BY <1>40 DEF Serve
<1>41. CASE UNCHANGED vars
  BY <1>41 DEF vars
<1> QED
  BY <1>1, <1>2, <1>3, <1>4, <1>4a, <1>5, <1>6, <1>7, <1>8, <1>9, <1>10, <1>11, <1>12, <1>13, <1>14, <1>15,
     <1>16, <1>17, <1>18, <1>19, <1>20, <1>21, <1>22, <1>23, <1>24, <1>25, <1>26, <1>27, <1>28,
     <1>29, <1>30, <1>31, <1>32, <1>33, <1>34, <1>35, <1>36, <1>37, <1>38, <1>39, <1>40, <1>41,
     Actions

\* The reasons the endings carry.
LEMMA EndCodes ==
    /\ \A o \in Outcomes : /\ EndedAs(o).code = "interrupted" <=> o = "shutdown"
                           /\ EndedAs(o).code = "disconnected" <=> o = "timeout"
                           /\ EndedAs(o).code = "failed" <=> o \notin {"cancel", "timeout", "shutdown", "seedErr"}
    /\ NoRow.code = "" /\ Succeeded.code = ""
    /\ \A s \in LiveStates : Live(s).code = ""
    /\ \A k \in Jobs : Verdict(k).code \in {"", "interrupted"}
<1>1. ASSUME NEW o \in Outcomes
      PROVE  /\ EndedAs(o).code = "interrupted" <=> o = "shutdown"
             /\ EndedAs(o).code = "disconnected" <=> o = "timeout"
             /\ EndedAs(o).code = "failed" <=> o \notin {"cancel", "timeout", "shutdown", "seedErr"}
  <2>1. EndedAs(o).code = CASE o = "cancel" -> "cancelled" [] o = "timeout" -> "disconnected"
                            [] o = "shutdown" -> "interrupted" [] o = "seedErr" -> "seed" [] OTHER -> "failed"
    BY DEF EndedAs, Ended
  <2> QED
    BY <2>1
<1>2. NoRow.code = "" /\ Succeeded.code = "" /\ \A s \in LiveStates : Live(s).code = ""
  BY DEF NoRow, Succeeded, Live
<1>3. \A k \in Jobs : Verdict(k).code \in {"", "interrupted"}
  BY <1>2 DEF Verdict, Ended
<1> QED
  BY <1>1, <1>2, <1>3

\* A step that gives the row no new reason.
LEMMA ReasonKept ==
    ASSUME NEW k \in Jobs, Locals(k), DecidedAt(k), ReasonedAt(k),
           row'[k].code \in {"", row[k].code}, pc'[k] \in {"none", "orphan"} => row'[k].code = "",
           pc[k] = "done" /\ row'[k].code # "" => pc'[k] = "done",
           \A r \in {row'[k], stored'[k], snap'[k]} : ~JobIsTerminal(r.state) => r.code = ""
    PROVE  ReasonedAt(k)'
<1>n. row[k].code # "" => pc[k] \notin Undecided
  BY DEF DecidedAt, ReasonedAt
<1>1. (\A r \in {row[k], stored[k], snap[k]} : ~JobIsTerminal(r.state) => r.code = "")'
  BY DEF JobIsTerminal
<1>2. (row[k].code = "failed" => tool[k] \notin {"killed", "unstarted"})'
  BY <1>n DEF ReasonedAt, Locals
<1>3. (row[k].code = "interrupted" /\ pc[k] # "done" => Interrupted \/ Overtaken(k))'
  BY <1>n, Stages DEF ReasonedAt, Locals, AtRest, Overtaken
<1>4. (row[k].code = "disconnected" /\ pc[k] # "done" => kill[k] = "timeout")'
  BY DEF ReasonedAt, Locals, AtRest
<1> QED
  BY <1>1, <1>2, <1>3, <1>4 DEF ReasonedAt

\* Every effect keeps the reason on each copy of the row a true one.
LEMMA ReasonedStep ==
    ASSUME Typed, Owned, NEW k \in Jobs, Effect(k), Locals(k), DecidedAt(k), CausedAt(k),
           ReasonedAt(k), boot => restarts > 0
    PROVE  ReasonedAt(k)'
<1> DEFINE Bare(r) == ~JobIsTerminal(r.state) => r.code = ""
<1>t. mu[k] \in {"", "sampler", "reader"}
  BY DEF Typed, RowTypeOK
<1>b. Bare(row[k]) /\ Bare(stored[k]) /\ Bare(snap[k])
  BY DEF ReasonedAt
<1>n. pc[k] \in {"none", "orphan"} => row[k].code = ""
  BY <1>b, Stages DEF ReasonedAt, DecidedAt
<1>l. Bare(NoRow) /\ Bare(Succeeded) /\ \A s \in LiveStates : Bare(Live(s))
  BY EndCodes
<1>k. ASSUME row'[k].code \in {"", row[k].code}, pc'[k] \in {"none", "orphan"} => row'[k].code = "",
             pc[k] = "done" /\ row'[k].code # "" => pc'[k] = "done",
             Bare(row'[k]), Bare(stored'[k]), Bare(snap'[k])
      PROVE  ReasonedAt(k)'
  BY <1>k, ReasonKept
<1> HIDE DEF Bare
<1>1. CASE Kept(k)
  BY <1>1, <1>b, <1>n, <1>k DEF Kept, RowsSame
<1>2. CASE Begun(k)
  <2>1. /\ row'[k] = Live("queued") /\ stored'[k] = Live("queued") /\ snap'[k] = snap[k]
        /\ pc[k] = "none" /\ pc'[k] = "queued"
    BY <1>2 DEF Begun
  <2>2. Bare(Live("queued")) /\ Live("queued").code = ""
    BY <1>l, EndCodes DEF LiveStates
  <2> QED
    BY <2>1, <2>2, <1>b, <1>k
<1>3. CASE Advanced(k)
  <2>1. pc[k] # "done" /\ pc'[k] \notin {"none", "orphan"}
    BY <1>3, Stages DEF Advanced
  <2>2. CASE RowsSame(k)
    BY <2>1, <2>2, <1>b, <1>k DEF RowsSame
  <2>3. ASSUME NEW s \in LiveStates, Becomes(k, Live(s)) PROVE ReasonedAt(k)'
    <3>1. Bare(Live(s)) /\ Live(s).code = ""
      BY <1>l, EndCodes
    <3>2. row'[k] = Live(s) /\ stored'[k] \in {Live(s), stored[k]} /\ snap'[k] = snap[k]
      BY <2>3 DEF Becomes
    <3> QED
      BY <2>1, <3>1, <3>2, <1>b, <1>k
  <2> QED
    BY <1>3, <2>2, <2>3 DEF Advanced
<1>4. CASE Ending(k)
  <2>1. /\ res[k] \in Outcomes /\ row'[k] = EndedAs(res[k]) /\ stored'[k] \in {EndedAs(res[k]), stored[k]}
        /\ snap'[k] = snap[k] /\ pc[k] \in Quitting /\ pc'[k] \notin AtRest /\ pc'[k] # "orphan"
    BY <1>4 DEF Ending, Becomes, Quitting, AtRest
  <2>2. JobIsTerminal(EndedAs(res[k]).state)
    BY <2>1, EndStates
  <2>3. (\A r \in {row[k], stored[k], snap[k]} : ~JobIsTerminal(r.state) => r.code = "")'
    BY <2>1, <2>2, <1>b DEF Bare, JobIsTerminal
  <2>c. /\ row'[k].code = "interrupted" => res[k] = "shutdown"
        /\ row'[k].code = "disconnected" => res[k] = "timeout"
        /\ row'[k].code = "failed" => res[k] \notin {"cancel", "timeout", "shutdown", "seedErr"}
    <3> DEFINE o == res[k]
    <3>1. /\ EndedAs(o).code = "interrupted" <=> o = "shutdown"
          /\ EndedAs(o).code = "disconnected" <=> o = "timeout"
          /\ EndedAs(o).code = "failed" <=> o \notin {"cancel", "timeout", "shutdown", "seedErr"}
      BY <2>1, EndCodes, Zenon
    <3>2. row'[k].code = EndedAs(o).code
      BY <2>1
    <3> HIDE DEF o
    <3> QED
      BY <3>1, <3>2 DEF o
  <2>4. (row[k].code = "failed" => tool[k] \notin {"killed", "unstarted"})'
    BY <2>1, <2>c DEF CausedAt, Locals
  <2>5. (row[k].code = "interrupted" /\ pc[k] # "done" => Interrupted \/ Overtaken(k))'
    BY <2>1, <2>c DEF CausedAt, Locals, Overtaken, Quitting, AtRest
  <2>6. (row[k].code = "disconnected" /\ pc[k] # "done" => kill[k] = "timeout")'
    BY <2>1, <2>c DEF CausedAt, Locals
  <2> QED
    BY <2>1, <2>3, <2>4, <2>5, <2>6 DEF ReasonedAt
<1>5. CASE Left(k)
  BY <1>5, <1>b, <1>k DEF Left, RowsSame
<1>6. CASE Touched(k)
  <2>1. CASE /\ row'[k].state = row[k].state /\ row'[k].code = row[k].code
             /\ snap'[k] = row'[k] /\ stored'[k] = stored[k] /\ pc'[k] = pc[k]
    <3>1. Bare(row'[k]) /\ Bare(stored'[k]) /\ Bare(snap'[k])
      BY <2>1, <1>b DEF Bare
    <3> QED
      BY <2>1, <3>1, <1>n, <1>k
  <2>2. CASE /\ row'[k] = row[k] /\ snap'[k] = NoRow /\ stored'[k] \in {snap[k], stored[k]} /\ pc'[k] = pc[k]
    BY <2>2, <1>b, <1>n, <1>l, <1>k
  <2> QED
    BY <1>6, <2>1, <2>2 DEF Touched
<1>7. CASE Versioned(k)
  BY <1>7, <1>b, <1>k DEF Versioned, RowsSame
<1>8. CASE Won(k)
  BY <1>8, <1>b, <1>l, <1>k, EndCodes DEF Won, Becomes
<1>9. CASE Ruled(k)
  <2>1. /\ row'[k] = Verdict(k) /\ stored'[k] \in {Verdict(k), stored[k]} /\ snap'[k] = snap[k] /\ pc'[k] = "done"
    BY <1>9 DEF Ruled
  <2>2. Interrupted'
    BY <1>9 DEF Ruled, Owned, Interrupted, Locals
  <2>3. (\A r \in {row[k], stored[k], snap[k]} : ~JobIsTerminal(r.state) => r.code = "")'
    BY <2>1, EndStates, <1>b DEF Bare, JobIsTerminal
  <2>4. row'[k].code \in {"", "interrupted"}
    BY <2>1, EndCodes
  <2> QED
    BY <2>1, <2>2, <2>3, <2>4 DEF ReasonedAt
<1>10. CASE Rebooted(k)
  <2>1. row'[k] = stored[k] /\ stored'[k] = stored[k] /\ snap'[k] = NoRow
    BY <1>10 DEF Rebooted
  <2>2. stored[k].code \in {"", row[k].code}
    BY <1>b DEF Bare, DecidedAt
  <2>3. pc'[k] \in {"none", "orphan"} => stored[k].code = ""
    BY <1>10, <1>b, EndStates, Stages DEF Rebooted, Bare, DecidedAt
  <2>4. pc[k] = "done" /\ stored[k].code # "" => pc'[k] = "done"
    BY <1>10, <1>b, EndStates DEF Rebooted, Bare
  <2> QED
    BY <2>1, <2>2, <2>3, <2>4, <1>b, <1>l, <1>k
<1> QED
  BY <1>1, <1>2, <1>3, <1>4, <1>5, <1>6, <1>7, <1>8, <1>9, <1>10 DEF Effect

\* The reason on the row is the true one, whatever kills, exits, timeouts,
\* failing writes and restarts race; only a cancel between the two reads of
\* killOutcome is told as an interruption.
THEOREM EndingsAreExplained == Spec => []EndExplained
<1>1. Init => Caused /\ Reasoned
  <2>1. ASSUME Init, NEW k \in Jobs
        PROVE  /\ row[k] = NoRow /\ stored[k] = NoRow /\ snap[k] = NoRow /\ pc[k] = "none"
               /\ tool[k] = "none" /\ runCtx[k] = FALSE /\ cancel[k] = "idle" /\ boot = FALSE
    BY <2>1 DEF Init, All
  <2>2. ASSUME Init, NEW k \in Jobs PROVE CausedAt(k)
    BY <2>1, <2>2 DEF CausedAt, WithTool, AtRest, Quitting, Asked
  <2>3. ASSUME Init, NEW k \in Jobs PROVE ReasonedAt(k)
    <3>1. NoRow.code = ""
      BY EndCodes
    <3> QED
      BY <2>1, <2>3, <3>1 DEF ReasonedAt
  <2> QED
    BY <2>2, <2>3 DEF Caused, Reasoned, Init
<1>2. Typed /\ Owned /\ Caused /\ [Next]_vars => Caused'
  <2> SUFFICES ASSUME Typed, Owned, Caused, [Next]_vars PROVE Caused'
    OBVIOUS
  <2>1. \A k \in Jobs : CausedAt(k)'
    BY CausedStep DEF Caused
  <2>2. (boot => restarts > 0)'
    BY BootStep DEF Caused
  <2> QED
    BY <2>1, <2>2 DEF Caused
<1>3. Typed /\ Owned /\ Decided /\ Caused /\ Reasoned /\ [Next]_vars => Reasoned'
  BY Effects, LocalsStep, ReasonedStep DEF Decided, Caused, Reasoned
<1>4. Reasoned => EndExplained
  BY DEF Reasoned, ReasonedAt, EndExplained, Interrupted, Overtaken
<1> QED
  BY <1>1, <1>2, <1>3, <1>4, AlwaysTyped, AlwaysOwned, AlwaysDecided, PTL DEF Spec

-----------------------------------------------------------------------------
(* The phase on the row                                                    *)

\* The phases of the rows the actions write.
LEMMA EndPhases ==
    /\ PhaseTrue(NoRow) /\ PhaseTrue(Succeeded)
    /\ \A s \in LiveStates : PhaseTrue(Live(s))
    /\ \A o \in Outcomes : PhaseTrue(EndedAs(o))
    /\ \A k \in Jobs : PhaseTrue(Verdict(k))
    /\ \A r \in JobRows : PhaseTrue(r) => PhaseTrue([r EXCEPT !.live = TRUE])
    /\ \A r \in JobRows : ~JobIsTerminal(r.state) => PhaseTrue([r EXCEPT !.phase = "live"])
<1>1. PhaseTrue(NoRow) /\ PhaseTrue(Succeeded) /\ \A s \in LiveStates : PhaseTrue(Live(s))
  BY EndStates DEF PhaseTrue, NoRow, Succeeded
<1>2. \A s, c : s # "succeeded" => PhaseTrue(Ended(s, c))
  BY DEF PhaseTrue, Ended
<1>3. \A o \in Outcomes : PhaseTrue(EndedAs(o))
  BY <1>2 DEF EndedAs
<1>4. \A k \in Jobs : PhaseTrue(Verdict(k))
  BY <1>1, <1>2 DEF Verdict
<1>5. \A r \in JobRows : PhaseTrue(r) => PhaseTrue([r EXCEPT !.live = TRUE])
  BY DEF PhaseTrue, JobRows
<1>6. \A r \in JobRows : ~JobIsTerminal(r.state) => PhaseTrue([r EXCEPT !.phase = "live"])
  BY DEF PhaseTrue, JobRows
<1> QED
  BY <1>1, <1>3, <1>4, <1>5, <1>6

\* Every step keeps the phase of a terminal row at rest.
LEMMA PhasedStep ==
    ASSUME Typed, Owned, NEW k \in Jobs, DecidedAt(k), PhasedAt(k), [Next]_vars
    PROVE  PhasedAt(k)'
<1>t. /\ pc \in [Jobs -> Steps] /\ reader \in [Jobs -> {"scan", "line", "write"}]
      /\ row \in [Jobs -> JobRows] /\ stored \in [Jobs -> JobRows] /\ snap \in [Jobs -> JobRows]
      /\ res \in [Jobs -> Outcomes]
  BY DEF Typed, RowTypeOK, ChildTypeOK, FlowTypeOK
<1>a. Alive(k) => pc[k] \in {"info", "seed", "narrate", "abort", "loop"}
  BY DEF Owned
<1>p. /\ reader[k] # "scan" => pc[k] \in {"info", "seed", "narrate", "abort", "loop"}
      /\ PhaseTrue(row[k]) /\ PhaseTrue(stored[k]) /\ PhaseTrue(snap[k])
  BY DEF PhasedAt
<1>u. reader[k] # "scan" => ~JobIsTerminal(row[k].state)
  BY <1>p DEF DecidedAt, Undecided, Steps
<1> DEFINE Goal == /\ reader'[k] # "scan" => pc'[k] \in {"info", "seed", "narrate", "abort", "loop"}
                   /\ PhaseTrue(row'[k]) /\ PhaseTrue(stored'[k]) /\ PhaseTrue(snap'[k])
<1>l. \A s \in {"queued", "waiting_for_device", "preflight", "seeding", "backing_up", "verifying", "committing"} :
         PhaseTrue(Live(s))
  BY EndPhases DEF LiveStates
<1> USE <1>t, <1>p
<1>1. ASSUME NEW j \in Jobs, StartBackup(j) PROVE Goal
  BY <1>1, <1>l DEF StartBackup, Goto
<1>2. ASSUME NEW j \in Jobs, EnterWait(j) PROVE Goal
  BY <1>2, <1>l DEF EnterWait, Goto, RunUnchanged, Transition, Persist
<1>3. ASSUME NEW j \in Jobs, DeviceSeen(j) PROVE Goal
  BY <1>3, <1>l DEF DeviceSeen, Goto, RunUnchanged, Transition, Persist
<1>4. ASSUME NEW j \in Jobs, AwaitFails(j) PROVE Goal
  BY <1>4 DEF AwaitFails, KillReason, Goto, RunUnchanged
<1>4a. ASSUME NEW j \in Jobs, KillContext(j) PROVE Goal
  BY <1>4a DEF KillContext, Goto, RunUnchanged
<1>5. ASSUME NEW j \in Jobs, PreflightRefuses(j) PROVE Goal
  BY <1>5 DEF PreflightRefuses, Goto, RunUnchanged
<1>6. ASSUME NEW j \in Jobs, EnterSeeding(j) PROVE Goal
  BY <1>6, <1>l DEF EnterSeeding, Goto, RunUnchanged, Transition, Persist
<1>7. ASSUME NEW j \in Jobs, PrepareWork(j) PROVE Goal
  BY <1>7, <1>l DEF PrepareWork, Goto, RunUnchanged, Transition, Persist
<1>8. ASSUME NEW j \in Jobs, StartFails(j) PROVE Goal
  BY <1>8 DEF StartFails, StartFailure, KillReason, Goto
<1>9. ASSUME NEW j \in Jobs, StartTool(j) PROVE Goal
  BY <1>9 DEF StartTool, Goto
<1>10. ASSUME NEW j \in Jobs, AwaitInfoPlist(j) PROVE Goal
  BY <1>10 DEF AwaitInfoPlist, Goto
<1>11. ASSUME NEW j \in Jobs, SeedWork(j) PROVE Goal
  BY <1>11 DEF SeedWork, Goto
<1>12. ASSUME NEW j \in Jobs, Abort(j) PROVE Goal
  BY <1>12 DEF Abort, Goto, RunUnchanged, ReadersDone
<1>13. ASSUME NEW j \in Jobs, Narrate(j) PROVE Goal
  BY <1>13, <1>l DEF Narrate, Goto, Transition, Persist
<1>14. ASSUME NEW j \in Jobs, Drain(j) PROVE Goal
  BY <1>14 DEF Drain, Goto, RunUnchanged, ReadersDone
<1>15. ASSUME NEW j \in Jobs, Reap(j) PROVE Goal
  BY <1>15 DEF Reap, KillReason, Goto
<1>16. ASSUME NEW j \in Jobs, EnterVerifying(j) PROVE Goal
  BY <1>16, <1>l DEF EnterVerifying, Goto, RunUnchanged, Transition, Persist
<1>17. ASSUME NEW j \in Jobs, VerifyWork(j) PROVE Goal
  BY <1>17, <1>l DEF VerifyWork, Goto, RunUnchanged, Transition, Persist
<1>18. ASSUME NEW j \in Jobs, CommitJob(j) PROVE Goal
  BY <1>18 DEF CommitJob, Goto
<1>19. ASSUME NEW j \in Jobs, Terminate(j) PROVE Goal
  BY <1>19, EndPhases DEF Terminate, Goto, RunUnchanged, Transition, Persist
<1>20. ASSUME NEW j \in Jobs, Succeed(j) PROVE Goal
  BY <1>20, EndPhases DEF Succeed, Goto, RunUnchanged, Transition, Persist
<1>21. ASSUME NEW j \in Jobs, Discard(j) PROVE Goal
  BY <1>21 DEF Discard, Goto, RunUnchanged
<1>22. ASSUME NEW j \in Jobs, Release(j) PROVE Goal
  BY <1>22 DEF Release, Goto, LocalsDropped
<1>23. ASSUME NEW j \in Jobs, LineMutate(j) PROVE Goal
  BY <1>23, <1>u, EndPhases DEF LineMutate, ScannerUnchanged, ProgressMutate
<1>24. ASSUME NEW j \in Jobs, LineWrite(j) PROVE Goal
  BY <1>24, EndPhases DEF LineWrite, ScannerUnchanged, ProgressWrite, Persist
<1>25. ASSUME NEW j \in Jobs, Sample(j) PROVE Goal
  BY <1>25 DEF Sample, SamplerUnchanged
<1>26. ASSUME NEW j \in Jobs, SamplerMutate(j) PROVE Goal
  BY <1>26, EndPhases DEF SamplerMutate, SamplerUnchanged, ProgressMutate
<1>27. ASSUME NEW j \in Jobs, SamplerWrite(j) PROVE Goal
  BY <1>27, EndPhases DEF SamplerWrite, SamplerUnchanged, ProgressWrite, Persist
<1>28. ASSUME NEW j \in Jobs, SamplerKill(j) PROVE Goal
  BY <1>28 DEF SamplerKill, SamplerUnchanged
<1>29. ASSUME NEW j \in Jobs, SamplerStops(j) PROVE Goal
  BY <1>29 DEF SamplerStops, SamplerUnchanged
<1>30. ASSUME NEW j \in Jobs, ToolLine(j) PROVE Goal
  BY <1>30, <1>a DEF ToolLine, Alive
<1>31. ASSUME NEW j \in Jobs, ToolWrites(j) PROVE Goal
  BY <1>31 DEF ToolWrites
<1>32. ASSUME NEW j \in Jobs, ToolExits(j) PROVE Goal
  BY <1>32 DEF ToolExits
<1>33. ASSUME NEW j \in Jobs, ToolKilled(j) PROVE Goal
  BY <1>33 DEF ToolKilled
<1>34. ASSUME NEW j \in Jobs, CancelFind(j) PROVE Goal
  BY <1>34 DEF CancelFind, CancelUnchanged
<1>35. ASSUME NEW j \in Jobs, CancelMark(j) PROVE Goal
  BY <1>35 DEF CancelMark, CancelUnchanged
<1>36. ASSUME NEW j \in Jobs, CancelFires(j) PROVE Goal
  BY <1>36 DEF CancelFires, CancelUnchanged
<1>37. ASSUME NEW j \in Jobs, Reconcile(j) PROVE Goal
  BY <1>37, EndPhases DEF Reconcile, Goto, Persist
<1>38. ASSUME Shutdown PROVE Goal
  BY <1>38 DEF Shutdown
<1>39. ASSUME Restart PROVE Goal
  BY <1>39, EndPhases DEF Restart, All
<1>40. ASSUME Serve PROVE Goal
  BY <1>40 DEF Serve
<1>41. ASSUME UNCHANGED vars PROVE Goal
  BY <1>41 DEF vars
<1> HIDE DEF Goal
<1>42. Goal
  BY <1>1, <1>2, <1>3, <1>4, <1>4a, <1>5, <1>6, <1>7, <1>8, <1>9, <1>10, <1>11, <1>12, <1>13, <1>14, <1>15,
     <1>16, <1>17, <1>18, <1>19, <1>20, <1>21, <1>22, <1>23, <1>24, <1>25, <1>26, <1>27, <1>28,
     <1>29, <1>30, <1>31, <1>32, <1>33, <1>34, <1>35, <1>36, <1>37, <1>38, <1>39, <1>40, <1>41,
     Actions
<1> QED
  BY <1>42 DEF PhasedAt, Goal

\* The phase does not outlive the job.
THEOREM PhasesEnd == Spec => []PhaseEnds
<1>1. Init => Phased
  <2>1. ASSUME Init, NEW k \in Jobs
        PROVE  row[k] = NoRow /\ stored[k] = NoRow /\ snap[k] = NoRow /\ reader[k] = "scan"
    BY <2>1 DEF Init, All
  <2> QED
    BY <2>1, EndPhases DEF Phased, PhasedAt
<1>2. Typed /\ Owned /\ Decided /\ Phased /\ [Next]_vars => Phased'
  BY PhasedStep DEF Decided, Phased
<1>3. Phased => PhaseEnds
  BY DEF Phased, PhasedAt, PhaseTrue, PhaseEnds
<1> QED
  BY <1>1, <1>2, <1>3, AlwaysTyped, AlwaysOwned, AlwaysDecided, PTL DEF Spec
=============================================================================

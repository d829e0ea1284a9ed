----------------------- MODULE NamespaceCommitProofs -----------------------
(***************************************************************************)
(* Theorems about NamespaceCommit, for every number of jobs and crashes    *)
(* and every retention policy.                                             *)
(***************************************************************************)
EXTENDS NamespaceCommit, TLAPS

\* 0 stands for no job and no version.
LEMMA IdTypes == 0 \in Ids /\ Jobs \subseteq Ids
  BY BoundsAssumption DEF Ids, Jobs

\* What the operations write into a directory, a journal and a row is one.
LEMMA TreeTypes ==
    /\ NoTree \in Trees
    /\ \A t \in Trees : t.ver \in Ids
    /\ \A t \in Trees, j \in Ids : [t EXCEPT !.ver = j] \in Trees
    /\ \A b \in {"dirty", "whole"} :
         working \in Trees /\ job \in Ids => Written(b) \in Trees
<1>1. NoTree \in Trees
  BY IdTypes DEF NoTree, Trees
<1>2. ASSUME NEW t \in Trees, NEW j \in Ids PROVE [t EXCEPT !.ver = j] \in Trees
  BY <1>2 DEF Trees
<1>3. ASSUME NEW b \in {"dirty", "whole"}, working \in Trees, job \in Ids
      PROVE  Written(b) \in Trees
  BY <1>3 DEF Trees, Written
<1>4. \A t \in Trees : t.ver \in Ids
  BY DEF Trees
<1> QED
  BY <1>1, <1>2, <1>3, <1>4

\* What is left of a tree while it is being removed.
LEMMA GutFacts ==
    ASSUME NEW t \in Trees, NEW g \in Gutted(t)
    PROVE  g \in Trees /\ g.ver \in {0, t.ver} /\ g.by = t.by /\ g.body = "gutted"
  BY IdTypes DEF Gutted, Trees

\* A journal in another phase is a journal.
LEMMA JournalTypes ==
    /\ NoJournal \in Journals /\ TornJournal \in Journals
    /\ \A k \in Journals, p \in {"exchanged", "archived"} :
         [k EXCEPT !.phase = p] \in Journals
<1>1. NoJournal \in Journals /\ TornJournal \in Journals
  BY IdTypes DEF NoJournal, TornJournal, Journals
<1>2. ASSUME NEW k \in Journals, NEW p \in {"exchanged", "archived"}
      PROVE  [k EXCEPT !.phase = p] \in Journals
  BY <1>2 DEF Journals
<1> QED
  BY <1>1, <1>2

\* Inserted, promoted and scanned rows are rows.
LEMMA RowTypes ==
    /\ NoRow \in Rows
    /\ [live |-> TRUE, isLatest |-> TRUE, missing |-> FALSE, adopted |-> FALSE] \in Rows
    /\ \A v \in Ids : rows \in [Jobs -> Rows] => PromoteRow(v) \in [Jobs -> Rows]
    /\ \A v \in Jobs : rows \in [Jobs -> Rows] => ScannedRow(v) \in Rows
<1>1. NoRow \in Rows
  BY DEF NoRow, Rows
<1>2. ASSUME NEW r \in Rows, NEW b \in BOOLEAN PROVE [r EXCEPT !.isLatest = b] \in Rows
  BY <1>2 DEF Rows
<1>3. ASSUME NEW v \in Jobs, rows \in [Jobs -> Rows] PROVE ScannedRow(v) \in Rows
  <2> DEFINE r == rows[v]
             m == (onDisk[v] = "no")
  <2>1. r \in Rows /\ m \in BOOLEAN
    BY <1>3
  <2>2. [r EXCEPT !.missing = m] \in Rows
    <3> HIDE DEF r, m
    <3> QED BY <2>1 DEF Rows
  <2>3. [live |-> TRUE, isLatest |-> (onDisk[v] = "latest"), missing |-> FALSE,
         adopted |-> TRUE] \in Rows
    BY DEF Rows
  <2> QED
    BY <2>1, <2>2, <2>3, Zenon DEF ScannedRow
<1>4. ASSUME NEW v \in Ids, rows \in [Jobs -> Rows] PROVE PromoteRow(v) \in [Jobs -> Rows]
  <2> SUFFICES ASSUME NEW u \in Jobs
               PROVE  [rows[u] EXCEPT !.isLatest = rows[u].live /\ u = v] \in Rows
    BY DEF PromoteRow
  <2> QED
    BY <1>2, <1>4 DEF Rows
<1>5. [live |-> TRUE, isLatest |-> TRUE, missing |-> FALSE, adopted |-> FALSE] \in Rows
  BY DEF Rows
<1> QED
  BY <1>1, <1>3, <1>4, <1>5

\* However a job or a roll-forward is abandoned, the process state is typed.
LEMMA AbandonTypes ==
    TypeOK /\ Abandon =>
       /\ jobrow' \in [Jobs -> {"none", "running", "succeeded", "failed", "connection_lost"}]
       /\ pc' \in Steps /\ job' \in Ids /\ cur' \in Ids /\ victims' \subseteq Jobs
       /\ lease' \in {"free", "commit", "scan"}
  BY IdTypes DEF TypeOK, Abandon, Steps

\* Every step of the code keeps the device directory, the registry and the
\* process state well formed.
LEMMA TypeStep == TypeOK /\ [Next]_vars => TypeOK'
<1> SUFFICES ASSUME TypeOK, [Next]_vars PROVE TypeOK'
  OBVIOUS
<1> USE IdTypes
<1> USE DEF TypeOK, disk, scanVars, requestVars, history
<1>1. CASE StartBackup
  BY <1>1 DEF StartBackup, Steps, PrepareSteps, JournalSteps, RotationSteps
<1>2. CASE ToolWrite
  BY <1>2, TreeTypes DEF ToolWrite
<1>3. CASE JobFails
  BY <1>3, AbandonTypes DEF JobFails
<1>4. CASE PrepareWork
  BY <1>4, TreeTypes DEF PrepareWork, Steps, PrepareSteps, JournalSteps, RotationSteps
<1>5. CASE WriteInfoPlist
  BY <1>5 DEF WriteInfoPlist, Steps, PrepareSteps, JournalSteps, RotationSteps, Trees
<1>6. CASE SeedClone
  BY <1>6 DEF SeedClone, Steps, PrepareSteps, JournalSteps, RotationSteps, Trees
<1>7. CASE SeedCloned
  BY <1>7 DEF SeedCloned, Steps, PrepareSteps, JournalSteps, RotationSteps
<1>8. CASE SeedMark
  BY <1>8 DEF SeedMark, Steps, PrepareSteps, JournalSteps, RotationSteps
<1>9. CASE ToolExit
  BY <1>9, TreeTypes DEF ToolExit, Steps, PrepareSteps, JournalSteps, RotationSteps
<1>10. CASE VerifyWork
  BY <1>10 DEF VerifyWork, Steps, PrepareSteps, JournalSteps, RotationSteps
<1>11. CASE ClaimLease
  BY <1>11 DEF ClaimLease, Steps, PrepareSteps, JournalSteps, RotationSteps
<1>12. CASE WriteMarker
  BY <1>12, TreeTypes DEF WriteMarker, Steps, PrepareSteps, JournalSteps, RotationSteps
<1>13. CASE ReverifyFails
  BY <1>13, AbandonTypes DEF ReverifyFails
<1>14. CASE JournalPrepared
  BY <1>14 DEF JournalPrepared, Steps, PrepareSteps, JournalSteps, RotationSteps, Journals, Trees
<1>15. CASE PruneSelect
  BY <1>15 DEF PruneSelect, SelectPrunable, PruneCandidates, Steps, PrepareSteps, JournalSteps, RotationSteps
<1>16. CASE PruneArtifact
  BY <1>16, TreeTypes DEF PruneArtifact, DeleteArtifactAt, Steps, PrepareSteps, JournalSteps, RotationSteps
<1>17. CASE PruneRow
  BY <1>17, RowTypes DEF PruneRow, Steps, PrepareSteps, JournalSteps, RotationSteps
<1>18. CASE PruneDone
  BY <1>18 DEF PruneDone, Steps, PrepareSteps, JournalSteps, RotationSteps
<1>19. CASE Succeed
  BY <1>19 DEF Succeed, Steps, PrepareSteps, JournalSteps, RotationSteps
<1>20. CASE Exchange
  BY <1>20 DEF Exchange, Steps, PrepareSteps, JournalSteps, RotationSteps
<1>21. CASE ExchangeFails
  BY <1>21, AbandonTypes DEF ExchangeFails
<1>22. CASE JournalExchanged
  BY <1>22, JournalTypes DEF JournalExchanged, Steps, PrepareSteps, JournalSteps, RotationSteps
<1>23. CASE Archive
  BY <1>23, TreeTypes DEF Archive, Steps, PrepareSteps, JournalSteps, RotationSteps
<1>24. CASE RemoveWorking
  BY <1>24, TreeTypes DEF RemoveWorking, Steps, PrepareSteps, JournalSteps, RotationSteps
<1>25. CASE JournalArchived
  BY <1>25, JournalTypes DEF JournalArchived, Steps, PrepareSteps, JournalSteps, RotationSteps
<1>26. CASE RemoveJournal
  BY <1>26, JournalTypes DEF RemoveJournal, Steps, PrepareSteps, JournalSteps, RotationSteps
<1>27. CASE InsertVersion
  BY <1>27, RowTypes, TreeTypes DEF InsertVersion, Steps, PrepareSteps, JournalSteps, RotationSteps
<1>28. CASE InsertRefused
  BY <1>28, AbandonTypes DEF InsertRefused
<1>29. CASE PromoteLatest
  BY <1>29, RowTypes DEF PromoteLatest, Steps, PrepareSteps, JournalSteps, RotationSteps
<1>30. CASE Restart
  BY <1>30 DEF Restart, Steps, PrepareSteps, JournalSteps, RotationSteps
<1>31. CASE RollForward
  BY <1>31 DEF RollForward, ResumeAt, Steps, PrepareSteps, JournalSteps, RotationSteps
<1>32. CASE Reconcile
  BY <1>32 DEF Reconcile, Steps, PrepareSteps, JournalSteps, RotationSteps
<1>33. CASE JournalWriteFails
  BY <1>33, JournalTypes, AbandonTypes DEF JournalWriteFails, TearJournal, Stranded
<1>34. CASE CommitStepFails
  BY <1>34, AbandonTypes DEF CommitStepFails
<1>35. CASE ScanCheckBinding
  BY <1>35 DEF ScanCheckBinding
<1>36. CASE ScanTryClaim
  BY <1>36 DEF ScanTryClaim
<1>37. CASE Scan
  BY <1>37 DEF Scan
<1>38. CASE ScanApply
  BY <1>38, RowTypes DEF ScanApply
<1>39. CASE RecomputeLatest
  BY <1>39, RowTypes DEF RecomputeLatest, ReleaseScan, Present
<1>40. CASE DeleteRead
  BY <1>40 DEF DeleteRead, Rows
<1>41. CASE DeleteArtifact
  BY <1>41, TreeTypes DEF DeleteArtifact, DeleteArtifactAt
<1>42. CASE DeleteRow
  BY <1>42, RowTypes DEF DeleteRow, NoDelete
<1>43. CASE ResetCheck
  BY <1>43 DEF ResetCheck
<1>44. CASE RepairWorkingCopy
  BY <1>44, TreeTypes DEF RepairWorkingCopy
<1>45. CASE Crash
  <2>1. crashes' \in 0..MaxCrashes
    BY <1>45, BoundsAssumption DEF Crash
  <2> QED
    BY <1>45, <2>1, JournalTypes DEF Crash, TearJournal, Stranded, NoDelete, Steps
<1>46. CASE UNCHANGED vars
  BY <1>46 DEF vars
<1>47. CASE PrunePartly
  BY <1>47, GutFacts DEF PrunePartly, GutArtifactAt
<1>48. CASE RemovalFails
  <2>1. CASE del' = NoDelete /\ UNCHANGED resetting
    BY <1>48, <2>1 DEF RemovalFails, NoDelete
  <2>2. CASE resetting' = FALSE /\ UNCHANGED del
    BY <1>48, <2>2 DEF RemovalFails
  <2> QED
    BY <1>48, <2>1, <2>2 DEF RemovalFails
<1>49. CASE DeletePartly
  BY <1>49, GutFacts DEF DeletePartly, GutArtifactAt
<1>50. CASE RemoveWorkingPartly
  BY <1>50, GutFacts DEF RemoveWorkingPartly
<1> QED
  BY <1>1, <1>2, <1>3, <1>4, <1>5, <1>6, <1>7, <1>8, <1>9, <1>10, <1>11,
     <1>12, <1>13, <1>14, <1>15, <1>16, <1>17, <1>18, <1>19, <1>20, <1>21,
     <1>22, <1>23, <1>24, <1>25, <1>26, <1>27, <1>28, <1>29, <1>30, <1>31,
     <1>32, <1>33, <1>34, <1>35, <1>36, <1>37, <1>38, <1>39, <1>40, <1>41,
     <1>42, <1>43, <1>44, <1>45, <1>46,
     <1>47, <1>48, <1>49, <1>50
     DEF Next, JobStep, RotationStep, BootStep, FaultStep, ScanStep, RequestStep

\* 0 is no job, and the empty directory carries no marker.
LEMMA IdFacts ==
    /\ 0 \notin Jobs /\ \A i \in Ids : i # 0 => i \in Jobs
    /\ NoTree.ver = 0 /\ NoTree.body = "none"
  BY BoundsAssumption DEF Jobs, Ids, NoTree

\* versions/<ts>/ has one place for every version and one version for a place.
LEMMA PlaceFacts ==
    /\ \A v \in Jobs : CreatedAt[v] \in Stamps
    /\ \A t \in Stamps : \E v \in Jobs : t = CreatedAt[v]
    /\ \A u, v \in Jobs : CreatedAt[u] = CreatedAt[v] => u = v
<1>1. ASSUME NEW u \in Jobs, NEW v \in Jobs, u # v PROVE CreatedAt[u] # CreatedAt[v]
  <2>1. u \in Nat /\ v \in Nat /\ CreatedAt[u] \in Nat /\ CreatedAt[v] \in Nat
    BY BoundsAssumption DEF Jobs
  <2>2. CASE u < v
    BY <2>1, <2>2, ClockAssumption
  <2>3. CASE v < u
    BY <2>1, <2>3, ClockAssumption
  <2> QED
    BY <1>1, <2>1, <2>2, <2>3
<1> QED
  BY <1>1 DEF Stamps

\* Writing the marker into a verified tree of the job's own makes it the
\* version.
LEMMA MarkerSeals ==
    ASSUME working \in Trees, working.by = job, working.body \in {"whole", "gutted"}
    PROVE  CopyOf([working EXCEPT !.ver = job], job)
  BY DEF Trees, CopyOf


\* Every step keeps Committed, faults and racing requests included.
LEMMA CommittedStep == TypeOK /\ Committed /\ [Next]_vars => Committed'
<1> SUFFICES ASSUME TypeOK, Committed, [Next]_vars PROVE Committed'
  OBVIOUS
<1> USE IdFacts DEF TypeOK, Committed, disk, scanVars, requestVars, history, RotationSteps,
        PrepareSteps, JournalSteps
<1>1. CASE StartBackup
  BY <1>1 DEF StartBackup
<1>2. CASE ToolWrite
  BY <1>2 DEF ToolWrite, Written
<1>3. CASE JobFails
  BY <1>3 DEF JobFails, Abandon
<1>4. CASE PrepareWork
  BY <1>4 DEF PrepareWork, Resumable
<1>5. CASE WriteInfoPlist
  BY <1>5 DEF WriteInfoPlist
<1>6. CASE SeedClone
  BY <1>6 DEF SeedClone
<1>7. CASE SeedCloned
  BY <1>7 DEF SeedCloned
<1>8. CASE SeedMark
  BY <1>8 DEF SeedMark
<1>9. CASE ToolExit
  BY <1>9 DEF ToolExit, Written
<1>10. CASE VerifyWork
  BY <1>10 DEF VerifyWork, VerifyOK
<1>11. CASE ClaimLease
  BY <1>11 DEF ClaimLease
<1>12. CASE WriteMarker
  BY <1>12 DEF WriteMarker, VerifyOK
<1>13. CASE ReverifyFails
  BY <1>13 DEF ReverifyFails, Abandon, VerifyOK
<1>14. CASE JournalPrepared
  BY <1>14 DEF JournalPrepared
<1>15. CASE PruneSelect
  BY <1>15 DEF PruneSelect, SelectPrunable, PruneCandidates
<1>16. CASE PruneArtifact
  BY <1>16 DEF PruneArtifact, DeleteArtifactAt
<1>17. CASE PruneRow
  BY <1>17 DEF PruneRow, NoRow
<1>18. CASE PruneDone
  BY <1>18 DEF PruneDone
<1>19. CASE Succeed
  BY <1>19 DEF Succeed
<1>20. CASE Exchange
  BY <1>20 DEF Exchange, LatestHasVersion, Trees
<1>21. CASE ExchangeFails
  BY <1>21 DEF ExchangeFails, Abandon, LatestHasVersion
<1>22. CASE JournalExchanged
  BY <1>22 DEF JournalExchanged
<1>23. CASE Archive
  BY <1>23 DEF Archive
<1>24. CASE RemoveWorking
  BY <1>24 DEF RemoveWorking
<1>25. CASE JournalArchived
  BY <1>25 DEF JournalArchived
<1>26. CASE RemoveJournal
  BY <1>26 DEF RemoveJournal, NoJournal
<1>27. CASE InsertVersion
  BY <1>27 DEF InsertVersion
<1>28. CASE InsertRefused
  BY <1>28 DEF InsertRefused, Abandon
<1>29. CASE PromoteLatest
  <2>1. \A v \in Jobs : rows'[v].live = rows[v].live /\ rows'[v].adopted = rows[v].adopted
    BY <1>29 DEF PromoteLatest, PromoteRow, Rows
  <2> QED
    BY <1>29, <2>1 DEF PromoteLatest
<1>30. CASE Restart
  BY <1>30 DEF Restart
<1>31. CASE RollForward
  BY <1>31 DEF RollForward, ResumeAt, Journals
<1>32. CASE Reconcile
  BY <1>32 DEF Reconcile, VersionForJob
<1>33. CASE JournalWriteFails
  BY <1>33 DEF JournalWriteFails, TearJournal, TornJournal, Abandon
<1>34. CASE CommitStepFails
  BY <1>34 DEF CommitStepFails, Abandon
<1>35. CASE ScanCheckBinding
  BY <1>35 DEF ScanCheckBinding, Serving
<1>36. CASE ScanTryClaim
  BY <1>36 DEF ScanTryClaim, TryClaim
<1>37. CASE Scan
  BY <1>37 DEF Scan
<1>38. CASE ScanApply
  BY <1>38 DEF ScanApply, ScannedRow
<1>39. CASE RecomputeLatest
  <2>1. \A v \in Jobs : rows'[v].live = rows[v].live /\ rows'[v].adopted = rows[v].adopted
    BY <1>39 DEF RecomputeLatest, Present, PromoteRow, Rows
  <2> QED
    BY <1>39, <2>1 DEF RecomputeLatest, ReleaseScan
<1>40. CASE DeleteRead
  BY <1>40 DEF DeleteRead, Serving
<1>41. CASE DeleteArtifact
  BY <1>41 DEF DeleteArtifact, DeleteArtifactAt
<1>42. CASE DeleteRow
  BY <1>42 DEF DeleteRow, NoRow, NoDelete
<1>43. CASE ResetCheck
  BY <1>43 DEF ResetCheck
<1>44. CASE RepairWorkingCopy
  BY <1>44 DEF RepairWorkingCopy
<1>45. CASE Crash
  BY <1>45 DEF Crash, TearJournal, TornJournal, NoDelete
<1>46. CASE UNCHANGED vars
  BY <1>46 DEF vars
<1>47. CASE PrunePartly
  BY <1>47, GutFacts DEF PrunePartly, GutArtifactAt
<1>48. CASE RemovalFails
  BY <1>48 DEF RemovalFails, NoDelete
<1>49. CASE DeletePartly
  BY <1>49, GutFacts DEF DeletePartly, GutArtifactAt
<1>50. CASE RemoveWorkingPartly
  BY <1>50, GutFacts DEF RemoveWorkingPartly
<1> QED
  BY <1>1, <1>2, <1>3, <1>4, <1>5, <1>6, <1>7, <1>8, <1>9, <1>10, <1>11, <1>12,
     <1>13, <1>14, <1>15, <1>16, <1>17, <1>18, <1>19, <1>20, <1>21, <1>22, <1>23,
     <1>24, <1>25, <1>26, <1>27, <1>28, <1>29, <1>30, <1>31, <1>32, <1>33, <1>34,
     <1>35, <1>36, <1>37, <1>38, <1>39, <1>40, <1>41, <1>42, <1>43, <1>44, <1>45, <1>46,
     <1>47, <1>48, <1>49, <1>50
     DEF Next, JobStep, RotationStep, BootStep, FaultStep, ScanStep, RequestStep

\* Retention and the commit before it stay in step, faults and racing requests
\* included.
LEMMA RetentionStep == TypeOK /\ Committed /\ RetentionTrue /\ [Next]_vars => RetentionTrue'
<1> SUFFICES ASSUME TypeOK, Committed, RetentionTrue, [Next]_vars PROVE RetentionTrue'
  OBVIOUS
<1> USE IdFacts DEF TypeOK, Committed, RetentionTrue, Serving, disk, scanVars, requestVars,
        history, RotationSteps, PrepareSteps, JournalSteps
<1>1. CASE StartBackup
  BY <1>1 DEF StartBackup
<1>2. CASE ToolWrite
  BY <1>2 DEF ToolWrite, Written
<1>3. CASE JobFails
  BY <1>3 DEF JobFails, Abandon
<1>4. CASE PrepareWork
  BY <1>4 DEF PrepareWork, Resumable
<1>5. CASE WriteInfoPlist
  BY <1>5 DEF WriteInfoPlist
<1>6. CASE SeedClone
  BY <1>6 DEF SeedClone
<1>7. CASE SeedCloned
  BY <1>7 DEF SeedCloned
<1>8. CASE SeedMark
  BY <1>8 DEF SeedMark
<1>9. CASE ToolExit
  BY <1>9 DEF ToolExit, Written
<1>10. CASE VerifyWork
  BY <1>10 DEF VerifyWork, VerifyOK
<1>11. CASE ClaimLease
  BY <1>11 DEF ClaimLease
<1>12. CASE WriteMarker
  BY <1>12 DEF WriteMarker, VerifyOK
<1>13. CASE ReverifyFails
  BY <1>13 DEF ReverifyFails, Abandon, VerifyOK
<1>14. CASE JournalPrepared
  BY <1>14 DEF JournalPrepared
<1>15. CASE PruneSelect
  BY <1>15 DEF PruneSelect, SelectPrunable, PruneCandidates
<1>16. CASE PruneArtifact
  BY <1>16 DEF PruneArtifact, DeleteArtifactAt
<1>17. CASE PruneRow
  BY <1>17 DEF PruneRow, NoRow
<1>18. CASE PruneDone
  BY <1>18 DEF PruneDone
<1>19. CASE Succeed
  BY <1>19 DEF Succeed
<1>20. CASE Exchange
  BY <1>20 DEF Exchange, LatestHasVersion, Trees
<1>21. CASE ExchangeFails
  BY <1>21 DEF ExchangeFails, Abandon, LatestHasVersion
<1>22. CASE JournalExchanged
  BY <1>22 DEF JournalExchanged
<1>23. CASE Archive
  BY <1>23 DEF Archive
<1>24. CASE RemoveWorking
  BY <1>24 DEF RemoveWorking
<1>25. CASE JournalArchived
  BY <1>25 DEF JournalArchived
<1>26. CASE RemoveJournal
  BY <1>26 DEF RemoveJournal, NoJournal
<1>27. CASE InsertVersion
  BY <1>27 DEF InsertVersion
<1>28. CASE InsertRefused
  BY <1>28 DEF InsertRefused, Abandon
<1>29. CASE PromoteLatest
  <2>1. job # 0 => job \in Jobs
    OBVIOUS
  <2>2. job # 0 => rows'[job].isLatest = rows[job].live /\ rows'[job].live = rows[job].live
    BY <1>29, <2>1 DEF PromoteLatest, PromoteRow, Rows
  <2> QED
    BY <1>29, <2>1, <2>2 DEF PromoteLatest
<1>30. CASE Restart
  BY <1>30 DEF Restart
<1>31. CASE RollForward
  BY <1>31 DEF RollForward, ResumeAt, Journals
<1>32. CASE Reconcile
  BY <1>32 DEF Reconcile, VersionForJob
<1>33. CASE JournalWriteFails
  BY <1>33 DEF JournalWriteFails, TearJournal, TornJournal, Abandon
<1>34. CASE CommitStepFails
  BY <1>34 DEF CommitStepFails, Abandon
<1>35. CASE ScanCheckBinding
  BY <1>35 DEF ScanCheckBinding, Serving
<1>36. CASE ScanTryClaim
  BY <1>36 DEF ScanTryClaim, TryClaim
<1>37. CASE Scan
  BY <1>37 DEF Scan
<1>38. CASE ScanApply
  BY <1>38 DEF ScanApply, ScannedRow
<1>39. CASE RecomputeLatest
  BY <1>39 DEF RecomputeLatest, ReleaseScan
<1>40. CASE DeleteRead
  BY <1>40 DEF DeleteRead, Serving
<1>41. CASE DeleteArtifact
  BY <1>41 DEF DeleteArtifact, DeleteArtifactAt
<1>42. CASE DeleteRow
  BY <1>42 DEF DeleteRow, NoRow, NoDelete
<1>43. CASE ResetCheck
  BY <1>43 DEF ResetCheck
<1>44. CASE RepairWorkingCopy
  BY <1>44 DEF RepairWorkingCopy
<1>45. CASE Crash
  BY <1>45 DEF Crash, TearJournal, TornJournal, NoDelete
<1>46. CASE UNCHANGED vars
  BY <1>46 DEF vars
<1>47. CASE PrunePartly
  BY <1>47, GutFacts DEF PrunePartly, GutArtifactAt
<1>48. CASE RemovalFails
  BY <1>48 DEF RemovalFails, NoDelete
<1>49. CASE DeletePartly
  BY <1>49, GutFacts DEF DeletePartly, GutArtifactAt
<1>50. CASE RemoveWorkingPartly
  BY <1>50, GutFacts DEF RemoveWorkingPartly
<1> QED
  BY <1>1, <1>2, <1>3, <1>4, <1>5, <1>6, <1>7, <1>8, <1>9, <1>10, <1>11, <1>12,
     <1>13, <1>14, <1>15, <1>16, <1>17, <1>18, <1>19, <1>20, <1>21, <1>22, <1>23,
     <1>24, <1>25, <1>26, <1>27, <1>28, <1>29, <1>30, <1>31, <1>32, <1>33, <1>34,
     <1>35, <1>36, <1>37, <1>38, <1>39, <1>40, <1>41, <1>42, <1>43, <1>44, <1>45, <1>46,
     <1>47, <1>48, <1>49, <1>50
     DEF Next, JobStep, RotationStep, BootStep, FaultStep, ScanStep, RequestStep

\* A version stays unheard of until its own job publishes it, faults and racing
\* requests included.
LEMMA NewStep == TypeOK /\ Committed /\ RetentionTrue /\ NewTrue /\ [Next]_vars => NewTrue'
<1> SUFFICES ASSUME TypeOK, Committed, RetentionTrue, NewTrue, [Next]_vars PROVE NewTrue'
  OBVIOUS
<1> USE IdFacts DEF TypeOK, Committed, RetentionTrue, NewTrue, Unheard, Serving, disk, scanVars, requestVars,
        history, RotationSteps, PrepareSteps, JournalSteps
<1>1. CASE StartBackup
  BY <1>1 DEF StartBackup
<1>2. CASE ToolWrite
  BY <1>2 DEF ToolWrite, Written
<1>3. CASE JobFails
  BY <1>3 DEF JobFails, Abandon
<1>4. CASE PrepareWork
  BY <1>4 DEF PrepareWork, Resumable
<1>5. CASE WriteInfoPlist
  BY <1>5 DEF WriteInfoPlist
<1>6. CASE SeedClone
  BY <1>6 DEF SeedClone
<1>7. CASE SeedCloned
  BY <1>7 DEF SeedCloned
<1>8. CASE SeedMark
  BY <1>8 DEF SeedMark
<1>9. CASE ToolExit
  BY <1>9 DEF ToolExit, Written
<1>10. CASE VerifyWork
  BY <1>10 DEF VerifyWork, VerifyOK
<1>11. CASE ClaimLease
  BY <1>11 DEF ClaimLease
<1>12. CASE WriteMarker
  BY <1>12 DEF WriteMarker, VerifyOK
<1>13. CASE ReverifyFails
  BY <1>13 DEF ReverifyFails, Abandon, VerifyOK
<1>14. CASE JournalPrepared
  BY <1>14 DEF JournalPrepared
<1>15. CASE PruneSelect
  BY <1>15 DEF PruneSelect, SelectPrunable, PruneCandidates
<1>16. CASE PruneArtifact
  BY <1>16 DEF PruneArtifact, DeleteArtifactAt
<1>17. CASE PruneRow
  BY <1>17 DEF PruneRow, NoRow
<1>18. CASE PruneDone
  BY <1>18 DEF PruneDone
<1>19. CASE Succeed
  BY <1>19 DEF Succeed
<1>20. CASE Exchange
  BY <1>20 DEF Exchange, LatestHasVersion, Trees
<1>21. CASE ExchangeFails
  BY <1>21 DEF ExchangeFails, Abandon, LatestHasVersion
<1>22. CASE JournalExchanged
  BY <1>22 DEF JournalExchanged
<1>23. CASE Archive
  BY <1>23 DEF Archive
<1>24. CASE RemoveWorking
  BY <1>24 DEF RemoveWorking
<1>25. CASE JournalArchived
  BY <1>25 DEF JournalArchived
<1>26. CASE RemoveJournal
  BY <1>26 DEF RemoveJournal, NoJournal
<1>27. CASE InsertVersion
  BY <1>27 DEF InsertVersion
<1>28. CASE InsertRefused
  BY <1>28 DEF InsertRefused, Abandon
<1>29. CASE PromoteLatest
  <2>1. \A v \in Jobs : rows'[v].live = rows[v].live
    BY <1>29 DEF PromoteLatest, PromoteRow, Rows
  <2> QED
    BY <1>29, <2>1 DEF PromoteLatest
<1>30. CASE Restart
  BY <1>30 DEF Restart
<1>31. CASE RollForward
  BY <1>31 DEF RollForward, ResumeAt, Journals
<1>32. CASE Reconcile
  BY <1>32 DEF Reconcile, VersionForJob
<1>33. CASE JournalWriteFails
  BY <1>33 DEF JournalWriteFails, TearJournal, TornJournal, Abandon
<1>34. CASE CommitStepFails
  BY <1>34 DEF CommitStepFails, Abandon
<1>35. CASE ScanCheckBinding
  BY <1>35 DEF ScanCheckBinding, Serving
<1>36. CASE ScanTryClaim
  BY <1>36 DEF ScanTryClaim, TryClaim
<1>37. CASE Scan
  BY <1>37 DEF Scan
<1>38. CASE ScanApply
  BY <1>38 DEF ScanApply, ScannedRow
<1>39. CASE RecomputeLatest
  <2>1. \A v \in Jobs : rows'[v].live = rows[v].live
    BY <1>39 DEF RecomputeLatest, Present, PromoteRow, Rows
  <2> QED
    BY <1>39, <2>1 DEF RecomputeLatest, ReleaseScan
<1>40. CASE DeleteRead
  BY <1>40 DEF DeleteRead, Serving
<1>41. CASE DeleteArtifact
  BY <1>41 DEF DeleteArtifact, DeleteArtifactAt
<1>42. CASE DeleteRow
  BY <1>42 DEF DeleteRow, NoRow, NoDelete
<1>43. CASE ResetCheck
  BY <1>43 DEF ResetCheck
<1>44. CASE RepairWorkingCopy
  BY <1>44 DEF RepairWorkingCopy
<1>45. CASE Crash
  BY <1>45 DEF Crash, TearJournal, TornJournal, NoDelete
<1>46. CASE UNCHANGED vars
  BY <1>46 DEF vars
<1>47. CASE PrunePartly
  BY <1>47, GutFacts DEF PrunePartly, GutArtifactAt
<1>48. CASE RemovalFails
  BY <1>48 DEF RemovalFails, NoDelete
<1>49. CASE DeletePartly
  BY <1>49, GutFacts DEF DeletePartly, GutArtifactAt
<1>50. CASE RemoveWorkingPartly
  BY <1>50, GutFacts DEF RemoveWorkingPartly
<1> QED
  BY <1>1, <1>2, <1>3, <1>4, <1>5, <1>6, <1>7, <1>8, <1>9, <1>10, <1>11, <1>12,
     <1>13, <1>14, <1>15, <1>16, <1>17, <1>18, <1>19, <1>20, <1>21, <1>22, <1>23,
     <1>24, <1>25, <1>26, <1>27, <1>28, <1>29, <1>30, <1>31, <1>32, <1>33, <1>34,
     <1>35, <1>36, <1>37, <1>38, <1>39, <1>40, <1>41, <1>42, <1>43, <1>44, <1>45, <1>46,
     <1>47, <1>48, <1>49, <1>50
     DEF Next, JobStep, RotationStep, BootStep, FaultStep, ScanStep, RequestStep

\* Nothing fails and requests do not race with a job: what the runs about the
\* content of versions assume.  The README names a counterexample for each of
\* the three without it.
Undisturbed == Faults = {} /\ Requests \cap {"delete_latest", "reset_race"} = {}

\* Every step of the job, roll-forward, scan, retention and requests keeps the
\* journal, the three places and the registry in agreement.
LEMMA StoreStep == ASSUME Undisturbed PROVE TypeOK /\ StoreInv /\ Rising /\ [Next]_vars => StoreInv'
<1> SUFFICES ASSUME TypeOK, StoreInv, Rising, [Next]_vars PROVE StoreInv'
  OBVIOUS
<1> USE IdTypes, IdFacts, PlaceFacts
    DEF Undisturbed, TypeOK, StoreInv, disk, scanVars, requestVars, history, RotationSteps,
        PrepareSteps, JournalSteps, Steps, Serving, LeaseHeld, JournalAt, JournalTrue, PlacesTrue,
        JobNew, WorkTrue, RegistryTrue, CommittedIntact, Intact, Displaced, Exchanged, CopyOf, Remains
<1>1. CASE StartBackup
  BY <1>1 DEF StartBackup
<1>2. CASE ToolWrite
  BY <1>2 DEF ToolWrite, Written
<1>3. CASE JobFails
  BY <1>3 DEF JobFails, Abandon
<1>4. CASE PrepareWork
  BY <1>4 DEF PrepareWork, Resumable
<1>5. CASE WriteInfoPlist
  BY <1>5 DEF WriteInfoPlist
<1>6. CASE SeedClone
  BY <1>6 DEF SeedClone
<1>7. CASE SeedCloned
  BY <1>7 DEF SeedCloned
<1>8. CASE SeedMark
  BY <1>8 DEF SeedMark
<1>9. CASE ToolExit
  BY <1>9 DEF ToolExit, Written
<1>10. CASE VerifyWork
  BY <1>10 DEF VerifyWork, VerifyOK
<1>11. CASE ClaimLease
  BY <1>11 DEF ClaimLease
<1>12. CASE WriteMarker
  <2>1. working.by = job /\ working.body \in {"whole", "gutted"}
    BY <1>12 DEF WriteMarker, VerifyOK
  <2>2. CopyOf(working', job)
    BY <1>12, <2>1, MarkerSeals DEF WriteMarker
  <2> QED
    BY <1>12, <2>2 DEF WriteMarker
<1>13. CASE ReverifyFails
  BY <1>13 DEF ReverifyFails, Abandon, VerifyOK
<1>14. CASE JournalPrepared
  BY <1>14 DEF JournalPrepared
<1>15. CASE PruneSelect
  BY <1>15 DEF PruneSelect, SelectPrunable, PruneCandidates
<1>16. CASE PruneArtifact
  BY <1>16 DEF PruneArtifact, DeleteArtifactAt
<1>17. CASE PruneRow
  BY <1>17 DEF PruneRow, NoRow
<1>18. CASE PruneDone
  BY <1>18 DEF PruneDone
<1>19. CASE Succeed
  BY <1>19 DEF Succeed
<1>20. CASE Exchange
  BY <1>20 DEF Exchange, LatestHasVersion
<1>21. CASE ExchangeFails
  BY <1>21 DEF ExchangeFails, Abandon, LatestHasVersion
<1>22. CASE JournalExchanged
  BY <1>22 DEF JournalExchanged
<1>23. CASE Archive
  BY <1>23 DEF Archive
<1>24. CASE RemoveWorking
  BY <1>24 DEF RemoveWorking
<1>25. CASE JournalArchived
  BY <1>25 DEF JournalArchived
<1>26. CASE RemoveJournal
  BY <1>26 DEF RemoveJournal, NoJournal
<1>27. CASE InsertVersion
  BY <1>27 DEF InsertVersion
<1>28. CASE InsertRefused
  BY <1>28 DEF InsertRefused, Abandon
<1>29. CASE PromoteLatest
  <2>1. cur \in Jobs
    BY <1>29 DEF PromoteLatest
  <2>2. \A v \in Jobs : /\ rows'[v].live = rows[v].live
                        /\ rows'[v].isLatest = (rows[v].live /\ v = cur)
    BY <1>29, <2>1 DEF PromoteLatest, PromoteRow, Rows
  <2>3. (job # 0 => job \in Jobs /\ cur = job) /\ (pc' = "select" => job # 0)
    BY <1>29 DEF PromoteLatest
  <2>4. RegistryTrue'
    BY <1>29, <2>2, <2>3 DEF PromoteLatest
  <2>5. LeaseHeld' /\ JournalAt' /\ JournalTrue' /\ PlacesTrue'
    BY <1>29 DEF PromoteLatest
  <2>6. JobNew' /\ WorkTrue' /\ CommittedIntact'
    BY <1>29 DEF PromoteLatest
  <2> QED
    BY <2>4, <2>5, <2>6
<1>30. CASE Restart
  BY <1>30 DEF Restart
<1>31. CASE RollForward
  BY <1>31 DEF RollForward, ResumeAt, Journals
<1>32. CASE Reconcile
  BY <1>32 DEF Reconcile, VersionForJob
<1>33. CASE JournalWriteFails
  BY <1>33 DEF JournalWriteFails, TearJournal, TornJournal, Abandon
<1>34. CASE CommitStepFails
  BY <1>34 DEF CommitStepFails, Abandon
<1>35. CASE ScanCheckBinding
  BY <1>35 DEF ScanCheckBinding, Serving
<1>36. CASE ScanTryClaim
  BY <1>36 DEF ScanTryClaim, TryClaim
<1>37. CASE Scan
  BY <1>37 DEF Scan
<1>38. CASE ScanApply
  BY <1>38 DEF ScanApply, ScannedRow
<1>39. CASE RecomputeLatest
  <2>1. \A v \in Jobs : rows'[v].live = rows[v].live
    BY <1>39 DEF RecomputeLatest, Present, PromoteRow, Rows
  <2>2. pc \notin RotationSteps \cup {"select", "prune", "prune_row"}
    BY <1>39 DEF RecomputeLatest
  <2> QED
    BY <1>39, <2>1, <2>2 DEF RecomputeLatest, ReleaseScan
<1>40. CASE DeleteRead
  BY <1>40 DEF DeleteRead, Serving
<1>41. CASE DeleteArtifact
  BY <1>41 DEF DeleteArtifact, DeleteArtifactAt
<1>42. CASE DeleteRow
  BY <1>42 DEF DeleteRow, NoRow, NoDelete
<1>43. CASE ResetCheck
  BY <1>43 DEF ResetCheck
<1>44. CASE RepairWorkingCopy
  BY <1>44 DEF RepairWorkingCopy
<1>45. CASE Crash
  <2>1. CASE UNCHANGED <<journal, exposed>>
    BY <1>45, <2>1 DEF Crash, NoDelete
  <2>2. CASE TearJournal
    <3>1. /\ LeaseHeld' /\ JournalAt' /\ JournalTrue' /\ PlacesTrue' /\ JobNew' /\ WorkTrue'
          /\ RegistryTrue'
      BY <1>45, <2>2 DEF Crash, TearJournal, TornJournal, NoDelete
    <3>2. UNCHANGED <<working, latest, versions, published, removed>>
      BY <1>45 DEF Crash
    <3>3. ASSUME NEW v \in published, v \notin removed \cup exposed, v \notin Stranded
          PROVE  Intact(v)'
      <4>1. ~Displaced(v)
        BY <2>2, <3>3 DEF TearJournal, Stranded
      <4> QED
        BY <3>2, <3>3, <4>1
    <3>4. ASSUME NEW v \in Stranded PROVE \E u \in published : u > v
      <4>1. pc = "jexchanged" /\ v = journal.prev
        BY <3>4 DEF Stranded
      <4>2. CopyOf(latest, journal.ver) /\ journal.ver \in published /\ journal.prev < journal.ver
        BY <4>1 DEF Rising
      <4> QED
        BY <4>1, <4>2 DEF Jobs, Journals, Ids
    <3>5. exposed' = exposed \cup Stranded
      BY <2>2 DEF TearJournal
    <3>6. CommittedIntact'
      BY <3>2, <3>3, <3>4, <3>5
    <3> QED
      BY <3>1, <3>6
  <2> QED
    BY <1>45, <2>1, <2>2 DEF Crash
<1>46. CASE UNCHANGED vars
  BY <1>46 DEF vars
<1>47. CASE PrunePartly
  BY <1>47, GutFacts DEF PrunePartly, GutArtifactAt
<1>48. CASE RemovalFails
  BY <1>48 DEF RemovalFails, NoDelete
<1>49. CASE DeletePartly
  <2>1. PICK t \in Gutted(versions[CreatedAt[del.id]]) :
           versions' = [versions EXCEPT ![CreatedAt[del.id]] = t]
    BY <1>49 DEF DeletePartly, GutArtifactAt
  <2>2. del.id \in published \cap removed /\ versions[CreatedAt[del.id]] \in Trees
    BY <1>49 DEF DeletePartly
  <2>3. t.ver \in {0, versions[CreatedAt[del.id]].ver} /\ t.body = "gutted"
        /\ t \in Trees /\ t # NoTree /\ versions[CreatedAt[del.id]] # NoTree
    BY <1>49, <2>1, <2>2, GutFacts DEF DeletePartly, GutArtifactAt, Guttable
  <2>4. UNCHANGED <<working, latest, sentinel, journal, rows, jobrow, pc, job, cur, victims,
                    lease, scanVars, requestVars, crashes, history>>
    BY <1>49 DEF DeletePartly, GutArtifactAt
  <2>5. LeaseHeld' /\ JournalAt' /\ JournalTrue' /\ JobNew' /\ WorkTrue' /\ RegistryTrue'
    BY <2>4
  <2>6. PlacesTrue'
    BY <2>1, <2>2, <2>3, <2>4
  <2>7. CommittedIntact'
    BY <2>1, <2>2, <2>3, <2>4
  <2> QED
    BY <2>5, <2>6, <2>7
<1>50. CASE RemoveWorkingPartly
  <2>1. PICK t \in Gutted(working) : working' = t
    BY <1>50 DEF RemoveWorkingPartly
  <2>2. t.ver \in {0, working.ver} /\ t.by = working.by /\ t.body = "gutted"
    BY <2>1, GutFacts
  <2>3. pc = "idle" /\ journal.phase \in {"none", "torn"}
    BY <1>50 DEF RemoveWorkingPartly, Guttable
  <2>4. UNCHANGED <<latest, versions, sentinel, journal, rows, jobrow, pc, job, cur,
                    victims, lease, scanVars, requestVars, crashes, history>>
    BY <1>50 DEF RemoveWorkingPartly
  <2>5. LeaseHeld' /\ JournalAt' /\ PlacesTrue' /\ JobNew' /\ RegistryTrue'
    BY <2>3, <2>4
  <2>6. JournalTrue' /\ WorkTrue'
    BY <2>1, <2>2, <2>3, <2>4
  <2>7. CommittedIntact'
    BY <2>3, <2>4
  <2> QED
    BY <2>5, <2>6, <2>7
<1> QED
  BY <1>1, <1>2, <1>3, <1>4, <1>5, <1>6, <1>7, <1>8, <1>9, <1>10, <1>11, <1>12,
     <1>13, <1>14, <1>15, <1>16, <1>17, <1>18, <1>19, <1>20, <1>21, <1>22, <1>23,
     <1>24, <1>25, <1>26, <1>27, <1>28, <1>29, <1>30, <1>31, <1>32, <1>33, <1>34,
     <1>35, <1>36, <1>37, <1>38, <1>39, <1>40, <1>41, <1>42, <1>43, <1>44, <1>45, <1>46,
     <1>47, <1>48, <1>49, <1>50
     DEF Next, JobStep, RotationStep, BootStep, FaultStep, ScanStep, RequestStep

\* A step that moves no verified tree out of sight of recovery, condemns
\* nothing and publishes nothing is a stutter of the ledger.
LEMMA LedgerStutters ==
    (\A v \in published : Intact(v)' <=> Intact(v)) /\ UNCHANGED <<published, removed, exposed>>
      => UNCHANGED <<IntactSet, published, removed \cup exposed>>
  BY DEF IntactSet

\* Deleting what is condemned drops one version from the ledger, or none.
LEMMA DeletionDrops ==
    ASSUME TypeOK, StoreInv, NEW v \in published \cap removed, NEW t,
           t = NoTree \/ t \in Gutted(versions[CreatedAt[v]]),
           versions' = [versions EXCEPT ![CreatedAt[v]] = t],
           UNCHANGED <<latest, working, journal, published, removed, exposed>>
    PROVE  Ledger!Next \/ UNCHANGED <<IntactSet, published, removed \cup exposed>>
<1>1. v \in Jobs /\ CreatedAt[v] \in Stamps /\ versions[CreatedAt[v]] \in Trees
  BY PlaceFacts DEF TypeOK
<1>2. t.ver \in {0, versions[CreatedAt[v]].ver} /\ (t.ver # 0 => t.by = versions[CreatedAt[v]].by)
  BY <1>1, GutFacts, IdFacts
<1>3. versions[CreatedAt[v]].ver \in {0, v}
  BY <1>1, IdFacts DEF StoreInv, PlacesTrue, Remains, CopyOf
<1>4. ASSUME NEW u \in published, u # v PROVE Intact(u)' <=> Intact(u)
  <2>1. u \in Jobs /\ u # 0
    BY IdFacts DEF TypeOK
  <2>2. ~CopyOf(t, u) /\ ~CopyOf(versions[CreatedAt[v]], u)
    BY <1>2, <1>3, <1>4, <2>1 DEF CopyOf
  <2>3. \A p \in Stamps : CopyOf(versions'[p], u) <=> CopyOf(versions[p], u)
    BY <1>1, <2>2 DEF TypeOK
  <2> QED
    BY <2>3 DEF Intact, Displaced, CopyOf
<1>5. Intact(v)' => Intact(v)
  <2>1. v # 0
    BY <1>1, IdFacts
  <2>2. CopyOf(t, v) => versions[CreatedAt[v]] # NoTree
    BY <1>2, <2>1, IdFacts DEF CopyOf
  <2>3. CASE CopyOf(t, v)
    <3>1. versions[CreatedAt[v]] \in Trees /\ t \in Gutted(versions[CreatedAt[v]])
      BY <1>1, <2>1, <2>3, IdFacts DEF CopyOf
    <3>2. t.by = versions[CreatedAt[v]].by /\ t.ver = versions[CreatedAt[v]].ver
      BY <1>2, <2>1, <2>3, <3>1, GutFacts DEF CopyOf
    <3>3. CASE CopyOf(versions[CreatedAt[v]], v)
      BY <1>1, <3>3 DEF Intact
    <3>4. CASE Remains(v)
      BY <1>1, <2>3, <3>2, <3>4 DEF Intact, Remains, CopyOf
    <3> QED
      BY <1>1, <2>2, <2>3, <3>3, <3>4 DEF StoreInv, PlacesTrue
  <2>4. CASE ~CopyOf(t, v)
    BY <1>1, <2>4 DEF TypeOK, Intact, Displaced, CopyOf
  <2> QED
    BY <2>3, <2>4
<1>6. CASE Intact(v) /\ ~Intact(v)'
  <2>1. v \in IntactSet \cap (removed \cup exposed) /\ IntactSet' = IntactSet \ {v}
    BY <1>4, <1>6 DEF IntactSet
  <2>2. Ledger!Drop(v)
    BY <2>1 DEF Ledger!Drop
  <2> QED
    BY <1>1, <2>2 DEF Ledger!Next
<1>7. CASE Intact(v) <=> Intact(v)'
  BY <1>4, <1>7, LedgerStutters
<1> QED
  BY <1>5, <1>6, <1>7

\* A step that only writes into working/, where no rotation is pending, drops
\* the exposed version that was in it, or nothing.
LEMMA WorkDrops ==
    ASSUME TypeOK, journal.phase \notin {"prepared", "exchanged"},
           UNCHANGED <<latest, versions, journal, published, removed, exposed>>,
           \A v \in published \cap exposed : CopyOf(working, v)' => Intact(v)
    PROVE  Ledger!Next \/ UNCHANGED <<IntactSet, published, removed \cup exposed>>
<1>1. ASSUME NEW u \in published PROVE Intact(u)' => Intact(u)
  BY <1>1 DEF Intact, Displaced, CopyOf
<1>2. ASSUME NEW u \in published, u # working.ver PROVE Intact(u) => Intact(u)'
  BY <1>2 DEF Intact, Displaced, CopyOf
<1>3. ASSUME NEW w \in published, Intact(w), ~Intact(w)'
      PROVE  Ledger!Next
  <2>1. w \in exposed /\ w \in Jobs /\ w = working.ver
    BY <1>3, <1>2 DEF Intact, Displaced, CopyOf, TypeOK
  <2>2. w \in IntactSet \cap (removed \cup exposed) /\ IntactSet' = IntactSet \ {w}
    BY <1>1, <1>2, <1>3, <2>1 DEF IntactSet
  <2>3. Ledger!Drop(w)
    BY <2>2 DEF Ledger!Drop
  <2> QED
    BY <2>1, <2>3 DEF Ledger!Next
<1>4. CASE \A w \in published : Intact(w) => Intact(w)'
  <2>1. \A u \in published : Intact(u)' <=> Intact(u)
    BY <1>1, <1>4
  <2> QED
    BY <2>1, LedgerStutters
<1> QED
  BY <1>3, <1>4

\* Every step of the store is a step of the ledger or a stutter.
LEMMA LedgerStep ==
    ASSUME Undisturbed, TypeOK, StoreInv, [Next]_vars
    PROVE  Ledger!Next \/ UNCHANGED <<IntactSet, published, removed \cup exposed>>
<1> DEFINE Same == (\A v \in published : Intact(v)' <=> Intact(v)) /\ UNCHANGED <<published, removed, exposed>>
<1>0. ASSUME Same PROVE UNCHANGED <<IntactSet, published, removed \cup exposed>>
  BY <1>0, LedgerStutters
<1> USE IdTypes, IdFacts, PlaceFacts
    DEF disk, scanVars, requestVars, history, RotationSteps, PrepareSteps, JournalSteps, Steps,
        Undisturbed
<1>1. CASE StartBackup
  BY <1>1, <1>0 DEF StartBackup, TypeOK, StoreInv, LeaseHeld, JournalAt,
     JournalTrue, PlacesTrue, Remains, JobNew, Exchanged, Intact, Displaced, CopyOf
<1>2. CASE ToolWrite
  <2>1. journal.phase \notin {"prepared", "exchanged"}
    BY <1>2 DEF ToolWrite, StoreInv, JournalAt, LeaseHeld
  <2>2. \A v \in published \cap exposed : CopyOf(working, v)' => Intact(v)
    BY <1>2 DEF ToolWrite, Written, CopyOf, Intact, Displaced, TypeOK, StoreInv, JobNew, LeaseHeld, WorkTrue
  <2>3. UNCHANGED <<latest, versions, journal, published, removed, exposed>>
    BY <1>2 DEF ToolWrite
  <2> QED
    BY <2>1, <2>2, <2>3, WorkDrops
<1>3. CASE JobFails
  BY <1>3, <1>0 DEF JobFails, Abandon, TypeOK, StoreInv, LeaseHeld, JournalAt,
     JournalTrue, PlacesTrue, Remains, JobNew, Exchanged, Intact, Displaced, CopyOf
<1>4. CASE PrepareWork
  <2>1. journal.phase \notin {"prepared", "exchanged"}
    BY <1>4 DEF PrepareWork, StoreInv, JournalAt, LeaseHeld
  <2>2. \A v \in published \cap exposed : CopyOf(working, v)' => Intact(v)
    BY <1>4 DEF PrepareWork, Resumable, CopyOf, Intact, Displaced, TypeOK, StoreInv, JobNew, LeaseHeld, WorkTrue
  <2>3. UNCHANGED <<latest, versions, journal, published, removed, exposed>>
    BY <1>4 DEF PrepareWork
  <2> QED
    BY <2>1, <2>2, <2>3, WorkDrops
<1>5. CASE WriteInfoPlist
  <2>1. journal.phase \notin {"prepared", "exchanged"}
    BY <1>5 DEF WriteInfoPlist, StoreInv, JournalAt, LeaseHeld
  <2>2. \A v \in published \cap exposed : CopyOf(working, v)' => Intact(v)
    BY <1>5 DEF WriteInfoPlist, CopyOf, Intact, Displaced, TypeOK, StoreInv, JobNew, LeaseHeld, WorkTrue
  <2>3. UNCHANGED <<latest, versions, journal, published, removed, exposed>>
    BY <1>5 DEF WriteInfoPlist
  <2> QED
    BY <2>1, <2>2, <2>3, WorkDrops
<1>6. CASE SeedClone
  <2>1. journal.phase \notin {"prepared", "exchanged"}
    BY <1>6 DEF SeedClone, StoreInv, JournalAt, LeaseHeld
  <2>2. \A v \in published \cap exposed : CopyOf(working, v)' => Intact(v)
    BY <1>6 DEF SeedClone, CopyOf, Intact, Displaced, TypeOK, StoreInv, JobNew, LeaseHeld, WorkTrue
  <2>3. UNCHANGED <<latest, versions, journal, published, removed, exposed>>
    BY <1>6 DEF SeedClone
  <2> QED
    BY <2>1, <2>2, <2>3, WorkDrops
<1>7. CASE SeedCloned
  <2>1. journal.phase \notin {"prepared", "exchanged"}
    BY <1>7 DEF SeedCloned, StoreInv, JournalAt, LeaseHeld
  <2>2. \A v \in published \cap exposed : CopyOf(working, v)' => Intact(v)
    BY <1>7 DEF SeedCloned, CopyOf, Intact, Displaced, TypeOK, StoreInv, JobNew, LeaseHeld, WorkTrue
  <2>3. UNCHANGED <<latest, versions, journal, published, removed, exposed>>
    BY <1>7 DEF SeedCloned
  <2> QED
    BY <2>1, <2>2, <2>3, WorkDrops
<1>8. CASE SeedMark
  BY <1>8, <1>0 DEF SeedMark, TypeOK, StoreInv, LeaseHeld, JournalAt, JournalTrue,
     PlacesTrue, Remains, JobNew, Exchanged, Intact, Displaced, CopyOf
<1>9. CASE ToolExit
  <2>1. journal.phase \notin {"prepared", "exchanged"}
    BY <1>9 DEF ToolExit, StoreInv, JournalAt, LeaseHeld
  <2>2. \A v \in published \cap exposed : CopyOf(working, v)' => Intact(v)
    BY <1>9 DEF ToolExit, Written, CopyOf, Intact, Displaced, TypeOK, StoreInv, JobNew, LeaseHeld, WorkTrue
  <2>3. UNCHANGED <<latest, versions, journal, published, removed, exposed>>
    BY <1>9 DEF ToolExit
  <2> QED
    BY <2>1, <2>2, <2>3, WorkDrops
<1>10. CASE VerifyWork
  BY <1>10, <1>0 DEF VerifyWork, VerifyOK, TypeOK, StoreInv, LeaseHeld, JournalAt,
     JournalTrue, PlacesTrue, Remains, JobNew, Exchanged, Intact, Displaced, CopyOf
<1>11. CASE ClaimLease
  BY <1>11, <1>0 DEF ClaimLease, TypeOK, StoreInv, LeaseHeld, JournalAt,
     JournalTrue, PlacesTrue, Remains, JobNew, Exchanged, Intact, Displaced, CopyOf
<1>12. CASE WriteMarker
  <2>1. journal.phase \notin {"prepared", "exchanged"}
    BY <1>12 DEF WriteMarker, StoreInv, JournalAt, LeaseHeld
  <2>2. \A v \in published \cap exposed : CopyOf(working, v)' => Intact(v)
    BY <1>12 DEF WriteMarker, VerifyOK, CopyOf, Intact, Displaced, TypeOK, StoreInv, JobNew, LeaseHeld, WorkTrue
  <2>3. UNCHANGED <<latest, versions, journal, published, removed, exposed>>
    BY <1>12 DEF WriteMarker
  <2> QED
    BY <2>1, <2>2, <2>3, WorkDrops
<1>13. CASE ReverifyFails
  BY <1>13, <1>0 DEF ReverifyFails, Abandon, VerifyOK, TypeOK, StoreInv, LeaseHeld,
     JournalAt, JournalTrue, PlacesTrue, Remains, JobNew, Exchanged, Intact, Displaced, CopyOf
<1>14. CASE JournalPrepared
  BY <1>14, <1>0 DEF JournalPrepared, TypeOK, StoreInv, LeaseHeld, JournalAt,
     JournalTrue, PlacesTrue, Remains, JobNew, Exchanged, Intact, Displaced, CopyOf
<1>15. CASE PruneSelect
  <2>1. SelectPrunable \in SUBSET Jobs
    BY DEF SelectPrunable, PruneCandidates
  <2>2. IntactSet' = IntactSet
    BY <1>15 DEF PruneSelect, IntactSet, Intact, Displaced, CopyOf
  <2>3. Ledger!Condemn(SelectPrunable)
    BY <1>15, <2>2 DEF PruneSelect, Ledger!Condemn
  <2> QED
    BY <2>1, <2>3 DEF Ledger!Next
<1>16. CASE PruneArtifact
  <2>1. PICK v \in victims : /\ cur = v \/ (cur = 0 /\ rows[v].live)
                             /\ IF rows[v].missing THEN UNCHANGED <<latest, versions>>
                                                   ELSE DeleteArtifactAt(v, rows[v].isLatest)
    BY <1>16 DEF PruneArtifact
  <2>2. v \in published \cap removed /\ ~rows[v].isLatest
    BY <1>16, <2>1 DEF PruneArtifact, TypeOK, StoreInv, RegistryTrue
  <2>3. UNCHANGED <<working, journal, published, removed, exposed>>
    BY <1>16 DEF PruneArtifact
  <2>4. CASE rows[v].missing
    BY <1>0, <2>1, <2>3, <2>4 DEF Intact, Displaced, CopyOf
  <2>5. CASE ~rows[v].missing
    BY <2>1, <2>2, <2>3, <2>5, DeletionDrops DEF DeleteArtifactAt
  <2> QED
    BY <2>4, <2>5
<1>17. CASE PruneRow
  BY <1>17, <1>0 DEF PruneRow, NoRow, TypeOK, StoreInv, LeaseHeld, JournalAt,
     JournalTrue, PlacesTrue, Remains, JobNew, Exchanged, Intact, Displaced, CopyOf
<1>18. CASE PruneDone
  BY <1>18, <1>0 DEF PruneDone, TypeOK, StoreInv, LeaseHeld, JournalAt, JournalTrue,
     PlacesTrue, Remains, JobNew, Exchanged, Intact, Displaced, CopyOf
<1>19. CASE Succeed
  BY <1>19, <1>0 DEF Succeed, TypeOK, StoreInv, LeaseHeld, JournalAt, JournalTrue,
     PlacesTrue, Remains, JobNew, Exchanged, Intact, Displaced, CopyOf
<1>20. CASE Exchange
  <2>0. PICK j \in Ids : j = journal.ver
    BY DEF TypeOK, Journals
  <2>1. CASE LatestHasVersion(j)
    BY <1>20, <2>0, <1>0, <2>1 DEF Exchange, LatestHasVersion, TypeOK, StoreInv, JournalAt, JournalTrue,
       PlacesTrue, Remains, Exchanged, Intact, Displaced, CopyOf
  <2>2. CASE ~LatestHasVersion(j)
    <3>1. j \in Jobs \ published /\ CopyOf(working, j) /\ latest.ver = journal.prev
      BY <1>20, <2>0, <2>2 DEF Exchange, LatestHasVersion, StoreInv, JournalAt, JournalTrue, Exchanged, CopyOf
    <3>2. published' = published \cup {j} /\ latest' = working /\ working' = latest
      BY <1>20, <2>0, <2>2, <3>1 DEF Exchange, CopyOf
    <3>3. UNCHANGED <<versions, journal, removed, exposed>>
      BY <1>20 DEF Exchange
    <3>4. Intact(j)'
      BY <3>1, <3>2 DEF Intact, CopyOf
    <3>5. ASSUME NEW v \in published PROVE Intact(v)' <=> Intact(v)
      BY <1>20, <2>0, <3>1, <3>2, <3>3 DEF Exchange, TypeOK, StoreInv, JournalAt, JournalTrue, PlacesTrue, Remains,
         Intact, Displaced, CopyOf
    <3>6. IntactSet' = IntactSet \cup {j}
      BY <3>2, <3>4, <3>5 DEF IntactSet
    <3>7. Ledger!Commit(j)
      BY <3>1, <3>2, <3>3, <3>6 DEF Ledger!Commit
    <3> QED
      BY <3>1, <3>7 DEF Ledger!Next
  <2> QED
    BY <2>1, <2>2
<1>21. CASE ExchangeFails
  BY <1>21, <1>0 DEF ExchangeFails, Abandon, LatestHasVersion, TypeOK, StoreInv,
     LeaseHeld, JournalAt, JournalTrue, PlacesTrue, Remains, JobNew, Exchanged, Intact,
     Displaced, CopyOf
<1>22. CASE JournalExchanged
  BY <1>22, <1>0 DEF JournalExchanged, TypeOK, StoreInv, LeaseHeld, JournalAt,
     JournalTrue, PlacesTrue, Remains, JobNew, Exchanged, Intact, Displaced, CopyOf
<1>23. CASE Archive
  BY <1>23, <1>0 DEF Archive, TypeOK, StoreInv, LeaseHeld, JournalAt, JournalTrue,
     PlacesTrue, Remains, JobNew, Exchanged, Intact, Displaced, CopyOf
<1>24. CASE RemoveWorking
  BY <1>24, <1>0 DEF RemoveWorking, TypeOK, StoreInv, LeaseHeld, JournalAt,
     JournalTrue, PlacesTrue, Remains, JobNew, Exchanged, Intact, Displaced, CopyOf
<1>25. CASE JournalArchived
  BY <1>25, <1>0 DEF JournalArchived, TypeOK, StoreInv, LeaseHeld, JournalAt,
     JournalTrue, PlacesTrue, Remains, JobNew, Exchanged, Intact, Displaced, CopyOf
<1>26. CASE RemoveJournal
  BY <1>26, <1>0 DEF RemoveJournal, NoJournal, TypeOK, StoreInv, LeaseHeld,
     JournalAt, JournalTrue, PlacesTrue, Remains, JobNew, Exchanged, Intact, Displaced, CopyOf
<1>27. CASE InsertVersion
  BY <1>27, <1>0 DEF InsertVersion, TypeOK, StoreInv, LeaseHeld, JournalAt,
     JournalTrue, PlacesTrue, Remains, JobNew, Exchanged, Intact, Displaced, CopyOf
<1>28. CASE InsertRefused
  BY <1>28, <1>0 DEF InsertRefused, Abandon, TypeOK, StoreInv, LeaseHeld, JournalAt,
     JournalTrue, PlacesTrue, Remains, JobNew, Exchanged, Intact, Displaced, CopyOf
<1>29. CASE PromoteLatest
  BY <1>29, <1>0 DEF PromoteLatest, PromoteRow, TypeOK, StoreInv, LeaseHeld,
     JournalAt, JournalTrue, PlacesTrue, Remains, JobNew, Exchanged, Intact, Displaced, CopyOf
<1>30. CASE Restart
  BY <1>30, <1>0 DEF Restart, TypeOK, StoreInv, LeaseHeld, JournalAt, JournalTrue,
     PlacesTrue, Remains, JobNew, Exchanged, Intact, Displaced, CopyOf
<1>31. CASE RollForward
  BY <1>31, <1>0 DEF RollForward, ResumeAt, TypeOK, StoreInv, LeaseHeld, JournalAt,
     JournalTrue, PlacesTrue, Remains, JobNew, Exchanged, Intact, Displaced, CopyOf
<1>32. CASE Reconcile
  BY <1>32, <1>0 DEF Reconcile, VersionForJob, TypeOK, StoreInv, LeaseHeld,
     JournalAt, JournalTrue, PlacesTrue, Remains, JobNew, Exchanged, Intact, Displaced, CopyOf
<1>33. CASE JournalWriteFails
  BY <1>33, <1>0 DEF JournalWriteFails, TearJournal, TornJournal, Abandon, TypeOK, StoreInv, LeaseHeld,
     JournalAt, JournalTrue, PlacesTrue, Remains, JobNew, Exchanged, Intact, Displaced, CopyOf
<1>34. CASE CommitStepFails
  BY <1>34, <1>0 DEF CommitStepFails, Abandon, TypeOK, StoreInv, LeaseHeld,
     JournalAt, JournalTrue, PlacesTrue, Remains, JobNew, Exchanged, Intact, Displaced, CopyOf
<1>35. CASE ScanCheckBinding
  BY <1>35, <1>0 DEF ScanCheckBinding, Serving, TypeOK, StoreInv, LeaseHeld,
     JournalAt, JournalTrue, PlacesTrue, Remains, JobNew, Exchanged, Intact, Displaced, CopyOf
<1>36. CASE ScanTryClaim
  BY <1>36, <1>0 DEF ScanTryClaim, TryClaim, TypeOK, StoreInv, LeaseHeld, JournalAt,
     JournalTrue, PlacesTrue, Remains, JobNew, Exchanged, Intact, Displaced, CopyOf
<1>37. CASE Scan
  BY <1>37, <1>0 DEF Scan, TypeOK, StoreInv, LeaseHeld, JournalAt, JournalTrue,
     PlacesTrue, Remains, JobNew, Exchanged, Intact, Displaced, CopyOf
<1>38. CASE ScanApply
  BY <1>38, <1>0 DEF ScanApply, ScannedRow, TypeOK, StoreInv, LeaseHeld, JournalAt,
     JournalTrue, PlacesTrue, Remains, JobNew, Exchanged, Intact, Displaced, CopyOf
<1>39. CASE RecomputeLatest
  BY <1>39, <1>0 DEF RecomputeLatest, Present, PromoteRow, ReleaseScan, TypeOK,
     StoreInv, LeaseHeld, JournalAt, JournalTrue, PlacesTrue, Remains, JobNew, Exchanged,
     Intact, Displaced, CopyOf
<1>40. CASE DeleteRead
  <2>1. PICK v \in Jobs : removed' = removed \cup {v}
    BY <1>40 DEF DeleteRead
  <2>2. IntactSet' = IntactSet /\ UNCHANGED <<published, exposed>>
    BY <1>40 DEF DeleteRead, IntactSet, Intact, Displaced, CopyOf
  <2>3. Ledger!Condemn({v})
    BY <2>1, <2>2 DEF Ledger!Condemn
  <2> QED
    BY <2>3 DEF Ledger!Next
<1>41. CASE DeleteArtifact
  <2>1. del.id \in published \cap removed /\ ~del.isLatest
    BY <1>41 DEF DeleteArtifact, TypeOK, StoreInv, RegistryTrue
  <2>2. UNCHANGED <<working, journal, published, removed, exposed>>
    BY <1>41 DEF DeleteArtifact
  <2>3. CASE del.missing
    BY <1>41, <1>0, <2>2, <2>3 DEF DeleteArtifact, Intact, Displaced, CopyOf
  <2>4. CASE ~del.missing
    BY <1>41, <2>1, <2>2, <2>4, DeletionDrops DEF DeleteArtifact, DeleteArtifactAt
  <2> QED
    BY <2>3, <2>4
<1>42. CASE DeleteRow
  BY <1>42, <1>0 DEF DeleteRow, NoRow, NoDelete, TypeOK, StoreInv, LeaseHeld,
     JournalAt, JournalTrue, PlacesTrue, Remains, JobNew, Exchanged, Intact, Displaced, CopyOf
<1>43. CASE ResetCheck
  BY <1>43, <1>0 DEF ResetCheck, TypeOK, StoreInv, LeaseHeld, JournalAt,
     JournalTrue, PlacesTrue, Remains, JobNew, Exchanged, Intact, Displaced, CopyOf
<1>44. CASE RepairWorkingCopy
  <2>1. journal.phase \notin {"prepared", "exchanged"}
    BY <1>44 DEF RepairWorkingCopy, StoreInv, JournalAt, LeaseHeld
  <2>2. \A v \in published \cap exposed : CopyOf(working, v)' => Intact(v)
    BY <1>44 DEF RepairWorkingCopy, CopyOf, Intact, Displaced, TypeOK, StoreInv, JobNew, LeaseHeld, WorkTrue
  <2>3. UNCHANGED <<latest, versions, journal, published, removed, exposed>>
    BY <1>44 DEF RepairWorkingCopy
  <2> QED
    BY <2>1, <2>2, <2>3, WorkDrops
<1>45. CASE Crash
  <2>1. UNCHANGED <<working, latest, versions, published, removed>>
    BY <1>45 DEF Crash
  <2>2. CASE UNCHANGED <<journal, exposed>>
    BY <1>0, <2>1, <2>2 DEF Intact, Displaced, CopyOf
  <2>3. CASE TearJournal
    <3>1. ASSUME NEW v \in published PROVE Displaced(v)' <=> Displaced(v)
      <4>1. CASE pc = "jprepared"
        BY <2>1, <2>3, <4>1 DEF TearJournal, TornJournal, Stranded, StoreInv, JournalAt, Displaced, CopyOf
      <4>2. CASE pc = "jexchanged"
        <5>1. journal.phase = "prepared" /\ journal.ver # journal.prev /\ v \in Jobs
          BY <4>2 DEF StoreInv, JournalAt, TypeOK
        <5>2. exposed' = exposed \cup ({journal.prev} \cap Jobs) /\ journal'.phase = "torn"
          BY <2>3, <4>2 DEF TearJournal, TornJournal, Stranded
        <5> QED
          BY <2>1, <5>1, <5>2 DEF Displaced, CopyOf
      <4>3. CASE pc = "jarchived"
        BY <2>1, <2>3, <4>3 DEF TearJournal, TornJournal, Stranded, StoreInv, JournalTrue, Displaced, CopyOf, TypeOK
      <4> QED
        BY <2>3, <4>1, <4>2, <4>3 DEF TearJournal
    <3>2. IntactSet' = IntactSet
      BY <2>1, <3>1 DEF IntactSet, Intact, CopyOf
    <3>3. Stranded \in SUBSET Jobs
      BY DEF Stranded
    <3>4. Ledger!Condemn(Stranded)
      BY <2>1, <2>3, <3>2 DEF TearJournal, Ledger!Condemn
    <3> QED
      BY <3>3, <3>4 DEF Ledger!Next
  <2> QED
    BY <1>45, <2>2, <2>3 DEF Crash
<1>46. CASE UNCHANGED vars
  BY <1>46, <1>0 DEF vars, Intact, Displaced, CopyOf
<1>47. CASE PrunePartly
  <2>1. PICK v \in victims : rows[v].live /\ GutArtifactAt(v, rows[v].isLatest)
    BY <1>47 DEF PrunePartly
  <2>2. v \in published \cap removed /\ ~rows[v].isLatest
    BY <1>47, <2>1 DEF PrunePartly, TypeOK, StoreInv, RegistryTrue
  <2>3. UNCHANGED <<working, journal, published, removed, exposed>>
    BY <1>47 DEF PrunePartly
  <2> QED
    BY <2>1, <2>2, <2>3, DeletionDrops DEF GutArtifactAt
<1>48. CASE RemovalFails
  BY <1>48 DEF RemovalFails
<1>49. CASE DeletePartly
  <2>1. del.id \in published \cap removed /\ ~del.isLatest
    BY <1>49 DEF DeletePartly, TypeOK, StoreInv, RegistryTrue
  <2>2. UNCHANGED <<working, journal, published, removed, exposed>>
    BY <1>49 DEF DeletePartly
  <2> QED
    BY <1>49, <2>1, <2>2, DeletionDrops DEF DeletePartly, GutArtifactAt
<1>50. CASE RemoveWorkingPartly
  <2>1. journal.phase \notin {"prepared", "exchanged"}
    BY <1>50 DEF RemoveWorkingPartly, Guttable, StoreInv, JournalAt, JournalTrue, LeaseHeld
  <2>2. UNCHANGED <<latest, versions, journal, published, removed, exposed>>
    BY <1>50 DEF RemoveWorkingPartly
  <2>3. \A v \in published \cap exposed : CopyOf(working, v)' => Intact(v)
    BY <1>50, GutFacts DEF RemoveWorkingPartly, Guttable, CopyOf, Intact, Displaced, TypeOK, StoreInv, WorkTrue
  <2> QED
    BY <2>1, <2>2, <2>3, WorkDrops
<1> QED
  BY <1>1, <1>2, <1>3, <1>4, <1>5, <1>6, <1>7, <1>8, <1>9, <1>10, <1>11, <1>12,
     <1>13, <1>14, <1>15, <1>16, <1>17, <1>18, <1>19, <1>20, <1>21, <1>22, <1>23,
     <1>24, <1>25, <1>26, <1>27, <1>28, <1>29, <1>30, <1>31, <1>32, <1>33, <1>34,
     <1>35, <1>36, <1>37, <1>38, <1>39, <1>40, <1>41, <1>42, <1>43, <1>44, <1>45, <1>46,
     <1>47, <1>48, <1>49, <1>50
     DEF Next, JobStep, RotationStep, BootStep, FaultStep, ScanStep, RequestStep

\* Jobs start in order, and a journal is written over an earlier version.
LEMMA RisingStep == TypeOK /\ StoreInv /\ Rising /\ [Next]_vars => Rising'
<1> SUFFICES ASSUME TypeOK, StoreInv, Rising, [Next]_vars PROVE Rising'
  OBVIOUS
<1>1. CASE StartBackup
  BY <1>1, IdFacts DEF StartBackup, TypeOK, Rising, disk, Jobs
<1>2. CASE JournalPrepared
  <2>1. job \in Jobs /\ job \notin published
    BY <1>2, IdFacts DEF JournalPrepared, TypeOK, StoreInv, JobNew, LeaseHeld, RotationSteps
  <2>2. latest.ver \in Ids /\ (latest.ver # 0 => latest.ver \in published)
    BY IdFacts, TreeTypes DEF TypeOK, StoreInv, PlacesTrue, NoTree, Trees
  <2>3. latest.ver < job
    BY <2>1, <2>2, IdFacts DEF TypeOK, StoreInv, JobNew, Rising, Jobs, Ids
  <2> QED
    BY <1>2, <2>3 DEF JournalPrepared, Rising
<1>3. CASE ~StartBackup /\ ~JournalPrepared
  <2>1. \A j \in Jobs : jobrow'[j] = "none" <=> jobrow[j] = "none"
    BY <1>3, IdFacts DEF Abandon, TypeOK, StoreInv, JobNew, Next, vars, disk, scanVars, requestVars, history, ToolWrite,
       JobStep, RotationStep, BootStep, FaultStep, ScanStep, RequestStep, Crash, JobFails,
       PrepareWork, WriteInfoPlist, SeedClone, SeedCloned, SeedMark, ToolExit, VerifyWork,
       ClaimLease, WriteMarker, ReverifyFails, PruneSelect, PrunePartly, PruneArtifact,
       PruneRow, PruneDone, Succeed, Exchange, ExchangeFails, JournalExchanged, Archive,
       RemoveWorking, JournalArchived, RemoveJournal, InsertVersion, InsertRefused, PromoteLatest,
       Restart, RollForward, Reconcile, JournalWriteFails, CommitStepFails, ScanCheckBinding,
       ScanTryClaim, Scan, ScanApply, RecomputeLatest, DeleteRead, DeletePartly, DeleteArtifact, DeleteRow,
       ResetCheck, RemoveWorkingPartly, RepairWorkingCopy, RemovalFails, TearJournal, TornJournal, GutArtifactAt
  <2>2. job' \in {0, job}
    BY <1>3 DEF Abandon, Next, vars, disk, scanVars, requestVars, history, ToolWrite,
       JobStep, RotationStep, BootStep, FaultStep, ScanStep, RequestStep, Crash, JobFails,
       PrepareWork, WriteInfoPlist, SeedClone, SeedCloned, SeedMark, ToolExit, VerifyWork,
       ClaimLease, WriteMarker, ReverifyFails, PruneSelect, PrunePartly, PruneArtifact,
       PruneRow, PruneDone, Succeed, Exchange, ExchangeFails, JournalExchanged, Archive,
       RemoveWorking, JournalArchived, RemoveJournal, InsertVersion, InsertRefused, PromoteLatest,
       Restart, RollForward, Reconcile, JournalWriteFails, CommitStepFails, ScanCheckBinding,
       ScanTryClaim, Scan, ScanApply, RecomputeLatest, DeleteRead, DeletePartly, DeleteArtifact, DeleteRow,
       ResetCheck, RemoveWorkingPartly, RepairWorkingCopy, RemovalFails, TearJournal, TornJournal, GutArtifactAt
  <2>3. journal' = journal \/ journal'.phase # "prepared"
    BY <1>3 DEF NoJournal, TypeOK, Journals, Next, vars, disk, scanVars, requestVars, history, ToolWrite,
       JobStep, RotationStep, BootStep, FaultStep, ScanStep, RequestStep, Crash, JobFails,
       PrepareWork, WriteInfoPlist, SeedClone, SeedCloned, SeedMark, ToolExit, VerifyWork,
       ClaimLease, WriteMarker, ReverifyFails, PruneSelect, PrunePartly, PruneArtifact,
       PruneRow, PruneDone, Succeed, Exchange, ExchangeFails, JournalExchanged, Archive,
       RemoveWorking, JournalArchived, RemoveJournal, InsertVersion, InsertRefused, PromoteLatest,
       Restart, RollForward, Reconcile, JournalWriteFails, CommitStepFails, ScanCheckBinding,
       ScanTryClaim, Scan, ScanApply, RecomputeLatest, DeleteRead, DeletePartly, DeleteArtifact, DeleteRow,
       ResetCheck, RemoveWorkingPartly, RepairWorkingCopy, RemovalFails, TearJournal, TornJournal, GutArtifactAt
  <2> QED
    BY <2>1, <2>2, <2>3 DEF Rising
<1> QED
  BY <1>1, <1>2, <1>3

\* Only an exchange and a deletion touch latest/.
LEMMA LatestWriters ==
    ASSUME Undisturbed, TypeOK, StoreInv, [Next]_vars, ~Exchange
    PROVE  latest' = latest \/ latest' = NoTree
<1>1. CASE DeletePartly
  BY <1>1 DEF DeletePartly, GutArtifactAt, StoreInv, RegistryTrue
<1>2. CASE PrunePartly
  <2>1. PICK v \in victims : GutArtifactAt(v, rows[v].isLatest)
    BY <1>2 DEF PrunePartly
  <2>2. ~rows[v].isLatest
    BY <1>2, <2>1 DEF PrunePartly, TypeOK, StoreInv, RegistryTrue
  <2> QED
    BY <2>1, <2>2 DEF GutArtifactAt
<1>3. CASE ~DeletePartly /\ ~PrunePartly
  BY <1>3 DEF DeleteArtifactAt, Next, vars, disk, scanVars, requestVars, history, StartBackup, ToolWrite,
       JobStep, RotationStep, BootStep, FaultStep, ScanStep, RequestStep, Crash, JobFails,
       PrepareWork, WriteInfoPlist, SeedClone, SeedCloned, SeedMark, ToolExit, VerifyWork,
       ClaimLease, WriteMarker, ReverifyFails, JournalPrepared, PruneSelect, PruneArtifact,
       PruneRow, PruneDone, Succeed, ExchangeFails, JournalExchanged, Archive,
       RemoveWorking, JournalArchived, RemoveJournal, InsertVersion, InsertRefused, PromoteLatest,
       Restart, RollForward, Reconcile, JournalWriteFails, CommitStepFails, ScanCheckBinding,
       ScanTryClaim, Scan, ScanApply, RecomputeLatest, DeleteRead, DeleteArtifact, DeleteRow,
       ResetCheck, RemoveWorkingPartly, RepairWorkingCopy, RemovalFails, TearJournal, TornJournal, GutArtifactAt
<1> QED
  BY <1>1, <1>2, <1>3

\* The invariants hold at start-up.
LEMMA InitTyped == Init => TypeOK /\ Committed /\ StoreInv /\ Rising
<1> SUFFICES ASSUME Init PROVE TypeOK /\ Committed /\ StoreInv /\ Rising
  OBVIOUS
<1>1. TypeOK
  <2>1. rows \in [Jobs -> Rows] /\ versions \in [Stamps -> Trees] /\ journal \in Journals
    BY TreeTypes, JournalTypes, RowTypes DEF Init
  <2>2. crashes \in 0..MaxCrashes
    BY BoundsAssumption DEF Init
  <2> QED
    BY <2>1, <2>2, IdTypes, TreeTypes DEF Init, TypeOK, Steps, NoDelete
<1>2. Committed
  BY IdFacts DEF Init, Committed, NoRow, RotationSteps
<1>3. LeaseHeld /\ JournalAt /\ JournalTrue
  BY DEF Init, LeaseHeld, JournalAt, JournalTrue, Exchanged, NoJournal, NoDelete, RotationSteps, Serving, Steps
<1>4. PlacesTrue /\ JobNew /\ WorkTrue
  BY IdFacts, PlaceFacts DEF Init, PlacesTrue, JobNew, WorkTrue, NoJournal, RotationSteps,
     PrepareSteps
<1>5. RegistryTrue /\ CommittedIntact
  BY DEF Init, RegistryTrue, CommittedIntact, NoRow, NoDelete, RotationSteps
<1>6. Rising
  BY DEF Init, Rising, NoJournal
<1> QED
  BY <1>1, <1>2, <1>3, <1>4, <1>5, <1>6 DEF StoreInv

\* Type correctness of the version store, whatever crashes, faults and
\* requests occur: no operation of the job, the roll-forward, the scan or a
\* request leaves a directory, journal or row outside its domain.
THEOREM TypeCorrect == Spec => []TypeOK
  BY InitTyped, TypeStep, PTL DEF Spec

\* A job that is stored as succeeded has exchanged its version into latest/,
\* whichever of the engine and the start-up reconciliation wrote the verdict,
\* and whatever failed, crashed or raced meanwhile.
THEOREM SucceededCommitted == Spec => []SucceededHasVersion
<1>1. Init => SucceededHasVersion
  BY DEF Init, SucceededHasVersion
<1>2. TypeOK /\ Committed /\ SucceededHasVersion /\ [Next]_vars => SucceededHasVersion'
  <2> SUFFICES ASSUME TypeOK, Committed, SucceededHasVersion, [Next]_vars
               PROVE  SucceededHasVersion'
    OBVIOUS
  <2>1. published \subseteq published'
    BY DEF Next, vars, disk, scanVars, requestVars, history, StartBackup, ToolWrite, JobStep,
       RotationStep, BootStep, FaultStep, ScanStep, RequestStep, Crash, JobFails, PrepareWork,
       WriteInfoPlist, SeedClone, SeedCloned, SeedMark, ToolExit, VerifyWork, ClaimLease,
       WriteMarker, ReverifyFails, JournalPrepared, PruneSelect, PrunePartly, PruneArtifact, PruneRow,
       PruneDone, Succeed, Exchange, ExchangeFails, JournalExchanged, Archive, RemoveWorking,
       JournalArchived, RemoveJournal, InsertVersion, InsertRefused, PromoteLatest, Restart,
       RollForward, Reconcile, JournalWriteFails, CommitStepFails, ScanCheckBinding,
       ScanTryClaim, Scan, ScanApply, RecomputeLatest, DeleteRead, DeletePartly, DeleteArtifact, DeleteRow,
       ResetCheck, RemoveWorkingPartly, RepairWorkingCopy, RemovalFails, TearJournal, TornJournal, GutArtifactAt
  <2>2. CASE Succeed
    BY <2>1, <2>2, IdFacts DEF Succeed, TypeOK, Committed, SucceededHasVersion
  <2>3. CASE Reconcile
    BY <2>1, <2>3 DEF Reconcile, VersionForJob, TypeOK, Committed, SucceededHasVersion
  <2>4. CASE ~Succeed /\ ~Reconcile
    <3>1. \A j \in Jobs : jobrow'[j] = "succeeded" => jobrow[j] = "succeeded"
      BY <2>4 DEF Next, vars, disk, scanVars, requestVars, history, StartBackup, ToolWrite,
         JobStep, RotationStep, BootStep, FaultStep, ScanStep, RequestStep, Crash, JobFails,
         PrepareWork, WriteInfoPlist, SeedClone, SeedCloned, SeedMark, ToolExit, VerifyWork,
         ClaimLease, WriteMarker, ReverifyFails, JournalPrepared, PruneSelect, PrunePartly, PruneArtifact,
         PruneRow, PruneDone, Exchange, ExchangeFails, JournalExchanged, Archive, RemoveWorking,
         JournalArchived, RemoveJournal, InsertVersion, InsertRefused, PromoteLatest, Restart,
         RollForward, JournalWriteFails, CommitStepFails, ScanCheckBinding, ScanTryClaim, Scan,
         ScanApply, RecomputeLatest, DeleteRead, DeletePartly, DeleteArtifact, DeleteRow, ResetCheck, RemoveWorkingPartly,
         RepairWorkingCopy, RemovalFails, TearJournal, TornJournal, GutArtifactAt, Abandon, TypeOK
    <3> QED
      BY <2>1, <3>1 DEF SucceededHasVersion
  <2> QED
    BY <2>2, <2>3, <2>4
<1> QED
  BY <1>1, <1>2, InitTyped, TypeStep, CommittedStep, PTL DEF Spec

\* As long as nothing fails and no request races with a job, a version that was
\* exchanged into latest/ keeps its bytes where recovery finds them until a
\* user or retention removes it: through any number of jobs, resumes, crashes
\* between any two steps and inside journal writes and removals, roll-forwards,
\* scans and resets.  Only a version displaced by a rotation whose second
\* journal write was cut short is given up, and a newer one is there then.
THEOREM CommittedStaysIntact == ASSUME Undisturbed PROVE Spec => []CommittedIntact
<1>1. StoreInv => CommittedIntact
  BY DEF StoreInv
<1> QED
  BY <1>1, InitTyped, TypeStep, StoreStep, RisingStep, PTL DEF Spec

\* Under the same condition latest/ and versions/ only ever hold trees that
\* passed verification and carry the marker of the job that wrote them, or
\* what is left of one whose removal has begun.
THEOREM PublishedIsVerified == ASSUME Undisturbed PROVE Spec => []PublishedVerified
<1>1. TypeOK /\ StoreInv => PublishedVerified
  BY PlaceFacts DEF TypeOK, StoreInv, PlacesTrue, Remains, PublishedVerified
<1> QED
  BY <1>1, InitTyped, TypeStep, StoreStep, RisingStep, PTL DEF Spec

\* Retention never takes the version in latest/, although it decides from
\* registry flags that a crash may have left stale, and whatever fails, is
\* deleted or is reset meanwhile.
THEOREM RetentionSparesLatest == Spec => []PruneSparesLatest
<1>1. Init => RetentionTrue
  BY DEF Init, RetentionTrue, Serving, RotationSteps
<1>2. TypeOK /\ RetentionTrue => PruneSparesLatest
  BY IdFacts DEF TypeOK, RetentionTrue, PruneSparesLatest, RotationSteps
<1> QED
  BY <1>1, <1>2, InitTyped, TypeStep, CommittedStep, RetentionStep, PTL DEF Spec

\* When a job's commit comes to insert its row, no scan has adopted the version
\* first, whatever fails, crashes, is deleted or is reset meanwhile: the commit
\* lease spans registerCommitted, and nobody knew of the version before.
THEOREM CommitsInsertFirst == Spec => []CommitInsertsFirst
<1>1. Init => RetentionTrue /\ NewTrue
  BY IdFacts DEF Init, RetentionTrue, NewTrue, Unheard, NoTree, NoRow, Serving, RotationSteps,
     PrepareSteps
<1>2. NewTrue => CommitInsertsFirst
  BY DEF NewTrue, CommitInsertsFirst, RotationSteps
<1> QED
  BY <1>1, <1>2, InitTyped, TypeStep, CommittedStep, RetentionStep, NewStep, PTL DEF Spec

\* If Undisturbed, latest/ only moves to a later job's version or is removed:
\* resuming a rotation after a crash never exchanges the two trees back.
THEOREM LatestOnlyForward == ASSUME Undisturbed PROVE Spec => LatestMovesForward
<1>2. TypeOK /\ StoreInv /\ Rising /\ [Next]_vars
        => (latest' # latest => latest' = NoTree \/ latest'.ver > latest.ver)
  <2> SUFFICES ASSUME TypeOK, StoreInv, Rising, Exchange, latest' # latest
               PROVE  latest'.ver > latest.ver
    BY LatestWriters
  <2>1. journal.phase = "prepared" /\ working # latest
    BY DEF Exchange, StoreInv, JournalAt
  <2>2. latest.ver # journal.ver /\ latest' = working
    BY DEF Exchange, LatestHasVersion
  <2>3. CopyOf(working, journal.ver) /\ latest.ver = journal.prev
    BY <2>1, <2>2, IdFacts DEF StoreInv, JournalTrue, Exchanged, CopyOf
  <2>4. journal.prev < journal.ver
    BY <2>1 DEF Rising
  <2> QED
    BY <2>2, <2>3, <2>4 DEF CopyOf, TypeOK, Journals, Ids
<1> QED
  BY <1>2, InitTyped, TypeStep, StoreStep, RisingStep, PTL DEF Spec, LatestMovesForward

\* If Undisturbed, the store implements the ledger: a version enters
\* once, leaves only after a removal or a torn journal condemned it, and never
\* returns.
THEOREM ImplementsLedger == ASSUME Undisturbed PROVE Spec => LedgerSpec
<1>1. Init => Ledger!Init
  BY DEF Init, Ledger!Init, IntactSet
<1>2. TypeOK /\ StoreInv /\ [Next]_vars => [Ledger!Next]_(Ledger!ledgerVars)
  BY LedgerStep DEF Ledger!ledgerVars
<1> QED
  BY <1>1, <1>2, InitTyped, TypeStep, StoreStep, RisingStep, PTL DEF Spec, LedgerSpec, Ledger!Spec
=============================================================================

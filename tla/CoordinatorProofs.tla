------------------------- MODULE CoordinatorProofs -------------------------
(***************************************************************************)
(* Theorems about Coordinator for every number of cells and of command     *)
(* deaths.                                                                 *)
(***************************************************************************)
EXTENDS Coordinator, TLAPS

\* Replacing the lock directory or its owner record keeps the run tree well formed.
LEMMA LockType ==
    ASSUME tree \in Trees, NEW v \in {"none", "bare", "owned"}, WriteLock(v)
    PROVE  tree' \in Trees
  BY DEF Trees, WriteLock

\* Copying the environment snapshots keeps the run tree well formed.
LEMMA SnapshotsType == ASSUME tree \in Trees, WriteSnapshots PROVE tree' \in Trees
  BY DEF Trees, WriteSnapshots

\* Replacing one execution's status file keeps the run tree well formed.
LEMMA CellType ==
    ASSUME tree \in Trees, NEW c, NEW v \in CellStatus, WriteCell(c, v)
    PROVE  tree' \in Trees
  BY DEF Trees, WriteCell

\* Replacing one execution's exit code keeps the run tree well formed.
LEMMA ExitType ==
    ASSUME tree \in Trees, NEW c, NEW v \in Codes, WriteExit(c, v)
    PROVE  tree' \in Trees
  BY DEF Trees, WriteExit

\* Adding the workers file or the results of an execution keeps it well formed.
LEMMA ArtifactType ==
    ASSUME tree \in Trees, NEW c, NEW a \in Artifacts, AddArtifact(c, a)
    PROVE  tree' \in Trees
  BY DEF Trees, AddArtifact

\* Replacing startup-error.txt keeps the run tree well formed.
LEMMA StartupErrorType ==
    ASSUME tree \in Trees, NEW v \in Codes \cup {"none"}, WriteStartupError(v)
    PROVE  tree' \in Trees
  BY DEF Trees, WriteStartupError

\* Writing coordinator-loss.tsv keeps the run tree well formed.
LEMMA LossType == ASSUME tree \in Trees, WriteLoss PROVE tree' \in Trees
  BY DEF Trees, WriteLoss

\* Replacing run.status keeps the run tree well formed.
LEMMA RunType ==
    ASSUME tree \in Trees, NEW v \in RunStatus, WriteRun(v)
    PROVE  tree' \in Trees
  BY DEF Trees, WriteRun

\* _coordinator_write_summary keeps the run tree well formed.
LEMMA SummaryType ==
    ASSUME tree \in Trees, NEW s \in RunStatus, NEW v \in Codes \cup {"none"},
           WriteSummary(s, v)
    PROVE  tree' \in Trees
<1>1. [status |-> s, rc |-> v] \in Summaries
  BY DEF Summaries
<1> QED BY <1>1 DEF Trees, WriteSummary

\* _coordinator_publish_manifest publishes a well-formed manifest, whatever it finds.
LEMMA ManifestType == ASSUME tree \in Trees, PublishManifest PROVE tree' \in Trees
<1> DEFINE m == [cell |-> cell,
                 exitcode |-> [c \in Cells |-> IF Settled(c) THEN exitcode[c] ELSE "none"],
                 artifacts |-> tree.artifacts,
                 summary |-> tree.summary,
                 startupError |-> tree.startupError,
                 run |-> run]
<1>1. m \in Manifests
  BY DEF Trees, Manifests, cell, exitcode, run
<1> HIDE DEF m
<1>2. tree' = [tree EXCEPT !.manifest = m]
  BY DEF PublishManifest, m
<1> QED BY <1>1, <1>2 DEF Trees

(***************************************************************************)
(* Types of the program counters: one lemma per process.                   *)
(***************************************************************************)
PcOK ==
    /\ pc \in [Procs -> ParentSteps \cup ChildSteps \cup HelperSteps]
    /\ pc["parent"] \in ParentSteps
    /\ pc["child"] \in ChildSteps
    /\ pc["helper"] \in HelperSteps

\* A step of the coordinator's main shell keeps the program counters typed.
LEMMA ParentGoto ==
    ASSUME PcOK, NEW s \in ParentSteps, Goto("parent", s)
    PROVE  PcOK'
  BY DEF PcOK, Goto, Procs

\* A step of the cell shell keeps the program counters typed.
LEMMA ChildGoto ==
    ASSUME PcOK, NEW s \in ChildSteps, Goto("child", s)
    PROVE  PcOK'
  BY DEF PcOK, Goto, Procs

\* A step of the helper keeps the program counters typed.
LEMMA HelperGoto ==
    ASSUME PcOK, NEW s \in HelperSteps, Goto("helper", s)
    PROVE  PcOK'
  BY DEF PcOK, Goto, Procs

\* A step that either shell may take keeps the program counters typed.
LEMMA ShellGoto ==
    ASSUME PcOK, NEW p \in Shells, NEW s \in ParentSteps \cap ChildSteps, Goto(p, s)
    PROVE  PcOK'
  BY ParentGoto, ChildGoto DEF Shells

\* Fork, reap and kill, which move both shells at once, keep them typed.
LEMMA BothGoto ==
    ASSUME PcOK, NEW s \in ParentSteps, NEW t \in ChildSteps,
           pc' = [pc EXCEPT !["parent"] = s, !["child"] = t]
    PROVE  PcOK'
  BY DEF PcOK, Procs

\* Every process carries an exit code of the three classes.
LEMMA ExitCodeType ==
    ASSUME rc \in [Procs -> Codes], NEW p \in Procs, NEW v \in Codes, Exit(p, v)
    PROVE  rc' \in [Procs -> Codes]
  BY DEF Exit

(***************************************************************************)
(* Type correctness: every file of the run tree, every program counter and *)
(* every local state that the coordinator, the helper and the commands     *)
(* write is one that their readers know.                                   *)
(***************************************************************************)
THEOREM TypeCorrect == Spec => []TypeOK
<1>1. Init => TypeOK
  <2> SUFFICES ASSUME Init PROVE TypeOK OBVIOUS
  <2>1. tree \in Trees
    BY DEF Init, TreeInit, Trees, Manifests, Summaries, NoManifest, NoSummary, EveryCell,
           RunStatus, CellStatus
  <2>2. pc \in [Procs -> ParentSteps \cup ChildSteps \cup HelperSteps]
        /\ pc["parent"] \in ParentSteps /\ pc["child"] \in ChildSteps
        /\ pc["helper"] \in HelperSteps
    BY DEF Init, Procs, ParentSteps, ChildSteps, HelperSteps
  <2>3. rc \in [Procs -> Codes] /\ handler \in [Shells -> BOOLEAN]
    BY DEF Init, Codes
  <2>4. cur \in 0..N /\ active \in 0..N /\ target \in 0..N /\ deaths \in 0..MaxDeaths
    BY NAssumption, DeathsAssumption DEF Init
  <2>5. QED
    BY <2>1, <2>2, <2>3, <2>4 DEF Init, TypeOK, OpSteps, LocalStates, RunStatus
<1>2. TypeOK /\ [Next]_vars => TypeOK'
  <2> SUFFICES ASSUME TypeOK, [Next]_vars PROVE TypeOK' OBVIOUS
  <2> USE DEF TypeOK, PcOK, Procs, Shells, memory, control, Step
  <2>0. CASE UNCHANGED vars
    BY <2>0 DEF vars
  <2>1. CASE AcquireLock
    BY <2>1, LockType, ParentGoto, ExitCodeType DEF AcquireLock, ParentSteps, Trapped, Codes
  <2>2. CASE RecordOwner
    BY <2>2, LockType, ParentGoto DEF RecordOwner, ParentSteps, Trapped
  <2>3. CASE InitializeSnapshots
    BY <2>3, SnapshotsType, ParentGoto DEF InitializeSnapshots, ParentSteps, Trapped
  <2>4. CASE InitializeExecutionStates
    BY <2>4, CellType, ParentGoto DEF InitializeExecutionStates, ParentSteps, Trapped, InitializeCell, CellStatus, CellTerminal
  <2>5. CASE StartupCheck
    BY <2>5, ParentGoto, ExitCodeType DEF StartupCheck, ParentSteps, Trapped, Codes
  <2>6. CASE StartupError
    BY <2>6, StartupErrorType, ParentGoto DEF StartupError, ParentSteps, Trapped, Codes
  <2>7. CASE StartupSummary
    BY <2>7, SummaryType, ParentGoto DEF StartupSummary, ParentSteps, Trapped, RunStatus, Terminal, Codes
  <2>8. CASE StartupRun
    BY <2>8, RunType, ParentGoto DEF StartupRun, ParentSteps, Trapped, RunStatus, Terminal
  <2>9. CASE StartupManifest
    BY <2>9, ManifestType, ParentGoto DEF StartupManifest, ParentSteps, Trapped
  <2>10. CASE StartRun
    BY <2>10, RunType, ParentGoto DEF StartRun, ParentSteps, Trapped, RunStatus, Terminal
  <2>11. CASE StartSummary
    BY <2>11, SummaryType, ParentGoto DEF StartSummary, ParentSteps, Trapped, RunStatus, Terminal, Codes
  <2>12. CASE PickExecution
    BY <2>12, ParentGoto, NAssumption DEF PickExecution, ParentSteps, Trapped
  <2>13. CASE PrepareActive
    BY <2>13, CellType, ParentGoto DEF PrepareActive, ParentSteps, Trapped, CellStatus, CellTerminal
  <2>14. CASE PrepareSummary
    <3>1. PcOK'
      BY <2>14, BothGoto DEF PrepareSummary, ParentSteps, Trapped, ChildSteps
    <3>2. tree' \in Trees /\ rc' \in [Procs -> Codes]
      BY <2>14, SummaryType, ExitCodeType DEF PrepareSummary, RunStatus, Codes
    <3> QED BY <2>14, <3>1, <3>2 DEF PrepareSummary
  <2>15. CASE Reap
    <3>1. PcOK'
      BY <2>15, BothGoto DEF Reap, ParentSteps, Trapped, ChildSteps
    <3>2. rc' \in [Procs -> Codes]
      BY <2>15, ExitCodeType DEF Reap
    <3> QED BY <2>15, <3>1, <3>2 DEF Reap
  <2>16. CASE CompleteActive
    BY <2>16, ParentGoto, ExitCodeType, NAssumption DEF CompleteActive, ParentSteps, Trapped, Codes
  <2>17. CASE HandlerReap
    BY <2>17, BothGoto DEF HandlerReap, ParentSteps, ChildSteps
  <2>18. CASE PodExits
    BY <2>18, ParentGoto DEF PodExits, ParentSteps, Trapped
  <2>19. CASE ChildTraps
    BY <2>19, ChildGoto DEF ChildTraps, ChildSteps
  <2>20. CASE ChildSetup
    BY <2>20, ArtifactType, ChildGoto, ExitCodeType DEF ChildSetup, ChildSteps, Codes, Artifacts
  <2>21. CASE Benchmark
    BY <2>21, ChildGoto, ExitCodeType DEF Benchmark, ChildSteps, Codes
  <2>22. CASE PublishCopy
    BY <2>22, ArtifactType, ChildGoto DEF PublishCopy, ChildSteps, Artifacts
  <2>23. CASE PublishCopyFails
    BY <2>23, ChildGoto, ExitCodeType DEF PublishCopyFails, ChildSteps, Codes
  <2>24. CASE PublishExit
    BY <2>24, ExitType, ChildGoto DEF PublishExit, ChildSteps, Codes
  <2>25. CASE PublishStatus
    BY <2>25, CellType, ChildGoto DEF PublishStatus, ChildSteps, Outcome, CellStatus, CellTerminal
  <2>26. CASE PublishSummary
    BY <2>26, SummaryType, ChildGoto DEF PublishSummary, ChildSteps, RunStatus, Terminal, Codes
  <2>27. CASE PublishCell
    BY <2>27, ManifestType, ChildGoto DEF PublishCell, ChildSteps
  <2>28. ASSUME NEW p \in Shells, FailCopy(p) PROVE TypeOK'
    BY <2>28, ArtifactType, ShellGoto, ZenonT(30) DEF FailCopy, ParentSteps, Trapped, ChildSteps, Artifacts
  <2>29. ASSUME NEW p \in Shells, FailExit(p) PROVE TypeOK'
    BY <2>29, ExitType, ShellGoto, ZenonT(30) DEF FailExit, ParentSteps, Trapped, ChildSteps, Codes
  <2>30. ASSUME NEW p \in Shells, FailStatus(p) PROVE TypeOK'
    BY <2>30, CellType, ShellGoto DEF FailStatus, ParentSteps, Trapped, ChildSteps, CellStatus, CellTerminal
  <2>31. ASSUME NEW p \in Shells, FailSummary(p) PROVE TypeOK'
    BY <2>31, SummaryType, ShellGoto, ZenonT(60) DEF FailSummary, ParentSteps, Trapped, ChildSteps, RunStatus, Terminal, Codes
  <2>32. ASSUME NEW p \in Shells, FailManifest(p) PROVE TypeOK'
    BY <2>32, ManifestType, ShellGoto DEF FailManifest, ParentSteps, Trapped, ChildSteps
  <2>33. ASSUME NEW p \in Shells, Finalize(p) PROVE TypeOK'
    BY <2>33, StartupErrorType, ShellGoto, ZenonT(30) DEF Finalize, ParentSteps, Trapped, ChildSteps, Trees, Codes
  <2>34. ASSUME NEW p \in Shells, FinalizeSummary(p) PROVE TypeOK'
    BY <2>34, SummaryType, ShellGoto, ZenonT(60) DEF FinalizeSummary, ParentSteps, Trapped, ChildSteps, Outcome, RunStatus, Terminal, Codes
  <2>35. ASSUME NEW p \in Shells, FinalizeRun(p) PROVE TypeOK'
    BY <2>35, RunType, ShellGoto, ZenonT(30) DEF FinalizeRun, ParentSteps, Trapped, ChildSteps, Outcome, RunStatus, Terminal
  <2>36. ASSUME NEW p \in Shells, FinalizeManifest(p) PROVE TypeOK'
    BY <2>36, ManifestType, ParentGoto, ChildGoto, ZenonT(30) DEF FinalizeManifest, ParentSteps, Trapped, ChildSteps
  <2>37. ASSUME NEW p \in Shells, HandlerCheck(p) PROVE TypeOK'
    BY <2>37, ShellGoto DEF HandlerCheck, ParentSteps, Trapped, ChildSteps
  <2>38. CASE JobFinishes
    BY <2>38 DEF JobFinishes
  <2>39. CASE JobDeleted
    BY <2>39 DEF JobDeleted
  <2>40. CASE HelperLock
    BY <2>40, LockType, HelperGoto DEF HelperLock, HelperSteps, Trees
  <2>41. CASE HelperOwner
    BY <2>41, LockType, HelperGoto DEF HelperOwner, HelperSteps
  <2>42. CASE HelperMode
    BY <2>42, HelperGoto DEF HelperMode, HelperSteps
  <2>43. CASE HelperSnapshots
    BY <2>43, SnapshotsType, HelperGoto DEF HelperSnapshots, HelperSteps
  <2>44. CASE HelperCells
    BY <2>44, CellType, HelperGoto DEF HelperCells, HelperSteps, InitializeCell, CellStatus, CellTerminal
  <2>45. CASE HelperScan
    BY <2>45, CellType, HelperGoto, ExitCodeType DEF HelperScan, HelperSteps, Cells, CellStatus, CellTerminal, Codes
  <2>46. CASE HelperExit
    BY <2>46, ExitType, HelperGoto DEF HelperExit, HelperSteps, Codes
  <2>47. CASE HelperLoss
    BY <2>47, LossType, HelperGoto DEF HelperLoss, HelperSteps
  <2>48. CASE HelperSummary
    BY <2>48, SummaryType, HelperGoto DEF HelperSummary, HelperSteps, HelperOutcome, Outcome, RunStatus, Terminal, Codes
  <2>49. CASE HelperRun
    BY <2>49, RunType, HelperGoto DEF HelperRun, HelperSteps, HelperOutcome, Outcome, RunStatus, Terminal
  <2>50. CASE HelperManifest
    BY <2>50, ManifestType, HelperGoto DEF HelperManifest, HelperSteps
  <2>51. CASE HelperRepair
    BY <2>51, HelperGoto, ExitCodeType DEF HelperRepair, HelperSteps, Codes
  <2>52. CASE HelperRepairSummary
    BY <2>52, SummaryType, HelperGoto DEF HelperRepairSummary, HelperSteps, Trees, run, RunStatus, Terminal, Codes
  <2>53. CASE HelperReturns
    BY <2>53, HelperGoto DEF HelperReturns, Trees, run, HelperSteps, AfterHelper, OpSteps, LocalStates
  <2>54. CASE DriftDelete
    BY <2>54 DEF DriftDelete, OpSteps, LocalStates
  <2>55. CASE DriftDeleted
    BY <2>55, HelperGoto, ExitCodeType, NAssumption DEF DriftDeleted, HelperSteps, StartHelper, Codes, OpSteps, LocalStates
  <2>56. CASE CancelObserve
    BY <2>56 DEF CancelObserve, OpSteps, LocalStates
  <2>57. CASE CancelDeleted
    BY <2>57, HelperGoto, ExitCodeType, NAssumption DEF CancelDeleted, HelperSteps, StartHelper, Codes, OpSteps, LocalStates
  <2>58. CASE CancelCheck
    BY <2>58 DEF CancelCheck, OpSteps, LocalStates
  <2>59. CASE CollectQuiescent
    BY <2>59 DEF CollectQuiescent, OpSteps, LocalStates
  <2>60. CASE CollectImport
    BY <2>60 DEF CollectImport, Collectible, OpSteps, LocalStates
  <2>61. CASE StatusRecover
    BY <2>61, HelperGoto, ExitCodeType, NAssumption DEF StatusRecover, HelperSteps, StartHelper, Codes, OpSteps, LocalStates
  <2>62. CASE StatusDrift
    BY <2>62 DEF StatusDrift, OpSteps, LocalStates
  <2>74. CASE StatusRead
    BY <2>74 DEF StatusRead, Trees, run, OpSteps
  <2>75. CASE StatusObserve
    BY <2>75 DEF StatusObserve, OpSteps
  <2>76. CASE StatusRefresh
    BY <2>76 DEF StatusRefresh, Trees, run, OpSteps
  <2>77. CASE StatusEnds
    BY <2>77 DEF StatusEnds, OpSteps
  <2>63. CASE CancelRead
    BY <2>63 DEF CancelRead, OpSteps, LocalStates
  <2>64. CASE CollectGate
    BY <2>64, HelperGoto, ExitCodeType, NAssumption DEF CollectGate, Trees, run, HelperSteps, StartHelper, Codes, OpSteps, LocalStates
  <2>65. CASE ChildDies
    BY <2>65, ChildGoto, ExitCodeType DEF ChildDies, ChildSteps, Codes
  <2>66. CASE TermParent
    BY <2>66, ParentGoto, ExitCodeType DEF TermParent, ParentSteps, Trapped, Codes
  <2>67. CASE TermChild
    BY <2>67, ChildGoto, ExitCodeType DEF TermChild, ChildSteps, Codes
  <2>68. CASE PodKilled
    BY <2>68, BothGoto, ExitCodeType DEF PodKilled, ParentSteps, ChildSteps, Codes
  <2>69. CASE DuplicatePod
    <3>1. PcOK'
      BY <2>69, ParentGoto DEF DuplicatePod, ParentSteps
    <3>2. rc' \in [Procs -> Codes]
      BY <2>69, ExitCodeType DEF DuplicatePod, Codes
    <3>3. cur' \in 0..N /\ active' \in 0..N
      BY <2>69, NAssumption DEF DuplicatePod
    <3>4. handler' \in [Shells -> BOOLEAN]
      BY <2>69 DEF DuplicatePod
    <3> QED BY <2>69, <3>1, <3>2, <3>3, <3>4 DEF DuplicatePod
  <2>70. CASE JobDeletedExternally
    BY <2>70, BackgroundAssumption DEF JobDeletedExternally
  <2>71. CASE CommandDies
    BY <2>71, HelperGoto, DeathsAssumption DEF CommandDies, HelperSteps, OpSteps, LocalStates
  <2>72. CASE MainReturns
    BY <2>72, ParentGoto, ExitCodeType DEF MainReturns, ParentSteps, Trapped, Codes
  <2>73. CASE CommandTimesOut
    BY <2>73 DEF CommandTimesOut, OpSteps, RunStatus
  <2> QED
    BY <2>0, <2>1, <2>2, <2>3, <2>4, <2>5, <2>6, <2>7, <2>8, <2>9, <2>10, <2>11, <2>12, <2>13, <2>14, <2>15, <2>16, <2>17, <2>18, <2>19, <2>20, <2>21, <2>22, <2>23, <2>24, <2>25, <2>26, <2>27, <2>28, <2>29, <2>30, <2>31, <2>32, <2>33, <2>34, <2>35, <2>36, <2>37, <2>38, <2>39, <2>40, <2>41, <2>42, <2>43, <2>44, <2>45, <2>46, <2>47, <2>48, <2>49, <2>50, <2>51, <2>52, <2>53, <2>54, <2>55, <2>56, <2>57, <2>58, <2>59, <2>60, <2>61, <2>62, <2>63, <2>64, <2>65, <2>66, <2>67, <2>68, <2>69, <2>70, <2>71, <2>72, <2>73, <2>74, <2>75, <2>76, <2>77
    DEF Next, ParentNext, ChildNext, ShellNext, HelperNext, CommandNext, UserNext, FaultNext,
        Done
<1> QED BY <1>1, <1>2, PTL DEF Spec

(***************************************************************************)
(* No helper beside a coordinator, the fact on which the theorems about    *)
(* the run tree rest.  The inductive invariant ties the Job to its Pod, to *)
(* the helper and to what --status observed: a Job that is no longer       *)
(* active has no Pod, and a helper works, or is about to, only for a Job   *)
(* that failed or is gone.  It needs foreground deletions: the code looks  *)
(* for no Pod, and a background deletion orphans one.                      *)
(***************************************************************************)
JobInv ==
    /\ job # "ACTIVE" => ~PodAlive
    /\ ~At("helper", "off") => CoordinatorLost
    /\ op \in {"statusFailed", "statusLost"} => CoordinatorLost

\* The code's own deletions and every legal fault keep the Job invariant.
LEMMA JobInvStep ==
    ASSUME Background = FALSE, TypeOK, JobInv, [Next]_vars
    PROVE  JobInv'
<1> USE DEF JobInv, PodAlive, CoordinatorLost, At
<1>p. /\ pc \in [Procs -> ParentSteps \cup ChildSteps \cup HelperSteps]
      /\ pc["helper"] \in HelperSteps
      /\ job \in {"ACTIVE", "COMPLETE", "FAILED", "DELETED"}
  BY DEF TypeOK
<1>1. CASE UNCHANGED vars
  BY <1>p, <1>1 DEF vars, control
<1>2. CASE AcquireLock
  BY <1>p, <1>2 DEF AcquireLock, Step, Goto, At, Procs, control
<1>3. CASE RecordOwner
  BY <1>p, <1>3 DEF RecordOwner, Step, Goto, At, Procs, control
<1>4. CASE InitializeSnapshots
  BY <1>p, <1>4 DEF InitializeSnapshots, Step, Goto, At, Procs, control
<1>5. CASE InitializeExecutionStates
  BY <1>p, <1>5 DEF InitializeExecutionStates, Step, Goto, At, Procs, control
<1>6. CASE StartupCheck
  BY <1>p, <1>6 DEF StartupCheck, Step, Goto, At, Procs, control
<1>7. CASE StartupError
  BY <1>p, <1>7 DEF StartupError, Step, Goto, At, Procs, control
<1>8. CASE StartupSummary
  BY <1>p, <1>8 DEF StartupSummary, Step, Goto, At, Procs, control
<1>9. CASE StartupRun
  BY <1>p, <1>9 DEF StartupRun, Step, Goto, At, Procs, control
<1>10. CASE StartupManifest
  BY <1>p, <1>10 DEF StartupManifest, Step, Goto, At, Procs, control
<1>11. CASE StartRun
  BY <1>p, <1>11 DEF StartRun, Step, Goto, At, Procs, control
<1>12. CASE StartSummary
  BY <1>p, <1>12 DEF StartSummary, Step, Goto, At, Procs, control
<1>13. CASE PickExecution
  BY <1>p, <1>13 DEF PickExecution, Step, Goto, At, Procs, control
<1>14. CASE PrepareActive
  BY <1>p, <1>14 DEF PrepareActive, Step, Goto, At, Procs, control
<1>15. CASE PrepareSummary
  BY <1>p, <1>15 DEF PrepareSummary, Step, Goto, At, Procs, control
<1>16. CASE Reap
  BY <1>p, <1>16 DEF Reap, Step, Goto, At, Procs, control
<1>17. CASE CompleteActive
  BY <1>p, <1>17 DEF CompleteActive, Step, Goto, At, Procs, control
<1>18. CASE HandlerReap
  BY <1>p, <1>18 DEF HandlerReap, Step, Goto, At, Procs, control
<1>19. CASE MainReturns
  BY <1>p, <1>19 DEF MainReturns, Step, Goto, At, Procs, control
<1>20. CASE PodExits
  BY <1>p, <1>20 DEF PodExits, Step, Goto, At, Procs, control
<1>21. CASE ChildTraps
  BY <1>p, <1>21 DEF ChildTraps, Step, Goto, At, Procs, control
<1>22. CASE ChildSetup
  BY <1>p, <1>22 DEF ChildSetup, Step, Goto, At, Procs, control
<1>23. CASE Benchmark
  BY <1>p, <1>23 DEF Benchmark, Step, Goto, At, Procs, control
<1>24. CASE PublishCopy
  BY <1>p, <1>24 DEF PublishCopy, Step, Goto, At, Procs, control
<1>25. CASE PublishCopyFails
  BY <1>p, <1>25 DEF PublishCopyFails, Step, Goto, At, Procs, control
<1>26. CASE PublishExit
  BY <1>p, <1>26 DEF PublishExit, Step, Goto, At, Procs, control
<1>27. CASE PublishStatus
  BY <1>p, <1>27 DEF PublishStatus, Step, Goto, At, Procs, control
<1>28. CASE PublishSummary
  BY <1>p, <1>28 DEF PublishSummary, Step, Goto, At, Procs, control
<1>29. CASE PublishCell
  BY <1>p, <1>29 DEF PublishCell, Step, Goto, At, Procs, control
<1>30. ASSUME NEW p \in Shells, FailCopy(p) PROVE JobInv'
  BY <1>p, <1>30 DEF FailCopy, Step, Goto, Procs, Shells, control
<1>31. ASSUME NEW p \in Shells, FailExit(p) PROVE JobInv'
  BY <1>p, <1>31 DEF FailExit, Step, Goto, Procs, Shells, control
<1>32. ASSUME NEW p \in Shells, FailStatus(p) PROVE JobInv'
  BY <1>p, <1>32 DEF FailStatus, Step, Goto, Procs, Shells, control
<1>33. ASSUME NEW p \in Shells, FailSummary(p) PROVE JobInv'
  BY <1>p, <1>33 DEF FailSummary, Step, Goto, Procs, Shells, control
<1>34. ASSUME NEW p \in Shells, FailManifest(p) PROVE JobInv'
  BY <1>p, <1>34 DEF FailManifest, Step, Goto, Procs, Shells, control
<1>35. ASSUME NEW p \in Shells, Finalize(p) PROVE JobInv'
  BY <1>p, <1>35 DEF Finalize, Step, Goto, Procs, Shells, control
<1>36. ASSUME NEW p \in Shells, FinalizeSummary(p) PROVE JobInv'
  BY <1>p, <1>36 DEF FinalizeSummary, Step, Goto, Procs, Shells, control
<1>37. ASSUME NEW p \in Shells, FinalizeRun(p) PROVE JobInv'
  BY <1>p, <1>37 DEF FinalizeRun, Step, Goto, Procs, Shells, control
<1>38. ASSUME NEW p \in Shells, FinalizeManifest(p) PROVE JobInv'
  BY <1>p, <1>38 DEF FinalizeManifest, Step, Goto, Procs, Shells, control
<1>39. ASSUME NEW p \in Shells, HandlerCheck(p) PROVE JobInv'
  BY <1>p, <1>39 DEF HandlerCheck, Step, Goto, Procs, Shells, control
<1>40. CASE JobFinishes
  BY <1>p, <1>40 DEF JobFinishes
<1>41. CASE JobDeleted
  BY <1>p, <1>41 DEF JobDeleted
<1>42. CASE HelperLock
  BY <1>p, <1>42 DEF HelperLock, Step, Goto, Procs, control
<1>43. CASE HelperOwner
  BY <1>p, <1>43 DEF HelperOwner, Step, Goto, Procs, control
<1>44. CASE HelperMode
  BY <1>p, <1>44 DEF HelperMode, Step, Goto, Procs, control
<1>45. CASE HelperSnapshots
  BY <1>p, <1>45 DEF HelperSnapshots, Step, Goto, Procs, control
<1>46. CASE HelperCells
  BY <1>p, <1>46 DEF HelperCells, Step, Goto, Procs, control
<1>47. CASE HelperScan
  BY <1>p, <1>47 DEF HelperScan, Step, Goto, Procs, control
<1>48. CASE HelperExit
  BY <1>p, <1>48 DEF HelperExit, Step, Goto, Procs, control
<1>49. CASE HelperLoss
  BY <1>p, <1>49 DEF HelperLoss, Step, Goto, Procs, control
<1>50. CASE HelperSummary
  BY <1>p, <1>50 DEF HelperSummary, Step, Goto, Procs, control
<1>51. CASE HelperRun
  BY <1>p, <1>51 DEF HelperRun, Step, Goto, Procs, control
<1>52. CASE HelperManifest
  BY <1>p, <1>52 DEF HelperManifest, Step, Goto, Procs, control
<1>53. CASE HelperRepair
  BY <1>p, <1>53 DEF HelperRepair, Step, Goto, Procs, control
<1>54. CASE HelperRepairSummary
  BY <1>p, <1>54 DEF HelperRepairSummary, Step, Goto, Procs, control
<1>55. CASE HelperReturns
  BY <1>p, <1>55 DEF HelperReturns, Step, Goto, Procs, control
<1>56. CASE DriftDelete
  BY <1>p, <1>56 DEF DriftDelete, Goto, Procs, control
<1>57. CASE DriftDeleted
  BY <1>p, <1>57 DEF DriftDeleted, StartHelper, Goto, Procs, control
<1>58. CASE CancelObserve
  BY <1>p, <1>58 DEF CancelObserve, Goto, Procs, control
<1>59. CASE CancelDeleted
  BY <1>p, <1>59 DEF CancelDeleted, StartHelper, Goto, Procs, control
<1>60. CASE CancelCheck
  BY <1>p, <1>60 DEF CancelCheck, Goto, Procs, control
<1>61. CASE CollectQuiescent
  BY <1>p, <1>61 DEF CollectQuiescent, Goto, Procs, control
<1>62. CASE CollectImport
  BY <1>p, <1>62 DEF CollectImport, Goto, Procs, control
<1>63. CASE StatusRecover
  BY <1>p, <1>63 DEF StatusRecover, StartHelper, Goto, Procs, control
<1>64. CASE StatusDrift
  BY <1>p, <1>64 DEF StatusDrift, Goto, Procs, control
<1>76. CASE StatusRead
  BY <1>p, <1>76 DEF StatusRead, control
<1>77. CASE StatusObserve
  BY <1>p, <1>77 DEF StatusObserve, control
<1>78. CASE StatusRefresh
  BY <1>p, <1>78 DEF StatusRefresh, control
<1>79. CASE StatusEnds
  BY <1>p, <1>79 DEF StatusEnds, control
<1>65. CASE CancelRead
  BY <1>p, <1>65 DEF CancelRead, Goto, Procs, control
<1>66. CASE CollectGate
  BY <1>p, <1>66 DEF CollectGate, StartHelper, Goto, Procs, control
<1>67. CASE ChildDies
  BY <1>p, <1>67 DEF ChildDies, Step, Goto, Procs, control
<1>68. CASE TermParent
  BY <1>p, <1>68 DEF TermParent, Trapped, Step, Goto, Procs, control
<1>69. CASE TermChild
  BY <1>p, <1>69 DEF TermChild, Step, Goto, Procs, control
<1>70. CASE PodKilled
  BY <1>p, <1>70 DEF PodKilled, Step, Goto, Procs, control
<1>71. CASE DuplicatePod
  BY <1>p, <1>71 DEF DuplicatePod, Step, Goto, Procs, control
<1>72. CASE JobDeletedExternally
  BY <1>p, <1>72 DEF JobDeletedExternally, Step, Goto, Procs, control
<1>73. CASE CommandTimesOut
  BY <1>p, <1>73 DEF CommandTimesOut, Step, Goto, Procs, control
<1>74. CASE CommandDies
  BY <1>p, <1>74 DEF CommandDies, Step, Goto, Procs, control
<1>75. CASE Done
  BY <1>p, <1>75 DEF Done, vars, control
<1> QED
  BY <1>1, <1>2, <1>3, <1>4, <1>5, <1>6, <1>7, <1>8, <1>9, <1>10, <1>11, <1>12, <1>13, <1>14, <1>15, <1>16, <1>17, <1>18, <1>19, <1>20, <1>21, <1>22, <1>23, <1>24, <1>25, <1>26, <1>27, <1>28, <1>29, <1>30, <1>31, <1>32, <1>33, <1>34, <1>35, <1>36, <1>37, <1>38, <1>39, <1>40, <1>41, <1>42, <1>43, <1>44, <1>45, <1>46, <1>47, <1>48, <1>49, <1>50, <1>51, <1>52, <1>53, <1>54, <1>55, <1>56, <1>57, <1>58, <1>59, <1>60, <1>61, <1>62, <1>63, <1>64, <1>65, <1>66, <1>67, <1>68, <1>69, <1>70, <1>71, <1>72, <1>73, <1>74, <1>75, <1>76, <1>77, <1>78, <1>79
  DEF Next, ParentNext, ChildNext, ShellNext, HelperNext, CommandNext, UserNext, FaultNext
=============================================================================

---------------------------- MODULE LedgerProofs ----------------------------
(***************************************************************************)
(* The run tree's ledger - the status of every cell and of the run - for   *)
(* every number of cells: it stays sound while TERM, kills, recovery and   *)
(* cancellation interrupt each other; no publication is refused; what ends *)
(* is collectible; an import stays true; and, without TERM, the tree       *)
(* implements RunLedger.                                                   *)
(*                                                                         *)
(* None of these is inductive alone.  LedgerInv says at each step of each  *)
(* process which cells it may rely on; it needs JobInv, because a helper   *)
(* beside a live Pod could settle a cell behind the main loop's back.      *)
(* Deletions are therefore taken to be in the foreground (Background is    *)
(* FALSE); after a background deletion these properties can fail.          *)
(***************************************************************************)
EXTENDS CoordinatorProofs

\* The main shell's steps, by what it knows: before run.status is RUNNING, with every
\* cell announced, in the loop, failing its active cell, past that, finalizing, in the
\* signal handler; and the steps at which it owns a started cell.
Starting == {"owner", "snapshots", "cells", "health", "startupError", "startupSummary",
             "startupRun", "running"}
Checked == {"health", "startupError", "startupSummary", "startupRun", "running"}
Looping == {"runningSummary", "pick", "prepare", "prepareSummary", "wait", "reap"}
Failing == {"failCopy", "failExit", "failStatus"}
Failed == {"failSummary", "failManifest"}
Finishing == {"final", "finalSummary", "finalRun"}
Handling == {"handlerWait", "handlerCheck"}
Owning == {"prepareSummary", "wait", "reap", "handlerWait"}

\* The child's steps up to the status of its cell, the commands that start a helper, and
\* the helper's steps after its scan.
Working == {"spawn", "setup", "bench", "pubCopy", "pubCopyAgain", "pubExit", "pubStatus"}
HelperOps == {"recover", "driftRecover", "cancelFinalize", "collectRecover"}
Judging == {"loss", "summary", "run"}

\* The ledger itself: nothing starts before the run does, cells are in order and the
\* published outcome agrees with them.
ShapeInv ==
    /\ run = "PREPARED" => \A c \in Cells : cell[c] \in {"ABSENT", "PENDING"}
    /\ run # "PREPARED" => NoCell("ABSENT")
    /\ CellsInOrder
    /\ OutcomeAgrees

\* The durable lock precedes every write of a shell or a helper, so a duplicate Pod,
\* which finds it, stops there.
LockInv ==
    /\ tree.lock = "none" => run = "PREPARED"
    /\ pc["parent"] \notin {"lock", "exit", "dead"} => tree.lock # "none"
    /\ pc["helper"] \notin {"off", "lock"} => tree.lock # "none"

\* The first k cells succeeded and no other has started.
InOrderUpTo(k) ==
    \A c \in Cells : cell[c] = IF c <= k THEN "SUCCESS" ELSE "PENDING"

\* _coordinator_initialize_state and the startup checks: the run is still PREPARED and
\* the shell's memory is empty.
StartInv ==
    /\ pc["parent"] \in Starting => run = "PREPARED"
    /\ pc["parent"] \in Checked => NoCell("ABSENT")
    /\ pc["parent"] \in Starting \cup {"lock", "runningSummary"} =>
          cur = 0 /\ active = 0 /\ ~handler["parent"] /\ ~handler["child"]
    /\ pc["parent"] \in {"lock", "owner", "snapshots", "cells", "health", "running",
                         "runningSummary", "pick"} => rc["parent"] = "ok"

\* _coordinator_main and its handler: the run is open until the main shell or a handler
\* ends it, the active cell is the only one that may be RUNNING, every earlier one
\* succeeded, and a success is published only over successful cells.
LoopInv ==
    /\ pc["parent"] \in Trapped \cup Handling \cup {"runningSummary", "startupManifest"}
          => run # "PREPARED"
    /\ pc["parent"] \in Looping \cup Failing \cup Failed \cup Finishing /\ ~handler["parent"]
          => run = "RUNNING"
    /\ pc["parent"] \in Looping => ~handler["parent"]
    /\ pc["parent"] \in Handling => handler["parent"] /\ rc["parent"] = "sig"
    /\ handler["child"] => handler["parent"]
    /\ pc["parent"] \in Trapped \cup Handling =>
          \A c \in Cells : cell[c] = "RUNNING" => c = active
    /\ pc["parent"] \in {"runningSummary", "pick"} => active = 0 /\ InOrderUpTo(cur)
    /\ pc["parent"] = "prepare" =>
          active = cur + 1 /\ active \in Cells /\ InOrderUpTo(cur)
    /\ pc["parent"] \in Owning =>
          /\ active = cur + 1 /\ active \in Cells
          /\ cell[active] \in {"RUNNING", "SUCCESS", "FAILED"}
          /\ \A c \in Cells \ {active} :
                cell[c] = IF c <= cur THEN "SUCCESS" ELSE "PENDING"
    /\ pc["parent"] = "prepareSummary" => cell[active] = "RUNNING"
    /\ pc["parent"] \in Failing => active \in Cells /\ cell[active] = "RUNNING"
    /\ pc["parent"] \in Failed => active \in Cells /\ cell[active] = "FAILED"
    /\ pc["parent"] \in Failing \cup Failed => rc["parent"] # "ok"
    /\ pc["parent"] \in Finishing =>
          NoCell("RUNNING") /\ (rc["parent"] = "ok" => AllCells("SUCCESS"))

\* _coordinator_run_one: the child exists only while the main shell waits for it, settles
\* the active cell once, and finalizes the run only as a signal handler.
ChildInv ==
    /\ pc["child"] # "off" => pc["parent"] \in {"wait", "handlerWait"}
    /\ pc["child"] \in Working \cup Failing => cell[active] = "RUNNING"
    /\ pc["child"] \in Working => ~handler["child"]
    /\ pc["child"] \in Failed => cell[active] = "FAILED"
    /\ pc["child"] \in Finishing \cup {"handlerCheck", "finalManifest"} => handler["child"]
    /\ pc["child"] \in Finishing => cell[active] # "RUNNING"
    /\ handler["child"] /\ pc["child"] \notin {"off", "exit"} => rc["child"] # "ok"

\* Recovery and --finalize-cancelled: a helper belongs to one of four commands, and it
\* judges the run after its scan left no cell RUNNING.
HelperInv ==
    /\ pc["helper"] # "off" => op \in HelperOps
    /\ pc["helper"] = "scanExit" => target \in Cells /\ cell[target] = "FAILED"
    /\ pc["helper"] \in {"scan", "scanExit"} \cup Judging /\ ~Cancelling => NoCell("ABSENT")
    /\ pc["helper"] \in Judging => NoCell("RUNNING")
    /\ pc["helper"] \in Judging /\ ~Cancelling /\ rc["helper"] = "ok" => AllCells("SUCCESS")
    /\ pc["helper"] = "run" => NoCell("ABSENT")

\* The inductive invariant of the ledger.
LedgerInv == JobInv /\ ShapeInv /\ LockInv /\ StartInv /\ LoopInv /\ ChildInv /\ HelperInv

\* What the manifest demands is written before it: snapshots and a summary, and an exit
\* code before each terminal status unless a helper, which writes it after, was needed.
PublishInv ==
    /\ pc["parent"] \notin {"lock", "owner", "snapshots", "exit", "dead"} => tree.snap
    /\ pc["parent"] \in Trapped \cup Handling \cup {"startupRun", "startupManifest"} =>
          tree.summary.status # "none"
    /\ ~CoordinatorLost => \A c \in Cells : Settled(c) => exitcode[c] # "none"
    /\ pc["parent"] = "failStatus" => exitcode[active] # "none"
    /\ pc["child"] \in {"failStatus", "pubStatus"} => exitcode[active] # "none"

\* Without TERM no signal is ever recorded by a shell, so a cancellation that met an open
\* run never reopens a FAILED one.
QuietInv ==
    /\ ~handler["parent"] /\ ~handler["child"]
    /\ rc["parent"] # "sig" /\ rc["child"] # "sig"
    /\ ~CoordinatorLost =>
          tree.summary.rc # "sig" /\ \A c \in Cells : exitcode[c] # "sig"
    /\ \/ op \in {"cancelObserve", "cancelDelete"}
       \/ op = "cancelFinalize" /\ pc["helper"] \in {"lock", "owner", "mode"}
       => ~FailedBySignal
    /\ pc["helper"] \in {"snapshots", "cells", "scan", "scanExit"} \cup Judging => ~Ended

\* An import is made from a quiet Job's tree and ends the local life of the attempt.
ImportInv ==
    /\ op = "collectImport" => job # "ACTIVE"
    /\ imported => /\ op = "idle" /\ job # "ACTIVE" /\ local = "COLLECTION_IN_PROGRESS"
                   /\ Collectible

\* Evidence precedes status: a SUCCESS cell has exit code 0, workers and results on the
\* claim, and so has every cell that a manifest, also an outdated one, calls SUCCESS.
EvidenceInv ==
    /\ \A c \in Cells : cell[c] = "SUCCESS" =>
          /\ exitcode[c] = "ok"
          /\ "workers" \in tree.artifacts[c] /\ "results" \in tree.artifacts[c]
    /\ \A c \in Cells : manifest.cell[c] = "SUCCESS" =>
          /\ cell[c] = "SUCCESS"
          /\ "workers" \in manifest.artifacts[c] /\ "results" \in manifest.artifacts[c]
    /\ pc["child"] \in {"bench", "pubCopy", "pubCopyAgain", "pubExit", "pubStatus"} =>
          "workers" \in tree.artifacts[active]
    /\ pc["child"] \in {"pubExit", "pubStatus"} => "results" \in tree.artifacts[active]
    /\ pc["child"] = "pubStatus" => exitcode[active] = rc["child"]

\* A run ends for good, so a command that saw it ended may say so locally.
EndedInv ==
    /\ local \in {"TERMINAL", "COLLECTION_IN_PROGRESS"} => Ended
    /\ op \in {"collectWait", "collectImport"} => Ended
    /\ pc["helper"] \in {"repair", "repairSummary", "manifest", "done"} => Ended

\* What --status judges of a Job it observed Complete is a terminal run.
StatusInv ==
    /\ op = "statusComplete" => Ended
    /\ op = "statusLedger" => seen \in Terminal

\* The steps by the process that takes them; the proofs go process by process.
ParentStep ==
    ParentNext \/ ShellNext("parent") \/ TermParent \/ PodKilled \/ DuplicatePod

ChildStep == ChildNext \/ ShellNext("child") \/ ChildDies \/ TermChild

HelperStep ==
    \/ HelperLock \/ HelperOwner \/ HelperMode \/ HelperSnapshots \/ HelperCells
    \/ HelperScan \/ HelperExit \/ HelperLoss \/ HelperSummary \/ HelperRun
    \/ HelperManifest \/ HelperRepair \/ HelperRepairSummary

CommandStep ==
    \/ HelperReturns \/ CommandNext \/ UserNext \/ JobFinishes \/ JobDeleted
    \/ JobDeletedExternally \/ CommandTimesOut \/ CommandDies \/ UNCHANGED vars

(***************************************************************************)
(* Writes: what each of them changes of the files that the invariants read.*)
(***************************************************************************)
\* Replacing the lock directory or its owner record changes nothing else of the tree.
LEMMA LockWrite ==
    ASSUME tree \in Trees, NEW v, WriteLock(v)
    PROVE  /\ tree'.lock = v
           /\ UNCHANGED <<cell, run, exitcode, tree.artifacts, manifest, tree.snap, tree.summary>>
  BY DEF Trees, WriteLock, cell, run, exitcode, manifest

\* Copying the environment snapshots changes nothing else of the tree.
LEMMA SnapshotsWrite ==
    ASSUME tree \in Trees, WriteSnapshots
    PROVE  /\ tree'.snap = TRUE
           /\ UNCHANGED <<cell, run, exitcode, tree.artifacts, manifest, tree.lock, tree.summary>>
  BY DEF Trees, WriteSnapshots, cell, run, exitcode, manifest

\* Replacing one execution's status file changes nothing else of the tree.
LEMMA CellWrite ==
    ASSUME tree \in Trees, NEW c \in Cells, NEW v, WriteCell(c, v)
    PROVE  /\ cell' = [cell EXCEPT ![c] = v]
           /\ UNCHANGED <<run, exitcode, tree.artifacts, manifest, tree.lock, tree.snap,
                          tree.summary>>
  BY DEF Trees, WriteCell, cell, run, exitcode, manifest

\* Replacing one execution's exit code changes nothing else of the tree.
LEMMA ExitWrite ==
    ASSUME tree \in Trees, NEW c \in Cells, NEW v, WriteExit(c, v)
    PROVE  /\ exitcode' = [exitcode EXCEPT ![c] = v]
           /\ UNCHANGED <<cell, run, tree.artifacts, manifest, tree.lock, tree.snap,
                          tree.summary>>
  BY DEF Trees, WriteExit, cell, run, exitcode, manifest

\* Adding the workers file or the results of an execution leaves the ledger alone.
LEMMA ArtifactWrite ==
    ASSUME tree \in Trees, NEW c, NEW a, AddArtifact(c, a)
    PROVE  /\ tree'.artifacts = [tree.artifacts EXCEPT ![c] = tree.artifacts[c] \cup {a}]
           /\ UNCHANGED <<cell, run, exitcode, manifest, tree.lock, tree.snap, tree.summary>>
  BY DEF Trees, AddArtifact, cell, run, exitcode, manifest

\* Replacing startup-error.txt leaves the ledger alone.
LEMMA StartupErrorWrite ==
    ASSUME tree \in Trees, NEW v, WriteStartupError(v)
    PROVE  UNCHANGED <<cell, run, exitcode, tree.artifacts, manifest, tree.lock, tree.snap,
                       tree.summary>>
  BY DEF Trees, WriteStartupError, cell, run, exitcode, manifest

\* Writing coordinator-loss.tsv leaves the ledger alone.
LEMMA LossWrite ==
    ASSUME tree \in Trees, WriteLoss
    PROVE  UNCHANGED <<cell, run, exitcode, tree.artifacts, manifest, tree.lock, tree.snap,
                       tree.summary>>
  BY DEF Trees, WriteLoss, cell, run, exitcode, manifest

\* Replacing run.status changes nothing else of the tree.
LEMMA RunWrite ==
    ASSUME tree \in Trees, NEW v, WriteRun(v)
    PROVE  /\ run' = v
           /\ UNCHANGED <<cell, exitcode, tree.artifacts, manifest, tree.lock, tree.snap,
                          tree.summary>>
  BY DEF Trees, WriteRun, cell, run, exitcode, manifest

\* _coordinator_write_summary changes nothing else of the tree.
LEMMA SummaryWrite ==
    ASSUME tree \in Trees, NEW s, NEW v, WriteSummary(s, v)
    PROVE  /\ tree'.summary.status = s /\ tree'.summary.rc = v
           /\ UNCHANGED <<cell, run, exitcode, tree.artifacts, manifest, tree.lock, tree.snap>>
  BY DEF Trees, WriteSummary, cell, run, exitcode, manifest

\* _coordinator_publish_manifest leaves everything it hashes alone.
LEMMA ManifestWrite ==
    ASSUME tree \in Trees, PublishManifest
    PROVE  /\ manifest'.cell = cell /\ manifest'.artifacts = tree.artifacts
           /\ UNCHANGED <<cell, run, exitcode, tree.artifacts, tree.lock, tree.snap,
                          tree.summary>>
  BY DEF Trees, PublishManifest, cell, run, exitcode, manifest

\* Adding an artifact takes none away.
LEMMA ArtifactKept ==
    ASSUME tree \in Trees, NEW c \in Cells, NEW a, AddArtifact(c, a)
    PROVE  /\ a \in tree'.artifacts[c]
           /\ \A d \in Cells : \A b \in tree.artifacts[d] : b \in tree'.artifacts[d]
<1>1. /\ tree'.artifacts = [tree.artifacts EXCEPT ![c] = tree.artifacts[c] \cup {a}]
      /\ tree.artifacts \in [Cells -> SUBSET Artifacts]
  BY ArtifactWrite DEF Trees
<1> QED BY <1>1

\* A step that writes no file leaves the ledger alone.
LEMMA NoWrite ==
    ASSUME UNCHANGED tree
    PROVE  UNCHANGED <<cell, run, exitcode, tree.artifacts, manifest, tree.lock, tree.snap,
                       tree.summary>>
  BY DEF cell, run, exitcode, manifest

\* What type correctness says of the variables and files that the invariants are about.
LEMMA Typed ==
    ASSUME TypeOK
    PROVE  /\ tree \in Trees
           /\ cell \in [Cells -> CellStatus]
           /\ exitcode \in [Cells -> Codes \cup {"none"}]
           /\ run \in RunStatus
           /\ tree.artifacts \in [Cells -> SUBSET Artifacts]
           /\ pc \in [Procs -> ParentSteps \cup ChildSteps \cup HelperSteps]
           /\ rc \in [Procs -> Codes]
           /\ handler \in [Shells -> BOOLEAN]
           /\ cur \in 0..N
           /\ active \in 0..N
           /\ target \in 0..N
           /\ N \in Nat \ {0}
  BY NAssumption DEF TypeOK, Trees, cell, exitcode, run

(***************************************************************************)
(* The main shell.                                                         *)
(***************************************************************************)
\* A step of the main shell leaves Job, helper and command alone, leaves a child only
\* at the fork and under TERM, and shows in the ledger in six cases.
LEMMA ParentFrame ==
    ASSUME TypeOK, LedgerInv, ParentStep
    PROVE  /\ job = "ACTIVE" /\ pc["helper"] = "off" /\ pc'["helper"] = "off"
           /\ UNCHANGED control
           /\ pc'["child"] = "off" \/ PrepareSummary \/ TermParent
           /\ \/ InitializeExecutionStates \/ StartupRun \/ StartRun \/ PrepareActive
              \/ FailStatus("parent") \/ FinalizeRun("parent")
              \/ UNCHANGED <<cell, run>>
<1> USE DEF Step, Goto, At, Exit, Procs, Shells, memory, JobInv, PodAlive, CoordinatorLost,
            ChildInv, control
<1>i. JobInv /\ ChildInv /\ LoopInv
  BY DEF LedgerInv
<1>t. /\ tree \in Trees
      /\ cell \in [Cells -> CellStatus] /\ exitcode \in [Cells -> Codes \cup {"none"}]
      /\ run \in RunStatus
      /\ pc \in [Procs -> ParentSteps \cup ChildSteps \cup HelperSteps]
      /\ rc \in [Procs -> Codes]
      /\ handler \in [Shells -> BOOLEAN]
      /\ cur \in 0..N /\ active \in 0..N /\ target \in 0..N /\ N \in Nat \ {0}
  BY Typed
<1>1. CASE AcquireLock
  BY <1>1, <1>t, <1>i, LockWrite, NoWrite DEF AcquireLock
<1>2. CASE RecordOwner
  BY <1>2, <1>t, <1>i, LockWrite DEF RecordOwner
<1>3. CASE InitializeSnapshots
  BY <1>3, <1>t, <1>i, SnapshotsWrite DEF InitializeSnapshots
<1>4. CASE InitializeExecutionStates
  BY <1>4, <1>t, <1>i, CellWrite, NoWrite DEF InitializeExecutionStates
<1>5. CASE StartupCheck
  BY <1>5, <1>t, <1>i, NoWrite DEF StartupCheck
<1>6. CASE StartupError
  BY <1>6, <1>t, <1>i, StartupErrorWrite DEF StartupError
<1>7. CASE StartupSummary
  BY <1>7, <1>t, <1>i, SummaryWrite DEF StartupSummary
<1>8. CASE StartupRun
  BY <1>8, <1>t, <1>i, RunWrite DEF StartupRun
<1>9. CASE StartupManifest
  BY <1>9, <1>t, <1>i, ManifestWrite DEF StartupManifest
<1>10. CASE StartRun
  BY <1>10, <1>t, <1>i, RunWrite DEF StartRun
<1>11. CASE StartSummary
  BY <1>11, <1>t, <1>i, SummaryWrite DEF StartSummary
<1>12. CASE PickExecution
  BY <1>12, <1>t, <1>i, NoWrite DEF PickExecution
<1>13. CASE PrepareActive
  BY <1>13, <1>t, <1>i, CellWrite DEF PrepareActive
<1>14. CASE PrepareSummary
  BY <1>14, <1>t, <1>i, SummaryWrite DEF PrepareSummary
<1>15. CASE Reap
  BY <1>15, <1>t, <1>i, NoWrite DEF Reap
<1>16. CASE CompleteActive
  BY <1>16, <1>t, <1>i, NoWrite DEF CompleteActive
<1>17. CASE HandlerReap
  BY <1>17, <1>t, <1>i, NoWrite DEF HandlerReap
<1>18. CASE MainReturns
  BY <1>18, <1>t, <1>i, NoWrite DEF MainReturns
<1>19. CASE PodExits
  BY <1>19, <1>t, <1>i, NoWrite DEF PodExits
<1>20. CASE FailCopy("parent")
  BY <1>20, <1>t, <1>i, ArtifactWrite, NoWrite DEF FailCopy
<1>21. CASE FailExit("parent")
  BY <1>21, <1>t, <1>i, ExitWrite DEF FailExit, LoopInv, Failing
<1>22. CASE FailStatus("parent")
  BY <1>22, <1>t, <1>i, CellWrite DEF FailStatus
<1>23. CASE FailSummary("parent")
  BY <1>23, <1>t, <1>i, SummaryWrite DEF FailSummary
<1>24. CASE FailManifest("parent")
  BY <1>24, <1>t, <1>i, ManifestWrite DEF FailManifest
<1>25. CASE Finalize("parent")
  BY <1>25, <1>t, <1>i, StartupErrorWrite DEF Finalize
<1>26. CASE FinalizeSummary("parent")
  BY <1>26, <1>t, <1>i, SummaryWrite DEF FinalizeSummary
<1>27. CASE FinalizeRun("parent")
  BY <1>27, <1>t, <1>i, RunWrite DEF FinalizeRun
<1>28. CASE FinalizeManifest("parent")
  BY <1>28, <1>t, <1>i, ManifestWrite DEF FinalizeManifest
<1>29. CASE HandlerCheck("parent")
  BY <1>29, <1>t, <1>i, NoWrite DEF HandlerCheck
<1>30. CASE TermParent
  BY <1>30, <1>t, <1>i, NoWrite DEF TermParent, Trapped
<1>31. CASE PodKilled
  BY <1>31, <1>t, <1>i, NoWrite DEF PodKilled
<1>32. CASE DuplicatePod
  BY <1>32, <1>t, <1>i, NoWrite DEF DuplicatePod
<1> QED
  BY <1>1, <1>2, <1>3, <1>4, <1>5, <1>6, <1>7, <1>8, <1>9, <1>10, <1>11, <1>12, <1>13,
     <1>14, <1>15, <1>16, <1>17, <1>18, <1>19, <1>20, <1>21, <1>22, <1>23, <1>24, <1>25, <1>26,
     <1>27, <1>28, <1>29, <1>30, <1>31, <1>32
  DEF ParentStep, ParentNext, ShellNext

\* The main shell boots under the durable lock, once, with nothing in memory.
LEMMA ParentStart ==
    ASSUME TypeOK, LedgerInv, ParentStep
    PROVE  LockInv' /\ StartInv'
<1> USE DEF Step, Goto, At, Exit, Procs, Shells, memory, LockInv, StartInv, Starting, Checked,
            NoCell
<1>i. LockInv /\ StartInv /\ LoopInv
  BY DEF LedgerInv
<1>t. /\ tree \in Trees
      /\ cell \in [Cells -> CellStatus] /\ exitcode \in [Cells -> Codes \cup {"none"}]
      /\ run \in RunStatus
      /\ pc \in [Procs -> ParentSteps \cup ChildSteps \cup HelperSteps]
      /\ rc \in [Procs -> Codes]
      /\ handler \in [Shells -> BOOLEAN]
      /\ cur \in 0..N /\ active \in 0..N /\ target \in 0..N /\ N \in Nat \ {0}
  BY Typed
<1>1. CASE AcquireLock
  BY <1>1, <1>t, <1>i, LockWrite, NoWrite DEF AcquireLock
<1>2. CASE RecordOwner
  BY <1>2, <1>t, <1>i, LockWrite DEF RecordOwner
<1>3. CASE InitializeSnapshots
  BY <1>3, <1>t, <1>i, SnapshotsWrite DEF InitializeSnapshots
<1>4. CASE InitializeExecutionStates
  BY <1>4, <1>t, <1>i, CellWrite, NoWrite DEF InitializeExecutionStates, InitializeCell
<1>5. CASE StartupCheck
  BY <1>5, <1>t, <1>i, NoWrite DEF StartupCheck
<1>6. CASE StartupError
  BY <1>6, <1>t, <1>i, StartupErrorWrite DEF StartupError
<1>7. CASE StartupSummary
  BY <1>7, <1>t, <1>i, SummaryWrite DEF StartupSummary
<1>8. CASE StartupRun
  BY <1>8, <1>t, <1>i, RunWrite DEF StartupRun
<1>9. CASE StartupManifest
  BY <1>9, <1>t, <1>i, ManifestWrite DEF StartupManifest
<1>10. CASE StartRun
  BY <1>10, <1>t, <1>i, RunWrite DEF StartRun
<1>11. CASE StartSummary
  BY <1>11, <1>t, <1>i, SummaryWrite DEF StartSummary
<1>12. CASE PickExecution
  BY <1>12, <1>t, <1>i, NoWrite DEF PickExecution
<1>13. CASE PrepareActive
  BY <1>13, <1>t, <1>i, CellWrite DEF PrepareActive, LoopInv
<1>14. CASE PrepareSummary
  BY <1>14, <1>t, <1>i, SummaryWrite DEF PrepareSummary
<1>15. CASE Reap
  BY <1>15, <1>t, <1>i, NoWrite DEF Reap
<1>16. CASE CompleteActive
  BY <1>16, <1>t, <1>i, NoWrite DEF CompleteActive
<1>17. CASE HandlerReap
  BY <1>17, <1>t, <1>i, NoWrite DEF HandlerReap
<1>18. CASE MainReturns
  BY <1>18, <1>t, <1>i, NoWrite DEF MainReturns
<1>19. CASE PodExits
  BY <1>19, <1>t, <1>i, NoWrite DEF PodExits
<1>20. CASE FailCopy("parent")
  BY <1>20, <1>t, <1>i, ArtifactWrite, NoWrite DEF FailCopy
<1>21. CASE FailExit("parent")
  BY <1>21, <1>t, <1>i, ExitWrite DEF FailExit, LoopInv, Failing
<1>22. CASE FailStatus("parent")
  BY <1>22, <1>t, <1>i, CellWrite DEF FailStatus, LoopInv, Failing
<1>23. CASE FailSummary("parent")
  BY <1>23, <1>t, <1>i, SummaryWrite DEF FailSummary
<1>24. CASE FailManifest("parent")
  BY <1>24, <1>t, <1>i, ManifestWrite DEF FailManifest
<1>25. CASE Finalize("parent")
  BY <1>25, <1>t, <1>i, StartupErrorWrite DEF Finalize
<1>26. CASE FinalizeSummary("parent")
  BY <1>26, <1>t, <1>i, SummaryWrite DEF FinalizeSummary
<1>27. CASE FinalizeRun("parent")
  BY <1>27, <1>t, <1>i, RunWrite DEF FinalizeRun, Outcome
<1>28. CASE FinalizeManifest("parent")
  BY <1>28, <1>t, <1>i, ManifestWrite DEF FinalizeManifest
<1>29. CASE HandlerCheck("parent")
  BY <1>29, <1>t, <1>i, NoWrite DEF HandlerCheck
<1>30. CASE TermParent
  BY <1>30, <1>t, <1>i, NoWrite DEF TermParent, Trapped
<1>31. CASE PodKilled
  BY <1>31, <1>t, <1>i, NoWrite DEF PodKilled
<1>32. CASE DuplicatePod
  BY <1>32, <1>t, <1>i, NoWrite DEF DuplicatePod
<1> QED
  BY <1>1, <1>2, <1>3, <1>4, <1>5, <1>6, <1>7, <1>8, <1>9, <1>10, <1>11, <1>12, <1>13,
     <1>14, <1>15, <1>16, <1>17, <1>18, <1>19, <1>20, <1>21, <1>22, <1>23, <1>24, <1>25, <1>26,
     <1>27, <1>28, <1>29, <1>30, <1>31, <1>32
  DEF ParentStep, ParentNext, ShellNext

\* The main loop starts the cells in order and owns the one that is running.
LEMMA ParentLoop ==
    ASSUME TypeOK, LedgerInv, ParentStep
    PROVE  LoopInv'
<1> USE DEF Step, Goto, At, Exit, Procs, Shells, memory, ShapeInv, CellsInOrder, StartInv,
            Starting, Checked, LoopInv, Trapped, Handling, Owning, Looping, Failing, Failed,
            Finishing, NoCell, AllCells, InOrderUpTo, Cells
<1>i. ShapeInv /\ StartInv /\ LoopInv
  BY DEF LedgerInv
<1>t. /\ tree \in Trees
      /\ cell \in [Cells -> CellStatus] /\ exitcode \in [Cells -> Codes \cup {"none"}]
      /\ run \in RunStatus
      /\ pc \in [Procs -> ParentSteps \cup ChildSteps \cup HelperSteps]
      /\ rc \in [Procs -> Codes]
      /\ handler \in [Shells -> BOOLEAN]
      /\ cur \in 0..N /\ active \in 0..N /\ target \in 0..N /\ N \in Nat \ {0}
  BY Typed
<1>1. CASE AcquireLock
  BY <1>1, <1>t, <1>i, LockWrite, NoWrite DEF AcquireLock
<1>2. CASE RecordOwner
  BY <1>2, <1>t, <1>i, LockWrite DEF RecordOwner
<1>3. CASE InitializeSnapshots
  BY <1>3, <1>t, <1>i, SnapshotsWrite DEF InitializeSnapshots
<1>4. CASE InitializeExecutionStates
  BY <1>4, <1>t, <1>i, CellWrite, NoWrite DEF InitializeExecutionStates, InitializeCell
<1>5. CASE StartupCheck
  BY <1>5, <1>t, <1>i, NoWrite DEF StartupCheck
<1>6. CASE StartupError
  BY <1>6, <1>t, <1>i, StartupErrorWrite DEF StartupError
<1>7. CASE StartupSummary
  BY <1>7, <1>t, <1>i, SummaryWrite DEF StartupSummary
<1>8. CASE StartupRun
  BY <1>8, <1>t, <1>i, RunWrite DEF StartupRun
<1>9. CASE StartupManifest
  BY <1>9, <1>t, <1>i, ManifestWrite DEF StartupManifest
<1>10. CASE StartRun
  BY <1>10, <1>t, <1>i, RunWrite DEF StartRun
<1>11. CASE StartSummary
  <2>1. UNCHANGED <<cell, run>>
    BY <1>11, <1>t, SummaryWrite DEF StartSummary
  <2> QED BY <1>11, <2>1, <1>t, <1>i DEF StartSummary
<1>12. CASE PickExecution
  BY <1>12, <1>t, <1>i, NoWrite DEF PickExecution
<1>13. CASE PrepareActive
  BY <1>13, <1>t, <1>i, CellWrite DEF PrepareActive
<1>14. CASE PrepareSummary
  <2>1. UNCHANGED <<cell, run>>
    BY <1>14, <1>t, SummaryWrite DEF PrepareSummary
  <2> QED BY <1>14, <2>1, <1>t, <1>i DEF PrepareSummary
<1>15. CASE Reap
  BY <1>15, <1>t, <1>i, NoWrite DEF Reap
<1>16. CASE CompleteActive
  BY <1>16, <1>t, <1>i, NoWrite DEF CompleteActive
<1>17. CASE HandlerReap
  BY <1>17, <1>t, <1>i, NoWrite DEF HandlerReap
<1>18. CASE MainReturns
  BY <1>18, <1>t, <1>i, NoWrite DEF MainReturns
<1>19. CASE PodExits
  BY <1>19, <1>t, <1>i, NoWrite DEF PodExits
<1>20. CASE FailCopy("parent")
  BY <1>20, <1>t, <1>i, ArtifactWrite, NoWrite, ZenonT(30) DEF FailCopy
<1>21. CASE FailExit("parent")
  BY <1>21, <1>t, <1>i, ExitWrite DEF FailExit
<1>22. CASE FailStatus("parent")
  BY <1>22, <1>t, <1>i, CellWrite DEF FailStatus
<1>23. CASE FailSummary("parent")
  BY <1>23, <1>t, <1>i, SummaryWrite DEF FailSummary
<1>24. CASE FailManifest("parent")
  BY <1>24, <1>t, <1>i, ManifestWrite DEF FailManifest
<1>25. CASE Finalize("parent")
  BY <1>25, <1>t, <1>i, StartupErrorWrite DEF Finalize
<1>26. CASE FinalizeSummary("parent")
  BY <1>26, <1>t, <1>i, SummaryWrite DEF FinalizeSummary
<1>27. CASE FinalizeRun("parent")
  BY <1>27, <1>t, <1>i, RunWrite DEF FinalizeRun, Outcome
<1>28. CASE FinalizeManifest("parent")
  BY <1>28, <1>t, <1>i, ManifestWrite DEF FinalizeManifest
<1>29. CASE HandlerCheck("parent")
  BY <1>29, <1>t, <1>i, NoWrite DEF HandlerCheck
<1>30. CASE TermParent
  BY <1>30, <1>t, <1>i, NoWrite DEF TermParent
<1>31. CASE PodKilled
  BY <1>31, <1>t, <1>i, NoWrite DEF PodKilled
<1>32. CASE DuplicatePod
  BY <1>32, <1>t, <1>i, NoWrite DEF DuplicatePod
<1> QED
  BY <1>1, <1>2, <1>3, <1>4, <1>5, <1>6, <1>7, <1>8, <1>9, <1>10, <1>11, <1>12, <1>13,
     <1>14, <1>15, <1>16, <1>17, <1>18, <1>19, <1>20, <1>21, <1>22, <1>23, <1>24, <1>25, <1>26,
     <1>27, <1>28, <1>29, <1>30, <1>31, <1>32
  DEF ParentStep, ParentNext, ShellNext

\* A child is forked for a RUNNING cell by a shell that has seen no signal.
LEMMA ParentChild ==
    ASSUME TypeOK, LedgerInv, ParentStep
    PROVE  ChildInv'
<1>1. CASE pc'["child"] = "off"
  BY <1>1 DEF ChildInv, Working, Failing, Failed, Finishing
<1>2. CASE PrepareSummary
  <2>1. UNCHANGED cell
    BY <1>2, Typed, SummaryWrite DEF PrepareSummary
  <2>2. cell[active] = "RUNNING" /\ ~handler["parent"] /\ ~handler["child"]
    BY <1>2, Typed DEF LedgerInv, LoopInv, Looping, PrepareSummary, At, Shells
  <2> QED BY <1>2, <2>1, <2>2, Typed
      DEF PrepareSummary, Procs, memory, ChildInv, Working, Failing, Failed, Finishing
<1>3. CASE TermParent
  <2>1. UNCHANGED cell
    BY <1>3, NoWrite DEF TermParent
  <2> QED BY <1>3, <2>1, Typed
    DEF LedgerInv, ChildInv, TermParent, Trapped, Exit, Goto, At, Procs, Shells
<1> QED BY <1>1, <1>2, <1>3, ParentFrame

\* Cells in order and the agreement of the outcome survive every step of the main shell.
LEMMA ParentShape ==
    ASSUME TypeOK, LedgerInv, ParentStep
    PROVE  ShapeInv'
<1> USE DEF ShapeInv, CellsInOrder, OutcomeAgrees, Ended, Terminal, LoopInv, StartInv, Trapped,
            Handling, Starting, Checked, Owning, Looping, Failing, Failed, Finishing, NoCell,
            AllCells, InOrderUpTo, Cells, At, Step, memory
<1>i. ShapeInv /\ LoopInv /\ StartInv
  BY DEF LedgerInv
<1>t. /\ tree \in Trees
      /\ cell \in [Cells -> CellStatus] /\ exitcode \in [Cells -> Codes \cup {"none"}]
      /\ run \in RunStatus
      /\ pc \in [Procs -> ParentSteps \cup ChildSteps \cup HelperSteps]
      /\ rc \in [Procs -> Codes]
      /\ handler \in [Shells -> BOOLEAN]
      /\ cur \in 0..N /\ active \in 0..N /\ target \in 0..N /\ N \in Nat \ {0}
  BY Typed
<1>1. CASE UNCHANGED <<cell, run>>
  BY <1>1, <1>i
<1>2. CASE InitializeExecutionStates
  BY <1>2, <1>t, <1>i, CellWrite, NoWrite DEF InitializeExecutionStates, InitializeCell
<1>3. CASE StartupRun
  BY <1>3, <1>t, <1>i, RunWrite DEF StartupRun
<1>4. CASE StartRun
  BY <1>4, <1>t, <1>i, RunWrite DEF StartRun
<1>5. CASE PrepareActive
  BY <1>5, <1>t, <1>i, CellWrite DEF PrepareActive
<1>6. CASE FailStatus("parent")
  BY <1>6, <1>t, <1>i, CellWrite DEF FailStatus
<1>7. CASE FinalizeRun("parent")
  BY <1>7, <1>t, <1>i, RunWrite DEF FinalizeRun, Outcome
<1> QED BY <1>1, <1>2, <1>3, <1>4, <1>5, <1>6, <1>7, ParentFrame

(***************************************************************************)
(* The cell shell.                                                         *)
(***************************************************************************)
\* The cell shell works only while the main shell waits for it.  Its steps change nothing
\* of the main shell, nor of Job, helper, command and lock, and show in the ledger in
\* three cases.
LEMMA ChildFrame ==
    ASSUME TypeOK, LedgerInv, ChildStep
    PROVE  /\ job = "ACTIVE" /\ pc["helper"] = "off" /\ pc'["helper"] = "off"
           /\ UNCHANGED control
           /\ pc["parent"] \in {"wait", "handlerWait"} /\ pc'["parent"] = pc["parent"]
           /\ rc'["parent"] = rc["parent"] /\ handler'["parent"] = handler["parent"]
           /\ UNCHANGED <<cur, active, tree.lock, tree.snap>>
           /\ handler'["child"] => handler["child"] \/ pc["parent"] = "handlerWait"
           /\ PublishStatus \/ FailStatus("child") \/ FinalizeRun("child") \/ UNCHANGED <<cell, run>>
<1> USE DEF Step, Goto, At, Exit, Procs, Shells, memory, JobInv, PodAlive, CoordinatorLost,
            ChildInv, LoopInv, Owning, control
<1>i. JobInv /\ ChildInv /\ LoopInv
  BY DEF LedgerInv
<1>t. /\ tree \in Trees
      /\ cell \in [Cells -> CellStatus] /\ exitcode \in [Cells -> Codes \cup {"none"}]
      /\ run \in RunStatus
      /\ pc \in [Procs -> ParentSteps \cup ChildSteps \cup HelperSteps]
      /\ rc \in [Procs -> Codes]
      /\ handler \in [Shells -> BOOLEAN]
      /\ cur \in 0..N /\ active \in 0..N /\ target \in 0..N /\ N \in Nat \ {0}
  BY Typed
<1>1. CASE ChildTraps
  BY <1>1, <1>t, <1>i, NoWrite DEF ChildTraps
<1>2. CASE ChildSetup
  BY <1>2, <1>t, <1>i, ArtifactWrite, NoWrite DEF ChildSetup
<1>3. CASE Benchmark
  BY <1>3, <1>t, <1>i, NoWrite DEF Benchmark
<1>4. CASE PublishCopy
  BY <1>4, <1>t, <1>i, ArtifactWrite DEF PublishCopy
<1>5. CASE PublishCopyFails
  BY <1>5, <1>t, <1>i, NoWrite DEF PublishCopyFails
<1>6. CASE PublishExit
  BY <1>6, <1>t, <1>i, ExitWrite DEF PublishExit
<1>7. CASE PublishStatus
  BY <1>7, <1>t, <1>i, CellWrite DEF PublishStatus
<1>8. CASE PublishSummary
  BY <1>8, <1>t, <1>i, SummaryWrite DEF PublishSummary
<1>9. CASE PublishCell
  BY <1>9, <1>t, <1>i, ManifestWrite DEF PublishCell
<1>10. CASE FailCopy("child")
  BY <1>10, <1>t, <1>i, ArtifactWrite, NoWrite DEF FailCopy
<1>11. CASE FailExit("child")
  BY <1>11, <1>t, <1>i, ExitWrite DEF FailExit
<1>12. CASE FailStatus("child")
  BY <1>12, <1>t, <1>i, CellWrite DEF FailStatus
<1>13. CASE FailSummary("child")
  BY <1>13, <1>t, <1>i, SummaryWrite DEF FailSummary
<1>14. CASE FailManifest("child")
  BY <1>14, <1>t, <1>i, ManifestWrite DEF FailManifest
<1>15. CASE Finalize("child")
  BY <1>15, <1>t, <1>i, StartupErrorWrite DEF Finalize
<1>16. CASE FinalizeSummary("child")
  BY <1>16, <1>t, <1>i, SummaryWrite DEF FinalizeSummary
<1>17. CASE FinalizeRun("child")
  BY <1>17, <1>t, <1>i, RunWrite DEF FinalizeRun
<1>18. CASE FinalizeManifest("child")
  BY <1>18, <1>t, <1>i, ManifestWrite DEF FinalizeManifest
<1>19. CASE HandlerCheck("child")
  BY <1>19, <1>t, <1>i, NoWrite DEF HandlerCheck
<1>20. CASE ChildDies
  BY <1>20, <1>t, <1>i, NoWrite DEF ChildDies
<1>21. CASE TermChild
  BY <1>21, <1>t, <1>i, NoWrite DEF TermChild
<1> QED
  BY <1>1, <1>2, <1>3, <1>4, <1>5, <1>6, <1>7, <1>8, <1>9, <1>10, <1>11, <1>12, <1>13,
     <1>14, <1>15, <1>16, <1>17, <1>18, <1>19, <1>20, <1>21
  DEF ChildStep, ChildNext, ShellNext

\* What the main shell relies on while it waits survives every step of the cell shell.
LEMMA ChildLoop ==
    ASSUME TypeOK, LedgerInv, ChildStep
    PROVE  LockInv' /\ StartInv' /\ LoopInv'
<1> USE DEF LockInv, StartInv, Starting, Checked, At, Step, ChildInv, LoopInv, Trapped,
            Handling, Owning, Looping, Failing, Failed, Finishing, Working
<1>i. LockInv /\ StartInv /\ ChildInv /\ LoopInv
  BY DEF LedgerInv
<1>t. /\ tree \in Trees
      /\ cell \in [Cells -> CellStatus] /\ exitcode \in [Cells -> Codes \cup {"none"}]
      /\ run \in RunStatus
      /\ pc \in [Procs -> ParentSteps \cup ChildSteps \cup HelperSteps]
      /\ rc \in [Procs -> Codes]
      /\ handler \in [Shells -> BOOLEAN]
      /\ cur \in 0..N /\ active \in 0..N /\ target \in 0..N /\ N \in Nat \ {0}
  BY Typed
<1>f. /\ pc["parent"] \in {"wait", "handlerWait"} /\ pc'["parent"] = pc["parent"]
      /\ pc'["helper"] = "off" /\ rc'["parent"] = rc["parent"]
      /\ handler'["parent"] = handler["parent"]
      /\ handler'["child"] => handler["child"] \/ pc["parent"] = "handlerWait"
      /\ UNCHANGED <<cur, active, tree.lock>>
  BY ChildFrame
<1>1. CASE UNCHANGED <<cell, run>>
  BY <1>1, <1>i, <1>f
<1>2. CASE PublishStatus
  BY <1>2, <1>t, <1>i, <1>f, CellWrite DEF PublishStatus, Outcome
<1>3. CASE FailStatus("child")
  BY <1>3, <1>t, <1>i, <1>f, CellWrite DEF FailStatus
<1>4. CASE FinalizeRun("child")
  BY <1>4, <1>t, <1>i, <1>f, RunWrite DEF FinalizeRun, Outcome
<1> QED BY <1>1, <1>2, <1>3, <1>4, ChildFrame

\* The cell shell settles the cell it was forked for, and finalizes only as a handler.
LEMMA ChildChild ==
    ASSUME TypeOK, LedgerInv, ChildStep
    PROVE  ChildInv'
<1> USE DEF Step, Goto, At, Exit, Procs, Shells, memory, ChildInv, LoopInv, Trapped, Handling,
            Owning, Looping, Failing, Failed, Finishing, Working
<1>i. LoopInv /\ ChildInv
  BY DEF LedgerInv
<1>t. /\ tree \in Trees
      /\ cell \in [Cells -> CellStatus] /\ exitcode \in [Cells -> Codes \cup {"none"}]
      /\ run \in RunStatus
      /\ pc \in [Procs -> ParentSteps \cup ChildSteps \cup HelperSteps]
      /\ rc \in [Procs -> Codes]
      /\ handler \in [Shells -> BOOLEAN]
      /\ cur \in 0..N /\ active \in 0..N /\ target \in 0..N /\ N \in Nat \ {0}
  BY Typed
<1>1. CASE ChildTraps
  BY <1>1, <1>t, <1>i, NoWrite DEF ChildTraps
<1>2. CASE ChildSetup
  BY <1>2, <1>t, <1>i, ArtifactWrite, NoWrite, ZenonT(30) DEF ChildSetup
<1>3. CASE Benchmark
  BY <1>3, <1>t, <1>i, NoWrite DEF Benchmark
<1>4. CASE PublishCopy
  BY <1>4, <1>t, <1>i, ArtifactWrite DEF PublishCopy
<1>5. CASE PublishCopyFails
  BY <1>5, <1>t, <1>i, NoWrite DEF PublishCopyFails
<1>6. CASE PublishExit
  BY <1>6, <1>t, <1>i, ExitWrite DEF PublishExit
<1>7. CASE PublishStatus
  BY <1>7, <1>t, <1>i, CellWrite DEF PublishStatus, Outcome
<1>8. CASE PublishSummary
  BY <1>8, <1>t, <1>i, SummaryWrite DEF PublishSummary
<1>9. CASE PublishCell
  BY <1>9, <1>t, <1>i, ManifestWrite DEF PublishCell
<1>10. CASE FailCopy("child")
  BY <1>10, <1>t, <1>i, ArtifactWrite, NoWrite DEF FailCopy
<1>11. CASE FailExit("child")
  BY <1>11, <1>t, <1>i, ExitWrite DEF FailExit
<1>12. CASE FailStatus("child")
  BY <1>12, <1>t, <1>i, CellWrite DEF FailStatus
<1>13. CASE FailSummary("child")
  BY <1>13, <1>t, <1>i, SummaryWrite DEF FailSummary
<1>14. CASE FailManifest("child")
  BY <1>14, <1>t, <1>i, ManifestWrite DEF FailManifest
<1>15. CASE Finalize("child")
  BY <1>15, <1>t, <1>i, StartupErrorWrite DEF Finalize
<1>16. CASE FinalizeSummary("child")
  BY <1>16, <1>t, <1>i, SummaryWrite DEF FinalizeSummary
<1>17. CASE FinalizeRun("child")
  BY <1>17, <1>t, <1>i, RunWrite DEF FinalizeRun
<1>18. CASE FinalizeManifest("child")
  BY <1>18, <1>t, <1>i, ManifestWrite DEF FinalizeManifest
<1>19. CASE HandlerCheck("child")
  BY <1>19, <1>t, <1>i, NoWrite DEF HandlerCheck
<1>20. CASE ChildDies
  BY <1>20, <1>t, <1>i, NoWrite DEF ChildDies
<1>21. CASE TermChild
  BY <1>21, <1>t, <1>i, NoWrite DEF TermChild
<1> QED
  BY <1>1, <1>2, <1>3, <1>4, <1>5, <1>6, <1>7, <1>8, <1>9, <1>10, <1>11, <1>12, <1>13,
     <1>14, <1>15, <1>16, <1>17, <1>18, <1>19, <1>20, <1>21
  DEF ChildStep, ChildNext, ShellNext

\* Cells in order and the agreement of the outcome survive every step of the cell shell.
LEMMA ChildShape ==
    ASSUME TypeOK, LedgerInv, ChildStep
    PROVE  ShapeInv'
<1> USE DEF ShapeInv, CellsInOrder, OutcomeAgrees, Ended, Terminal, ChildInv, LoopInv, Trapped,
            Handling, Owning, Looping, Failing, Failed, Finishing, Working, NoCell, AllCells,
            Cells, At, Step, memory
<1>i. ShapeInv /\ LoopInv /\ ChildInv
  BY DEF LedgerInv
<1>t. /\ tree \in Trees
      /\ cell \in [Cells -> CellStatus] /\ exitcode \in [Cells -> Codes \cup {"none"}]
      /\ run \in RunStatus
      /\ pc \in [Procs -> ParentSteps \cup ChildSteps \cup HelperSteps]
      /\ rc \in [Procs -> Codes]
      /\ handler \in [Shells -> BOOLEAN]
      /\ cur \in 0..N /\ active \in 0..N /\ target \in 0..N /\ N \in Nat \ {0}
  BY Typed
<1>1. CASE UNCHANGED <<cell, run>>
  BY <1>1, <1>i
<1>2. CASE PublishStatus
  <2>1. active \in Cells /\ cell[active] = "RUNNING" /\ run # "PREPARED"
    BY <1>2, <1>i DEF PublishStatus
  <2>2. /\ cell' = [cell EXCEPT ![active] = Outcome("child")] /\ UNCHANGED run
        /\ Outcome("child") \in {"SUCCESS", "FAILED"}
    BY <1>2, <2>1, <1>t, CellWrite DEF PublishStatus, Outcome
  <2> QED BY <2>1, <2>2, <1>t, <1>i
<1>3. CASE FailStatus("child")
  BY <1>3, <1>t, <1>i, CellWrite, SMTT(30) DEF FailStatus
<1>4. CASE FinalizeRun("child")
  BY <1>4, <1>t, <1>i, RunWrite DEF FinalizeRun, Outcome
<1> QED BY <1>1, <1>2, <1>3, <1>4, ChildFrame

(***************************************************************************)
(* The helper: recovery and --finalize-cancelled.                          *)
(***************************************************************************)
\* The helper works only when no Pod is left; its steps leave the shells, the Job and the
\* command alone and show in the ledger in three cases.
LEMMA HelperFrame ==
    ASSUME TypeOK, LedgerInv, HelperStep
    PROVE  /\ pc["helper"] # "off" /\ CoordinatorLost /\ pc["parent"] = "dead" /\ pc["child"] = "off"
           /\ pc'["parent"] = pc["parent"] /\ pc'["child"] = pc["child"]
           /\ rc'["parent"] = rc["parent"] /\ rc'["child"] = rc["child"]
           /\ UNCHANGED <<cur, active, handler, control>>
           /\ HelperCells \/ HelperScan \/ HelperRun \/ UNCHANGED <<cell, run>>
<1> USE DEF Step, Goto, At, Exit, Procs, Shells, memory, JobInv, PodAlive, CoordinatorLost,
            ChildInv, control
<1>i. JobInv /\ ChildInv /\ HelperInv
  BY DEF LedgerInv
<1>t. /\ tree \in Trees
      /\ cell \in [Cells -> CellStatus] /\ exitcode \in [Cells -> Codes \cup {"none"}]
      /\ run \in RunStatus
      /\ pc \in [Procs -> ParentSteps \cup ChildSteps \cup HelperSteps]
      /\ rc \in [Procs -> Codes]
      /\ handler \in [Shells -> BOOLEAN]
      /\ cur \in 0..N /\ active \in 0..N /\ target \in 0..N /\ N \in Nat \ {0}
  BY Typed
<1>1. CASE HelperLock
  BY <1>1, <1>t, <1>i, LockWrite DEF HelperLock
<1>2. CASE HelperOwner
  BY <1>2, <1>t, <1>i, LockWrite DEF HelperOwner
<1>3. CASE HelperMode
  BY <1>3, <1>t, <1>i, NoWrite DEF HelperMode
<1>4. CASE HelperSnapshots
  BY <1>4, <1>t, <1>i, SnapshotsWrite DEF HelperSnapshots
<1>5. CASE HelperCells
  BY <1>5, <1>t, <1>i, CellWrite, NoWrite DEF HelperCells
<1>6. CASE HelperScan
  BY <1>6, <1>t, <1>i, CellWrite, NoWrite DEF HelperScan
<1>7. CASE HelperExit
  BY <1>7, <1>t, <1>i, ExitWrite DEF HelperExit, HelperInv
<1>8. CASE HelperLoss
  BY <1>8, <1>t, <1>i, LossWrite DEF HelperLoss
<1>9. CASE HelperSummary
  BY <1>9, <1>t, <1>i, SummaryWrite, NoWrite DEF HelperSummary
<1>10. CASE HelperRun
  BY <1>10, <1>t, <1>i, RunWrite DEF HelperRun
<1>11. CASE HelperManifest
  BY <1>11, <1>t, <1>i, ManifestWrite, NoWrite DEF HelperManifest
<1>12. CASE HelperRepair
  BY <1>12, <1>t, <1>i, NoWrite DEF HelperRepair
<1>13. CASE HelperRepairSummary
  BY <1>13, <1>t, <1>i, SummaryWrite DEF HelperRepairSummary
<1> QED
  BY <1>1, <1>2, <1>3, <1>4, <1>5, <1>6, <1>7, <1>8, <1>9, <1>10, <1>11, <1>12, <1>13
  DEF HelperStep

\* Without a Pod, what the shells rely on holds whatever the helper writes.
LEMMA HelperShells ==
    ASSUME TypeOK, LedgerInv, HelperStep
    PROVE  StartInv' /\ LoopInv' /\ ChildInv'
  BY HelperFrame DEF LedgerInv, StartInv, LoopInv, ChildInv, Starting, Checked, Trapped, Handling,
     Looping, Failing, Failed, Finishing, Owning, Working

\* The helper judges a run only after its scan left no cell RUNNING, under the lock.
LEMMA HelperHelper ==
    ASSUME TypeOK, LedgerInv, HelperStep
    PROVE  LockInv' /\ HelperInv'
<1> USE DEF Step, Goto, At, Exit, Procs, Shells, memory, LockInv, NoCell, AllCells, Cells,
            HelperInv, Judging, HelperOps, Cancelling, control
<1>i. LockInv /\ HelperInv
  BY DEF LedgerInv
<1>t. /\ tree \in Trees
      /\ cell \in [Cells -> CellStatus] /\ exitcode \in [Cells -> Codes \cup {"none"}]
      /\ run \in RunStatus
      /\ pc \in [Procs -> ParentSteps \cup ChildSteps \cup HelperSteps]
      /\ rc \in [Procs -> Codes]
      /\ handler \in [Shells -> BOOLEAN]
      /\ cur \in 0..N /\ active \in 0..N /\ target \in 0..N /\ N \in Nat \ {0}
  BY Typed
<1>1. CASE HelperLock
  BY <1>1, <1>t, <1>i, LockWrite DEF HelperLock
<1>2. CASE HelperOwner
  BY <1>2, <1>t, <1>i, LockWrite DEF HelperOwner
<1>3. CASE HelperMode
  BY <1>3, <1>t, <1>i, NoWrite DEF HelperMode
<1>4. CASE HelperSnapshots
  BY <1>4, <1>t, <1>i, SnapshotsWrite DEF HelperSnapshots
<1>5. CASE HelperCells
  BY <1>5, <1>t, <1>i, CellWrite, NoWrite DEF HelperCells, InitializeCell
<1>6. CASE HelperScan
  BY <1>6, <1>t, <1>i, CellWrite, NoWrite
    DEF HelperScan, FirstCell, RecoveryCode, CellStatus, CellTerminal
<1>7. CASE HelperExit
  BY <1>7, <1>t, <1>i, ExitWrite DEF HelperExit
<1>8. CASE HelperLoss
  BY <1>8, <1>t, <1>i, LossWrite DEF HelperLoss
<1>9. CASE HelperSummary
  BY <1>9, <1>t, <1>i, SummaryWrite, NoWrite
    DEF HelperSummary, CanSummarize, HelperOutcome, Terminal
<1>10. CASE HelperRun
  BY <1>10, <1>t, <1>i, RunWrite DEF HelperRun, HelperOutcome, Outcome
<1>11. CASE HelperManifest
  BY <1>11, <1>t, <1>i, ManifestWrite, NoWrite DEF HelperManifest
<1>12. CASE HelperRepair
  BY <1>12, <1>t, <1>i, NoWrite DEF HelperRepair
<1>13. CASE HelperRepairSummary
  BY <1>13, <1>t, <1>i, SummaryWrite DEF HelperRepairSummary
<1> QED
  BY <1>1, <1>2, <1>3, <1>4, <1>5, <1>6, <1>7, <1>8, <1>9, <1>10, <1>11, <1>12, <1>13
  DEF HelperStep

\* Cells in order and the agreement of the outcome survive recovery and cancellation.
LEMMA HelperShape ==
    ASSUME TypeOK, LedgerInv, HelperStep
    PROVE  ShapeInv'
<1> USE DEF ShapeInv, CellsInOrder, OutcomeAgrees, Ended, Terminal, NoCell, AllCells, Cells,
            At, Step, HelperInv, Judging, HelperOps, Cancelling, control
<1>i. ShapeInv /\ HelperInv
  BY DEF LedgerInv
<1>t. /\ tree \in Trees
      /\ cell \in [Cells -> CellStatus] /\ exitcode \in [Cells -> Codes \cup {"none"}]
      /\ run \in RunStatus
      /\ pc \in [Procs -> ParentSteps \cup ChildSteps \cup HelperSteps]
      /\ rc \in [Procs -> Codes]
      /\ handler \in [Shells -> BOOLEAN]
      /\ cur \in 0..N /\ active \in 0..N /\ target \in 0..N /\ N \in Nat \ {0}
  BY Typed
<1>1. CASE UNCHANGED <<cell, run>>
  BY <1>1, <1>i
<1>2. CASE HelperCells
  BY <1>2, <1>t, <1>i, CellWrite, NoWrite DEF HelperCells, InitializeCell
<1>3. CASE HelperScan
  BY <1>3, <1>t, <1>i, CellWrite, NoWrite DEF HelperScan, FirstCell
<1>4. CASE HelperRun
  <2>1. run' = HelperOutcome /\ UNCHANGED cell
    BY <1>4, <1>t, RunWrite DEF HelperRun
  <2>2. NoCell("RUNNING") /\ NoCell("ABSENT")
    BY <1>4, <1>i DEF HelperRun
  <2>3. \/ HelperOutcome \in {"FAILED", "CANCELLED"}
        \/ HelperOutcome = "SUCCESS" /\ AllCells("SUCCESS")
    BY <1>4, <1>i DEF HelperRun, HelperOutcome, Outcome
  <2> QED BY <2>1, <2>2, <2>3, <1>i
<1> QED BY <1>1, <1>2, <1>3, <1>4, HelperFrame

(***************************************************************************)
(* The commands, the Job controller and their faults.                      *)
(***************************************************************************)
\* Commands, the Job controller and their faults write no file and touch neither shell; a
\* Job that is lost stays lost.
LEMMA CommandFrame ==
    ASSUME TypeOK, LedgerInv, CommandStep
    PROVE  /\ UNCHANGED tree
           /\ UNCHANGED <<cell, run, exitcode, tree.lock, tree.snap, tree.summary>>
           /\ pc'["parent"] = pc["parent"] /\ pc'["child"] = pc["child"]
           /\ rc'["parent"] = rc["parent"] /\ rc'["child"] = rc["child"]
           /\ UNCHANGED <<cur, active, handler>>
           /\ CoordinatorLost => CoordinatorLost'
<1> USE DEF Step, Goto, At, Exit, Procs, Shells, memory, StartHelper, CoordinatorLost,
            PodAlive, control
<1>t. /\ tree \in Trees
      /\ cell \in [Cells -> CellStatus] /\ exitcode \in [Cells -> Codes \cup {"none"}]
      /\ run \in RunStatus
      /\ pc \in [Procs -> ParentSteps \cup ChildSteps \cup HelperSteps]
      /\ rc \in [Procs -> Codes]
      /\ handler \in [Shells -> BOOLEAN]
      /\ cur \in 0..N /\ active \in 0..N /\ target \in 0..N /\ N \in Nat \ {0}
  BY Typed
<1>1. CASE HelperReturns
  BY <1>1, <1>t, NoWrite DEF HelperReturns
<1>2. CASE DriftDelete
  BY <1>2, <1>t, NoWrite DEF DriftDelete
<1>3. CASE DriftDeleted
  BY <1>3, <1>t, NoWrite DEF DriftDeleted
<1>4. CASE CancelObserve
  BY <1>4, <1>t, NoWrite DEF CancelObserve
<1>5. CASE CancelDeleted
  BY <1>5, <1>t, NoWrite DEF CancelDeleted
<1>6. CASE CancelCheck
  BY <1>6, <1>t, NoWrite DEF CancelCheck
<1>7. CASE CollectQuiescent
  BY <1>7, <1>t, NoWrite DEF CollectQuiescent
<1>8. CASE CollectImport
  BY <1>8, <1>t, NoWrite DEF CollectImport
<1>9. CASE StatusRecover
  BY <1>9, <1>t, NoWrite DEF StatusRecover
<1>10. CASE StatusDrift
  BY <1>10, <1>t, NoWrite DEF StatusDrift
<1>11. CASE CancelRead
  BY <1>11, <1>t, NoWrite DEF CancelRead
<1>12. CASE CollectGate
  BY <1>12, <1>t, NoWrite DEF CollectGate
<1>13. CASE JobFinishes
  BY <1>13, <1>t, NoWrite DEF JobFinishes
<1>14. CASE JobDeleted
  BY <1>14, <1>t, NoWrite DEF JobDeleted
<1>15. CASE JobDeletedExternally
  BY <1>15, <1>t, NoWrite DEF JobDeletedExternally
<1>16. CASE CommandTimesOut
  BY <1>16, <1>t, NoWrite DEF CommandTimesOut
<1>17. CASE CommandDies
  BY <1>17, <1>t, NoWrite DEF CommandDies
<1>18. CASE UNCHANGED vars
  BY <1>18, <1>t, NoWrite DEF vars
<1>19. CASE StatusRead
  BY <1>19, <1>t, NoWrite DEF StatusRead
<1>20. CASE StatusObserve
  BY <1>20, <1>t, NoWrite DEF StatusObserve
<1>21. CASE StatusRefresh
  BY <1>21, <1>t, NoWrite DEF StatusRefresh
<1>22. CASE StatusEnds
  BY <1>22, <1>t, NoWrite DEF StatusEnds
<1> QED
  BY <1>1, <1>2, <1>3, <1>4, <1>5, <1>6, <1>7, <1>8, <1>9, <1>10, <1>11, <1>12, <1>13,
     <1>14, <1>15, <1>16, <1>17, <1>18, <1>19, <1>20, <1>21, <1>22
  DEF CommandStep, CommandNext, UserNext

\* The shells and the ledger do not notice a command.
LEMMA CommandShells ==
    ASSUME TypeOK, LedgerInv, CommandStep
    PROVE  ShapeInv' /\ StartInv' /\ LoopInv' /\ ChildInv'
<1>i. ShapeInv /\ StartInv /\ LoopInv /\ ChildInv
  BY DEF LedgerInv
<1>f. /\ UNCHANGED <<cell, run>> /\ UNCHANGED <<cur, active, handler>>
      /\ pc'["parent"] = pc["parent"] /\ pc'["child"] = pc["child"]
      /\ rc'["parent"] = rc["parent"] /\ rc'["child"] = rc["child"]
  BY CommandFrame
<1>1. ShapeInv'
  BY <1>i, <1>f DEF ShapeInv, CellsInOrder, OutcomeAgrees, Ended, NoCell, AllCells
<1>2. StartInv' /\ ChildInv'
  BY <1>i, <1>f DEF StartInv, ChildInv, NoCell
<1>3. LoopInv'
  BY <1>i, <1>f DEF LoopInv, InOrderUpTo, NoCell, AllCells
<1> QED BY <1>1, <1>2, <1>3

\* A helper runs only for the four commands that start one, from its first step on.
LEMMA CommandHelper ==
    ASSUME TypeOK, LedgerInv, CommandStep
    PROVE  LockInv' /\ HelperInv'
<1> USE DEF Step, Goto, At, Exit, Procs, Shells, memory, LockInv, StartHelper, NoCell,
            AllCells, HelperInv, Judging, HelperOps, Cancelling, control
<1>i. LockInv /\ HelperInv
  BY DEF LedgerInv
<1>t. /\ tree \in Trees
      /\ cell \in [Cells -> CellStatus] /\ exitcode \in [Cells -> Codes \cup {"none"}]
      /\ run \in RunStatus
      /\ pc \in [Procs -> ParentSteps \cup ChildSteps \cup HelperSteps]
      /\ rc \in [Procs -> Codes]
      /\ handler \in [Shells -> BOOLEAN]
      /\ cur \in 0..N /\ active \in 0..N /\ target \in 0..N /\ N \in Nat \ {0}
  BY Typed
<1>1. CASE HelperReturns
  BY <1>1, <1>t, <1>i, NoWrite DEF HelperReturns, AfterHelper
<1>2. CASE DriftDelete
  BY <1>2, <1>t, <1>i, NoWrite DEF DriftDelete
<1>3. CASE DriftDeleted
  BY <1>3, <1>t, <1>i, NoWrite DEF DriftDeleted
<1>4. CASE CancelObserve
  BY <1>4, <1>t, <1>i, NoWrite DEF CancelObserve
<1>5. CASE CancelDeleted
  BY <1>5, <1>t, <1>i, NoWrite DEF CancelDeleted
<1>6. CASE CancelCheck
  BY <1>6, <1>t, <1>i, NoWrite DEF CancelCheck
<1>7. CASE CollectQuiescent
  BY <1>7, <1>t, <1>i, NoWrite DEF CollectQuiescent
<1>8. CASE CollectImport
  BY <1>8, <1>t, <1>i, NoWrite DEF CollectImport
<1>9. CASE StatusRecover
  BY <1>9, <1>t, <1>i, NoWrite DEF StatusRecover
<1>10. CASE StatusDrift
  BY <1>10, <1>t, <1>i, NoWrite DEF StatusDrift
<1>11. CASE CancelRead
  BY <1>11, <1>t, <1>i, NoWrite DEF CancelRead
<1>12. CASE CollectGate
  BY <1>12, <1>t, <1>i, NoWrite DEF CollectGate
<1>13. CASE JobFinishes
  BY <1>13, <1>t, <1>i, NoWrite DEF JobFinishes
<1>14. CASE JobDeleted
  BY <1>14, <1>t, <1>i, NoWrite DEF JobDeleted
<1>15. CASE JobDeletedExternally
  BY <1>15, <1>t, <1>i, NoWrite DEF JobDeletedExternally
<1>16. CASE CommandTimesOut
  BY <1>16, <1>t, <1>i, NoWrite DEF CommandTimesOut
<1>17. CASE CommandDies
  BY <1>17, <1>t, <1>i, NoWrite DEF CommandDies
<1>18. CASE UNCHANGED vars
  BY <1>18, <1>t, <1>i, NoWrite DEF vars
<1>19. CASE StatusRead
  BY <1>19, <1>t, <1>i, NoWrite DEF StatusRead
<1>20. CASE StatusObserve
  BY <1>20, <1>t, <1>i, NoWrite DEF StatusObserve
<1>21. CASE StatusRefresh
  BY <1>21, <1>t, <1>i, NoWrite DEF StatusRefresh
<1>22. CASE StatusEnds
  BY <1>22, <1>t, <1>i, NoWrite DEF StatusEnds
<1> QED
  BY <1>1, <1>2, <1>3, <1>4, <1>5, <1>6, <1>7, <1>8, <1>9, <1>10, <1>11, <1>12, <1>13,
     <1>14, <1>15, <1>16, <1>17, <1>18, <1>19, <1>20, <1>21, <1>22
  DEF CommandStep, CommandNext, UserNext

(***************************************************************************)
(* Induction over all steps.                                               *)
(***************************************************************************)
\* Every step is one of the main shell, of the cell shell, of the helper, or of the rest.
LEMMA StepKinds ==
    ASSUME [Next]_vars
    PROVE  ParentStep \/ ChildStep \/ HelperStep \/ CommandStep
  BY DEF Next, ParentStep, ChildStep, HelperStep, CommandStep, HelperNext, FaultNext, Shells, Done

\* The invariant is inductive as long as the Job is only deleted in the foreground.
LEMMA LedgerInvStep ==
    ASSUME Background = FALSE, TypeOK, LedgerInv, [Next]_vars
    PROVE  LedgerInv'
<1>j. JobInv'
  BY JobInvStep DEF LedgerInv
<1>1. CASE ParentStep
  <2>1. HelperInv'
    BY <1>1, ParentFrame DEF HelperInv, Judging
  <2> QED BY <1>j, <1>1, <2>1, ParentStart, ParentLoop, ParentChild, ParentShape DEF LedgerInv
<1>2. CASE ChildStep
  <2>1. HelperInv'
    BY <1>2, ChildFrame DEF HelperInv, Judging
  <2> QED BY <1>j, <1>2, <2>1, ChildLoop, ChildChild, ChildShape DEF LedgerInv
<1>3. CASE HelperStep
  BY <1>j, <1>3, HelperShells, HelperHelper, HelperShape DEF LedgerInv
<1>4. CASE CommandStep
  BY <1>j, <1>4, CommandShells, CommandHelper DEF LedgerInv
<1> QED BY <1>1, <1>2, <1>3, <1>4, StepKinds

(***************************************************************************)
(* Publication: what the manifest needs.                                   *)
(***************************************************************************)
\* The main shell writes snapshots, summary and exit codes before what depends on them.
LEMMA ParentPublish ==
    ASSUME TypeOK, LedgerInv, PublishInv, ParentStep
    PROVE  PublishInv'
<1> USE DEF Step, Goto, At, Exit, Procs, Shells, memory, PublishInv, CoordinatorLost, Settled,
            CellTerminal, control, Trapped, Handling
<1>i. StartInv /\ LoopInv /\ ChildInv /\ ShapeInv
  BY DEF LedgerInv
<1>t. /\ tree \in Trees
      /\ cell \in [Cells -> CellStatus] /\ exitcode \in [Cells -> Codes \cup {"none"}]
      /\ run \in RunStatus
      /\ pc \in [Procs -> ParentSteps \cup ChildSteps \cup HelperSteps]
      /\ rc \in [Procs -> Codes]
      /\ handler \in [Shells -> BOOLEAN]
      /\ cur \in 0..N /\ active \in 0..N /\ target \in 0..N /\ N \in Nat \ {0}
  BY Typed
<1>1. CASE AcquireLock
  BY <1>1, <1>t, <1>i, LockWrite, NoWrite DEF AcquireLock
<1>2. CASE RecordOwner
  BY <1>2, <1>t, <1>i, LockWrite DEF RecordOwner
<1>3. CASE InitializeSnapshots
  BY <1>3, <1>t, <1>i, SnapshotsWrite DEF InitializeSnapshots
<1>4. CASE InitializeExecutionStates
  BY <1>4, <1>t, <1>i, CellWrite, NoWrite
    DEF InitializeExecutionStates, InitializeCell, StartInv, Starting
<1>5. CASE StartupCheck
  BY <1>5, <1>t, <1>i, NoWrite DEF StartupCheck
<1>6. CASE StartupError
  BY <1>6, <1>t, <1>i, StartupErrorWrite DEF StartupError
<1>7. CASE StartupSummary
  BY <1>7, <1>t, <1>i, SummaryWrite DEF StartupSummary
<1>8. CASE StartupRun
  BY <1>8, <1>t, <1>i, RunWrite DEF StartupRun
<1>9. CASE StartupManifest
  BY <1>9, <1>t, <1>i, ManifestWrite DEF StartupManifest
<1>10. CASE StartRun
  BY <1>10, <1>t, <1>i, RunWrite DEF StartRun
<1>11. CASE StartSummary
  BY <1>11, <1>t, <1>i, SummaryWrite DEF StartSummary
<1>12. CASE PickExecution
  BY <1>12, <1>t, <1>i, NoWrite DEF PickExecution, ChildInv
<1>13. CASE PrepareActive
  BY <1>13, <1>t, <1>i, CellWrite DEF PrepareActive, LoopInv
<1>14. CASE PrepareSummary
  BY <1>14, <1>t, <1>i, SummaryWrite DEF PrepareSummary
<1>15. CASE Reap
  BY <1>15, <1>t, <1>i, NoWrite DEF Reap
<1>16. CASE CompleteActive
  BY <1>16, <1>t, <1>i, NoWrite DEF CompleteActive, ChildInv
<1>17. CASE HandlerReap
  BY <1>17, <1>t, <1>i, NoWrite DEF HandlerReap
<1>18. CASE MainReturns
  BY <1>18, <1>t, <1>i, NoWrite DEF MainReturns
<1>19. CASE PodExits
  BY <1>19, <1>t, <1>i, NoWrite DEF PodExits
<1>20. CASE FailCopy("parent")
  BY <1>20, <1>t, <1>i, ArtifactWrite, NoWrite DEF FailCopy
<1>21. CASE FailExit("parent")
  BY <1>21, <1>t, <1>i, ExitWrite DEF FailExit, LoopInv, Failing, Codes
<1>22. CASE FailStatus("parent")
  BY <1>22, <1>t, <1>i, CellWrite DEF FailStatus, LoopInv, Failing, Codes
<1>23. CASE FailSummary("parent")
  BY <1>23, <1>t, <1>i, SummaryWrite DEF FailSummary
<1>24. CASE FailManifest("parent")
  BY <1>24, <1>t, <1>i, ManifestWrite DEF FailManifest
<1>25. CASE Finalize("parent")
  BY <1>25, <1>t, <1>i, StartupErrorWrite DEF Finalize
<1>26. CASE FinalizeSummary("parent")
  BY <1>26, <1>t, <1>i, SummaryWrite DEF FinalizeSummary, Outcome
<1>27. CASE FinalizeRun("parent")
  BY <1>27, <1>t, <1>i, RunWrite DEF FinalizeRun
<1>28. CASE FinalizeManifest("parent")
  BY <1>28, <1>t, <1>i, ManifestWrite DEF FinalizeManifest
<1>29. CASE HandlerCheck("parent")
  BY <1>29, <1>t, <1>i, NoWrite DEF HandlerCheck
<1>30. CASE TermParent
  BY <1>30, <1>t, <1>i, NoWrite DEF TermParent
<1>31. CASE PodKilled
  BY <1>31, <1>t, <1>i, NoWrite DEF PodKilled
<1>32. CASE DuplicatePod
  BY <1>32, <1>t, <1>i, NoWrite DEF DuplicatePod, ChildInv
<1> QED
  BY <1>1, <1>2, <1>3, <1>4, <1>5, <1>6, <1>7, <1>8, <1>9, <1>10, <1>11, <1>12, <1>13,
     <1>14, <1>15, <1>16, <1>17, <1>18, <1>19, <1>20, <1>21, <1>22, <1>23, <1>24, <1>25, <1>26,
     <1>27, <1>28, <1>29, <1>30, <1>31, <1>32
  DEF ParentStep, ParentNext, ShellNext

\* The cell shell writes an exit code before the terminal status it explains.
LEMMA ChildPublish ==
    ASSUME TypeOK, LedgerInv, PublishInv, ChildStep
    PROVE  PublishInv'
<1> USE DEF Step, Goto, At, Exit, Procs, Shells, memory, PublishInv, CoordinatorLost, Settled,
            CellTerminal, control, Trapped, Handling, ChildInv
<1>i. LoopInv /\ ChildInv
  BY DEF LedgerInv
<1>t. /\ tree \in Trees
      /\ cell \in [Cells -> CellStatus] /\ exitcode \in [Cells -> Codes \cup {"none"}]
      /\ run \in RunStatus
      /\ pc \in [Procs -> ParentSteps \cup ChildSteps \cup HelperSteps]
      /\ rc \in [Procs -> Codes]
      /\ handler \in [Shells -> BOOLEAN]
      /\ cur \in 0..N /\ active \in 0..N /\ target \in 0..N /\ N \in Nat \ {0}
  BY Typed
<1>1. CASE ChildTraps
  BY <1>1, <1>t, <1>i, NoWrite DEF ChildTraps
<1>2. CASE ChildSetup
  BY <1>2, <1>t, <1>i, ArtifactWrite, NoWrite, ZenonT(30) DEF ChildSetup
<1>3. CASE Benchmark
  BY <1>3, <1>t, <1>i, NoWrite DEF Benchmark
<1>4. CASE PublishCopy
  BY <1>4, <1>t, <1>i, ArtifactWrite DEF PublishCopy
<1>5. CASE PublishCopyFails
  BY <1>5, <1>t, <1>i, NoWrite DEF PublishCopyFails
<1>6. CASE PublishExit
  BY <1>6, <1>t, <1>i, ExitWrite DEF PublishExit, LoopInv, Owning, Codes
<1>7. CASE PublishStatus
  BY <1>7, <1>t, <1>i, CellWrite DEF PublishStatus, LoopInv, Owning, Working, Outcome
<1>8. CASE PublishSummary
  BY <1>8, <1>t, <1>i, SummaryWrite DEF PublishSummary
<1>9. CASE PublishCell
  BY <1>9, <1>t, <1>i, ManifestWrite DEF PublishCell
<1>10. CASE FailCopy("child")
  BY <1>10, <1>t, <1>i, ArtifactWrite, NoWrite DEF FailCopy
<1>11. CASE FailExit("child")
  BY <1>11, <1>t, <1>i, ExitWrite DEF FailExit, LoopInv, Owning, Codes
<1>12. CASE FailStatus("child")
  BY <1>12, <1>t, <1>i, CellWrite DEF FailStatus, LoopInv, Owning
<1>13. CASE FailSummary("child")
  BY <1>13, <1>t, <1>i, SummaryWrite DEF FailSummary
<1>14. CASE FailManifest("child")
  BY <1>14, <1>t, <1>i, ManifestWrite DEF FailManifest
<1>15. CASE Finalize("child")
  BY <1>15, <1>t, <1>i, StartupErrorWrite DEF Finalize
<1>16. CASE FinalizeSummary("child")
  BY <1>16, <1>t, <1>i, SummaryWrite DEF FinalizeSummary, Outcome
<1>17. CASE FinalizeRun("child")
  BY <1>17, <1>t, <1>i, RunWrite DEF FinalizeRun
<1>18. CASE FinalizeManifest("child")
  BY <1>18, <1>t, <1>i, ManifestWrite DEF FinalizeManifest
<1>19. CASE HandlerCheck("child")
  BY <1>19, <1>t, <1>i, NoWrite DEF HandlerCheck
<1>20. CASE ChildDies
  BY <1>20, <1>t, <1>i, NoWrite DEF ChildDies
<1>21. CASE TermChild
  BY <1>21, <1>t, <1>i, NoWrite DEF TermChild
<1> QED
  BY <1>1, <1>2, <1>3, <1>4, <1>5, <1>6, <1>7, <1>8, <1>9, <1>10, <1>11, <1>12, <1>13,
     <1>14, <1>15, <1>16, <1>17, <1>18, <1>19, <1>20, <1>21
  DEF ChildStep, ChildNext, ShellNext

\* What publication needs is always on the claim when a shell publishes.
LEMMA PublishInvStep ==
    ASSUME TypeOK, LedgerInv, PublishInv, [Next]_vars
    PROVE  PublishInv'
<1>1. CASE ParentStep
  BY <1>1, ParentPublish
<1>2. CASE ChildStep
  BY <1>2, ChildPublish
<1>3. CASE HelperStep
  <2>1. CoordinatorLost /\ UNCHANGED control /\ pc'["parent"] = "dead" /\ pc'["child"] = "off"
    BY <1>3, HelperFrame
  <2> QED BY <2>1 DEF PublishInv, CoordinatorLost, control, Trapped, Handling
<1>4. CASE CommandStep
  <2>1. /\ UNCHANGED <<cell, exitcode, tree.snap, tree.summary>> /\ UNCHANGED active
        /\ pc'["parent"] = pc["parent"] /\ pc'["child"] = pc["child"]
        /\ CoordinatorLost => CoordinatorLost'
    BY <1>4, CommandFrame
  <2> QED BY <2>1 DEF PublishInv, Settled
<1> QED BY <1>1, <1>2, <1>3, <1>4, StepKinds

(***************************************************************************)
(* Success: evidence before status, and an end that stays.                 *)
(***************************************************************************)
\* The main shell settles cells as FAILED only and withdraws no evidence.
LEMMA ParentEvidence ==
    ASSUME TypeOK, LedgerInv, EvidenceInv, ParentStep
    PROVE  EvidenceInv'
<1> USE DEF Step, Goto, At, Exit, Procs, Shells, memory, EvidenceInv, ChildInv
<1>i. ShapeInv /\ LoopInv /\ ChildInv
  BY DEF LedgerInv
<1>t. /\ tree \in Trees
      /\ cell \in [Cells -> CellStatus] /\ exitcode \in [Cells -> Codes \cup {"none"}]
      /\ run \in RunStatus /\ tree.artifacts \in [Cells -> SUBSET Artifacts]
      /\ pc \in [Procs -> ParentSteps \cup ChildSteps \cup HelperSteps]
      /\ rc \in [Procs -> Codes]
      /\ handler \in [Shells -> BOOLEAN]
      /\ cur \in 0..N /\ active \in 0..N /\ target \in 0..N /\ N \in Nat \ {0}
  BY Typed
<1>1. CASE AcquireLock
  BY <1>1, <1>t, <1>i, LockWrite, NoWrite DEF AcquireLock
<1>2. CASE RecordOwner
  BY <1>2, <1>t, <1>i, LockWrite DEF RecordOwner
<1>3. CASE InitializeSnapshots
  BY <1>3, <1>t, <1>i, SnapshotsWrite DEF InitializeSnapshots
<1>4. CASE InitializeExecutionStates
  BY <1>4, <1>t, <1>i, CellWrite, NoWrite DEF InitializeExecutionStates, InitializeCell
<1>5. CASE StartupCheck
  BY <1>5, <1>t, <1>i, NoWrite DEF StartupCheck
<1>6. CASE StartupError
  BY <1>6, <1>t, <1>i, StartupErrorWrite DEF StartupError
<1>7. CASE StartupSummary
  BY <1>7, <1>t, <1>i, SummaryWrite DEF StartupSummary
<1>8. CASE StartupRun
  BY <1>8, <1>t, <1>i, RunWrite DEF StartupRun
<1>9. CASE StartupManifest
  BY <1>9, <1>t, <1>i, ManifestWrite DEF StartupManifest
<1>10. CASE StartRun
  BY <1>10, <1>t, <1>i, RunWrite DEF StartRun
<1>11. CASE StartSummary
  BY <1>11, <1>t, <1>i, SummaryWrite DEF StartSummary
<1>12. CASE PickExecution
  BY <1>12, <1>t, <1>i, NoWrite DEF PickExecution
<1>13. CASE PrepareActive
  BY <1>13, <1>t, <1>i, CellWrite DEF PrepareActive, LoopInv, InOrderUpTo
<1>14. CASE PrepareSummary
  BY <1>14, <1>t, <1>i, SummaryWrite DEF PrepareSummary
<1>15. CASE Reap
  BY <1>15, <1>t, <1>i, NoWrite DEF Reap
<1>16. CASE CompleteActive
  BY <1>16, <1>t, <1>i, NoWrite DEF CompleteActive
<1>17. CASE HandlerReap
  BY <1>17, <1>t, <1>i, NoWrite DEF HandlerReap
<1>18. CASE MainReturns
  BY <1>18, <1>t, <1>i, NoWrite DEF MainReturns
<1>19. CASE PodExits
  BY <1>19, <1>t, <1>i, NoWrite DEF PodExits
<1>20. CASE FailCopy("parent")
  BY <1>20, <1>t, <1>i, ArtifactWrite, NoWrite, ArtifactKept, ZenonT(30) DEF FailCopy, LoopInv, Failing
<1>21. CASE FailExit("parent")
  BY <1>21, <1>t, <1>i, ExitWrite DEF FailExit, LoopInv, Failing
<1>22. CASE FailStatus("parent")
  BY <1>22, <1>t, <1>i, CellWrite DEF FailStatus, LoopInv, Failing
<1>23. CASE FailSummary("parent")
  BY <1>23, <1>t, <1>i, SummaryWrite DEF FailSummary
<1>24. CASE FailManifest("parent")
  BY <1>24, <1>t, <1>i, ManifestWrite DEF FailManifest
<1>25. CASE Finalize("parent")
  BY <1>25, <1>t, <1>i, StartupErrorWrite DEF Finalize
<1>26. CASE FinalizeSummary("parent")
  BY <1>26, <1>t, <1>i, SummaryWrite DEF FinalizeSummary
<1>27. CASE FinalizeRun("parent")
  BY <1>27, <1>t, <1>i, RunWrite DEF FinalizeRun
<1>28. CASE FinalizeManifest("parent")
  BY <1>28, <1>t, <1>i, ManifestWrite DEF FinalizeManifest
<1>29. CASE HandlerCheck("parent")
  BY <1>29, <1>t, <1>i, NoWrite DEF HandlerCheck
<1>30. CASE TermParent
  BY <1>30, <1>t, <1>i, NoWrite DEF TermParent, Trapped
<1>31. CASE PodKilled
  BY <1>31, <1>t, <1>i, NoWrite DEF PodKilled
<1>32. CASE DuplicatePod
  BY <1>32, <1>t, <1>i, NoWrite DEF DuplicatePod
<1> QED
  BY <1>1, <1>2, <1>3, <1>4, <1>5, <1>6, <1>7, <1>8, <1>9, <1>10, <1>11, <1>12, <1>13,
     <1>14, <1>15, <1>16, <1>17, <1>18, <1>19, <1>20, <1>21, <1>22, <1>23, <1>24, <1>25, <1>26,
     <1>27, <1>28, <1>29, <1>30, <1>31, <1>32
  DEF ParentStep, ParentNext, ShellNext

\* The cell shell copies the results and writes the exit code before the status.
LEMMA ChildEvidence ==
    ASSUME TypeOK, LedgerInv, EvidenceInv, ChildStep
    PROVE  EvidenceInv'
<1> USE DEF Step, Goto, At, Exit, Procs, Shells, memory, EvidenceInv, ChildInv
<1>i. LoopInv /\ ChildInv
  BY DEF LedgerInv
<1>t. /\ tree \in Trees
      /\ cell \in [Cells -> CellStatus] /\ exitcode \in [Cells -> Codes \cup {"none"}]
      /\ run \in RunStatus /\ tree.artifacts \in [Cells -> SUBSET Artifacts]
      /\ pc \in [Procs -> ParentSteps \cup ChildSteps \cup HelperSteps]
      /\ rc \in [Procs -> Codes]
      /\ handler \in [Shells -> BOOLEAN]
      /\ cur \in 0..N /\ active \in 0..N /\ target \in 0..N /\ N \in Nat \ {0}
  BY Typed
<1>1. CASE ChildTraps
  BY <1>1, <1>t, <1>i, NoWrite DEF ChildTraps
<1>2. CASE ChildSetup
  BY <1>2, <1>t, <1>i, ArtifactWrite, NoWrite, ArtifactKept, ZenonT(30) DEF ChildSetup, LoopInv, Owning
<1>3. CASE Benchmark
  BY <1>3, <1>t, <1>i, NoWrite DEF Benchmark
<1>4. CASE PublishCopy
  BY <1>4, <1>t, <1>i, ArtifactWrite, ArtifactKept, ZenonT(30) DEF PublishCopy, LoopInv, Owning
<1>5. CASE PublishCopyFails
  BY <1>5, <1>t, <1>i, NoWrite DEF PublishCopyFails
<1>6. CASE PublishExit
  BY <1>6, <1>t, <1>i, ExitWrite DEF PublishExit, LoopInv, Owning, Working
<1>7. CASE PublishStatus
  BY <1>7, <1>t, <1>i, CellWrite DEF PublishStatus, LoopInv, Owning, Working, Outcome
<1>8. CASE PublishSummary
  BY <1>8, <1>t, <1>i, SummaryWrite DEF PublishSummary
<1>9. CASE PublishCell
  BY <1>9, <1>t, <1>i, ManifestWrite DEF PublishCell
<1>10. CASE FailCopy("child")
  BY <1>10, <1>t, <1>i, ArtifactWrite, NoWrite, ArtifactKept, ZenonT(30) DEF FailCopy, LoopInv, Owning
<1>11. CASE FailExit("child")
  BY <1>11, <1>t, <1>i, ExitWrite DEF FailExit, LoopInv, Owning, Failing
<1>12. CASE FailStatus("child")
  BY <1>12, <1>t, <1>i, CellWrite DEF FailStatus, LoopInv, Owning, Failing
<1>13. CASE FailSummary("child")
  BY <1>13, <1>t, <1>i, SummaryWrite DEF FailSummary
<1>14. CASE FailManifest("child")
  BY <1>14, <1>t, <1>i, ManifestWrite DEF FailManifest
<1>15. CASE Finalize("child")
  BY <1>15, <1>t, <1>i, StartupErrorWrite DEF Finalize
<1>16. CASE FinalizeSummary("child")
  BY <1>16, <1>t, <1>i, SummaryWrite DEF FinalizeSummary
<1>17. CASE FinalizeRun("child")
  BY <1>17, <1>t, <1>i, RunWrite DEF FinalizeRun
<1>18. CASE FinalizeManifest("child")
  BY <1>18, <1>t, <1>i, ManifestWrite DEF FinalizeManifest
<1>19. CASE HandlerCheck("child")
  BY <1>19, <1>t, <1>i, NoWrite DEF HandlerCheck
<1>20. CASE ChildDies
  BY <1>20, <1>t, <1>i, NoWrite DEF ChildDies
<1>21. CASE TermChild
  BY <1>21, <1>t, <1>i, NoWrite DEF TermChild
<1> QED
  BY <1>1, <1>2, <1>3, <1>4, <1>5, <1>6, <1>7, <1>8, <1>9, <1>10, <1>11, <1>12, <1>13,
     <1>14, <1>15, <1>16, <1>17, <1>18, <1>19, <1>20, <1>21
  DEF ChildStep, ChildNext, ShellNext

\* Recovery fails RUNNING cells and touches no other cell's evidence.
LEMMA HelperEvidence ==
    ASSUME TypeOK, LedgerInv, EvidenceInv, HelperStep
    PROVE  EvidenceInv'
<1> USE DEF Step, Goto, At, Exit, Procs, Shells, memory, EvidenceInv
<1>i. ShapeInv /\ HelperInv /\ ChildInv
  BY DEF LedgerInv
<1>t. /\ tree \in Trees
      /\ cell \in [Cells -> CellStatus] /\ exitcode \in [Cells -> Codes \cup {"none"}]
      /\ run \in RunStatus /\ tree.artifacts \in [Cells -> SUBSET Artifacts]
      /\ pc \in [Procs -> ParentSteps \cup ChildSteps \cup HelperSteps]
      /\ rc \in [Procs -> Codes]
      /\ handler \in [Shells -> BOOLEAN]
      /\ cur \in 0..N /\ active \in 0..N /\ target \in 0..N /\ N \in Nat \ {0}
  BY Typed
<1>1. CASE HelperLock
  BY <1>1, <1>t, <1>i, LockWrite DEF HelperLock
<1>2. CASE HelperOwner
  BY <1>2, <1>t, <1>i, LockWrite DEF HelperOwner
<1>3. CASE HelperMode
  BY <1>3, <1>t, <1>i, NoWrite DEF HelperMode
<1>4. CASE HelperSnapshots
  BY <1>4, <1>t, <1>i, SnapshotsWrite DEF HelperSnapshots
<1>5. CASE HelperCells
  BY <1>5, <1>t, <1>i, CellWrite, NoWrite DEF HelperCells, InitializeCell
<1>6. CASE HelperScan
  BY <1>6, <1>t, <1>i, CellWrite, NoWrite DEF HelperScan, FirstCell
<1>7. CASE HelperExit
  BY <1>7, <1>t, <1>i, ExitWrite, HelperFrame DEF HelperExit, HelperInv
<1>8. CASE HelperLoss
  BY <1>8, <1>t, <1>i, LossWrite DEF HelperLoss
<1>9. CASE HelperSummary
  BY <1>9, <1>t, <1>i, SummaryWrite, NoWrite DEF HelperSummary
<1>10. CASE HelperRun
  BY <1>10, <1>t, <1>i, RunWrite DEF HelperRun
<1>11. CASE HelperManifest
  BY <1>11, <1>t, <1>i, ManifestWrite, NoWrite DEF HelperManifest
<1>12. CASE HelperRepair
  BY <1>12, <1>t, <1>i, NoWrite DEF HelperRepair
<1>13. CASE HelperRepairSummary
  BY <1>13, <1>t, <1>i, SummaryWrite DEF HelperRepairSummary
<1> QED
  BY <1>1, <1>2, <1>3, <1>4, <1>5, <1>6, <1>7, <1>8, <1>9, <1>10, <1>11, <1>12, <1>13
  DEF HelperStep

\* No step publishes a success without its evidence or takes evidence away.
LEMMA EvidenceInvStep ==
    ASSUME TypeOK, LedgerInv, EvidenceInv, [Next]_vars
    PROVE  EvidenceInv'
<1>1. CASE CommandStep
  <2>1. /\ UNCHANGED <<cell, exitcode, manifest, tree.artifacts>> /\ UNCHANGED active
        /\ pc'["child"] = pc["child"] /\ rc'["child"] = rc["child"]
    BY <1>1, CommandFrame, NoWrite
  <2> QED BY <2>1 DEF EvidenceInv
<1> QED BY <1>1, ParentEvidence, ChildEvidence, HelperEvidence, StepKinds

\* No writer of run.status takes a terminal run back.
LEMMA EndedStays ==
    ASSUME TypeOK, LedgerInv, [Next]_vars
    PROVE  Ended => Ended'
<1> USE DEF Step, At, Ended, Terminal
<1>t. tree \in Trees
  BY Typed
<1>1. CASE ParentStep
  <2>1. CASE InitializeExecutionStates
    BY <1>t, <2>1, CellWrite, NoWrite DEF InitializeExecutionStates, InitializeCell
  <2>2. CASE StartupRun \/ FinalizeRun("parent")
    BY <1>t, <2>2, RunWrite DEF StartupRun, FinalizeRun, Outcome
  <2>3. CASE StartRun
    BY <2>3 DEF StartRun, LedgerInv, StartInv, Starting
  <2>4. CASE PrepareActive
    BY <1>t, <2>4, CellWrite DEF PrepareActive, LedgerInv, LoopInv
  <2>5. CASE FailStatus("parent")
    BY <1>t, <2>5, CellWrite DEF FailStatus, LedgerInv, LoopInv, Failing
  <2> QED BY <1>1, <2>1, <2>2, <2>3, <2>4, <2>5, ParentFrame
<1>2. CASE ChildStep
  <2>0. active \in Cells
    BY <1>2, ChildFrame DEF LedgerInv, LoopInv, Owning
  <2>1. CASE PublishStatus \/ FailStatus("child")
    BY <1>t, <2>0, <2>1, CellWrite DEF PublishStatus, FailStatus
  <2>2. CASE FinalizeRun("child")
    BY <1>t, <2>2, RunWrite DEF FinalizeRun, Outcome
  <2> QED BY <1>2, <2>1, <2>2, ChildFrame
<1>3. CASE HelperStep
  <2>1. CASE HelperCells \/ HelperScan
    BY <1>t, <2>1, CellWrite, NoWrite DEF HelperCells, InitializeCell, HelperScan
  <2>2. CASE HelperRun
    BY <1>t, <2>2, RunWrite DEF HelperRun, HelperOutcome, Outcome
  <2> QED BY <1>3, <2>1, <2>2, HelperFrame
<1>4. CASE CommandStep
  BY <1>4, CommandFrame
<1> QED BY <1>1, <1>2, <1>3, <1>4, StepKinds

\* The helper publishes a terminal run only.
LEMMA HelperEnds ==
    ASSUME TypeOK, LedgerInv, EndedInv, HelperStep
    PROVE  EndedInv'
<1> USE DEF Step, Goto, At, Exit, Procs, Shells, memory, EndedInv, control
<1>i. HelperInv
  BY DEF LedgerInv
<1>t. /\ tree \in Trees
      /\ cell \in [Cells -> CellStatus] /\ exitcode \in [Cells -> Codes \cup {"none"}]
      /\ run \in RunStatus
      /\ pc \in [Procs -> ParentSteps \cup ChildSteps \cup HelperSteps]
      /\ rc \in [Procs -> Codes]
      /\ handler \in [Shells -> BOOLEAN]
      /\ cur \in 0..N /\ active \in 0..N /\ target \in 0..N /\ N \in Nat \ {0}
  BY Typed
<1>e. Ended => Ended'
  BY EndedStays DEF HelperStep, Next, HelperNext
<1>1. CASE HelperLock
  BY <1>1, <1>t, <1>i, <1>e DEF HelperLock
<1>2. CASE HelperOwner
  BY <1>2, <1>t, <1>i, <1>e DEF HelperOwner
<1>3. CASE HelperMode
  BY <1>3, <1>t, <1>i, <1>e DEF HelperMode
<1>4. CASE HelperSnapshots
  BY <1>4, <1>t, <1>i, <1>e DEF HelperSnapshots
<1>5. CASE HelperCells
  BY <1>5, <1>t, <1>i, <1>e DEF HelperCells
<1>6. CASE HelperScan
  BY <1>6, <1>t, <1>i, <1>e DEF HelperScan
<1>7. CASE HelperExit
  BY <1>7, <1>t, <1>i, <1>e DEF HelperExit
<1>8. CASE HelperLoss
  BY <1>8, <1>t, <1>i, <1>e DEF HelperLoss
<1>9. CASE HelperSummary
  BY <1>9, <1>t, <1>i, <1>e DEF HelperSummary
<1>10. CASE HelperRun
  BY <1>10, <1>t, <1>i, RunWrite, <1>e DEF HelperRun, HelperOutcome, Outcome, Ended, Terminal
<1>11. CASE HelperManifest
  BY <1>11, <1>t, <1>i, <1>e DEF HelperManifest
<1>12. CASE HelperRepair
  BY <1>12, <1>t, <1>i, <1>e DEF HelperRepair
<1>13. CASE HelperRepairSummary
  BY <1>13, <1>t, <1>i, <1>e DEF HelperRepairSummary
<1> QED
  BY <1>1, <1>2, <1>3, <1>4, <1>5, <1>6, <1>7, <1>8, <1>9, <1>10, <1>11, <1>12, <1>13
  DEF HelperStep

\* A command goes on to TERMINAL, or to the import, only after it saw a terminal run.
LEMMA CommandEnds ==
    ASSUME TypeOK, LedgerInv, EndedInv, CommandStep
    PROVE  EndedInv'
<1> USE DEF Step, Goto, At, Exit, Procs, Shells, memory, EndedInv, StartHelper, AfterHelper,
            Cancelling, Ended, Terminal, control
<1>i. HelperInv
  BY DEF LedgerInv
<1>t. /\ tree \in Trees
      /\ cell \in [Cells -> CellStatus] /\ exitcode \in [Cells -> Codes \cup {"none"}]
      /\ run \in RunStatus
      /\ pc \in [Procs -> ParentSteps \cup ChildSteps \cup HelperSteps]
      /\ rc \in [Procs -> Codes]
      /\ handler \in [Shells -> BOOLEAN]
      /\ cur \in 0..N /\ active \in 0..N /\ target \in 0..N /\ N \in Nat \ {0}
  BY Typed
<1>1. CASE HelperReturns
  BY <1>1, <1>t, <1>i, NoWrite DEF HelperReturns, HelperInv, HelperOps
<1>2. CASE DriftDelete
  BY <1>2, <1>t, <1>i, NoWrite DEF DriftDelete
<1>3. CASE DriftDeleted
  BY <1>3, <1>t, <1>i, NoWrite DEF DriftDeleted
<1>4. CASE CancelObserve
  BY <1>4, <1>t, <1>i, NoWrite DEF CancelObserve
<1>5. CASE CancelDeleted
  BY <1>5, <1>t, <1>i, NoWrite DEF CancelDeleted
<1>6. CASE CancelCheck
  BY <1>6, <1>t, <1>i, NoWrite DEF CancelCheck
<1>7. CASE CollectQuiescent
  BY <1>7, <1>t, <1>i, NoWrite DEF CollectQuiescent
<1>8. CASE CollectImport
  BY <1>8, <1>t, <1>i, NoWrite DEF CollectImport
<1>9. CASE StatusRecover
  BY <1>9, <1>t, <1>i, NoWrite DEF StatusRecover
<1>10. CASE StatusDrift
  BY <1>10, <1>t, <1>i, NoWrite DEF StatusDrift
<1>11. CASE CancelRead
  BY <1>11, <1>t, <1>i, NoWrite DEF CancelRead
<1>12. CASE CollectGate
  BY <1>12, <1>t, <1>i, NoWrite DEF CollectGate
<1>13. CASE JobFinishes
  BY <1>13, <1>t, <1>i, NoWrite DEF JobFinishes
<1>14. CASE JobDeleted
  BY <1>14, <1>t, <1>i, NoWrite DEF JobDeleted
<1>15. CASE JobDeletedExternally
  BY <1>15, <1>t, <1>i, NoWrite DEF JobDeletedExternally
<1>16. CASE CommandTimesOut
  BY <1>16, <1>t, <1>i, NoWrite DEF CommandTimesOut
<1>17. CASE CommandDies
  BY <1>17, <1>t, <1>i, NoWrite DEF CommandDies
<1>18. CASE UNCHANGED vars
  BY <1>18, <1>t, <1>i, NoWrite DEF vars
<1>19. CASE StatusRead
  BY <1>19, <1>t, <1>i, NoWrite DEF StatusRead
<1>20. CASE StatusObserve
  <2>1. /\ UNCHANGED <<tree, pc, rc, memory, job, deleting, local, seen, imported, deaths>>
        /\ op = "statusJob"
    BY <1>20 DEF StatusObserve
  <2>2. job \in {"ACTIVE", "COMPLETE", "FAILED", "DELETED"}
    BY <1>t DEF TypeOK
  <2>3. op' \in {"statusActive", "statusComplete", "statusFailed", "statusLost"}
    BY <1>20, <2>2 DEF StatusObserve
  <2> QED BY <1>t, <1>i, <2>1, <2>3, NoWrite
<1>21. CASE StatusRefresh
  BY <1>21, <1>t, <1>i, NoWrite DEF StatusRefresh
<1>22. CASE StatusEnds
  BY <1>22, <1>t, <1>i, NoWrite DEF StatusEnds
<1> QED
  BY <1>1, <1>2, <1>3, <1>4, <1>5, <1>6, <1>7, <1>8, <1>9, <1>10, <1>11, <1>12, <1>13,
     <1>14, <1>15, <1>16, <1>17, <1>18, <1>19, <1>20, <1>21, <1>22
  DEF CommandStep, CommandNext, UserNext

\* Whoever believes that the run ended stays right.
LEMMA EndedInvStep ==
    ASSUME TypeOK, LedgerInv, EndedInv, [Next]_vars
    PROVE  EndedInv'
<1>1. CASE ParentStep \/ ChildStep
  <2>1. UNCHANGED control /\ pc'["helper"] = "off"
    BY <1>1, ParentFrame, ChildFrame
  <2> QED BY <2>1, EndedStays DEF EndedInv, control
<1>2. CASE HelperStep
  BY <1>2, HelperEnds
<1>3. CASE CommandStep
  BY <1>3, CommandEnds
<1> QED BY <1>1, <1>2, <1>3, StepKinds

(***************************************************************************)
(* Import: nothing is left that could change the tree.                     *)
(***************************************************************************)
\* What --collect accepts depends on the run tree alone.
LEMMA SameTreeCollectible ==
    ASSUME UNCHANGED tree
    PROVE  Collectible' <=> Collectible
  BY
    DEF Collectible, RowsMatch, CompleteCell, Ended, NoCell, AllCells, cell, run, exitcode, manifest

\* A command imports only a quiet Job's attempt, and none touches the attempt afterwards.
LEMMA CommandImport ==
    ASSUME TypeOK, LedgerInv, ImportInv, CommandStep
    PROVE  ImportInv'
<1> USE DEF Step, Goto, At, Exit, Procs, Shells, memory, ImportInv, StartHelper, AfterHelper,
            Cancelling, control
<1>i. HelperInv
  BY DEF LedgerInv
<1>t. /\ tree \in Trees
      /\ cell \in [Cells -> CellStatus] /\ exitcode \in [Cells -> Codes \cup {"none"}]
      /\ run \in RunStatus
      /\ pc \in [Procs -> ParentSteps \cup ChildSteps \cup HelperSteps]
      /\ rc \in [Procs -> Codes]
      /\ handler \in [Shells -> BOOLEAN]
      /\ cur \in 0..N /\ active \in 0..N /\ target \in 0..N /\ N \in Nat \ {0}
  BY Typed
<1>1. CASE HelperReturns
  BY <1>1, <1>t, <1>i, SameTreeCollectible DEF HelperReturns, HelperInv, HelperOps
<1>2. CASE DriftDelete
  BY <1>2, <1>t, <1>i, SameTreeCollectible DEF DriftDelete
<1>3. CASE DriftDeleted
  BY <1>3, <1>t, <1>i, SameTreeCollectible DEF DriftDeleted
<1>4. CASE CancelObserve
  BY <1>4, <1>t, <1>i, SameTreeCollectible DEF CancelObserve
<1>5. CASE CancelDeleted
  BY <1>5, <1>t, <1>i, SameTreeCollectible DEF CancelDeleted
<1>6. CASE CancelCheck
  BY <1>6, <1>t, <1>i, SameTreeCollectible DEF CancelCheck
<1>7. CASE CollectQuiescent
  BY <1>7, <1>t, <1>i, SameTreeCollectible DEF CollectQuiescent
<1>8. CASE CollectImport
  BY <1>8, <1>t, <1>i, SameTreeCollectible DEF CollectImport
<1>9. CASE StatusRecover
  BY <1>9, <1>t, <1>i, SameTreeCollectible DEF StatusRecover
<1>10. CASE StatusDrift
  BY <1>10, <1>t, <1>i, SameTreeCollectible DEF StatusDrift
<1>11. CASE CancelRead
  BY <1>11, <1>t, <1>i, SameTreeCollectible DEF CancelRead
<1>12. CASE CollectGate
  BY <1>12, <1>t, <1>i, SameTreeCollectible DEF CollectGate
<1>13. CASE JobFinishes
  BY <1>13, <1>t, <1>i, SameTreeCollectible DEF JobFinishes
<1>14. CASE JobDeleted
  BY <1>14, <1>t, <1>i, SameTreeCollectible DEF JobDeleted
<1>15. CASE JobDeletedExternally
  BY <1>15, <1>t, <1>i, SameTreeCollectible DEF JobDeletedExternally
<1>16. CASE CommandTimesOut
  BY <1>16, <1>t, <1>i, SameTreeCollectible DEF CommandTimesOut
<1>17. CASE CommandDies
  BY <1>17, <1>t, <1>i, SameTreeCollectible DEF CommandDies
<1>18. CASE UNCHANGED vars
  BY <1>18, <1>t, <1>i, SameTreeCollectible DEF vars
<1>19. CASE StatusRead
  BY <1>19, <1>t, <1>i, SameTreeCollectible DEF StatusRead
<1>20. CASE StatusObserve
  BY <1>20, <1>t, <1>i, SameTreeCollectible DEF StatusObserve
<1>21. CASE StatusRefresh
  BY <1>21, <1>t, <1>i, SameTreeCollectible DEF StatusRefresh
<1>22. CASE StatusEnds
  BY <1>22, <1>t, <1>i, SameTreeCollectible DEF StatusEnds
<1> QED
  BY <1>1, <1>2, <1>3, <1>4, <1>5, <1>6, <1>7, <1>8, <1>9, <1>10, <1>11, <1>12, <1>13,
     <1>14, <1>15, <1>16, <1>17, <1>18, <1>19, <1>20, <1>21, <1>22
  DEF CommandStep, CommandNext, UserNext

\* No step of any actor touches the tree behind an import.
LEMMA ImportInvStep ==
    ASSUME TypeOK, LedgerInv, ImportInv, [Next]_vars
    PROVE  ImportInv'
<1>1. CASE ParentStep \/ ChildStep
  <2>1. job = "ACTIVE" /\ UNCHANGED control
    BY <1>1, ParentFrame, ChildFrame
  <2> QED BY <2>1 DEF ImportInv, control
<1>2. CASE HelperStep
  <2>1. op \in HelperOps /\ UNCHANGED control
    BY <1>2, HelperFrame DEF LedgerInv, HelperInv
  <2> QED BY <2>1 DEF ImportInv, HelperOps, control
<1>3. CASE CommandStep
  BY <1>3, CommandImport
<1> QED BY <1>1, <1>2, <1>3, StepKinds

(***************************************************************************)
(* The end: what a Complete Job or a returned helper leaves.               *)
(***************************************************************************)
\* The manifest is the one that a publication of the tree as it is would write.
Current ==
    manifest = [cell |-> cell,
                exitcode |-> [c \in Cells |-> IF Settled(c) THEN exitcode[c] ELSE "none"],
                artifacts |-> tree.artifacts,
                summary |-> tree.summary,
                startupError |-> tree.startupError,
                run |-> run]

\* A successful run whose publication is current.
SuccessPublished == run = "SUCCESS" /\ Current

\* Exit 0 comes only after SUCCESS and its manifest, never from a startup failure or a
\* handler; nobody writes the tree of a Complete Job; and a helper is done when it has
\* just published.
CollectInv ==
    /\ handler["parent"] => rc["parent"] # "ok"
    /\ pc["parent"] \in {"startupError", "startupSummary", "startupRun", "startupManifest"} =>
          rc["parent"] # "ok"
    /\ pc["parent"] = "finalManifest" /\ rc["parent"] = "ok" => run = "SUCCESS"
    /\ pc["parent"] \in {"return", "exit", "dead"} /\ rc["parent"] = "ok" /\ job = "ACTIVE" =>
          SuccessPublished
    /\ job = "COMPLETE" => SuccessPublished
    /\ pc["helper"] = "done" => Current /\ NoCell("ABSENT")

\* A publication makes the manifest current.
LEMMA PublishedIsCurrent ==
    ASSUME tree \in Trees, PublishManifest
    PROVE  Current'
  BY DEF Trees, PublishManifest, Current, Settled, cell, run, exitcode, manifest

\* A tree that nobody writes stays published.
LEMMA SameTreeCurrent ==
    ASSUME UNCHANGED tree
    PROVE  /\ Current' <=> Current
           /\ SuccessPublished' <=> SuccessPublished
           /\ NoCell("ABSENT")' <=> NoCell("ABSENT")
  BY DEF SuccessPublished, Current, NoCell, Settled, cell, run, exitcode, manifest

\* The main shell exits with 0 only behind its published SUCCESS.
LEMMA ParentCollect ==
    ASSUME TypeOK, LedgerInv, CollectInv, ParentStep
    PROVE  CollectInv'
<1> USE DEF Step, Goto, At, Exit, Procs, Shells, memory, CollectInv, control
<1>i. LoopInv /\ StartInv /\ ChildInv
  BY DEF LedgerInv
<1>t. /\ tree \in Trees
      /\ cell \in [Cells -> CellStatus] /\ exitcode \in [Cells -> Codes \cup {"none"}]
      /\ run \in RunStatus
      /\ pc \in [Procs -> ParentSteps \cup ChildSteps \cup HelperSteps]
      /\ rc \in [Procs -> Codes]
      /\ handler \in [Shells -> BOOLEAN]
      /\ cur \in 0..N /\ active \in 0..N /\ target \in 0..N /\ N \in Nat \ {0}
  BY Typed
<1>f. /\ job = "ACTIVE" /\ job' = "ACTIVE" /\ pc'["helper"] = "off"
  BY ParentFrame
<1>1. CASE AcquireLock
  BY <1>1, <1>t, <1>i, <1>f DEF AcquireLock
<1>2. CASE RecordOwner
  BY <1>2, <1>t, <1>i, <1>f DEF RecordOwner
<1>3. CASE InitializeSnapshots
  BY <1>3, <1>t, <1>i, <1>f DEF InitializeSnapshots
<1>4. CASE InitializeExecutionStates
  BY <1>4, <1>t, <1>i, <1>f DEF InitializeExecutionStates
<1>5. CASE StartupCheck
  BY <1>5, <1>t, <1>i, <1>f DEF StartupCheck
<1>6. CASE StartupError
  BY <1>6, <1>t, <1>i, <1>f DEF StartupError
<1>7. CASE StartupSummary
  BY <1>7, <1>t, <1>i, <1>f DEF StartupSummary
<1>8. CASE StartupRun
  BY <1>8, <1>t, <1>i, <1>f DEF StartupRun
<1>9. CASE StartupManifest
  BY <1>9, <1>t, <1>i, <1>f DEF StartupManifest
<1>10. CASE StartRun
  BY <1>10, <1>t, <1>i, <1>f DEF StartRun
<1>11. CASE StartSummary
  BY <1>11, <1>t, <1>i, <1>f DEF StartSummary
<1>12. CASE PickExecution
  BY <1>12, <1>t, <1>i, <1>f DEF PickExecution
<1>13. CASE PrepareActive
  BY <1>13, <1>t, <1>i, <1>f DEF PrepareActive
<1>14. CASE PrepareSummary
  BY <1>14, <1>t, <1>i, <1>f DEF PrepareSummary
<1>15. CASE Reap
  BY <1>15, <1>t, <1>i, <1>f DEF Reap, LoopInv, Looping
<1>16. CASE CompleteActive
  BY <1>16, <1>t, <1>i, <1>f DEF CompleteActive, LoopInv, Looping
<1>17. CASE HandlerReap
  BY <1>17, <1>t, <1>i, <1>f DEF HandlerReap, LoopInv, Handling
<1>18. CASE MainReturns
  BY <1>18, <1>t, <1>f, SameTreeCurrent DEF MainReturns, Trapped
<1>19. CASE PodExits
  BY <1>19, <1>t, <1>f, SameTreeCurrent DEF PodExits, Trapped
<1>20. CASE FailCopy("parent")
  BY <1>20, <1>t, <1>i, <1>f DEF FailCopy
<1>21. CASE FailExit("parent")
  BY <1>21, <1>t, <1>i, <1>f DEF FailExit
<1>22. CASE FailStatus("parent")
  BY <1>22, <1>t, <1>i, <1>f DEF FailStatus
<1>23. CASE FailSummary("parent")
  BY <1>23, <1>t, <1>i, <1>f DEF FailSummary
<1>24. CASE FailManifest("parent")
  BY <1>24, <1>t, <1>i, <1>f DEF FailManifest, LoopInv, Failed
<1>25. CASE Finalize("parent")
  BY <1>25, <1>t, <1>i, <1>f DEF Finalize
<1>26. CASE FinalizeSummary("parent")
  BY <1>26, <1>t, <1>i, <1>f DEF FinalizeSummary
<1>27. CASE FinalizeRun("parent")
  <2>1. run' = Outcome("parent")
    BY <1>27, <1>t, RunWrite DEF FinalizeRun
  <2> QED BY <1>27, <1>t, <1>f, <2>1 DEF FinalizeRun, Outcome
<1>28. CASE FinalizeManifest("parent")
  <2>1. Current' /\ run' = run
    BY <1>28, <1>t, PublishedIsCurrent, ManifestWrite DEF FinalizeManifest
  <2> QED BY <1>28, <1>t, <1>f, <2>1 DEF FinalizeManifest, SuccessPublished
<1>29. CASE HandlerCheck("parent")
  BY <1>29, <1>t, <1>i, <1>f DEF HandlerCheck, LoopInv, Handling
<1>30. CASE TermParent
  BY <1>30, <1>t, <1>i, <1>f DEF TermParent
<1>31. CASE PodKilled
  BY <1>31, <1>t, <1>i, <1>f DEF PodKilled
<1>32. CASE DuplicatePod
  BY <1>32, <1>t, <1>i, <1>f DEF DuplicatePod
<1> QED
  BY <1>1, <1>2, <1>3, <1>4, <1>5, <1>6, <1>7, <1>8, <1>9, <1>10, <1>11, <1>12, <1>13,
     <1>14, <1>15, <1>16, <1>17, <1>18, <1>19, <1>20, <1>21, <1>22, <1>23, <1>24, <1>25, <1>26,
     <1>27, <1>28, <1>29, <1>30, <1>31, <1>32
  DEF ParentStep, ParentNext, ShellNext

\* The cell shell neither exits for the main shell nor outlives it.
LEMMA ChildCollect ==
    ASSUME TypeOK, LedgerInv, CollectInv, ChildStep
    PROVE  CollectInv'
<1>1. /\ job = "ACTIVE" /\ UNCHANGED control /\ pc'["helper"] = "off"
      /\ pc["parent"] \in {"wait", "handlerWait"} /\ pc'["parent"] = pc["parent"]
      /\ rc'["parent"] = rc["parent"] /\ handler'["parent"] = handler["parent"]
  BY ChildFrame
<1> QED BY <1>1 DEF CollectInv, control

\* A helper is done when its publication is the last write of the tree.
LEMMA HelperCollect ==
    ASSUME TypeOK, LedgerInv, CollectInv, HelperStep
    PROVE  CollectInv'
<1>1. /\ CoordinatorLost /\ pc'["parent"] = "dead" /\ handler' = handler
      /\ pc["parent"] = "dead" /\ rc'["parent"] = rc["parent"] /\ UNCHANGED control
  BY HelperFrame
<1>2. job' \in {"FAILED", "DELETED"}
  BY <1>1 DEF CoordinatorLost, control
<1>3. pc'["helper"] = "done" => Current' /\ NoCell("ABSENT")'
  <2>1. pc'["helper"] = "done" => HelperManifest /\ CanPublish /\ PublishManifest
    <3> USE DEF Step, Goto, At, Exit, Procs
    <3>t. pc \in [Procs -> ParentSteps \cup ChildSteps \cup HelperSteps]
      BY Typed
    <3>1. CASE HelperLock
      BY <3>1, <3>t DEF HelperLock
    <3>2. CASE HelperOwner
      BY <3>2, <3>t DEF HelperOwner
    <3>3. CASE HelperMode
      BY <3>3, <3>t DEF HelperMode
    <3>4. CASE HelperSnapshots
      BY <3>4, <3>t DEF HelperSnapshots
    <3>5. CASE HelperCells
      BY <3>5, <3>t DEF HelperCells
    <3>6. CASE HelperScan
      BY <3>6, <3>t DEF HelperScan
    <3>7. CASE HelperExit
      BY <3>7, <3>t DEF HelperExit
    <3>8. CASE HelperLoss
      BY <3>8, <3>t DEF HelperLoss
    <3>9. CASE HelperSummary
      BY <3>9, <3>t DEF HelperSummary
    <3>10. CASE HelperRun
      BY <3>10, <3>t DEF HelperRun
    <3>11. CASE HelperManifest
      BY <3>11, <3>t DEF HelperManifest
    <3>12. CASE HelperRepair
      BY <3>12, <3>t DEF HelperRepair
    <3>13. CASE HelperRepairSummary
      BY <3>13, <3>t DEF HelperRepairSummary
    <3> QED BY <3>1, <3>2, <3>3, <3>4, <3>5, <3>6, <3>7, <3>8, <3>9,
            <3>10, <3>11, <3>12, <3>13 DEF HelperStep
  <2>2. ASSUME CanPublish, PublishManifest PROVE Current' /\ NoCell("ABSENT")'
    <3>1. tree \in Trees
      BY Typed
    <3>2. Current' /\ cell' = cell
      BY <2>2, <3>1, PublishedIsCurrent, ManifestWrite
    <3> QED BY <2>2, <3>2 DEF CanPublish, NoCell
  <2> QED BY <2>1, <2>2
<1> QED BY <1>1, <1>2, <1>3 DEF CollectInv

\* A Job becomes Complete behind the published SUCCESS of its Pod.
LEMMA CommandCollect ==
    ASSUME TypeOK, LedgerInv, CollectInv, CommandStep
    PROVE  CollectInv'
<1> USE DEF Step, Goto, At, Exit, Procs, StartHelper, control
<1>1. /\ UNCHANGED tree /\ handler' = handler
      /\ pc'["parent"] = pc["parent"] /\ rc'["parent"] = rc["parent"]
  BY CommandFrame
<1>2. /\ Current' <=> Current
      /\ SuccessPublished' <=> SuccessPublished
      /\ NoCell("ABSENT")' <=> NoCell("ABSENT")
      /\ run' = run
  BY <1>1, SameTreeCurrent, NoWrite
<1>3. pc'["helper"] = "done" => pc["helper"] = "done"
  <2>t. pc \in [Procs -> ParentSteps \cup ChildSteps \cup HelperSteps]
    BY Typed
  <2>1. CASE HelperReturns
    BY <2>1, <2>t DEF HelperReturns
  <2>2. CASE DriftDelete
    BY <2>2, <2>t DEF DriftDelete
  <2>3. CASE DriftDeleted
    BY <2>3, <2>t DEF DriftDeleted
  <2>4. CASE CancelObserve
    BY <2>4, <2>t DEF CancelObserve
  <2>5. CASE CancelDeleted
    BY <2>5, <2>t DEF CancelDeleted
  <2>6. CASE CancelCheck
    BY <2>6, <2>t DEF CancelCheck
  <2>7. CASE CollectQuiescent
    BY <2>7, <2>t DEF CollectQuiescent
  <2>8. CASE CollectImport
    BY <2>8, <2>t DEF CollectImport
  <2>9. CASE StatusRecover
    BY <2>9, <2>t DEF StatusRecover
  <2>10. CASE StatusDrift
    BY <2>10, <2>t DEF StatusDrift
  <2>11. CASE CancelRead
    BY <2>11, <2>t DEF CancelRead
  <2>12. CASE CollectGate
    BY <2>12, <2>t DEF CollectGate
  <2>13. CASE JobFinishes
    BY <2>13, <2>t DEF JobFinishes
  <2>14. CASE JobDeleted
    BY <2>14, <2>t DEF JobDeleted
  <2>15. CASE JobDeletedExternally
    BY <2>15, <2>t DEF JobDeletedExternally
  <2>16. CASE CommandTimesOut
    BY <2>16, <2>t DEF CommandTimesOut
  <2>17. CASE CommandDies
    BY <2>17, <2>t DEF CommandDies
  <2>18. CASE UNCHANGED vars
    BY <2>18, <2>t DEF vars
  <2>19. CASE StatusRead
    BY <2>19, <2>t DEF StatusRead
  <2>20. CASE StatusObserve
    BY <2>20, <2>t DEF StatusObserve
  <2>21. CASE StatusRefresh
    BY <2>21, <2>t DEF StatusRefresh
  <2>22. CASE StatusEnds
    BY <2>22, <2>t DEF StatusEnds
  <2> QED
    BY <2>1, <2>2, <2>3, <2>4, <2>5, <2>6, <2>7, <2>8, <2>9, <2>10, <2>11,
       <2>12, <2>13, <2>14, <2>15, <2>16, <2>17, <2>18, <2>19, <2>20, <2>21, <2>22
    DEF CommandStep, CommandNext, UserNext
<1>4. \/ job' = job
      \/ job = "ACTIVE" /\ pc["parent"] = "dead" /\ job' = "COMPLETE" /\ rc["parent"] = "ok"
      \/ job' \in {"FAILED", "DELETED"}
  <2>1. CASE HelperReturns
    BY <2>1 DEF HelperReturns
  <2>2. CASE DriftDelete
    BY <2>2 DEF DriftDelete
  <2>3. CASE DriftDeleted
    BY <2>3 DEF DriftDeleted
  <2>4. CASE CancelObserve
    BY <2>4 DEF CancelObserve
  <2>5. CASE CancelDeleted
    BY <2>5 DEF CancelDeleted
  <2>6. CASE CancelCheck
    BY <2>6 DEF CancelCheck
  <2>7. CASE CollectQuiescent
    BY <2>7 DEF CollectQuiescent
  <2>8. CASE CollectImport
    BY <2>8 DEF CollectImport
  <2>9. CASE StatusRecover
    BY <2>9 DEF StatusRecover
  <2>10. CASE StatusDrift
    BY <2>10 DEF StatusDrift
  <2>11. CASE CancelRead
    BY <2>11 DEF CancelRead
  <2>12. CASE CollectGate
    BY <2>12 DEF CollectGate
  <2>13. CASE JobFinishes
    BY <2>13 DEF JobFinishes, PodAlive
  <2>14. CASE JobDeleted
    BY <2>14 DEF JobDeleted
  <2>15. CASE JobDeletedExternally
    BY <2>15 DEF JobDeletedExternally
  <2>16. CASE CommandTimesOut
    BY <2>16 DEF CommandTimesOut
  <2>17. CASE CommandDies
    BY <2>17 DEF CommandDies
  <2>18. CASE UNCHANGED vars
    BY <2>18 DEF vars
  <2>19. CASE StatusRead
    BY <2>19 DEF StatusRead
  <2>20. CASE StatusObserve
    BY <2>20 DEF StatusObserve
  <2>21. CASE StatusRefresh
    BY <2>21 DEF StatusRefresh
  <2>22. CASE StatusEnds
    BY <2>22 DEF StatusEnds
  <2> QED
    BY <2>1, <2>2, <2>3, <2>4, <2>5, <2>6, <2>7, <2>8, <2>9, <2>10, <2>11,
       <2>12, <2>13, <2>14, <2>15, <2>16, <2>17, <2>18, <2>19, <2>20, <2>21, <2>22
    DEF CommandStep, CommandNext, UserNext
<1> QED BY <1>1, <1>2, <1>3, <1>4 DEF CollectInv

\* Whoever ends an attempt leaves it published.
LEMMA CollectInvStep ==
    ASSUME TypeOK, LedgerInv, CollectInv, [Next]_vars
    PROVE  CollectInv'
  BY ParentCollect, ChildCollect, HelperCollect, CommandCollect, StepKinds

\* A command sees a Job Complete only behind the published SUCCESS, and reads it afterwards.
LEMMA CommandStatus ==
    ASSUME TypeOK, LedgerInv, CollectInv, StatusInv, CommandStep
    PROVE  StatusInv'
<1> USE DEF StartHelper, AfterHelper, control
<1>1. Ended' <=> Ended
  BY CommandFrame DEF Ended
<1>2. job = "COMPLETE" => Ended
  BY DEF CollectInv, SuccessPublished, Ended, Terminal
<1>3. op' = "statusComplete" => op = "statusComplete" \/ Ended
  <2>1. CASE StatusObserve
    <3>1. job \in {"ACTIVE", "COMPLETE", "FAILED", "DELETED"}
      BY DEF TypeOK
    <3> QED BY <2>1, <3>1, <1>2 DEF StatusObserve
  <2>2. CASE HelperReturns
    BY <2>2 DEF HelperReturns
  <2>3. CASE DriftDelete
    BY <2>3 DEF DriftDelete
  <2>4. CASE DriftDeleted
    BY <2>4 DEF DriftDeleted
  <2>5. CASE CancelObserve
    BY <2>5 DEF CancelObserve
  <2>6. CASE CancelDeleted
    BY <2>6 DEF CancelDeleted
  <2>7. CASE CancelCheck
    BY <2>7 DEF CancelCheck
  <2>8. CASE CollectQuiescent
    BY <2>8 DEF CollectQuiescent
  <2>9. CASE CollectImport
    BY <2>9 DEF CollectImport
  <2>10. CASE StatusRecover
    BY <2>10 DEF StatusRecover
  <2>11. CASE StatusDrift
    BY <2>11 DEF StatusDrift
  <2>12. CASE CancelRead
    BY <2>12 DEF CancelRead
  <2>13. CASE CollectGate
    BY <2>13 DEF CollectGate
  <2>14. CASE JobFinishes
    BY <2>14 DEF JobFinishes
  <2>15. CASE JobDeleted
    BY <2>15 DEF JobDeleted
  <2>16. CASE JobDeletedExternally
    BY <2>16 DEF JobDeletedExternally
  <2>17. CASE CommandTimesOut
    BY <2>17 DEF CommandTimesOut
  <2>18. CASE CommandDies
    BY <2>18 DEF CommandDies
  <2>19. CASE UNCHANGED vars
    BY <2>19 DEF vars
  <2>20. CASE StatusRead
    BY <2>20 DEF StatusRead
  <2>21. CASE StatusRefresh
    BY <2>21 DEF StatusRefresh
  <2>22. CASE StatusEnds
    BY <2>22 DEF StatusEnds
  <2> QED
    BY <2>1, <2>2, <2>3, <2>4, <2>5, <2>6, <2>7, <2>8, <2>9, <2>10, <2>11, <2>12, <2>13,
       <2>14, <2>15, <2>16, <2>17, <2>18, <2>19, <2>20, <2>21, <2>22
    DEF CommandStep, CommandNext, UserNext
<1>4. op' = "statusLedger" => \/ (op = "statusLedger" /\ seen' = seen)
                              \/ (op = "statusComplete" /\ seen' = run)
  <2>1. CASE StatusObserve
    <3>1. job \in {"ACTIVE", "COMPLETE", "FAILED", "DELETED"}
      BY DEF TypeOK
    <3> QED BY <2>1, <3>1 DEF StatusObserve
  <2>2. CASE HelperReturns
    BY <2>2 DEF HelperReturns
  <2>3. CASE DriftDelete
    BY <2>3 DEF DriftDelete
  <2>4. CASE DriftDeleted
    BY <2>4 DEF DriftDeleted
  <2>5. CASE CancelObserve
    BY <2>5 DEF CancelObserve
  <2>6. CASE CancelDeleted
    BY <2>6 DEF CancelDeleted
  <2>7. CASE CancelCheck
    BY <2>7 DEF CancelCheck
  <2>8. CASE CollectQuiescent
    BY <2>8 DEF CollectQuiescent
  <2>9. CASE CollectImport
    BY <2>9 DEF CollectImport
  <2>10. CASE StatusRecover
    BY <2>10 DEF StatusRecover
  <2>11. CASE StatusDrift
    BY <2>11 DEF StatusDrift
  <2>12. CASE CancelRead
    BY <2>12 DEF CancelRead
  <2>13. CASE CollectGate
    BY <2>13 DEF CollectGate
  <2>14. CASE JobFinishes
    BY <2>14 DEF JobFinishes
  <2>15. CASE JobDeleted
    BY <2>15 DEF JobDeleted
  <2>16. CASE JobDeletedExternally
    BY <2>16 DEF JobDeletedExternally
  <2>17. CASE CommandTimesOut
    BY <2>17 DEF CommandTimesOut
  <2>18. CASE CommandDies
    BY <2>18 DEF CommandDies
  <2>19. CASE UNCHANGED vars
    BY <2>19 DEF vars
  <2>20. CASE StatusRead
    BY <2>20 DEF StatusRead
  <2>21. CASE StatusRefresh
    BY <2>21 DEF StatusRefresh
  <2>22. CASE StatusEnds
    BY <2>22 DEF StatusEnds
  <2> QED
    BY <2>1, <2>2, <2>3, <2>4, <2>5, <2>6, <2>7, <2>8, <2>9, <2>10, <2>11, <2>12, <2>13,
       <2>14, <2>15, <2>16, <2>17, <2>18, <2>19, <2>20, <2>21, <2>22
    DEF CommandStep, CommandNext, UserNext
<1> QED BY <1>1, <1>3, <1>4 DEF StatusInv, Ended

\* No other actor reopens the run or acts on what --status read.
LEMMA StatusInvStep ==
    ASSUME TypeOK, LedgerInv, CollectInv, StatusInv, [Next]_vars
    PROVE  StatusInv'
<1>1. CASE ParentStep \/ ChildStep
  <2>1. UNCHANGED control
    BY <1>1, ParentFrame, ChildFrame
  <2> QED BY <2>1, EndedStays DEF StatusInv, control
<1>2. CASE HelperStep
  <2>1. op \in HelperOps /\ UNCHANGED control
    BY <1>2, HelperFrame DEF LedgerInv, HelperInv
  <2> QED BY <2>1 DEF StatusInv, HelperOps, control
<1>3. CASE CommandStep
  BY <1>3, CommandStatus
<1> QED BY <1>1, <1>2, <1>3, StepKinds

\* A current publication of an ended run is what --collect demands, but for a failure
\* without evidence and a cell that a helper left half recovered.
LEMMA CurrentIsCollectible ==
    ASSUME TypeOK, LedgerInv, EvidenceInv, Current, Ended, NoCell("ABSENT")
    PROVE  /\ Collectible \/ NoFailureEvidence \/ HalfRecoveredCell
           /\ run = "SUCCESS" => Collectible
<1>t. /\ tree \in Trees /\ cell \in [Cells -> CellStatus]
      /\ tree.artifacts \in [Cells -> SUBSET Artifacts]
  BY Typed
<1>i. NoCell("RUNNING") /\ (run = "SUCCESS" => AllCells("SUCCESS"))
  BY DEF LedgerInv, ShapeInv, OutcomeAgrees
<1>1. /\ manifest.cell = cell /\ manifest.run = run /\ manifest.summary = tree.summary
      /\ manifest.artifacts = tree.artifacts /\ manifest.startupError = tree.startupError
      /\ \A c \in Cells : manifest.exitcode[c] = IF Settled(c) THEN exitcode[c] ELSE "none"
  BY DEF Current
<1>2. RowsMatch
  BY <1>1 DEF RowsMatch
<1>3. ASSUME NEW c \in Cells, cell[c] = "SUCCESS" PROVE CompleteCell(c)
  <2>1. /\ exitcode[c] = "ok"
        /\ "workers" \in tree.artifacts[c] /\ "results" \in tree.artifacts[c]
    BY <1>3 DEF EvidenceInv
  <2>2. tree.artifacts[c] = Artifacts
    BY <1>t, <2>1 DEF Artifacts
  <2> QED BY <1>1, <1>3, <2>1, <2>2 DEF CompleteCell, Settled, CellTerminal
<1>4. ASSUME NEW c \in Cells, ~HalfRecoveredCell PROVE CompleteCell(c)
  <2>1. cell[c] \in {"PENDING", "SUCCESS", "FAILED"}
    BY <1>t, <1>i DEF NoCell, CellStatus, CellTerminal
  <2>2. CASE cell[c] = "FAILED"
    BY <1>1, <1>4, <2>2 DEF CompleteCell, HalfRecoveredCell, Settled, CellTerminal
  <2> QED BY <1>3, <2>1, <2>2 DEF CompleteCell
<1>5. run = "SUCCESS" => Collectible
  BY <1>2, <1>3, <1>i DEF Collectible, AllCells
<1>6. run = "FAILED" /\ ~NoFailureEvidence =>
         ~NoCell("FAILED") \/ manifest.startupError # "none"
  BY <1>1 DEF NoFailureEvidence
<1>7. ~NoFailureEvidence /\ ~HalfRecoveredCell => Collectible
  BY <1>2, <1>4, <1>6, <1>i DEF Collectible
<1> QED BY <1>5, <1>7

(***************************************************************************)
(* The refinement of RunLedger, without TERM.                              *)
(***************************************************************************)
\* Without TERM the main shell records no signal.
LEMMA ParentQuiet ==
    ASSUME Signals = FALSE, TypeOK, LedgerInv, QuietInv, ParentStep
    PROVE  QuietInv'
<1> USE DEF Step, Goto, At, Exit, Procs, Shells, memory, QuietInv, CoordinatorLost,
            FailedBySignal, Judging, control, Codes, JobInv, PodAlive
<1>i. JobInv /\ LoopInv /\ ChildInv
  BY DEF LedgerInv
<1>t. /\ tree \in Trees
      /\ cell \in [Cells -> CellStatus] /\ exitcode \in [Cells -> Codes \cup {"none"}]
      /\ run \in RunStatus
      /\ pc \in [Procs -> ParentSteps \cup ChildSteps \cup HelperSteps]
      /\ rc \in [Procs -> Codes]
      /\ handler \in [Shells -> BOOLEAN]
      /\ cur \in 0..N /\ active \in 0..N /\ target \in 0..N /\ N \in Nat \ {0}
  BY Typed
<1>1. CASE AcquireLock
  BY <1>1, <1>t, <1>i, LockWrite, NoWrite DEF AcquireLock
<1>2. CASE RecordOwner
  BY <1>2, <1>t, <1>i, LockWrite DEF RecordOwner
<1>3. CASE InitializeSnapshots
  BY <1>3, <1>t, <1>i, SnapshotsWrite DEF InitializeSnapshots
<1>4. CASE InitializeExecutionStates
  BY <1>4, <1>t, <1>i, CellWrite, NoWrite DEF InitializeExecutionStates, InitializeCell
<1>5. CASE StartupCheck
  BY <1>5, <1>t, <1>i, NoWrite DEF StartupCheck
<1>6. CASE StartupError
  BY <1>6, <1>t, <1>i, StartupErrorWrite DEF StartupError
<1>7. CASE StartupSummary
  BY <1>7, <1>t, <1>i, SummaryWrite DEF StartupSummary
<1>8. CASE StartupRun
  BY <1>8, <1>t, <1>i, RunWrite DEF StartupRun
<1>9. CASE StartupManifest
  BY <1>9, <1>t, <1>i, ManifestWrite DEF StartupManifest
<1>10. CASE StartRun
  BY <1>10, <1>t, <1>i, RunWrite DEF StartRun
<1>11. CASE StartSummary
  BY <1>11, <1>t, <1>i, SummaryWrite DEF StartSummary
<1>12. CASE PickExecution
  BY <1>12, <1>t, <1>i, NoWrite DEF PickExecution
<1>13. CASE PrepareActive
  BY <1>13, <1>t, <1>i, CellWrite DEF PrepareActive, LoopInv
<1>14. CASE PrepareSummary
  BY <1>14, <1>t, <1>i, SummaryWrite DEF PrepareSummary
<1>15. CASE Reap
  BY <1>15, <1>t, <1>i, NoWrite DEF Reap
<1>16. CASE CompleteActive
  BY <1>16, <1>t, <1>i, NoWrite DEF CompleteActive, LoopInv, Owning
<1>17. CASE HandlerReap
  BY <1>17, <1>t, <1>i, NoWrite DEF HandlerReap
<1>18. CASE MainReturns
  BY <1>18, <1>t, <1>i, NoWrite DEF MainReturns
<1>19. CASE PodExits
  BY <1>19, <1>t, <1>i, NoWrite DEF PodExits
<1>20. CASE FailCopy("parent")
  BY <1>20, <1>t, <1>i, ArtifactWrite, NoWrite DEF FailCopy
<1>21. CASE FailExit("parent")
  BY <1>21, <1>t, <1>i, ExitWrite DEF FailExit, LoopInv, Failing
<1>22. CASE FailStatus("parent")
  BY <1>22, <1>t, <1>i, CellWrite DEF FailStatus, LoopInv, Failing
<1>23. CASE FailSummary("parent")
  BY <1>23, <1>t, <1>i, SummaryWrite DEF FailSummary
<1>24. CASE FailManifest("parent")
  BY <1>24, <1>t, <1>i, ManifestWrite DEF FailManifest
<1>25. CASE Finalize("parent")
  BY <1>25, <1>t, <1>i, StartupErrorWrite DEF Finalize
<1>26. CASE FinalizeSummary("parent")
  BY <1>26, <1>t, <1>i, SummaryWrite DEF FinalizeSummary
<1>27. CASE FinalizeRun("parent")
  BY <1>27, <1>t, <1>i, RunWrite DEF FinalizeRun
<1>28. CASE FinalizeManifest("parent")
  BY <1>28, <1>t, <1>i, ManifestWrite DEF FinalizeManifest
<1>29. CASE HandlerCheck("parent")
  BY <1>29, <1>t, <1>i, NoWrite DEF HandlerCheck
<1>30. CASE TermParent
  BY <1>30, <1>t, <1>i, NoWrite DEF TermParent
<1>31. CASE PodKilled
  BY <1>31, <1>t, <1>i, NoWrite DEF PodKilled
<1>32. CASE DuplicatePod
  BY <1>32, <1>t, <1>i, NoWrite DEF DuplicatePod
<1> QED
  BY <1>1, <1>2, <1>3, <1>4, <1>5, <1>6, <1>7, <1>8, <1>9, <1>10, <1>11, <1>12, <1>13,
     <1>14, <1>15, <1>16, <1>17, <1>18, <1>19, <1>20, <1>21, <1>22, <1>23, <1>24, <1>25, <1>26,
     <1>27, <1>28, <1>29, <1>30, <1>31, <1>32
  DEF ParentStep, ParentNext, ShellNext

\* Without TERM the cell shell records no signal.
LEMMA ChildQuiet ==
    ASSUME Signals = FALSE, TypeOK, LedgerInv, QuietInv, ChildStep
    PROVE  QuietInv'
<1> USE DEF Step, Goto, At, Exit, Procs, Shells, memory, QuietInv, CoordinatorLost,
            FailedBySignal, Judging, control, Codes, ChildInv, JobInv, PodAlive
<1>i. LoopInv /\ ChildInv /\ JobInv
  BY DEF LedgerInv
<1>t. /\ tree \in Trees
      /\ cell \in [Cells -> CellStatus] /\ exitcode \in [Cells -> Codes \cup {"none"}]
      /\ run \in RunStatus
      /\ pc \in [Procs -> ParentSteps \cup ChildSteps \cup HelperSteps]
      /\ rc \in [Procs -> Codes]
      /\ handler \in [Shells -> BOOLEAN]
      /\ cur \in 0..N /\ active \in 0..N /\ target \in 0..N /\ N \in Nat \ {0}
  BY Typed
<1>1. CASE ChildTraps
  BY <1>1, <1>t, <1>i, NoWrite DEF ChildTraps
<1>2. CASE ChildSetup
  BY <1>2, <1>t, <1>i, ArtifactWrite, NoWrite DEF ChildSetup
<1>3. CASE Benchmark
  BY <1>3, <1>t, <1>i, NoWrite DEF Benchmark
<1>4. CASE PublishCopy
  BY <1>4, <1>t, <1>i, ArtifactWrite DEF PublishCopy
<1>5. CASE PublishCopyFails
  BY <1>5, <1>t, <1>i, NoWrite DEF PublishCopyFails
<1>6. CASE PublishExit
  BY <1>6, <1>t, <1>i, ExitWrite DEF PublishExit, LoopInv, Owning
<1>7. CASE PublishStatus
  BY <1>7, <1>t, <1>i, CellWrite DEF PublishStatus, LoopInv, Owning
<1>8. CASE PublishSummary
  BY <1>8, <1>t, <1>i, SummaryWrite DEF PublishSummary
<1>9. CASE PublishCell
  BY <1>9, <1>t, <1>i, ManifestWrite DEF PublishCell
<1>10. CASE FailCopy("child")
  BY <1>10, <1>t, <1>i, ArtifactWrite, NoWrite DEF FailCopy
<1>11. CASE FailExit("child")
  BY <1>11, <1>t, <1>i, ExitWrite DEF FailExit, LoopInv, Owning
<1>12. CASE FailStatus("child")
  BY <1>12, <1>t, <1>i, CellWrite DEF FailStatus, LoopInv, Owning
<1>13. CASE FailSummary("child")
  BY <1>13, <1>t, <1>i, SummaryWrite DEF FailSummary
<1>14. CASE FailManifest("child")
  BY <1>14, <1>t, <1>i, ManifestWrite DEF FailManifest
<1>15. CASE Finalize("child")
  BY <1>15, <1>t, <1>i, StartupErrorWrite DEF Finalize
<1>16. CASE FinalizeSummary("child")
  BY <1>16, <1>t, <1>i, SummaryWrite DEF FinalizeSummary
<1>17. CASE FinalizeRun("child")
  BY <1>17, <1>t, <1>i, RunWrite DEF FinalizeRun
<1>18. CASE FinalizeManifest("child")
  BY <1>18, <1>t, <1>i, ManifestWrite DEF FinalizeManifest
<1>19. CASE HandlerCheck("child")
  BY <1>19, <1>t, <1>i, NoWrite DEF HandlerCheck
<1>20. CASE ChildDies
  BY <1>20, <1>t, <1>i, NoWrite DEF ChildDies
<1>21. CASE TermChild
  BY <1>21, <1>t, <1>i, NoWrite DEF TermChild, LoopInv, Handling
<1> QED
  BY <1>1, <1>2, <1>3, <1>4, <1>5, <1>6, <1>7, <1>8, <1>9, <1>10, <1>11, <1>12, <1>13,
     <1>14, <1>15, <1>16, <1>17, <1>18, <1>19, <1>20, <1>21
  DEF ChildStep, ChildNext, ShellNext

\* A cancellation that met no signalled failure works on an open run only.
LEMMA HelperQuiet ==
    ASSUME Signals = FALSE, TypeOK, LedgerInv, QuietInv, HelperStep
    PROVE  QuietInv'
<1> USE DEF Step, Goto, At, Exit, Procs, Shells, memory, QuietInv, CoordinatorLost,
            FailedBySignal, Judging, control, Codes, JobInv, PodAlive, Ended, Cancelling,
            HelperInv, HelperOps
<1>i. JobInv /\ HelperInv
  BY DEF LedgerInv
<1>t. /\ tree \in Trees
      /\ cell \in [Cells -> CellStatus] /\ exitcode \in [Cells -> Codes \cup {"none"}]
      /\ run \in RunStatus
      /\ pc \in [Procs -> ParentSteps \cup ChildSteps \cup HelperSteps]
      /\ rc \in [Procs -> Codes]
      /\ handler \in [Shells -> BOOLEAN]
      /\ cur \in 0..N /\ active \in 0..N /\ target \in 0..N /\ N \in Nat \ {0}
  BY Typed
<1>1. CASE HelperLock
  BY <1>1, <1>t, <1>i, LockWrite DEF HelperLock
<1>2. CASE HelperOwner
  BY <1>2, <1>t, <1>i, LockWrite DEF HelperOwner
<1>3. CASE HelperMode
  BY <1>3, <1>t, <1>i, NoWrite DEF HelperMode
<1>4. CASE HelperSnapshots
  BY <1>4, <1>t, <1>i, SnapshotsWrite DEF HelperSnapshots
<1>5. CASE HelperCells
  BY <1>5, <1>t, <1>i, CellWrite, NoWrite DEF HelperCells, InitializeCell
<1>6. CASE HelperScan
  BY <1>6, <1>t, <1>i, CellWrite, NoWrite DEF HelperScan
<1>7. CASE HelperExit
  BY <1>7, <1>t, <1>i, ExitWrite DEF HelperExit
<1>8. CASE HelperLoss
  BY <1>8, <1>t, <1>i, LossWrite DEF HelperLoss
<1>9. CASE HelperSummary
  BY <1>9, <1>t, <1>i, SummaryWrite, NoWrite DEF HelperSummary
<1>10. CASE HelperRun
  BY <1>10, <1>t, <1>i, RunWrite DEF HelperRun
<1>11. CASE HelperManifest
  BY <1>11, <1>t, <1>i, ManifestWrite, NoWrite DEF HelperManifest
<1>12. CASE HelperRepair
  BY <1>12, <1>t, <1>i, NoWrite DEF HelperRepair
<1>13. CASE HelperRepairSummary
  BY <1>13, <1>t, <1>i, SummaryWrite DEF HelperRepairSummary
<1> QED
  BY <1>1, <1>2, <1>3, <1>4, <1>5, <1>6, <1>7, <1>8, <1>9, <1>10, <1>11, <1>12, <1>13
  DEF HelperStep

\* A cancellation reads an open run before it deletes the Job.
LEMMA CommandQuiet ==
    ASSUME Signals = FALSE, TypeOK, LedgerInv, QuietInv, CommandStep
    PROVE  QuietInv'
<1> USE DEF Step, Goto, At, Exit, Procs, Shells, memory, QuietInv, CoordinatorLost,
            FailedBySignal, Judging, control, Codes, HelperInv, HelperOps, StartHelper,
            AfterHelper, Cancelling, Ended, Terminal
<1>i. HelperInv /\ JobInv
  BY DEF LedgerInv
<1>t. /\ tree \in Trees
      /\ cell \in [Cells -> CellStatus] /\ exitcode \in [Cells -> Codes \cup {"none"}]
      /\ run \in RunStatus
      /\ pc \in [Procs -> ParentSteps \cup ChildSteps \cup HelperSteps]
      /\ rc \in [Procs -> Codes]
      /\ handler \in [Shells -> BOOLEAN]
      /\ cur \in 0..N /\ active \in 0..N /\ target \in 0..N /\ N \in Nat \ {0}
  BY Typed
<1>1. CASE HelperReturns
  BY <1>1, <1>t, <1>i, NoWrite DEF HelperReturns
<1>2. CASE DriftDelete
  BY <1>2, <1>t, <1>i, NoWrite DEF DriftDelete
<1>3. CASE DriftDeleted
  BY <1>3, <1>t, <1>i, NoWrite DEF DriftDeleted
<1>4. CASE CancelObserve
  BY <1>4, <1>t, <1>i, NoWrite DEF CancelObserve
<1>5. CASE CancelDeleted
  BY <1>5, <1>t, <1>i, NoWrite DEF CancelDeleted
<1>6. CASE CancelCheck
  BY <1>6, <1>t, <1>i, NoWrite DEF CancelCheck
<1>7. CASE CollectQuiescent
  BY <1>7, <1>t, <1>i, NoWrite DEF CollectQuiescent
<1>8. CASE CollectImport
  BY <1>8, <1>t, <1>i, NoWrite DEF CollectImport
<1>9. CASE StatusRecover
  BY <1>9, <1>t, <1>i, NoWrite DEF StatusRecover
<1>10. CASE StatusDrift
  BY <1>10, <1>t, <1>i, NoWrite DEF StatusDrift
<1>11. CASE CancelRead
  BY <1>11, <1>t, <1>i, NoWrite DEF CancelRead
<1>12. CASE CollectGate
  BY <1>12, <1>t, <1>i, NoWrite DEF CollectGate
<1>13. CASE JobFinishes
  BY <1>13, <1>t, <1>i, NoWrite DEF JobFinishes
<1>14. CASE JobDeleted
  BY <1>14, <1>t, <1>i, NoWrite DEF JobDeleted
<1>15. CASE JobDeletedExternally
  BY <1>15, <1>t, <1>i, NoWrite DEF JobDeletedExternally
<1>16. CASE CommandTimesOut
  BY <1>16, <1>t, <1>i, NoWrite DEF CommandTimesOut
<1>17. CASE CommandDies
  BY <1>17, <1>t, <1>i, NoWrite DEF CommandDies
<1>18. CASE UNCHANGED vars
  BY <1>18, <1>t, <1>i, NoWrite DEF vars
<1>19. CASE StatusRead
  BY <1>19, <1>t, <1>i, NoWrite DEF StatusRead
<1>20. CASE StatusObserve
  BY <1>20, <1>t, <1>i, NoWrite DEF StatusObserve
<1>21. CASE StatusRefresh
  BY <1>21, <1>t, <1>i, NoWrite DEF StatusRefresh
<1>22. CASE StatusEnds
  BY <1>22, <1>t, <1>i, NoWrite DEF StatusEnds
<1> QED
  BY <1>1, <1>2, <1>3, <1>4, <1>5, <1>6, <1>7, <1>8, <1>9, <1>10, <1>11, <1>12, <1>13,
     <1>14, <1>15, <1>16, <1>17, <1>18, <1>19, <1>20, <1>21, <1>22
  DEF CommandStep, CommandNext, UserNext

\* Without TERM nobody records a signal, so no FAILED run is ever reopened.
LEMMA QuietInvStep ==
    ASSUME Signals = FALSE, TypeOK, LedgerInv, QuietInv, [Next]_vars
    PROVE  QuietInv'
  BY ParentQuiet, ChildQuiet, HelperQuiet, CommandQuiet, StepKinds

\* Initializing a missing status file in order is Announce of the ledger.
LEMMA LedgerAnnounce ==
    ASSUME NEW c \in Cells, run = "PREPARED", cell[c] = "ABSENT",
           \A d \in 1..(c - 1) : cell[d] = "PENDING",
           cell' = [cell EXCEPT ![c] = "PENDING"], UNCHANGED run
    PROVE  Ledger!Next
  BY DEF Ledger!Next, Ledger!Announce, Ledger!Cells, Cells, cell, run

\* Replacing PREPARED by RUNNING over pending cells is Begin of the ledger.
LEMMA LedgerBegin ==
    ASSUME run = "PREPARED", \A c \in Cells : cell[c] = "PENDING", run' = "RUNNING", UNCHANGED cell
    PROVE  Ledger!Next
  BY DEF Ledger!Next, Ledger!Begin, Ledger!Cells, Cells, cell, run

\* Starting the first cell that has not succeeded is StartCell of the ledger.
LEMMA LedgerStartCell ==
    ASSUME NEW c \in Cells, run = "RUNNING", cell[c] = "PENDING",
           \A d \in 1..(c - 1) : cell[d] = "SUCCESS",
           cell' = [cell EXCEPT ![c] = "RUNNING"], UNCHANGED run
    PROVE  Ledger!Next
  BY DEF Ledger!Next, Ledger!StartCell, Ledger!Cells, Cells, cell, run

\* Settling the running cell is EndCell of the ledger.
LEMMA LedgerEndCell ==
    ASSUME NEW c \in Cells, NEW outcome \in {"SUCCESS", "FAILED"}, run = "RUNNING",
           cell[c] = "RUNNING", cell' = [cell EXCEPT ![c] = outcome], UNCHANGED run
    PROVE  Ledger!Next
  BY DEF Ledger!Next, Ledger!EndCell, Ledger!Cells, Cells, cell, run

\* Publishing an outcome that agrees with announced, settled cells is EndRun.
LEMMA LedgerEndRun ==
    ASSUME run \in {"PREPARED", "RUNNING"}, NoCell("ABSENT"), NoCell("RUNNING"), UNCHANGED cell,
           run' \in {"FAILED", "CANCELLED"} \/ (run' = "SUCCESS" /\ AllCells("SUCCESS"))
    PROVE  Ledger!Next
  BY DEF Ledger!Next, Ledger!EndRun, Ledger!Cells, Ledger!Open, NoCell, AllCells, Cells, cell, run

\* A step that leaves the status files alone does not show in the ledger.
LEMMA LedgerStutter ==
    ASSUME UNCHANGED <<cell, run>>
    PROVE  UNCHANGED Ledger!ledger
  BY DEF Ledger!ledger, cell, run

\* Every step of the main shell is a step of the ledger.
LEMMA ParentRefines ==
    ASSUME Signals = FALSE, TypeOK, LedgerInv, QuietInv, ParentStep
    PROVE  [Ledger!Next]_(Ledger!ledger)
<1> USE DEF Step, At, memory
<1>i. ShapeInv /\ StartInv /\ LoopInv
  BY DEF LedgerInv
<1>t. /\ tree \in Trees
      /\ cell \in [Cells -> CellStatus] /\ exitcode \in [Cells -> Codes \cup {"none"}]
      /\ run \in RunStatus
      /\ pc \in [Procs -> ParentSteps \cup ChildSteps \cup HelperSteps]
      /\ rc \in [Procs -> Codes]
      /\ handler \in [Shells -> BOOLEAN]
      /\ cur \in 0..N /\ active \in 0..N /\ target \in 0..N /\ N \in Nat \ {0}
  BY Typed
<1>1. CASE InitializeExecutionStates
  <2>1. CASE UNCHANGED tree
    BY <2>1, NoWrite, LedgerStutter
  <2>2. CASE \E c \in Cells : InitializeCell(c)
    <3>1. PICK c \in Cells : InitializeCell(c)
      BY <2>2
    <3>2. run = "PREPARED"
      BY <1>1, <1>i DEF InitializeExecutionStates, StartInv, Starting
    <3>3. \A d \in 1..(c - 1) : cell[d] = "PENDING"
      BY <3>1, <3>2, <1>i, <1>t DEF InitializeCell, ShapeInv, Cells
    <3> QED BY <3>1, <3>2, <3>3, <1>t, CellWrite, LedgerAnnounce DEF InitializeCell
  <2> QED BY <1>1, <2>1, <2>2 DEF InitializeExecutionStates
<1>2. CASE StartupRun
  <2>1. /\ run = "PREPARED" /\ NoCell("ABSENT") /\ NoCell("RUNNING")
        /\ run' = "FAILED" /\ UNCHANGED cell
    BY <1>2, <1>t, <1>i, RunWrite
    DEF StartupRun, StartInv, ShapeInv, Starting, Checked, NoCell
  <2> QED BY <2>1, LedgerEndRun
<1>3. CASE StartRun
  <2>1. /\ run = "PREPARED" /\ \A c \in Cells : cell[c] = "PENDING"
        /\ run' = "RUNNING" /\ UNCHANGED cell
    BY <1>3, <1>t, <1>i, RunWrite
    DEF StartRun, StartInv, ShapeInv, Starting, Checked, NoCell
  <2> QED BY <2>1, LedgerBegin
<1>4. CASE PrepareActive
  <2>1. active \in Cells /\ active = cur + 1 /\ InOrderUpTo(cur)
    BY <1>4, <1>i DEF PrepareActive, LoopInv
  <2>2. run = "RUNNING"
    BY <1>4, <1>i DEF PrepareActive, LoopInv, Looping
  <2>3. cell[active] = "PENDING" /\ \A d \in 1..(active - 1) : cell[d] = "SUCCESS"
    BY <2>1, <1>t DEF InOrderUpTo, Cells
  <2>4. cell' = [cell EXCEPT ![active] = "RUNNING"] /\ UNCHANGED run
    BY <1>4, <2>1, <1>t, CellWrite DEF PrepareActive
  <2> QED BY <2>1, <2>2, <2>3, <2>4, LedgerStartCell
<1>5. CASE FailStatus("parent")
  <2>1. active \in Cells /\ cell[active] = "RUNNING" /\ run = "RUNNING"
    BY <1>5, <1>i DEF FailStatus, LoopInv, Failing, QuietInv
  <2>2. cell' = [cell EXCEPT ![active] = "FAILED"] /\ UNCHANGED run
    BY <1>5, <2>1, <1>t, CellWrite DEF FailStatus
  <2> QED BY <2>1, <2>2, LedgerEndCell
<1>6. CASE FinalizeRun("parent")
  <2>1. run = "RUNNING" /\ NoCell("RUNNING") /\ (rc["parent"] = "ok" => AllCells("SUCCESS"))
    BY <1>6, <1>i DEF FinalizeRun, LoopInv, Finishing, QuietInv
  <2>2. NoCell("ABSENT")
    BY <2>1, <1>i DEF ShapeInv
  <2>3. run' = Outcome("parent") /\ UNCHANGED cell
    BY <1>6, <1>t, RunWrite DEF FinalizeRun
  <2> QED BY <2>1, <2>2, <2>3, LedgerEndRun DEF Outcome
<1> QED BY <1>1, <1>2, <1>3, <1>4, <1>5, <1>6, ParentFrame, LedgerStutter

\* Every step of the cell shell is a step of the ledger.
LEMMA ChildRefines ==
    ASSUME Signals = FALSE, TypeOK, LedgerInv, QuietInv, ChildStep
    PROVE  [Ledger!Next]_(Ledger!ledger)
<1> USE DEF Step, At
<1>i. LoopInv /\ ChildInv
  BY DEF LedgerInv
<1>t. tree \in Trees
  BY Typed
<1>r. active \in Cells /\ run = "RUNNING"
  BY ChildFrame, <1>i DEF LoopInv, Owning, Looping, Handling, QuietInv
<1>1. CASE PublishStatus
  <2>1. cell[active] = "RUNNING"
    BY <1>1, <1>i DEF PublishStatus, ChildInv, Working
  <2>2. cell' = [cell EXCEPT ![active] = Outcome("child")] /\ UNCHANGED run
    BY <1>1, <1>r, <1>t, CellWrite DEF PublishStatus
  <2>3. Outcome("child") \in {"SUCCESS", "FAILED"}
    BY DEF Outcome
  <2> QED BY <1>r, <2>1, <2>2, <2>3, LedgerEndCell
<1>2. CASE FailStatus("child")
  <2>1. cell[active] = "RUNNING"
    BY <1>2, <1>i DEF FailStatus, ChildInv, Failing
  <2>2. cell' = [cell EXCEPT ![active] = "FAILED"] /\ UNCHANGED run
    BY <1>2, <1>r, <1>t, CellWrite DEF FailStatus
  <2> QED BY <1>r, <2>1, <2>2, LedgerEndCell
<1>3. CASE FinalizeRun("child")
  BY <1>3, <1>i DEF FinalizeRun, ChildInv, Finishing, QuietInv
<1> QED BY <1>1, <1>2, <1>3, ChildFrame, LedgerStutter

\* Every step of recovery and of cancellation is a step of the ledger.
LEMMA HelperRefines ==
    ASSUME Signals = FALSE, TypeOK, LedgerInv, QuietInv, HelperStep
    PROVE  [Ledger!Next]_(Ledger!ledger)
<1> USE DEF Step, At
<1>i. ShapeInv /\ HelperInv
  BY DEF LedgerInv
<1>t. /\ tree \in Trees
      /\ cell \in [Cells -> CellStatus] /\ exitcode \in [Cells -> Codes \cup {"none"}]
      /\ run \in RunStatus
      /\ pc \in [Procs -> ParentSteps \cup ChildSteps \cup HelperSteps]
      /\ rc \in [Procs -> Codes]
      /\ handler \in [Shells -> BOOLEAN]
      /\ cur \in 0..N /\ active \in 0..N /\ target \in 0..N /\ N \in Nat \ {0}
  BY Typed
<1>1. CASE HelperCells
  <2>1. CASE UNCHANGED tree
    BY <2>1, NoWrite, LedgerStutter
  <2>2. CASE run = "PREPARED" /\ \E c \in Cells : InitializeCell(c)
    <3>1. PICK c \in Cells : InitializeCell(c)
      BY <2>2
    <3>2. \A d \in 1..(c - 1) : cell[d] = "PENDING"
      BY <3>1, <2>2, <1>i, <1>t DEF InitializeCell, ShapeInv, Cells
    <3> QED BY <3>1, <2>2, <3>2, <1>t, CellWrite, LedgerAnnounce DEF InitializeCell
  <2> QED BY <1>1, <2>1, <2>2 DEF HelperCells
<1>2. CASE HelperScan
  <2>1. CASE UNCHANGED tree
    BY <2>1, NoWrite, LedgerStutter
  <2>2. CASE \E c \in Cells : FirstCell("RUNNING", c) /\ WriteCell(c, "FAILED")
    <3>1. PICK c \in Cells : FirstCell("RUNNING", c) /\ WriteCell(c, "FAILED")
      BY <2>2
    <3>2. run = "RUNNING"
      BY <1>2, <3>1, <1>i, <1>t
      DEF HelperScan, FirstCell, ShapeInv, QuietInv, Ended, RunStatus
    <3> QED BY <3>1, <3>2, <1>t, CellWrite, LedgerEndCell DEF FirstCell
  <2> QED BY <1>2, <2>1, <2>2 DEF HelperScan
<1>3. CASE HelperRun
  <2>1. NoCell("ABSENT") /\ NoCell("RUNNING")
    BY <1>3, <1>i DEF HelperRun, HelperInv, Judging
  <2>2. run \in {"PREPARED", "RUNNING"}
    BY <1>3, <1>t DEF HelperRun, QuietInv, Judging, Ended, RunStatus
  <2>3. run' = HelperOutcome /\ UNCHANGED cell
    BY <1>3, <1>t, RunWrite DEF HelperRun
  <2>4. \/ HelperOutcome \in {"FAILED", "CANCELLED"}
        \/ HelperOutcome = "SUCCESS" /\ AllCells("SUCCESS")
    BY <1>3, <1>i DEF HelperRun, HelperInv, Judging, HelperOutcome, Outcome
  <2> QED BY <2>1, <2>2, <2>3, <2>4, LedgerEndRun
<1> QED BY <1>1, <1>2, <1>3, HelperFrame, LedgerStutter


(***************************************************************************)
(* The theorems.                                                           *)
(***************************************************************************)
\* The initial state satisfies every part of the invariants.
LEMMA InitInv ==
    Init => LedgerInv /\ PublishInv /\ EvidenceInv /\ EndedInv /\ ImportInv /\ QuietInv
<1> SUFFICES ASSUME Init
             PROVE  LedgerInv /\ PublishInv /\ EvidenceInv /\ EndedInv /\ ImportInv /\ QuietInv
  OBVIOUS
<1>1. /\ cell = EveryCell("ABSENT") /\ exitcode = EveryCell("none") /\ run = "PREPARED"
      /\ tree.lock = "none" /\ tree.summary.rc = "none" /\ manifest.cell = EveryCell("ABSENT")
  BY DEF Init, TreeInit, NoSummary, NoManifest, cell, exitcode, run, manifest
<1>2. /\ pc["parent"] = "lock" /\ pc["child"] = "off" /\ pc["helper"] = "off"
      /\ rc["parent"] = "ok" /\ rc["child"] = "ok"
      /\ ~handler["parent"] /\ ~handler["child"]
      /\ cur = 0 /\ active = 0 /\ job = "ACTIVE" /\ op = "idle" /\ imported = FALSE
      /\ local = "SUBMITTED"
  BY DEF Init, Procs, Shells
<1>3. JobInv /\ LockInv /\ StartInv /\ LoopInv
  BY <1>1, <1>2 DEF JobInv, At, LockInv, StartInv, Starting, Checked, LoopInv, Trapped, Handling,
     Looping, Failing, Failed, Finishing, Owning
<1>4. ShapeInv
  BY <1>1 DEF ShapeInv, CellsInOrder, OutcomeAgrees, Ended, Terminal, EveryCell
<1>5. ChildInv /\ HelperInv
  BY <1>2 DEF ChildInv, HelperInv, Working, Failing, Failed, Finishing, Judging
<1>6. PublishInv /\ ImportInv
  BY <1>1, <1>2 DEF PublishInv, ImportInv, Trapped, Handling, Settled, CellTerminal, EveryCell
<1>7. QuietInv
  BY <1>1, <1>2 DEF QuietInv, Judging, EveryCell
<1>8. EvidenceInv /\ EndedInv
  BY <1>1, <1>2 DEF EvidenceInv, EndedInv, EveryCell
<1> QED BY <1>3, <1>4, <1>5, <1>6, <1>7, <1>8 DEF LedgerInv

\* The ledger is sound in every reachable state, for every number of cells, with TERM
\* between any two writes of either shell: cells in order and one at a time, an outcome
\* that agrees with them, and a main loop that never meets a cell it refuses.
THEOREM LedgerIsSound ==
    ASSUME Background = FALSE
    PROVE  Spec => []LedgerSound
<1>1. Init => LedgerInv
  BY InitInv
<1>2. TypeOK /\ LedgerInv /\ [Next]_vars => LedgerInv'
  BY LedgerInvStep
<1>3. TypeOK /\ LedgerInv => LedgerSound
  <2> SUFFICES ASSUME TypeOK, LedgerInv PROVE LedgerSound
    OBVIOUS
  <2>1. PickedCellIsPending
    BY Typed DEF LedgerInv, LoopInv, InOrderUpTo, PickedCellIsPending, At, Cells
  <2> QED BY <2>1 DEF LedgerInv, ShapeInv, LedgerSound
<1> QED BY <1>1, <1>2, <1>3, TypeCorrect, PTL DEF Spec

\* No summary and no manifest that a shell writes is ever refused: whenever a shell gets
\* there, the cells are announced and settled and the files that the manifest hashes exist.
THEOREM PublicationSucceeds ==
    ASSUME Background = FALSE
    PROVE  Spec => []PublicationNeverRefused
<1>1. Init => LedgerInv /\ PublishInv
  BY InitInv
<1>2. TypeOK /\ LedgerInv /\ PublishInv /\ [Next]_vars => LedgerInv' /\ PublishInv'
  BY LedgerInvStep, PublishInvStep
<1>3. TypeOK /\ LedgerInv /\ PublishInv => PublicationNeverRefused
  <2> SUFFICES ASSUME TypeOK, LedgerInv, PublishInv, NEW p \in Shells
               PROVE  /\ At(p, "finalSummary") => CanSummarize(Outcome(p))
                      /\ At(p, "failSummary") => CanSummarize("FAILED")
                      /\ pc[p] \in {"failManifest", "finalManifest", "pubManifest", "startupManifest"}
                            => CanPublish
    BY DEF PublicationNeverRefused
  <2>i. JobInv /\ ShapeInv /\ LoopInv /\ ChildInv
    BY DEF LedgerInv
  <2>1. ASSUME pc[p] \in {"finalSummary", "failSummary"} PROVE NoCell("RUNNING") /\ NoCell("ABSENT")
    <3>1. CASE p = "parent"
      BY <2>1, <3>1, <2>i, Typed
      DEF LoopInv, ShapeInv, Trapped, Failed, Finishing, NoCell
    <3>2. CASE p = "child"
      BY <2>1, <3>2, <2>i, Typed
      DEF LoopInv, ChildInv, ShapeInv, Trapped, Handling, Owning, Failed, Finishing, NoCell
    <3> QED BY <3>1, <3>2 DEF Shells
  <2>2. ASSUME pc[p] \in {"failManifest", "finalManifest", "pubManifest", "startupManifest"}
        PROVE  CanPublish
    <3>1. pc["parent"] \in Trapped \cup Handling \cup {"startupManifest"}
      <4>1. CASE p = "parent"
        BY <2>2, <4>1, TypeOK DEF TypeOK, ParentSteps, Trapped
      <4>2. CASE p = "child"
        BY <2>2, <4>2, <2>i DEF ChildInv, Trapped, Handling
      <4> QED BY <4>1, <4>2 DEF Shells
    <3>2. tree.snap /\ tree.summary.status # "none"
      BY <3>1 DEF PublishInv, Trapped, Handling
    <3>3. NoCell("ABSENT")
      BY <3>1, <2>i DEF LoopInv, ShapeInv
    <3>4. ~CoordinatorLost
      BY <3>1, <2>i DEF JobInv, PodAlive, At, CoordinatorLost, Trapped, Handling
    <3> QED BY <3>2, <3>3, <3>4 DEF CanPublish, PublishInv
  <2> QED BY <2>1, <2>2 DEF At, CanSummarize
<1> QED BY <1>1, <1>2, <1>3, TypeCorrect, PTL DEF Spec

\* A success is true wherever it is claimed: a SUCCESS row of any manifest has exit code,
\* workers and results on the claim, and local TERMINAL stands for a terminal run tree.
THEOREM SuccessClaimsAreTrue ==
    ASSUME Background = FALSE
    PROVE  Spec => []SuccessIsTrue
<1>1. Init => LedgerInv /\ EvidenceInv /\ EndedInv
  BY InitInv
<1>2. TypeOK /\ LedgerInv /\ EvidenceInv /\ EndedInv /\ [Next]_vars
         => LedgerInv' /\ EvidenceInv' /\ EndedInv'
  BY LedgerInvStep, EvidenceInvStep, EndedInvStep
<1>3. TypeOK /\ EvidenceInv /\ EndedInv => SuccessIsTrue
  <2> SUFFICES ASSUME TypeOK, EvidenceInv, EndedInv PROVE SuccessIsTrue
    OBVIOUS
  <2>1. ASSUME NEW c \in Cells, manifest.cell[c] = "SUCCESS"
        PROVE  cell[c] = "SUCCESS" /\ exitcode[c] = "ok" /\ manifest.artifacts[c] = Artifacts
    <3>1. /\ cell[c] = "SUCCESS" /\ exitcode[c] = "ok"
          /\ "workers" \in manifest.artifacts[c] /\ "results" \in manifest.artifacts[c]
      BY <2>1 DEF EvidenceInv
    <3>2. manifest.artifacts[c] \in SUBSET Artifacts
      BY Typed DEF Trees, Manifests, manifest
    <3>3. manifest.artifacts[c] = Artifacts
      BY <3>1, <3>2 DEF Artifacts
    <3> QED BY <3>1, <3>3
  <2>2. LocalTerminalIsTrue
    BY DEF EndedInv, LocalTerminalIsTrue
  <2> QED BY <2>1, <2>2 DEF SuccessIsTrue, PublishedSuccessIsCommitted
<1> QED BY <1>1, <1>2, <1>3, TypeCorrect, PTL DEF Spec

\* Every way to an end leaves an attempt that --collect accepts, with TERM or without:
\* exit 0 of the coordinator stands for a published SUCCESS, and a helper that is done,
\* whichever command started it, for a complete publication, but for the two dead ends
\* that HelperLeavesCollectible names.
THEOREM EndsAreCollectible ==
    ASSUME Background = FALSE
    PROVE  Spec => []Collectable
<1>1. Init => LedgerInv /\ EvidenceInv /\ EndedInv /\ CollectInv
  <2>1. ASSUME Init PROVE CollectInv
    <3>1. /\ pc["parent"] = "lock" /\ pc["helper"] = "off" /\ ~handler["parent"] /\ job = "ACTIVE"
      BY <2>1 DEF Init, Procs, Shells
    <3> QED BY <3>1 DEF CollectInv
  <2> QED BY <2>1, InitInv
<1>2. TypeOK /\ LedgerInv /\ EvidenceInv /\ EndedInv /\ CollectInv /\ [Next]_vars
         => LedgerInv' /\ EvidenceInv' /\ EndedInv' /\ CollectInv'
  BY LedgerInvStep, EvidenceInvStep, EndedInvStep, CollectInvStep
<1>3. TypeOK /\ LedgerInv /\ EvidenceInv /\ EndedInv /\ CollectInv => Collectable
  <2> SUFFICES ASSUME TypeOK, LedgerInv, EvidenceInv, EndedInv, CollectInv PROVE Collectable
    OBVIOUS
  <2>1. CompleteJobIsCollectible
    <3> SUFFICES ASSUME job = "COMPLETE" PROVE run = "SUCCESS" /\ Collectible
      BY DEF CompleteJobIsCollectible
    <3>1. run = "SUCCESS" /\ Current
      BY DEF CollectInv, SuccessPublished
    <3>2. Ended /\ NoCell("ABSENT")
      BY <3>1 DEF Ended, Terminal, LedgerInv, ShapeInv
    <3> QED BY <3>1, <3>2, CurrentIsCollectible
  <2>2. HelperLeavesCollectible
    <3> SUFFICES ASSUME pc["helper"] = "done"
                 PROVE  Collectible \/ NoFailureEvidence \/ HalfRecoveredCell
      BY DEF HelperLeavesCollectible, At
    <3>1. Current /\ NoCell("ABSENT") /\ Ended
      BY DEF CollectInv, EndedInv
    <3> QED BY <3>1, CurrentIsCollectible
  <2> QED BY <2>1, <2>2 DEF Collectable
<1> QED BY <1>1, <1>2, <1>3, TypeCorrect, PTL DEF Spec

\* --status never calls a completed Job inconsistent: the run.status it judges after it saw the
\* Job Complete is terminal, whatever was written, killed or repeated since its first read.
THEOREM StatusIsConsistent ==
    ASSUME Background = FALSE
    PROVE  Spec => []StatusConsistent
<1>1. Init => LedgerInv /\ CollectInv /\ StatusInv
  <2>1. ASSUME Init PROVE CollectInv /\ StatusInv
    <3>1. /\ pc["parent"] = "lock" /\ pc["helper"] = "off" /\ ~handler["parent"] /\ job = "ACTIVE"
          /\ op = "idle"
      BY <2>1 DEF Init, Procs, Shells
    <3> QED BY <3>1 DEF CollectInv, StatusInv
  <2> QED BY <2>1, InitInv
<1>2. TypeOK /\ LedgerInv /\ CollectInv /\ StatusInv /\ [Next]_vars
         => LedgerInv' /\ CollectInv' /\ StatusInv'
  BY LedgerInvStep, CollectInvStep, StatusInvStep
<1>3. StatusInv => StatusConsistent
  BY DEF StatusInv, StatusConsistent
<1> QED BY <1>1, <1>2, <1>3, TypeCorrect, PTL DEF Spec

\* What --collect imported stays what the claim holds, whoever acts afterwards.
THEOREM ImportStays ==
    ASSUME Background = FALSE
    PROVE  Spec => []ImportIsFinal
<1>1. Init => LedgerInv /\ ImportInv
  BY InitInv
<1>2. TypeOK /\ LedgerInv /\ ImportInv /\ [Next]_vars => LedgerInv' /\ ImportInv'
  BY LedgerInvStep, ImportInvStep
<1>3. ImportInv => ImportIsFinal
  BY DEF ImportInv, ImportIsFinal
<1> QED BY <1>1, <1>2, <1>3, TypeCorrect, PTL DEF Spec

\* Without TERM in the traps, and for every number of cells and of command deaths, the
\* run tree implements RunLedger: every write of either shell, of recovery and of
\* cancellation is a step of the ledger or does not show in it.
THEOREM TreeImplementsLedger ==
    ASSUME Background = FALSE, Signals = FALSE
    PROVE  Spec => LedgerContract
<1>1. Init => LedgerInv /\ QuietInv
  BY InitInv
<1>2. TypeOK /\ LedgerInv /\ QuietInv /\ [Next]_vars => LedgerInv' /\ QuietInv'
  BY LedgerInvStep, QuietInvStep
<1>3. Init => Ledger!Init
  BY DEF Init, TreeInit, EveryCell, Cells, Ledger!Init, Ledger!Cells
<1>4. TypeOK /\ LedgerInv /\ QuietInv /\ [Next]_vars => [Ledger!Next]_(Ledger!ledger)
  <2> SUFFICES ASSUME TypeOK, LedgerInv, QuietInv, [Next]_vars
               PROVE  [Ledger!Next]_(Ledger!ledger)
    OBVIOUS
  <2>1. CASE CommandStep
    <3>1. UNCHANGED <<cell, run>>
      BY <2>1, CommandFrame
    <3> QED BY <3>1, LedgerStutter
  <2> QED BY <2>1, ParentRefines, ChildRefines, HelperRefines, StepKinds
<1> QED BY <1>1, <1>2, <1>3, <1>4, TypeCorrect, PTL DEF Spec, LedgerContract, Ledger!Spec
=============================================================================

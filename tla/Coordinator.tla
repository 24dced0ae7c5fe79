---------------------------- MODULE Coordinator ----------------------------
(***************************************************************************)
(* One segment's coordinator Job and everything that writes its run tree:  *)
(* the coordinator Pod (a parent shell and, per cell, a child shell), the  *)
(* TERM handler of both, and the helper Pod that runs --recover-lost or    *)
(* --finalize-cancelled for a later --status, --cancel or --collect.       *)
(*                                                                         *)
(* Each process is a program counter over its durable writes: one step per *)
(* atomic file replacement, in the order of the shell code, with the tests *)
(* the code makes before it.  SIGKILL, eviction or node loss may end the   *)
(* Pod, the child shell or the command with its helper between two steps.  *)
(***************************************************************************)
EXTENDS RunTree

CONSTANTS
    Signals,            \* TERM reaches the coordinator's traps before SIGKILL
    Background,         \* a user's own deletion of the Job leaves its Pod running for a while
    MaxDeaths           \* bound: lifecycle commands (with their helper) that die midway

ASSUME SignalsAssumption == Signals \in BOOLEAN
ASSUME BackgroundAssumption == Background \in BOOLEAN
ASSUME DeathsAssumption == MaxDeaths \in Nat

VARIABLES
    pc,                 \* next step of "parent", "child" and "helper"
    rc,                 \* exit status each of them carries
    cur,                \* executions the main loop has finished
    active,             \* COORDINATOR_ACTIVE_ID (0: empty)
    target,             \* the cell the helper's scan found RUNNING (0: none)
    handler,            \* the parent, the child runs its signal handler
    job,                \* the exact coordinator Job: "ACTIVE", "COMPLETE", "FAILED", "DELETED"
    deleting,           \* a foreground deletion of the Job is under way
    op,                 \* step of the local lifecycle command holding the local lock
    local,              \* state.sh: the local attempt lifecycle
    seen,               \* the remote_state that --status or the gate of --collect read
    imported,           \* --collect verified and imported the publication
    deaths              \* lifecycle commands that died

memory == <<cur, active, target, handler>>
control == <<job, deleting, op, local, seen, imported, deaths>>
vars == <<tree, pc, rc, memory, control>>

Shells == {"parent", "child"}
Procs == {"parent", "child", "helper"}

\* Steps of the parent after its traps are installed, before it exits.
Trapped == {"pick", "prepare", "prepareSummary", "wait", "reap",
            "failCopy", "failExit", "failStatus", "failSummary", "failManifest",
            "final", "finalSummary", "finalRun", "finalManifest", "return"}
ParentSteps == Trapped \cup
    {"lock", "owner", "snapshots", "cells", "health", "startupError", "startupSummary",
     "startupRun", "startupManifest", "running", "runningSummary", "handlerWait",
     "handlerCheck", "exit", "dead"}
ChildSteps ==
    {"off", "spawn", "setup", "bench", "pubCopy", "pubCopyAgain", "pubExit", "pubStatus",
     "pubSummary", "pubManifest", "failCopy", "failExit", "failStatus", "failSummary",
     "failManifest", "handlerCheck", "final", "finalSummary", "finalRun", "finalManifest",
     "exit"}
HelperSteps ==
    {"off", "lock", "owner", "mode", "snapshots", "cells", "scan", "scanExit", "loss",
     "summary", "run", "manifest", "repair", "repairSummary", "done", "failed"}
OpSteps == {"idle", "statusJob", "statusActive", "statusComplete", "statusFailed",
            "statusLost", "statusLedger", "recover",
            "driftObserve", "driftDelete", "driftRecover",
            "cancelObserve", "cancelDelete", "cancelFinalize", "cancelCheck",
            "collectWait", "collectRecover", "collectImport"}
LocalStates == {"SUBMITTED", "CANCEL_REQUESTED", "TERMINAL", "COLLECTION_IN_PROGRESS"}

TypeOK ==
    /\ tree \in Trees
    /\ pc \in [Procs -> ParentSteps \cup ChildSteps \cup HelperSteps]
    /\ pc["parent"] \in ParentSteps
    /\ pc["child"] \in ChildSteps
    /\ pc["helper"] \in HelperSteps
    /\ rc \in [Procs -> Codes]
    /\ cur \in 0..N
    /\ active \in 0..N
    /\ target \in 0..N
    /\ handler \in [Shells -> BOOLEAN]
    /\ job \in {"ACTIVE", "COMPLETE", "FAILED", "DELETED"}
    /\ deleting \in BOOLEAN
    /\ op \in OpSteps
    /\ local \in LocalStates
    /\ seen \in RunStatus \cup {"none"}
    /\ imported \in BOOLEAN
    /\ deaths \in 0..MaxDeaths

Init ==
    /\ TreeInit
    /\ pc = [p \in Procs |-> IF p = "parent" THEN "lock" ELSE "off"]
    /\ rc = [p \in Procs |-> "ok"]
    /\ cur = 0
    /\ active = 0
    /\ target = 0
    /\ handler = [p \in Shells |-> FALSE]
    /\ job = "ACTIVE"
    /\ deleting = FALSE
    /\ op = "idle"
    /\ local = "SUBMITTED"
    /\ seen = "none"
    /\ imported = FALSE
    /\ deaths = 0

At(p, step) == pc[p] = step
Goto(p, step) == pc' = [pc EXCEPT ![p] = step]
Step(p, from, to) == At(p, from) /\ Goto(p, to)
Exit(p, code) == rc' = [rc EXCEPT ![p] = code]
Outcome(p) == IF rc[p] = "ok" THEN "SUCCESS" ELSE "FAILED"

-----------------------------------------------------------------------------
(***************************************************************************)
(* _coordinator_initialize_state: the lock directory (a second Pod stops   *)
(* there), its owner record, the snapshots and one PENDING status per      *)
(* bundled execution.                                                      *)
(***************************************************************************)
AcquireLock ==
    /\ At("parent", "lock")
    /\ \/ tree.lock = "none" /\ WriteLock("bare") /\ Goto("parent", "owner") /\ UNCHANGED rc
       \/ tree.lock # "none" /\ Goto("parent", "exit") /\ Exit("parent", "err") /\ UNCHANGED tree
    /\ UNCHANGED <<memory, control>>

RecordOwner ==
    /\ Step("parent", "owner", "snapshots")
    /\ WriteLock("owned")
    /\ UNCHANGED <<rc, memory, control>>

InitializeSnapshots ==
    /\ Step("parent", "snapshots", "cells")
    /\ WriteSnapshots
    /\ UNCHANGED <<rc, memory, control>>

\* The lowest execution whose status file is missing becomes PENDING.
InitializeCell(c) ==
    /\ cell[c] = "ABSENT"
    /\ \A d \in 1..(c - 1) : cell[d] # "ABSENT"
    /\ WriteCell(c, "PENDING")

InitializeExecutionStates ==
    /\ At("parent", "cells")
    /\ \/ (\E c \in Cells : InitializeCell(c)) /\ UNCHANGED pc
       \/ NoCell("ABSENT") /\ Goto("parent", "health") /\ UNCHANGED tree
    /\ UNCHANGED <<rc, memory, control>>

(***************************************************************************)
(* Endpoint rows, integration overlay and the startup health check either  *)
(* pass, or _coordinator_finish_startup_failure publishes FAILED.          *)
(***************************************************************************)
StartupCheck ==
    /\ \/ Step("parent", "health", "running") /\ UNCHANGED rc
       \/ Step("parent", "health", "startupError") /\ Exit("parent", "err")
    /\ UNCHANGED <<tree, memory, control>>

StartupError ==
    /\ Step("parent", "startupError", "startupSummary")
    /\ WriteStartupError("err")
    /\ UNCHANGED <<rc, memory, control>>

StartupSummary ==
    /\ Step("parent", "startupSummary", "startupRun")
    /\ CanSummarize("FAILED")
    /\ WriteSummary("FAILED", "err")
    /\ UNCHANGED <<rc, memory, control>>

StartupRun ==
    /\ Step("parent", "startupRun", "startupManifest")
    /\ WriteRun("FAILED")
    /\ UNCHANGED <<rc, memory, control>>

StartupManifest ==
    /\ Step("parent", "startupManifest", "exit")
    /\ CanPublish
    /\ PublishManifest
    /\ UNCHANGED <<rc, memory, control>>

(***************************************************************************)
(* _coordinator_main: run.status RUNNING, its summary, the traps, the loop *)
(* over the bundled executions.  The loop's refusal of a RUNNING or FAILED *)
(* cell is dead code, see PickedCellIsPending.                             *)
(***************************************************************************)
StartRun ==
    /\ Step("parent", "running", "runningSummary")
    /\ WriteRun("RUNNING")
    /\ UNCHANGED <<rc, memory, control>>

StartSummary ==
    /\ Step("parent", "runningSummary", "pick")
    /\ CanSummarize("RUNNING")
    /\ WriteSummary("RUNNING", "none")
    /\ UNCHANGED <<rc, memory, control>>

PickExecution ==
    /\ \/ /\ cur < N
          /\ cell[cur + 1] = "PENDING"
          /\ active' = cur + 1
          /\ Step("parent", "pick", "prepare")
       \/ /\ cur = N
          /\ Step("parent", "pick", "final")
          /\ UNCHANGED active
    /\ UNCHANGED <<tree, rc, cur, target, handler, control>>

PrepareActive ==
    /\ Step("parent", "prepare", "prepareSummary")
    /\ WriteCell(active, "RUNNING")
    /\ UNCHANGED <<rc, memory, control>>

\* The summary, then the child shell is forked and waited for.
PrepareSummary ==
    /\ At("parent", "prepareSummary")
    /\ CanSummarize("RUNNING")
    /\ WriteSummary("RUNNING", "none")
    /\ pc' = [pc EXCEPT !["parent"] = "wait", !["child"] = "spawn"]
    /\ Exit("child", "ok")
    /\ UNCHANGED <<memory, control>>

Reap ==
    /\ At("parent", "wait")
    /\ At("child", "exit")
    /\ pc' = [pc EXCEPT !["parent"] = "reap", !["child"] = "off"]
    /\ Exit("parent", rc["child"])
    /\ UNCHANGED <<tree, memory, control>>

(***************************************************************************)
(* _coordinator_complete_active_execution: a child that ended without a    *)
(* terminal cell gets a failed one; a nonzero status ends the loop.        *)
(***************************************************************************)
CompleteActive ==
    /\ At("parent", "reap")
    /\ \/ /\ cell[active] = "RUNNING"
          /\ Exit("parent", IF rc["parent"] = "ok" THEN "err" ELSE rc["parent"])
          /\ Goto("parent", "failCopy")
          /\ UNCHANGED <<cur, active>>
       \/ /\ cell[active] = "SUCCESS" /\ rc["parent"] = "ok"
          /\ cur' = active
          /\ active' = 0
          /\ Goto("parent", "pick")
          /\ UNCHANGED rc
       \/ /\ \/ cell[active] = "FAILED"
             \/ cell[active] = "SUCCESS" /\ rc["parent"] # "ok"
          /\ rc["parent"] = "ok" => exitcode[active] \in {"err", "sig"}
          /\ Exit("parent", IF rc["parent"] = "ok" THEN exitcode[active] ELSE rc["parent"])
          /\ Goto("parent", "final")
          /\ UNCHANGED <<cur, active>>
    /\ UNCHANGED <<tree, target, handler, control>>

-----------------------------------------------------------------------------
(***************************************************************************)
(* _coordinator_finish_prebenchmark_failure, run by either shell for the   *)
(* active cell: partial results are copied when they can be, then the exit *)
(* code, the FAILED status, the summary and the manifest are replaced.     *)
(***************************************************************************)
FailCopy(p) ==
    /\ Step(p, "failCopy", "failExit")
    /\ AddArtifact(active, "results") \/ UNCHANGED tree
    /\ UNCHANGED <<rc, memory, control>>

FailExit(p) ==
    /\ Step(p, "failExit", "failStatus")
    /\ WriteExit(active, rc[p])
    /\ UNCHANGED <<rc, memory, control>>

FailStatus(p) ==
    /\ Step(p, "failStatus", "failSummary")
    /\ WriteCell(active, "FAILED")
    /\ UNCHANGED <<rc, memory, control>>

FailSummary(p) ==
    /\ Step(p, "failSummary", "failManifest")
    /\ CanSummarize("FAILED")
    /\ WriteSummary("FAILED", rc[p])
    /\ UNCHANGED <<rc, memory, control>>

\* The parent and both handlers finalize the run next; a child's early
\* failure only ends the child.
FailManifest(p) ==
    /\ Step(p, "failManifest", IF p = "parent" \/ handler[p] THEN "final" ELSE "exit")
    /\ CanPublish
    /\ PublishManifest
    /\ UNCHANGED <<rc, memory, control>>

(***************************************************************************)
(* _coordinator_finalize_run: attempt-level failure evidence when no cell  *)
(* carries the failure, then the summary, run.status and the manifest.     *)
(***************************************************************************)
FailureOutsideCell(p) ==
    /\ rc[p] # "ok"
    /\ active # 0 => cell[active] # "FAILED"

Finalize(p) ==
    /\ Step(p, "final", "finalSummary")
    /\ WriteStartupError(IF FailureOutsideCell(p) THEN rc[p] ELSE tree.startupError)
    /\ UNCHANGED <<rc, memory, control>>

FinalizeSummary(p) ==
    /\ Step(p, "finalSummary", "finalRun")
    /\ CanSummarize(Outcome(p))
    /\ WriteSummary(Outcome(p), rc[p])
    /\ UNCHANGED <<rc, memory, control>>

\* Mutant: the outcome is not published in the manifest.
FinalizeRunUnpublished(p) ==
    /\ Step(p, "finalRun", "exit")
    /\ WriteRun(Outcome(p))
    /\ UNCHANGED <<rc, memory, control>>

FinalizeRun(p) ==
    /\ Step(p, "finalRun", "finalManifest")
    /\ WriteRun(Outcome(p))
    /\ UNCHANGED <<rc, memory, control>>

FinalizeManifest(p) ==
    /\ Step(p, "finalManifest", IF p = "parent" /\ ~handler[p] THEN "return" ELSE "exit")
    /\ CanPublish
    /\ PublishManifest
    /\ UNCHANGED <<rc, memory, control>>

\* The last lines of _coordinator_main, its traps still set: exit 0 exactly
\* when the published outcome is SUCCESS.
MainReturns ==
    /\ Step("parent", "return", "exit")
    /\ Exit("parent", IF run # "SUCCESS" /\ rc["parent"] = "ok" THEN "err" ELSE rc["parent"])
    /\ UNCHANGED <<tree, memory, control>>

-----------------------------------------------------------------------------
(***************************************************************************)
(* _coordinator_run_one, the child shell: install the traps, validate the  *)
(* definition and choose the workers, then run the benchmark.  Any         *)
(* validation can fail, before or after the workers file is written.       *)
(***************************************************************************)
ChildTraps ==
    /\ Step("child", "spawn", "setup")
    /\ UNCHANGED <<tree, rc, memory, control>>

ChildSetup ==
    /\ At("child", "setup")
    /\ \/ AddArtifact(active, "workers") /\ Goto("child", "bench") /\ UNCHANGED rc
       \/ /\ AddArtifact(active, "workers") \/ UNCHANGED tree
          /\ Goto("child", "failCopy")
          /\ Exit("child", "err")
    /\ UNCHANGED <<memory, control>>

\* The benchmark (Elbencho, its overlays and artifact checks) succeeds or fails.
Benchmark ==
    /\ Step("child", "bench", "pubCopy")
    /\ \E code \in {"ok", "err"} : Exit("child", code)
    /\ UNCHANGED <<tree, memory, control>>

(***************************************************************************)
(* _coordinator_result_publication_hook.  When the copy fails before an    *)
(* exit code exists, run_one calls the hook once more with that failure.   *)
(***************************************************************************)
PublishCopy ==
    /\ Step("child", "pubCopy", "pubExit") \/ Step("child", "pubCopyAgain", "pubExit")
    /\ AddArtifact(active, "results")
    /\ UNCHANGED <<rc, memory, control>>

\* Mutant: a failed copy of the results is ignored.
PublishCopyIgnored ==
    /\ Step("child", "pubCopy", "pubExit")
    /\ UNCHANGED <<tree, rc, memory, control>>

PublishCopyFails ==
    /\ Step("child", "pubCopy", "pubCopyAgain") \/ Step("child", "pubCopyAgain", "exit")
    /\ Exit("child", "err")
    /\ UNCHANGED <<tree, memory, control>>

PublishExit ==
    /\ Step("child", "pubExit", "pubStatus")
    /\ WriteExit(active, rc["child"])
    /\ UNCHANGED <<rc, memory, control>>

PublishStatus ==
    /\ Step("child", "pubStatus", "pubSummary")
    /\ WriteCell(active, Outcome("child"))
    /\ UNCHANGED <<rc, memory, control>>

PublishSummary ==
    /\ Step("child", "pubSummary", "pubManifest")
    /\ \/ /\ rc["child"] = "ok"
          /\ CanSummarize("RUNNING")
          /\ WriteSummary("RUNNING", "none")
       \/ /\ rc["child"] # "ok"
          /\ CanSummarize("FAILED")
          /\ WriteSummary("FAILED", rc["child"])
    /\ UNCHANGED <<rc, memory, control>>

PublishCell ==
    /\ Step("child", "pubManifest", "exit")
    /\ CanPublish
    /\ PublishManifest
    /\ UNCHANGED <<rc, memory, control>>

\* The child alone dies (OOM kill, a failed write): the parent sees its status.
ChildDies ==
    /\ pc["child"] \notin {"off", "exit"}
    /\ Goto("child", "exit")
    /\ Exit("child", "err")
    /\ UNCHANGED <<tree, memory, control>>

-----------------------------------------------------------------------------
\* Mutant: the handler finalizes with the status the loop carried.
TermParentKeepsStatus ==
    /\ Signals
    /\ pc["parent"] \in Trapped
    /\ ~handler["parent"]
    /\ handler' = [handler EXCEPT !["parent"] = TRUE]
    /\ Goto("parent", IF At("parent", "wait") THEN "handlerWait" ELSE "handlerCheck")
    /\ UNCHANGED <<tree, rc, cur, active, target, control>>

(***************************************************************************)
(* _coordinator_signal_handler.  The kubelet sends TERM when the Job is    *)
(* being deleted, and when the Pod is evicted or its node is drained.  The *)
(* parent's handler passes it to the child and waits; the child's handler, *)
(* if its trap is already set, does the same finalization itself first.    *)
(***************************************************************************)
TermParent ==
    /\ Signals
    /\ pc["parent"] \in Trapped
    /\ ~handler["parent"]
    /\ handler' = [handler EXCEPT !["parent"] = TRUE]
    /\ Exit("parent", "sig")
    /\ Goto("parent", IF At("parent", "wait") THEN "handlerWait" ELSE "handlerCheck")
    /\ UNCHANGED <<tree, cur, active, target, control>>

TermChild ==
    /\ At("parent", "handlerWait")
    /\ pc["child"] \notin {"off", "exit"}
    /\ ~handler["child"]
    /\ Exit("child", "sig")
    /\ \/ Step("child", "spawn", "exit") /\ UNCHANGED handler
       \/ /\ ~At("child", "spawn")
          /\ Goto("child", "handlerCheck")
          /\ handler' = [handler EXCEPT !["child"] = TRUE]
    /\ UNCHANGED <<tree, cur, active, target, control>>

HandlerReap ==
    /\ At("parent", "handlerWait")
    /\ At("child", "exit")
    /\ pc' = [pc EXCEPT !["parent"] = "handlerCheck", !["child"] = "off"]
    /\ UNCHANGED <<tree, rc, memory, control>>

\* Mutant: the handler finalizes without failing its active cell.
HandlerCheckSkipped(p) ==
    /\ Step(p, "handlerCheck", "final")
    /\ UNCHANGED <<tree, rc, memory, control>>

HandlerCheck(p) ==
    /\ Step(p, "handlerCheck",
            IF active # 0 /\ cell[active] = "RUNNING" THEN "failCopy" ELSE "final")
    /\ UNCHANGED <<tree, rc, memory, control>>

-----------------------------------------------------------------------------
(***************************************************************************)
(* The coordinator Job, as the code observes it: backoffLimit 0 and        *)
(* restartPolicy Never, so one Pod runs the coordinator.  The Pod may be   *)
(* killed at any time; a deleted Job disappears after its Pod did.         *)
(***************************************************************************)
PodAlive == ~At("parent", "dead")

PodExits ==
    /\ Step("parent", "exit", "dead")
    /\ UNCHANGED <<tree, rc, memory, control>>

PodKilled ==
    /\ PodAlive
    /\ pc' = [pc EXCEPT !["parent"] = "dead", !["child"] = "off"]
    /\ Exit("parent", "err")
    /\ UNCHANGED <<tree, memory, control>>

\* Kubernetes starts another Pod for a Job whose Pod was lost: its shell
\* begins at the coordinator lock with nothing in memory.
DuplicatePod ==
    /\ job = "ACTIVE"
    /\ ~deleting
    /\ rc["parent"] # "ok"
    /\ Step("parent", "dead", "lock")
    /\ Exit("parent", "ok")
    /\ cur' = 0
    /\ active' = 0
    /\ handler' = [p \in Shells |-> FALSE]
    /\ UNCHANGED <<tree, target, control>>

JobFinishes ==
    /\ job = "ACTIVE"
    /\ ~PodAlive
    /\ job' = IF rc["parent"] = "ok" THEN "COMPLETE" ELSE "FAILED"
    /\ UNCHANGED <<tree, pc, rc, memory, deleting, op, local, seen, imported, deaths>>

JobDeleted ==
    /\ deleting
    /\ ~PodAlive
    /\ job' = "DELETED"
    /\ deleting' = FALSE
    /\ UNCHANGED <<tree, pc, rc, memory, op, local, seen, imported, deaths>>

\* A user deletes the exact Job behind the tool's back.  kubectl's default
\* background cascade removes the Job object first and its Pod later.
JobDeletedExternally ==
    /\ job # "DELETED"
    /\ ~deleting
    /\ ~imported
    /\ deleting' = ~Background
    /\ job' = IF Background THEN "DELETED" ELSE job
    /\ UNCHANGED <<tree, pc, rc, memory, op, local, seen, imported, deaths>>

-----------------------------------------------------------------------------
(***************************************************************************)
(* The helper Pod's program: _coordinator_recover_lost, or                 *)
(* _coordinator_finalize_cancelled when the command is --cancel.  Both     *)
(* first make sure of the durable lock (_coordinator_ensure_recovery_lock) *)
(* and both turn a RUNNING cell into FAILED, then write its exit code.     *)
(***************************************************************************)
Cancelling == op = "cancelFinalize"

HelperLock ==
    /\ Step("helper", "lock", "owner")
    /\ tree.lock = "none" => run = "PREPARED"
    /\ WriteLock(IF tree.lock = "none" THEN "bare" ELSE tree.lock)
    /\ UNCHANGED <<rc, memory, control>>

HelperOwner ==
    /\ Step("helper", "owner", "mode")
    /\ tree.lock = "bare" => run = "PREPARED"
    /\ WriteLock("owned")
    /\ UNCHANGED <<rc, memory, control>>

\* _coordinator_failed_by_signal: the one FAILED that cancellation replaces.
FailedBySignal == run = "FAILED" /\ tree.summary.rc = "sig"

\* Mutant: a terminal run is left as it is.
HelperModeNoRepair ==
    /\ Step("helper", "mode", IF Ended THEN "done" ELSE IF Cancelling THEN "scan" ELSE "snapshots")
    /\ UNCHANGED <<tree, rc, memory, control>>

HelperMode ==
    /\ \/ /\ Ended
          /\ ~(Cancelling /\ FailedBySignal)
          /\ Step("helper", "mode", "repair")
       \/ /\ Cancelling
          /\ Ended => FailedBySignal
          /\ Step("helper", "mode", "scan")
       \/ /\ ~Cancelling
          /\ ~Ended
          /\ Step("helper", "mode", "snapshots")
    /\ UNCHANGED <<tree, rc, memory, control>>

\* Startup repair is allowed only while run.status is still PREPARED.
HelperSnapshots ==
    /\ Step("helper", "snapshots", "cells")
    /\ tree.snap \/ run = "PREPARED"
    /\ WriteSnapshots
    /\ UNCHANGED <<rc, memory, control>>

HelperCells ==
    /\ At("helper", "cells")
    /\ \/ /\ run = "PREPARED"
          /\ \E c \in Cells : InitializeCell(c)
          /\ UNCHANGED pc
       \/ NoCell("ABSENT") /\ Goto("helper", "scan") /\ UNCHANGED tree
    /\ UNCHANGED <<rc, memory, control>>

FirstCell(status, c) ==
    /\ cell[c] = status
    /\ \A d \in 1..(c - 1) : cell[d] # status

\* The exit code recovery publishes: 143 for an interrupted cell or for work
\* that never started, else the recorded failure, else success.
RecoveryCode(code) ==
    \/ target # 0 /\ code = "sig"
    \/ /\ target = 0
       /\ \E c \in Cells : /\ FirstCell("FAILED", c)
                           /\ code = IF exitcode[c] \in {"err", "sig"} THEN exitcode[c] ELSE "err"
    \/ /\ target = 0
       /\ NoCell("FAILED")
       /\ code = IF NoCell("PENDING") THEN "ok" ELSE "sig"

\* Mutant: recovery resets an interrupted cell.
HelperScanResets ==
    /\ \/ \E c \in Cells :
             /\ FirstCell("RUNNING", c)
             /\ WriteCell(c, "PENDING")
             /\ Step("helper", "scan", "scan")
             /\ UNCHANGED rc
       \/ /\ NoCell("RUNNING")
          /\ Exit("helper", "sig")
          /\ Step("helper", "scan", IF Cancelling THEN "summary" ELSE "loss")
          /\ UNCHANGED tree
    /\ UNCHANGED <<memory, control>>

HelperScan ==
    /\ \/ \E c \in Cells :
             /\ FirstCell("RUNNING", c)
             /\ WriteCell(c, "FAILED")
             /\ target' = c
             /\ Step("helper", "scan", "scanExit")
             /\ UNCHANGED rc
       \/ /\ NoCell("RUNNING")
          /\ \E code \in Codes : /\ IF Cancelling THEN code = "sig" ELSE RecoveryCode(code)
                                 /\ Exit("helper", code)
          /\ Step("helper", "scan", IF Cancelling THEN "summary" ELSE "loss")
          /\ UNCHANGED <<tree, target>>
    /\ UNCHANGED <<cur, active, handler, control>>

HelperExit ==
    /\ Step("helper", "scanExit", "scan")
    /\ WriteExit(target, "sig")
    /\ UNCHANGED <<rc, memory, control>>

HelperLoss ==
    /\ Step("helper", "loss", "summary")
    /\ WriteLoss
    /\ UNCHANGED <<rc, memory, control>>

\* Mutant: the exit code is written where the outcome belongs.
HelperOutcomeIsCode == IF Cancelling THEN "CANCELLED" ELSE rc["helper"]

HelperOutcome == IF Cancelling THEN "CANCELLED" ELSE Outcome("helper")

HelperSummary ==
    /\ \/ /\ CanSummarize(HelperOutcome)
          /\ WriteSummary(HelperOutcome, rc["helper"])
          /\ Step("helper", "summary", "run")
       \/ ~CanSummarize(HelperOutcome) /\ Step("helper", "summary", "failed") /\ UNCHANGED tree
    /\ UNCHANGED <<rc, memory, control>>

HelperRun ==
    /\ Step("helper", "run", "manifest")
    /\ WriteRun(HelperOutcome)
    /\ UNCHANGED <<rc, memory, control>>

HelperManifest ==
    /\ \/ CanPublish /\ PublishManifest /\ Step("helper", "manifest", "done")
       \/ ~CanPublish /\ UNCHANGED tree /\ Step("helper", "manifest", "failed")
    /\ UNCHANGED <<rc, memory, control>>

(***************************************************************************)
(* _coordinator_repair_terminal_publication: rewrite the summary and the   *)
(* manifest of a terminal run, only from a consistent ledger.              *)
(***************************************************************************)
RepairCode(code) ==
    /\ NoCell("RUNNING")
    /\ \/ /\ run # "SUCCESS"
          /\ \E c \in Cells : /\ FirstCell("FAILED", c)
                              /\ exitcode[c] \in {"err", "sig"}
                              /\ code = IF run = "CANCELLED" THEN "sig" ELSE exitcode[c]
       \/ run = "SUCCESS" /\ NoCell("FAILED") /\ NoCell("PENDING") /\ code = "ok"
       \/ run = "FAILED" /\ NoCell("FAILED") /\ tree.startupError # "none" /\ code = "err"
       \/ run = "CANCELLED" /\ NoCell("FAILED") /\ code = "sig"

HelperRepair ==
    /\ \/ \E code \in Codes : /\ RepairCode(code)
                              /\ Exit("helper", code)
                              /\ Step("helper", "repair", "repairSummary")
       \/ /\ \A code \in Codes : ~RepairCode(code)
          /\ Step("helper", "repair", "failed")
          /\ UNCHANGED rc
    /\ UNCHANGED <<tree, memory, control>>

HelperRepairSummary ==
    /\ Step("helper", "repairSummary", "manifest")
    /\ CanSummarize(run)
    /\ WriteSummary(run, rc["helper"])
    /\ UNCHANGED <<rc, memory, control>>

-----------------------------------------------------------------------------
(***************************************************************************)
(* The lifecycle commands.  They exclude each other by the local lock, so  *)
(* at most one runs; each read of the run tree or of the Job, and each     *)
(* local transition, is a step of its own where another actor can act in   *)
(* between.  A command may die at any of its steps.                        *)
(***************************************************************************)
StartHelper ==
    /\ Goto("helper", "lock")
    /\ Exit("helper", "ok")
    /\ target' = 0
    /\ UNCHANGED <<cur, active, handler>>

\* No coordinator can be left: the exact Job failed or is absent.
CoordinatorLost == job \in {"FAILED", "DELETED"}

(***************************************************************************)
(* --status: _kubectl_status_selected_segment reads run.status, then the   *)
(* Job.  A Job that ended was observed after that read, so run.status is   *)
(* read again; a missing Job is judged by the first read.  It recovers a   *)
(* lost coordinator, or repairs the publication of a terminal one.  Worker *)
(* drift, which the environment decides, is looked for before, while the   *)
(* run seems open, and takes _kubectl_fail_drifted_attempt instead.        *)
(***************************************************************************)
StatusRead ==
    /\ op = "idle"
    /\ local = "SUBMITTED"
    /\ seen' = run
    /\ op' = "statusJob"
    /\ UNCHANGED <<tree, pc, rc, memory, job, deleting, local, imported, deaths>>

StatusObserve ==
    /\ op = "statusJob"
    /\ op' = CASE job = "ACTIVE" -> "statusActive"
                [] job = "COMPLETE" -> "statusComplete"
                [] job = "FAILED" -> "statusFailed"
                [] job = "DELETED" -> "statusLost"
    /\ UNCHANGED <<tree, pc, rc, memory, job, deleting, local, seen, imported, deaths>>

\* Mutant: the first read of run.status is judged.
StatusRefreshSkipped ==
    /\ op \in {"statusComplete", "statusFailed"}
    /\ op' = IF op = "statusFailed" THEN "statusLost" ELSE "statusLedger"
    /\ UNCHANGED <<tree, pc, rc, memory, job, deleting, local, seen, imported, deaths>>

StatusRefresh ==
    /\ op \in {"statusComplete", "statusFailed"}
    /\ seen' = run
    /\ op' = IF op = "statusFailed" THEN "statusLost" ELSE "statusLedger"
    /\ UNCHANGED <<tree, pc, rc, memory, job, deleting, local, imported, deaths>>

StatusDrift ==
    /\ op \in {"statusActive", "statusLost", "statusLedger"}
    /\ seen \notin Terminal
    /\ op' = "driftObserve"
    /\ seen' = "none"
    /\ UNCHANGED <<tree, pc, rc, memory, job, deleting, local, imported, deaths>>

StatusRecover ==
    /\ op = "statusLost"
    /\ op' = "recover"
    /\ seen' = "none"
    /\ StartHelper
    /\ UNCHANGED <<tree, job, deleting, local, imported, deaths>>

\* The query ends without a change: nothing is wrong, or a completed Job has an
\* open ledger, which it reports as LEDGER_INCONSISTENT.
StatusEnds ==
    /\ op \in {"statusActive", "statusLedger"}
    /\ op' = "idle"
    /\ seen' = "none"
    /\ UNCHANGED <<tree, pc, rc, memory, job, deleting, local, imported, deaths>>

DriftDelete ==
    /\ op = "driftObserve"
    /\ deleting' = (job # "DELETED")
    /\ op' = "driftDelete"
    /\ UNCHANGED <<tree, pc, rc, memory, job, local, seen, imported, deaths>>

DriftDeleted ==
    /\ op = "driftDelete"
    /\ job = "DELETED"
    /\ \/ ~Ended /\ op' = "driftRecover" /\ StartHelper /\ UNCHANGED local
       \/ /\ Ended
          /\ op' = "idle"
          /\ local' = IF run = "FAILED" THEN "TERMINAL" ELSE local
          /\ UNCHANGED <<pc, rc, memory>>
    /\ UNCHANGED <<tree, job, deleting, seen, imported, deaths>>

(***************************************************************************)
(* --cancel: kubectl_cancel_journaled_attempt reads the run outcome,       *)
(* journals CANCEL_REQUESTED, and _kubectl_cancel_selected_segment deletes *)
(* the exact Job, unless it is observed Complete, and finalizes the run.   *)
(***************************************************************************)
CancelRead ==
    /\ op = "idle"
    /\ local \in {"SUBMITTED", "CANCEL_REQUESTED"}
    /\ \/ Ended /\ local' = "TERMINAL" /\ UNCHANGED op
       \/ ~Ended /\ local' = "CANCEL_REQUESTED" /\ op' = "cancelObserve"
    /\ UNCHANGED <<tree, pc, rc, memory, job, deleting, seen, imported, deaths>>

CancelObserve ==
    /\ op = "cancelObserve"
    /\ \/ job = "COMPLETE" /\ op' = "cancelCheck" /\ UNCHANGED deleting
       \/ job # "COMPLETE" /\ op' = "cancelDelete" /\ deleting' = (job # "DELETED")
    /\ UNCHANGED <<tree, pc, rc, memory, job, local, seen, imported, deaths>>

CancelDeleted ==
    /\ op = "cancelDelete"
    /\ job = "DELETED"
    /\ op' = "cancelFinalize"
    /\ StartHelper
    /\ UNCHANGED <<tree, job, deleting, local, seen, imported, deaths>>

CancelCheck ==
    /\ op = "cancelCheck"
    /\ Ended
    /\ local' = "TERMINAL"
    /\ op' = "idle"
    /\ UNCHANGED <<tree, pc, rc, memory, job, deleting, seen, imported, deaths>>

(***************************************************************************)
(* --collect: _kubectl_collect_segment_gate recovers a lost coordinator    *)
(* first, demands a terminal run and waits for the exact Job to be         *)
(* quiescent; then the state tree is streamed, verified and imported.      *)
(***************************************************************************)
CollectGate ==
    /\ op = "idle"
    /\ local \in {"SUBMITTED", "TERMINAL", "COLLECTION_IN_PROGRESS"}
    /\ ~imported
    /\ \/ CoordinatorLost /\ op' = "collectRecover" /\ StartHelper /\ UNCHANGED seen
       \/ /\ ~CoordinatorLost
          /\ Ended
          /\ seen' = run
          /\ op' = "collectWait"
          /\ UNCHANGED <<pc, rc, memory>>
    /\ UNCHANGED <<tree, job, deleting, local, imported, deaths>>

CollectQuiescent ==
    /\ op = "collectWait"
    /\ job # "ACTIVE"
    /\ op' = "collectImport"
    /\ local' = IF local = "SUBMITTED" THEN "TERMINAL" ELSE local
    /\ UNCHANGED <<tree, pc, rc, memory, job, deleting, seen, imported, deaths>>

\* Mutant: what the gate read is imported, whatever the archive holds.
CollectImportUnverified ==
    /\ op = "collectImport"
    /\ local' = "COLLECTION_IN_PROGRESS"
    /\ imported' = TRUE
    /\ seen' = "none"
    /\ op' = "idle"
    /\ UNCHANGED <<tree, pc, rc, memory, job, deleting, deaths>>

\* The received tree is imported when its publication is complete and its
\* outcome is the one that the gate read.
CollectImport ==
    /\ op = "collectImport"
    /\ local' = "COLLECTION_IN_PROGRESS"
    /\ imported' = (Collectible /\ run = seen)
    /\ seen' = "none"
    /\ op' = "idle"
    /\ UNCHANGED <<tree, pc, rc, memory, job, deleting, deaths>>

(***************************************************************************)
(* The helper's exit status decides how its command goes on.               *)
(***************************************************************************)
AfterHelper ==
    CASE Cancelling /\ At("helper", "done") -> "cancelCheck"
      [] op = "collectRecover" /\ At("helper", "done") -> "collectWait"
      [] OTHER -> "idle"

HelperReturns ==
    /\ pc["helper"] \in {"done", "failed"}
    /\ Goto("helper", "off")
    /\ op' = AfterHelper
    /\ local' = IF op = "driftRecover" /\ At("helper", "done") /\ run = "FAILED"
                THEN "TERMINAL" ELSE local
    /\ seen' = IF op = "collectRecover" /\ At("helper", "done") THEN run ELSE "none"
    /\ UNCHANGED <<tree, rc, memory, job, deleting, imported, deaths>>

\* A foreground deletion, or the wait for a quiescent Job, runs into its timeout.
CommandTimesOut ==
    /\ \/ op = "collectWait" /\ job = "ACTIVE"
       \/ op \in {"driftDelete", "cancelDelete"} /\ job # "DELETED"
    /\ op' = "idle"
    /\ seen' = "none"
    /\ UNCHANGED <<tree, pc, rc, memory, job, deleting, local, imported, deaths>>

CommandDies ==
    /\ op # "idle"
    /\ deaths < MaxDeaths
    /\ deaths' = deaths + 1
    /\ op' = "idle"
    /\ seen' = "none"
    /\ Goto("helper", "off")
    /\ UNCHANGED <<tree, rc, memory, job, deleting, local, imported>>

-----------------------------------------------------------------------------
\* The attempt is collected: nothing is left to do.
Done == imported /\ UNCHANGED vars

ParentNext ==
    \/ AcquireLock \/ RecordOwner \/ InitializeSnapshots \/ InitializeExecutionStates
    \/ StartupCheck \/ StartupError \/ StartupSummary \/ StartupRun \/ StartupManifest
    \/ StartRun \/ StartSummary \/ PickExecution \/ PrepareActive \/ PrepareSummary
    \/ Reap \/ CompleteActive \/ HandlerReap \/ MainReturns \/ PodExits

ChildNext ==
    \/ ChildTraps \/ ChildSetup \/ Benchmark \/ PublishCopy \/ PublishCopyFails
    \/ PublishExit \/ PublishStatus \/ PublishSummary \/ PublishCell

ShellNext(p) ==
    \/ FailCopy(p) \/ FailExit(p) \/ FailStatus(p) \/ FailSummary(p) \/ FailManifest(p)
    \/ Finalize(p) \/ FinalizeSummary(p) \/ FinalizeRun(p) \/ FinalizeManifest(p)
    \/ HandlerCheck(p)

HelperNext ==
    \/ HelperLock \/ HelperOwner \/ HelperMode \/ HelperSnapshots \/ HelperCells
    \/ HelperScan \/ HelperExit \/ HelperLoss \/ HelperSummary \/ HelperRun
    \/ HelperManifest \/ HelperRepair \/ HelperRepairSummary \/ HelperReturns

CommandNext ==
    \/ StatusObserve \/ StatusRefresh \/ StatusDrift \/ StatusRecover \/ StatusEnds
    \/ DriftDelete \/ DriftDeleted \/ CancelObserve \/ CancelDeleted \/ CancelCheck
    \/ CollectQuiescent \/ CollectImport

UserNext == StatusRead \/ CancelRead \/ CollectGate

FaultNext ==
    \/ ChildDies \/ TermParent \/ TermChild \/ PodKilled \/ DuplicatePod
    \/ JobDeletedExternally \/ CommandTimesOut \/ CommandDies

Next ==
    \/ ParentNext \/ ChildNext \/ (\E p \in Shells : ShellNext(p))
    \/ JobFinishes \/ JobDeleted \/ HelperNext \/ CommandNext \/ UserNext
    \/ FaultNext \/ Done

(***************************************************************************)
(* Fairness: the shells, the helper and a running command go on, the Job   *)
(* controller fails a Job whose Pods keep failing (backoffLimit 0), TERM   *)
(* is passed on, and a user repeats --collect, or --cancel once it is      *)
(* requested, as often as it is refused.                                   *)
(* Nothing forces a fault, a status query or a first cancellation.         *)
(***************************************************************************)
Fairness ==
    /\ WF_vars(ParentNext)
    /\ WF_vars(ChildNext)
    /\ \A p \in Shells : WF_vars(ShellNext(p))
    /\ WF_vars(TermChild)
    /\ SF_vars(JobFinishes)
    /\ WF_vars(JobDeleted)
    /\ WF_vars(HelperNext)
    /\ WF_vars(CommandNext)
    /\ SF_vars(CollectGate)
    /\ SF_vars(local = "CANCEL_REQUESTED" /\ CancelRead)

Spec == Init /\ [][Next]_vars /\ Fairness

-----------------------------------------------------------------------------
(***************************************************************************)
(* Safety.                                                                 *)
(***************************************************************************)
\* Cells run in bundle order, one at a time: a cell that has left PENDING has
\* only successful predecessors (C-04: a failed cell stops later cells), also
\* after recovery, cancellation and a duplicate Pod.
CellsInOrder ==
    \A c \in Cells : cell[c] \notin {"ABSENT", "PENDING"} =>
                        \A d \in 1..(c - 1) : cell[d] = "SUCCESS"

\* The published outcome agrees with the cells, whoever published it: a
\* terminal run has no RUNNING cell, and SUCCESS means that every cell succeeded
\* (_coordinator_finalize_run, _coordinator_recover_lost, --finalize-cancelled).
OutcomeAgrees ==
    /\ Ended => NoCell("RUNNING")
    /\ run = "SUCCESS" => AllCells("SUCCESS")

\* A SUCCESS row of any manifest, also one a later crash leaves behind, stands
\* for committed evidence: status, exit code 0, workers and results are on the
\* claim (result_publication_hook copies the results before the status).
PublishedSuccessIsCommitted ==
    \A c \in Cells : manifest.cell[c] = "SUCCESS" =>
        /\ cell[c] = "SUCCESS"
        /\ exitcode[c] = "ok"
        /\ manifest.artifacts[c] = Artifacts

\* The sequencer starts the next storage target when this Job is Complete, and
\* --status reports a Complete Job with an open ledger as LEDGER_INCONSISTENT:
\* exit 0 means a published SUCCESS that --collect accepts.
CompleteJobIsCollectible == job = "COMPLETE" => run = "SUCCESS" /\ Collectible

\* The main loop never meets a cell it refuses to run, so its two refusal
\* branches need no recovery: a duplicate Pod stops at the lock before them.
PickedCellIsPending == At("parent", "pick") /\ cur < N => cell[cur + 1] = "PENDING"

\* No publication step of a shell is ever refused by _coordinator_write_summary
\* or _coordinator_publish_manifest, so a shell never stops half-published.
PublicationNeverRefused ==
    \A p \in Shells :
        /\ At(p, "finalSummary") => CanSummarize(Outcome(p))
        /\ At(p, "failSummary") => CanSummarize("FAILED")
        /\ pc[p] \in {"failManifest", "finalManifest", "pubManifest", "startupManifest"}
              => CanPublish

\* --status never calls a completed Job LEDGER_INCONSISTENT: when it has observed
\* the Job Complete, the run.status it judges is terminal, however long ago it
\* first read it ("a terminal Job observation is newer than the initial PVC read").
StatusConsistent == op = "statusLedger" => seen \in Terminal

\* Local TERMINAL means that the remote outcome is durably terminal; from then on
\* --cancel and --status no longer touch the run.
LocalTerminalIsTrue == local \in {"TERMINAL", "COLLECTION_IN_PROGRESS"} => Ended

\* A run that failed with neither a failed cell nor an attempt-level startup
\* record: _coordinator_recover_lost leaves one when no cell was running.
NoFailureEvidence == run = "FAILED" /\ tree.startupError = "none" /\ NoCell("FAILED")

\* A helper died between a recovered cell's FAILED and its exit code 143: the
\* cell keeps no exit code, or the 0 of a benchmark whose publication was cut off.
HalfRecoveredCell == \E c \in Cells : cell[c] = "FAILED" /\ exitcode[c] \notin {"err", "sig"}

\* Whatever recovery or cancellation ends with success is collectible, except the
\* two dead ends above (RecoveryMakesCollectible is the full claim).
HelperLeavesCollectible ==
    At("helper", "done") => Collectible \/ NoFailureEvidence \/ HalfRecoveredCell

\* "Exact Job evidence converts the attempt into collectible failure" (C-02).
RecoveryMakesCollectible == At("helper", "done") => Collectible

\* What --collect imported stays what the claim holds: no writer is left that
\* could change the tree behind the import.
ImportIsFinal == imported => Collectible

\* A success is true wherever it is claimed, whatever died in between: a SUCCESS
\* row of the manifest has its evidence on the claim, and a TERMINAL that --status
\* or --cancel wrote locally has a terminal run tree behind it.
SuccessIsTrue == PublishedSuccessIsCommitted /\ LocalTerminalIsTrue

\* Every way to an end leaves an attempt that --collect accepts: exit 0 of the
\* coordinator, and recovery and --finalize-cancelled apart from their dead ends.
Collectable == CompleteJobIsCollectible /\ HelperLeavesCollectible

\* The ledger stays sound while TERM interrupts either shell between any two of
\* its writes: cells in order, an outcome that agrees with them, and a main loop
\* that never meets a cell it refuses.
LedgerSound == CellsInOrder /\ OutcomeAgrees /\ PickedCellIsPending

\* The run tree implements the ledger contract of RunLedger: its cells and its
\* run status are those of the durable tree, and no other write shows in them.
Ledger == INSTANCE RunLedger WITH N <- N, cell <- tree.cell, run <- tree.run
LedgerContract == Ledger!Spec

-----------------------------------------------------------------------------
(***************************************************************************)
(* Liveness.                                                               *)
(***************************************************************************)
\* A cancellation that met a run tree whose cells were never initialized.
CancelledBeforeCells == local = "CANCEL_REQUESTED" /\ ~(tree.snap /\ NoCell("ABSENT"))

\* Every attempt is eventually collected, whatever was killed, deleted or
\* cancelled on the way, except for the three dead ends named above.
EventuallyCollected ==
    <>[](imported \/ NoFailureEvidence \/ CancelledBeforeCells \/ HalfRecoveredCell)
=============================================================================

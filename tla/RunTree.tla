------------------------------ MODULE RunTree ------------------------------
(***************************************************************************)
(* The durable state directory (STATE_DIR) of one attempt segment on its   *)
(* control claim: every file that the coordinator, lost-coordinator        *)
(* recovery and --finalize-cancelled read or replace, and the two          *)
(* procedures they share, _coordinator_write_summary and                   *)
(* _coordinator_publish_manifest.  Every file is replaced by an atomic     *)
(* rename, so a write is one step and a crash falls between two writes.    *)
(*                                                                         *)
(* File contents are abstracted to what the readers tell apart.  An exit   *)
(* code is "ok" (0), "err" (any other) or "sig" (143 or 130, the codes of  *)
(* the TERM and INT handlers); "none" stands for a file that is missing.   *)
(***************************************************************************)
EXTENDS Naturals

CONSTANT N              \* executions (cells) in this segment's control bundle

ASSUME NAssumption == N \in Nat \ {0}

(***************************************************************************)
(* The files, one field each:                                              *)
(*   lock          coordinator.lock: "none", "bare" (mkdir), "owned"       *)
(*   snap          env_used.* and batch snapshots are in STATE_DIR         *)
(*   cell          executions/<id>.status, "ABSENT" before initialization  *)
(*   exitcode      executions/<id>.exitcode                                *)
(*   artifacts     <id>.workers.tsv ("workers"), results/<id> ("results")  *)
(*   summary       run-summary.tsv: run_status and exit_code               *)
(*   startupError  startup-error.txt: the exit code its message names      *)
(*   loss          coordinator-loss.tsv exists                             *)
(*   run           run.status                                              *)
(*   manifest      publication-manifest.tsv: the rows it recorded          *)
(***************************************************************************)
VARIABLE tree

Cells == 1..N
Codes == {"ok", "err", "sig"}
Terminal == {"SUCCESS", "FAILED", "CANCELLED"}
RunStatus == {"PREPARED", "RUNNING"} \cup Terminal
CellTerminal == {"SUCCESS", "FAILED"}
CellStatus == {"ABSENT", "PENDING", "RUNNING"} \cup CellTerminal
Artifacts == {"workers", "results"}

Summaries == [status : RunStatus \cup {"none"}, rc : Codes \cup {"none"}]
NoSummary == [status |-> "none", rc |-> "none"]

Manifests == [cell : [Cells -> CellStatus],
              exitcode : [Cells -> Codes \cup {"none"}],
              artifacts : [Cells -> SUBSET Artifacts],
              summary : Summaries,
              startupError : Codes \cup {"none"},
              run : RunStatus \cup {"none"}]

EveryCell(value) == [c \in Cells |-> value]

\* No manifest has been published: a record that no publication can equal.
NoManifest == [cell |-> EveryCell("ABSENT"), exitcode |-> EveryCell("none"),
               artifacts |-> EveryCell({}), summary |-> NoSummary,
               startupError |-> "none", run |-> "none"]

Trees == [lock : {"none", "bare", "owned"},
          snap : BOOLEAN,
          cell : [Cells -> CellStatus],
          exitcode : [Cells -> Codes \cup {"none"}],
          artifacts : [Cells -> SUBSET Artifacts],
          summary : Summaries,
          startupError : Codes \cup {"none"},
          loss : BOOLEAN,
          run : RunStatus,
          manifest : Manifests]

(***************************************************************************)
(* kubectl_initialize_remote_control_tree: the submitted attempt before    *)
(* its coordinator Job starts.                                             *)
(***************************************************************************)
TreeInit ==
    tree = [lock |-> "none", snap |-> FALSE, cell |-> EveryCell("ABSENT"),
            exitcode |-> EveryCell("none"), artifacts |-> EveryCell({}),
            summary |-> NoSummary, startupError |-> "none", loss |-> FALSE,
            run |-> "PREPARED", manifest |-> NoManifest]

cell == tree.cell
exitcode == tree.exitcode
run == tree.run
manifest == tree.manifest

Settled(c) == cell[c] \in CellTerminal
Ended == run \in Terminal
AllCells(status) == \A c \in Cells : cell[c] = status
NoCell(status) == \A c \in Cells : cell[c] # status

\* One file, or one cell's file, is replaced.
WriteLock(value) == tree' = [tree EXCEPT !.lock = value]
WriteSnapshots == tree' = [tree EXCEPT !.snap = TRUE]
WriteCell(c, value) == tree' = [tree EXCEPT !.cell = [@ EXCEPT ![c] = value]]
WriteExit(c, value) == tree' = [tree EXCEPT !.exitcode = [@ EXCEPT ![c] = value]]
AddArtifact(c, a) ==
    tree' = [tree EXCEPT !.artifacts = [@ EXCEPT ![c] = tree.artifacts[c] \cup {a}]]
WriteStartupError(value) == tree' = [tree EXCEPT !.startupError = value]
WriteLoss == tree' = [tree EXCEPT !.loss = TRUE]
WriteRun(value) == tree' = [tree EXCEPT !.run = value]

(***************************************************************************)
(* _coordinator_write_summary reads every cell's status, and refuses an    *)
(* unreadable one, and a terminal summary while a cell is RUNNING.         *)
(***************************************************************************)
CanSummarize(status) ==
    /\ NoCell("ABSENT")
    /\ status \in Terminal => NoCell("RUNNING")

WriteSummary(status, code) ==
    tree' = [tree EXCEPT !.summary = [status |-> status, rc |-> code]]

(***************************************************************************)
(* _coordinator_publish_manifest hashes every ledger, result and snapshot  *)
(* file into a new manifest and renames it into place.  It fails, leaving  *)
(* the old manifest, when a terminal cell has no exit code.                *)
(***************************************************************************)
CanPublish ==
    /\ tree.snap
    /\ tree.summary.status # "none"
    /\ NoCell("ABSENT")
    /\ \A c \in Cells : Settled(c) => exitcode[c] # "none"

PublishManifest ==
    tree' = [tree EXCEPT !.manifest =
                [cell |-> cell,
                 exitcode |-> [c \in Cells |-> IF Settled(c) THEN exitcode[c] ELSE "none"],
                 artifacts |-> tree.artifacts,
                 summary |-> tree.summary,
                 startupError |-> tree.startupError,
                 run |-> run]]

(***************************************************************************)
(* _kubectl_validate_collected_publication: every manifest row still       *)
(* matches its file (size and digest), and the published states are        *)
(* complete terminal evidence.  This is what --collect demands before it   *)
(* imports anything.  A SUCCESS cell is taken to be of a kind that needs   *)
(* workload metadata among its results, the stricter of the two cases.     *)
(***************************************************************************)
RowsMatch ==
    /\ manifest.run = run
    /\ manifest.cell = cell
    /\ \A c \in Cells :
          /\ manifest.exitcode[c] \in {"none", exitcode[c]}
          /\ manifest.artifacts[c] \subseteq tree.artifacts[c]
    /\ manifest.summary = tree.summary
    /\ manifest.startupError \in {"none", tree.startupError}

CompleteCell(c) ==
    \/ /\ cell[c] = "SUCCESS"
       /\ manifest.exitcode[c] = "ok"
       /\ manifest.artifacts[c] = Artifacts
    \/ /\ cell[c] = "FAILED"
       /\ manifest.exitcode[c] \in {"err", "sig"}
    \/ cell[c] = "PENDING"

Collectible ==
    /\ RowsMatch
    /\ Ended
    /\ \A c \in Cells : CompleteCell(c)
    /\ run = "SUCCESS" => AllCells("SUCCESS")
    /\ run = "FAILED" => \/ ~NoCell("FAILED")
                         \/ manifest.startupError # "none"
=============================================================================

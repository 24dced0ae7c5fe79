----------------------------- MODULE RunLedger -----------------------------
(***************************************************************************)
(* What the run tree of one segment promises its readers, whoever writes   *)
(* it: the PVC run lifecycle and the per-cell lifecycle of the lifecycle   *)
(* contract, joined.  Cells start in order and one at a time, a cell never *)
(* goes back, a run ends once, and the outcome it ends with agrees with    *)
(* its cells.  Coordinator implements this specification whenever no TERM  *)
(* reaches the coordinator's traps.                                        *)
(***************************************************************************)
EXTENDS Naturals

CONSTANT N

VARIABLES
    cell,               \* status of every execution
    run                 \* run.status

ledger == <<cell, run>>

Cells == 1..N

Init ==
    /\ cell = [c \in Cells |-> "ABSENT"]
    /\ run = "PREPARED"

Open == run \in {"PREPARED", "RUNNING"}

\* The status files appear in order before anything runs.
Announce ==
    /\ run = "PREPARED"
    /\ \E c \in Cells :
          /\ cell[c] = "ABSENT"
          /\ \A d \in 1..(c - 1) : cell[d] = "PENDING"
          /\ cell' = [cell EXCEPT ![c] = "PENDING"]
    /\ UNCHANGED run

Begin ==
    /\ run = "PREPARED"
    /\ \A c \in Cells : cell[c] = "PENDING"
    /\ run' = "RUNNING"
    /\ UNCHANGED cell

\* A cell starts only when every earlier one has succeeded.
StartCell ==
    /\ run = "RUNNING"
    /\ \E c \in Cells :
          /\ cell[c] = "PENDING"
          /\ \A d \in 1..(c - 1) : cell[d] = "SUCCESS"
          /\ cell' = [cell EXCEPT ![c] = "RUNNING"]
    /\ UNCHANGED run

EndCell ==
    /\ run = "RUNNING"
    /\ \E c \in Cells, outcome \in {"SUCCESS", "FAILED"} :
          /\ cell[c] = "RUNNING"
          /\ cell' = [cell EXCEPT ![c] = outcome]
    /\ UNCHANGED run

\* A run ends only with every cell announced and none still running, and it
\* succeeds exactly when no cell is left that did not.
EndRun ==
    /\ Open
    /\ \A c \in Cells : cell[c] \notin {"ABSENT", "RUNNING"}
    /\ \/ run' = "SUCCESS" /\ \A c \in Cells : cell[c] = "SUCCESS"
       \/ run' \in {"FAILED", "CANCELLED"}
    /\ UNCHANGED cell

Next == Announce \/ Begin \/ StartCell \/ EndCell \/ EndRun

Spec == Init /\ [][Next]_ledger
=============================================================================

---------------------------- MODULE MCScenarios ----------------------------
(***************************************************************************)
(* Instances of Scenarios.  A run is given the scenarios of one substrate  *)
(* or of all of them; every kind of script occurs.                         *)
(***************************************************************************)
EXTENDS Scenarios

\* One scenario per kind of script that puts its attempts under cleanup.
MCArmed ==
    {<<"all", {"failure-resume", "ssh-shared-home", "kubectl-cancel"}>>,
     <<"kubectl", {"default-dio", "kubectl-coordinator-loss",
                   "kubectl-multi-target", "kubectl-multi-target-unbound"}>>,
     <<"ssh", {"retained-lifecycle", "ssh-shared-home"}>>}

MCSources == {"v1", "v2"}
=============================================================================

------------------------------ MODULE SshHome ------------------------------
(***************************************************************************)
(* The journaled transition of the SSH worker pool between separate and    *)
(* shared homes (ssh_home_transition.py and the pool operations of         *)
(* integration-test.py).  A transition is a sequence of steps; an          *)
(* exception in any of them leaves an unhealthy record, the death of the   *)
(* harness leaves whatever the last step wrote.  The module has no         *)
(* specification of its own: Scenarios composes it with the suite.         *)
(***************************************************************************)
EXTENDS Naturals

VARIABLES
    pool,    \* the StatefulSet: [mode, ready], mode "absent" before setup
    record,  \* the phase of ssh-home-transition.json, "none" without one
    tpc,     \* step of the running transition, "idle" outside one
    tgoal,   \* the operation asked for: preflight, enter or restore
    tmode    \* the mode the current reconciliation applies

homeVars == <<pool, record, tpc, tgoal, tmode>>

Modes == {"separate", "shared"}
Phases == {"applying-shared", "shared-ready", "restoring-separate", "unhealthy"}
Goals == {"preflight", "enter", "restore"}

HomeTypeOK ==
    /\ pool \in [mode : Modes \cup {"absent"}, ready : BOOLEAN]
    /\ record \in Phases \cup {"none"}
    /\ tpc \in {"idle", "load", "save", "scale", "apply", "up", "commit", "mark"}
    /\ tgoal \in Goals \cup {"none"}
    /\ tmode \in Modes

HomeInit ==
    /\ pool = [mode |-> "separate", ready |-> TRUE]
    /\ record = "none"
    /\ tpc = "idle" /\ tgoal = "none" /\ tmode = "separate"

\* PoolObservation.matches: mode, configuration and every pod ready.
Matches(mode) == pool.mode = mode /\ pool.ready

\* restore_separate does not look at the pool: it always reconciles.
Begin(goal) ==
    /\ tgoal' = goal
    /\ tpc' = IF goal = "restore" THEN "save" ELSE "load"
    /\ tmode' = "separate"
    /\ UNCHANGED <<pool, record>>

\* preflight: a pool that is separate and ready, with no record retained,
\* needs nothing; anything else is reconciled first.  end is what the suite
\* does when the transition is over, on what it does while it goes on.
Preflight(end, on) ==
    /\ tpc = "load"
    /\ IF record = "none" /\ Matches("separate") /\ tgoal = "preflight"
       THEN end /\ tpc' = "idle" /\ UNCHANGED tgoal
       ELSE /\ tpc' = IF record = "none" /\ Matches("separate")
                      THEN "mark" ELSE "save"
            /\ on /\ UNCHANGED tgoal
    /\ UNCHANGED <<pool, record, tmode>>

\* _reconcile_separate saves its record before it touches the pool.
SaveRestoring ==
    /\ tpc = "save"
    /\ record' = "restoring-separate" /\ tmode' = "separate" /\ tpc' = "scale"
    /\ UNCHANGED <<pool, tgoal>>

\* Plausible bug: the record is written after the pool has been changed.
MarkSharedLater ==
    /\ tpc = "mark"
    /\ tmode' = "shared" /\ tpc' = "scale"
    /\ UNCHANGED <<pool, record, tgoal>>

\* enter_shared, after its preflight: the record precedes the change.
MarkShared ==
    /\ tpc = "mark"
    /\ record' = "applying-shared" /\ tmode' = "shared" /\ tpc' = "scale"
    /\ UNCHANGED <<pool, tgoal>>

\* _reconcile_ssh_home_pool: scale an existing pool to zero, apply the
\* manifest of the mode, scale to two, wait and validate.
ScaleDown ==
    /\ tpc = "scale"
    /\ pool' = [pool EXCEPT !.ready = FALSE]
    /\ tpc' = "apply"
    /\ UNCHANGED <<record, tgoal, tmode>>

ApplyManifest ==
    /\ tpc = "apply"
    /\ pool' = [pool EXCEPT !.mode = tmode]
    /\ tpc' = "up"
    /\ UNCHANGED <<record, tgoal, tmode>>

ScaleUp ==
    /\ tpc = "up"
    /\ pool' = [pool EXCEPT !.ready = TRUE]
    /\ tpc' = "commit"
    /\ UNCHANGED <<record, tgoal, tmode>>

\* The observation after the reconciliation decides: a pool that does not
\* match is a failure, a separate pool clears the record, a shared pool
\* keeps one.  A preflight of enter_shared goes on to the shared mode.
CommitOk(end, on) ==
    /\ tpc = "commit" /\ Matches(tmode)
    /\ record' = IF tmode = "separate" THEN "none" ELSE "shared-ready"
    /\ IF tgoal = "enter" /\ tmode = "separate"
       THEN on /\ tpc' = "mark"
       ELSE end /\ tpc' = "idle"
    /\ UNCHANGED <<pool, tgoal, tmode>>

\* Any exception of the manager: an inspection that fails in preflight, the
\* commands of the reconciliation, a final observation that does not match.
TransitionFails(end) ==
    /\ tpc \in {"load", "scale", "apply", "up", "commit"}
    /\ record' = "unhealthy"
    /\ tpc' = "idle" /\ end
    /\ UNCHANGED <<pool, tgoal, tmode>>

\* The worker pods stop being ready, at any time.
PodLost ==
    /\ pool.ready
    /\ pool' = [pool EXCEPT !.ready = FALSE]
    /\ UNCHANGED <<record, tpc, tgoal, tmode>>
=============================================================================

----------------------------- MODULE Scenarios -----------------------------
(***************************************************************************)
(* The suite of the integration harness (run_filesystem_tests): it plans   *)
(* the selected scenarios, obtains a deployment archive, moves the SSH     *)
(* worker pool between home modes, runs each scenario's own script, and    *)
(* cleans up after each one.  A run can be killed at any step, be          *)
(* interrupted by the user, or fail in any command; MaxRuns runs follow    *)
(* one another over the same cluster, storage and state directory.         *)
(*                                                                         *)
(* A scenario is a script of operations.  The scripts are the runners of   *)
(* filesystem_integration.py; the operations are the calls they share.     *)
(***************************************************************************)
EXTENDS Planner, SshHome

CONSTANTS
    Selections,  \* the (substrate, requested names) a run may be given
    MaxRuns,     \* how many runs follow one another
    MaxFaults,   \* how many commands fail or pods are lost, in all
    MaxDeaths,   \* how many runs are killed
    Sources      \* the contents the working tree may have

ASSUME ScenariosAssumption ==
    /\ MaxRuns \in Nat /\ MaxFaults \in Nat /\ MaxDeaths \in Nat
    /\ \A s \in Selections : Selectable(s[1], s[2])

VARIABLES
    run, plan, pos, pc,   \* the run, its plan and the step it is at
    script, ip,           \* the operations of the scenario, the next one
    home,      \* home_mode, as the suite believes it
    rt,        \* runtime.values: the attempt root and the collected flag
    seen,      \* the terminal state the scenario last observed
    own,       \* what the scenario has created and not yet removed
    marker,    \* the wrapper's marker directory exists
    injected,  \* failures the wrapper has injected in this scenario
    primary,   \* what ends the suite, "none" so far; "unrestored" is an
               \* interrupt and then an error of the last restore
    cerr,      \* the cleanup of the current scenario failed or was cut off
    passed, failed,  \* positions recorded in work-items.json
    exit,      \* how the last run ended
    atts,      \* attempts that hold the claim Lease and their objects
    claim,     \* the unbound claim of kubectl-multi-target-unbound exists
    orphans,   \* what killed runs left in the storage and on the host
    source, cache, snap,  \* working tree, cache entries, snapshot in use
    faults, deaths

suiteVars == <<run, plan, pos, home, primary, passed, failed, exit>>
scenVars == <<script, rt, seen, own, marker, injected>>
worldVars == <<atts, claim, orphans>>
cacheVars == <<source, cache, snap>>
budget == <<faults, deaths>>
vars == <<suiteVars, pc, ip, cerr, scenVars, worldVars, cacheVars, homeVars, budget>>

Terminal == {"SUCCESS", "FAILED", "CANCELLED"}
Resources == {"data", "workspace", "results", "inject"}
NoRuntime == [root |-> 0, collected |-> FALSE]

-----------------------------------------------------------------------------
(* The scripts.  An operation names its result directory and the terminal  *)
(* states it accepts.                                                      *)

Op(do, dir, want) == [do |-> do, dir |-> dir, want |-> want]
Do(do) == Op(do, 0, {})

\* _kubectl_run_step: submit, wait for success, collect, assert.
KubectlStep(dir) ==
    <<Op("submit", dir, {}), Op("wait", dir, {"SUCCESS"}),
      Op("collect", dir, {"SUCCESS"}), Do("check")>>

\* _run_kubectl_success_scenario.
SuccessScript(steps) ==
    KubectlStep(1) \o (IF steps = 1 THEN <<>> ELSE KubectlStep(2))

\* _run_kubectl_failure_resume: the failed attempt is collected before it
\* is judged, and cleanup is armed again before the resume.
FailureResumeScript ==
    <<Op("submit", 1, {}), Op("wait", 1, Terminal),
      Op("collect", 1, Terminal), Op("expect", 1, {"FAILED", "CANCELLED"}),
      Do("check"), Do("rearm"), Op("resume", 1, {}),
      Op("wait", 1, {"SUCCESS"}), Op("collect", 1, {"SUCCESS"}), Do("check")>>

\* _run_kubectl_cancel: two cancellations, two collections.
CancelScript ==
    <<Op("submit", 1, {}), Op("running", 1, {}), Op("cancel", 1, {}),
      Op("cancel", 1, {}), Op("collect", 1, {"CANCELLED"}), Do("check")>>

\* _run_kubectl_mutated_attempt: coordinator loss resumes, endpoint drift
\* ends with the collected outcome.
MutatedScript(resumes) ==
    <<Op("submit", 1, {}), Op("running", 1, {}), Do("mutate"),
      Op("wait", 1, Terminal), Op("collect", 1, Terminal), Do("check")>>
    \o (IF resumes
        THEN <<Op("stop", 1, {"SUCCESS"}), Do("rearm"), Op("resume", 1, {}),
               Op("wait", 1, {"SUCCESS"}), Op("collect", 1, {"SUCCESS"}),
               Do("check")>>
        ELSE <<>>)

\* _run_mixed_batch on Kubernetes: the root is recorded once the start
\* command has returned.
MixedBatchScript ==
    <<Do("check"), Op("start", 1, {}), Op("wait", 1, {"FAILED"}),
      Op("collect", 1, {"FAILED"}), Do("check"), Do("rearm"),
      Op("resume", 1, {}), Op("wait", 1, {"SUCCESS"}),
      Op("collect", 1, {"SUCCESS"}), Do("check")>>

\* _run_kubectl_multi_target: the root is recorded before the start.
MultiTargetScript ==
    <<Do("check"), Op("arm", 1, {}), Op("start", 1, {}),
      Op("wait", 1, {"SUCCESS"}), Op("collect", 1, {"SUCCESS"}), Do("check")>>

\* _run_kubectl_same_namespace_targets has the same operations.
SameNamespaceScript == MultiTargetScript

\* _run_kubectl_multi_target_unbound: the start must fail and leave nothing.
UnboundScript ==
    <<Do("claim"), Do("check"), Op("arm", 1, {}), Op("refused", 1, {}),
      Do("check"), Do("disarm"), Do("unclaim")>>

\* _run_regular_scenario on SSH and Slurm.
RegularScript(steps) ==
    [i \in 1..2 * steps |-> IF i % 2 = 1 THEN Do("dispatch") ELSE Do("check")]

\* _run_failure_resume and _run_mixed_batch on SSH and Slurm: the whole of
\* it runs inside staged_failure_injection.
InjectedScript ==
    <<Do("stage"), Do("injected"), Do("check"), Do("again"), Do("check"),
      Do("unstage")>>

RegularSteps(name) ==
    CASE name = "retained-lifecycle" -> 4
      [] name = "ssh-single-big-file" -> 3
      [] OTHER -> 1

\* The dispatch of run_filesystem_tests for a Kubernetes item.
KubectlScript(name) ==
    CASE name = "kubectl-multi-target" -> MultiTargetScript
      [] name = "kubectl-multi-target-unbound" -> UnboundScript
      [] name = "kubectl-same-namespace-targets" -> SameNamespaceScript
      [] name \in {"failure-resume", "mdtest-sweep"} -> FailureResumeScript
      [] name = "kubectl-cancel" -> CancelScript
      [] name = "kubectl-coordinator-loss" -> MutatedScript(TRUE)
      [] name = "kubectl-endpoint-drift" -> MutatedScript(FALSE)
      [] name = "kubectl-retained-read" -> SuccessScript(2)
      [] OTHER -> SuccessScript(1)

Injects(item) ==
    /\ item.substrate # "kubectl"
    /\ item.scenario.name \in {"failure-resume", "mdtest-sweep", "mixed-batch"}

ScriptOf(item) ==
    CASE item.substrate = "kubectl" /\ item.scenario.name = "mixed-batch"
                                     -> MixedBatchScript
      [] item.substrate = "kubectl" /\ item.scenario.name # "mixed-batch"
                                     -> KubectlScript(item.scenario.name)
      [] Injects(item)               -> InjectedScript
      [] OTHER -> RegularScript(RegularSteps(item.scenario.name))

Work == {i \in DOMAIN plan : ~IsTransition(plan[i])}
UsesSsh == \E i \in Work : plan[i].substrate = "ssh"
Item == plan[pos]
At(do) == pc = "script" /\ ip <= Len(script) /\ script[ip].do = do
Dir == script[ip].dir
Want == script[ip].want
Mine == {a \in atts : a.run = run /\ a.pos = pos /\ a.dir = Dir}

TypeOK ==
    /\ HomeTypeOK
    /\ run \in 0..MaxRuns /\ pos \in 0..Len(plan) + 1 /\ ip \in Nat
    /\ pc \in {"off", "preflight", "fixture", "archive", "quarantine",
               "publish", "next", "moving", "moved", "prepare", "script",
               "failed", "attempt", "storage", "local", "cleaned",
               "unwind", "restoring"}
    /\ home \in Modes
    /\ rt \in [root : 0..2, collected : BOOLEAN]
    /\ seen \in Terminal \cup {"none"}
    /\ own \subseteq Resources /\ orphans \subseteq Resources
    /\ injected \in 0..1 /\ marker \in BOOLEAN
    /\ primary \in {"none", "scenario", "cleanup", "transition", "restore",
                    "fixture", "interrupt", "unrestored"}
    /\ cerr \in BOOLEAN /\ claim \in BOOLEAN
    /\ passed \subseteq Work /\ failed \subseteq Work
    /\ exit \in {"none", "passed", "failed", "died"}
    /\ atts \subseteq [run : 1..MaxRuns, pos : Nat, dir : 1..2,
                       state : Terminal \cup {"running"}]
    /\ source \in Sources /\ snap \in Sources
    /\ cache \in [Sources -> {"none", "good", "bad"}]
    /\ faults \in 0..MaxFaults /\ deaths \in 0..MaxDeaths

Init ==
    /\ HomeInit
    /\ run = 0 /\ plan = <<>> /\ pos = 0 /\ pc = "off"
    /\ script = <<>> /\ ip = 0
    /\ home = "separate" /\ rt = NoRuntime /\ seen = "none" /\ own = {}
    /\ injected = 0 /\ marker = FALSE /\ primary = "none" /\ cerr = FALSE
    /\ passed = {} /\ failed = {} /\ exit = "none"
    /\ atts = {} /\ claim = FALSE /\ orphans = {}
    /\ source \in Sources /\ snap = source
    /\ cache = [v \in Sources |-> "none"]
    /\ faults \in 0..MaxFaults /\ deaths \in 0..MaxDeaths

Goto(label) == pc' = label
Fault == faults > 0 /\ faults' = faults - 1 /\ UNCHANGED deaths
NoFault == UNCHANGED budget

\* The suite leaves its loop with an error; the first one is kept.
Abort(kind) ==
    /\ primary' = IF primary = "none" THEN kind ELSE primary
    /\ Goto("unwind")

-----------------------------------------------------------------------------
(* A run begins: the plan, the preflight of the SSH pool, the fixture and  *)
(* the deployment archive.                                                 *)

Start ==
    /\ pc = "off" /\ run < MaxRuns
    /\ \E s \in Selections : plan' = PlanScenarios(s[1], s[2])
    /\ IF UsesSsh' THEN Goto("preflight") /\ Begin("preflight")
                   ELSE Goto("fixture") /\ UNCHANGED homeVars
    /\ run' = run + 1 /\ pos' = 0 /\ script' = <<>> /\ ip' = 0 /\ home' = "separate"
    /\ rt' = NoRuntime /\ seen' = "none" /\ own' = {} /\ injected' = 0
    /\ marker' = FALSE
    /\ primary' = "none" /\ cerr' = FALSE
    /\ passed' = {} /\ failed' = {} /\ exit' = "none"
    /\ orphans' = orphans \cup own
    /\ UNCHANGED <<atts, claim, cacheVars, budget>>

\* Plausible bug: a restore that succeeds makes the run a success.
TransitionDoneForgets ==
    /\ home' = IF pc = "moving" THEN plan[pos].transition ELSE home
    /\ Goto(CASE pc = "preflight" -> "fixture"
              [] pc = "moving" -> "moved"
              [] OTHER -> "off")
    /\ exit' = IF pc = "restoring" THEN "passed" ELSE exit
    /\ UNCHANGED primary

\* What follows a transition of the pool that succeeded: the suite believes
\* the new mode only now, and validates the fixture again.
TransitionDone ==
    /\ home' = IF pc = "moving" THEN plan[pos].transition ELSE home
    /\ Goto(CASE pc = "preflight" -> "fixture"
              [] pc = "moving" -> "moved"
              [] OTHER -> "off")
    /\ exit' = IF pc = "restoring"
               THEN IF primary = "none" THEN "passed" ELSE "failed"
               ELSE exit
    /\ UNCHANGED primary

TransitionGoesOn == UNCHANGED <<pc, home, exit, primary>>

\* A transition that failed: a restore keeps the error the suite already has.
\* An interrupt is not kept in suite_error, so the error of the restore follows it.
TransitionRaised ==
    /\ CASE pc = "preflight" ->
              /\ primary' = "transition" /\ Goto("off") /\ exit' = "failed"
         [] pc = "moving" -> Abort("transition") /\ UNCHANGED exit
         [] OTHER ->
              /\ primary' = CASE primary = "none" -> "restore"
                             [] primary = "interrupt" -> "unrestored"
                             [] OTHER -> primary
              /\ Goto("off") /\ exit' = "failed"
    /\ UNCHANGED home

TransitionStep ==
    /\ pc \in {"preflight", "moving", "restoring"} /\ NoFault
    /\ \/ Preflight(TransitionDone, TransitionGoesOn)
       \/ CommitOk(TransitionDone, TransitionGoesOn)
       \/ /\ SaveRestoring \/ MarkShared \/ ScaleDown \/ ApplyManifest \/ ScaleUp
          /\ TransitionGoesOn
    /\ UNCHANGED <<run, plan, pos, passed, failed, ip, cerr, scenVars,
                   worldVars, cacheVars>>

TransitionError ==
    /\ pc \in {"preflight", "moving", "restoring"}
    /\ IF tpc = "commit" /\ ~Matches(tmode) THEN NoFault ELSE Fault
    /\ TransitionFails(TransitionRaised)
    /\ UNCHANGED <<run, plan, pos, passed, failed, ip, cerr, scenVars,
                   worldVars, cacheVars>>

\* _require_fixture and _ensure_elbencho change nothing of the cluster.
RequireFixture ==
    /\ pc \in {"fixture", "moved"}
    /\ \/ /\ UsesSsh => pool.ready
          /\ Goto(IF pc = "fixture" THEN "archive" ELSE "next")
          /\ NoFault /\ UNCHANGED <<primary, exit>>
       \/ /\ IF UsesSsh /\ ~pool.ready THEN NoFault ELSE Fault
          /\ IF pc = "fixture"
             THEN primary' = "fixture" /\ Goto("off") /\ exit' = "failed"
             ELSE Abort("fixture") /\ UNCHANGED exit
    /\ UNCHANGED <<run, plan, pos, home, passed, failed, ip, cerr, scenVars,
                   worldVars, cacheVars, homeVars>>

\* _valid_entry: the identity, the size and the digest of the archive.
CacheHit(v) == cache[v] = "good"

\* get_or_build_deployment: the snapshot fixes the key; a valid entry is
\* reused, otherwise the builder runs on a copy of the snapshot.
BuildArchive ==
    /\ pc = "archive"
    /\ snap' = source
    /\ \/ CacheHit(source) /\ Goto("next") /\ NoFault /\ UNCHANGED primary
       \/ /\ ~CacheHit(source) /\ Goto("quarantine")
          /\ NoFault /\ UNCHANGED primary
       \/ ~CacheHit(source) /\ Goto("off") /\ primary' = "fixture" /\ Fault
    /\ exit' = IF pc' = "off" THEN "failed" ELSE exit
    /\ UNCHANGED <<run, plan, pos, home, passed, failed, ip, cerr, scenVars,
                   worldVars, source, cache, homeVars>>

\* _replace_invalid_entry: an invalid entry is moved away, then the new one
\* is renamed into place, complete.
PublishArchive ==
    /\ pc \in {"quarantine", "publish"}
    /\ IF pc = "quarantine"
       THEN cache' = [cache EXCEPT ![snap] = "none"] /\ Goto("publish")
       ELSE cache' = [cache EXCEPT ![snap] = "good"] /\ Goto("next")
    /\ NoFault
    /\ UNCHANGED <<suiteVars, ip, cerr, scenVars, worldVars, source, snap,
                   homeVars>>

-----------------------------------------------------------------------------
(* The loop over the plan.                                                 *)

NextStep ==
    /\ pc = "next" /\ NoFault
    /\ pos' = pos + 1
    /\ IF pos = Len(plan)
       THEN Goto("unwind") /\ UNCHANGED homeVars
       ELSE IF IsTransition(plan[pos + 1])
            THEN /\ Goto("moving")
                 /\ Begin(IF plan[pos + 1].transition = "shared"
                          THEN "enter" ELSE "restore")
            ELSE Goto("prepare") /\ UNCHANGED homeVars
    /\ script' = IF pos = Len(plan) \/ IsTransition(plan[pos + 1])
                 THEN <<>> ELSE ScriptOf(plan[pos + 1])
    /\ ip' = 1 /\ rt' = NoRuntime /\ seen' = "none" /\ injected' = 0
    /\ marker' = FALSE
    /\ cerr' = FALSE
    /\ UNCHANGED <<run, plan, home, primary, passed, failed, exit, own,
                   worldVars, cacheVars>>

\* _prepare_scenario_runtime stages the workspace, then the data; the names
\* of both are known to the cleanup before anything is created.
Prepare ==
    /\ pc = "prepare"
    /\ \/ own' = own \cup {"workspace", "data"} /\ Goto("script") /\ NoFault
       \/ \E r \in SUBSET {"workspace", "data"} :
             own' = own \cup r /\ Goto("failed") /\ Fault
    /\ UNCHANGED <<suiteVars, ip, cerr, script, rt, seen, marker, injected, worldVars,
                   cacheVars, homeVars>>

\* The last operation returned: cleanup follows without an error.
ScriptDone ==
    /\ pc = "script" /\ ip > Len(script) /\ NoFault
    /\ Goto("attempt")
    /\ UNCHANGED <<suiteVars, ip, cerr, scenVars, worldVars, cacheVars, homeVars>>

Advance == ip' = ip + 1 /\ UNCHANGED pc
Raise == Goto("failed") /\ UNCHANGED ip
opFrame == <<suiteVars, cerr, cacheVars, homeVars, orphans>>

\* _run_kubectl_command without a lifecycle option.  The Lease of the claim
\* admits one attempt.  A command that fails or runs into its timeout may
\* have created its attempt; the arming of _arm_incomplete_kubectl_submit_cleanup
\* finds the root of a sweep, while a batch root has another name.
Submit ==
    /\ At("submit") \/ At("start")
    /\ LET attempt == [run |-> run, pos |-> pos, dir |-> Dir, state |-> "running"]
       IN  \/ /\ atts = {} /\ atts' = {attempt}
              /\ rt' = [rt EXCEPT !.root = Dir] /\ Advance /\ NoFault
           \/ /\ IF atts = {} THEN Fault ELSE NoFault
              /\ Raise /\ UNCHANGED <<atts, rt>>
           \/ /\ atts = {} /\ Fault /\ Raise /\ atts' = {attempt}
              /\ rt' = IF At("submit") /\ rt.root = 0
                       THEN [rt EXCEPT !.root = Dir] ELSE rt
    /\ UNCHANGED <<opFrame, script, seen, own, marker, injected, claim>>

\* --resume starts the next attempt of a root that is already recorded.
Resume ==
    /\ At("resume")
    /\ LET attempt == [run |-> run, pos |-> pos, dir |-> Dir, state |-> "running"]
       IN  \/ atts = {} /\ atts' = {attempt} /\ Advance /\ NoFault
           \/ /\ IF atts = {} THEN Fault ELSE NoFault
              /\ Raise /\ UNCHANGED atts
           \/ atts = {} /\ Fault /\ Raise /\ atts' = {attempt}
    /\ UNCHANGED <<opFrame, scenVars, claim>>

\* An attempt ends by itself.
AttemptEnds ==
    /\ \E a \in atts, s \in {"SUCCESS", "FAILED"} :
          /\ a.state = "running"
          /\ atts' = (atts \ {a}) \cup {[a EXCEPT !.state = s]}
    /\ UNCHANGED <<suiteVars, pc, ip, cerr, scenVars, claim, orphans,
                   cacheVars, homeVars, budget>>

\* _wait_for_kubectl_terminal_state polls --status until a terminal state
\* or the deadline; the caller judges the state.
Wait ==
    /\ At("wait") /\ NoFault
    /\ \/ \E a \in Mine :
             /\ a.state \in Terminal /\ seen' = a.state
             /\ IF a.state \in Want THEN Advance ELSE Raise
       \/ Raise /\ UNCHANGED seen
    /\ UNCHANGED <<opFrame, script, rt, own, marker, injected, atts, claim>>

\* _kubectl_wait_for_state: a terminal state or the deadline is an error.
WaitRunning ==
    /\ At("running") /\ NoFault
    /\ \/ (\E a \in Mine : a.state = "running") /\ Advance
       \/ Raise
    /\ UNCHANGED <<opFrame, scenVars, atts, claim>>

\* --cancel does not change an attempt that has ended.
Cancel ==
    /\ At("cancel")
    /\ \/ /\ atts' = {IF a \in Mine /\ a.state = "running"
                      THEN [a EXCEPT !.state = "CANCELLED"] ELSE a : a \in atts}
          /\ Advance /\ NoFault
       \/ Raise /\ UNCHANGED atts /\ Fault
    /\ UNCHANGED <<opFrame, scenVars, claim>>

\* --collect releases the attempt; the flag is set only when the command
\* reported the accepted state.
Collect ==
    /\ At("collect")
    /\ \/ /\ \A a \in Mine : a.state \in Want
          /\ atts' = atts \ Mine /\ rt' = [rt EXCEPT !.collected = TRUE]
          /\ Advance /\ NoFault
       \/ /\ \E a \in Mine : a.state \notin Want
          /\ atts' = atts \ {a \in Mine : a.state \in Terminal}
          /\ Raise /\ NoFault /\ UNCHANGED rt
       \/ /\ atts' \in {atts, atts \ Mine}
          /\ Raise /\ Fault /\ UNCHANGED rt
    /\ UNCHANGED <<opFrame, script, seen, own, marker, injected, claim>>

\* Assertions on the collected results, the datasets and the report; also
\* the commands that prepare groups, and the kill or deletion of a pod.
Check ==
    /\ At("check") \/ At("mutate")
    /\ \/ Advance /\ NoFault
       \/ Raise /\ Fault
    /\ UNCHANGED <<opFrame, scenVars, atts, claim>>

\* The scenario judges the terminal state it has seen.
Judge ==
    /\ At("expect") \/ At("stop")
    /\ NoFault
    /\ IF At("stop")
       THEN /\ ip' = IF seen \in Want THEN Len(script) + 1 ELSE ip + 1
            /\ UNCHANGED pc
       ELSE IF seen \in Want THEN Advance ELSE Raise
    /\ UNCHANGED <<opFrame, scenVars, atts, claim>>

\* Plausible bug: the resumed attempt is not put under cleanup again.
ArmNotAgain ==
    /\ At("arm") \/ At("rearm") \/ At("disarm")
    /\ NoFault
    /\ rt' = [root |-> IF At("arm") THEN Dir ELSE rt.root,
              collected |-> IF At("arm") THEN FALSE
                            ELSE rt.collected \/ At("disarm")]
    /\ Advance
    /\ UNCHANGED <<opFrame, script, seen, own, marker, injected, atts, claim>>

\* The scenario puts an attempt under the cleanup before it starts it, puts
\* it there again before a resume, or declares that there is none.
Arm ==
    /\ At("arm") \/ At("rearm") \/ At("disarm")
    /\ NoFault
    /\ rt' = [root |-> IF At("arm") THEN Dir ELSE rt.root,
              collected |-> At("disarm")]
    /\ Advance
    /\ UNCHANGED <<opFrame, script, seen, own, marker, injected, atts, claim>>

\* _create_unbound_claim: create refuses a claim that exists, and then the
\* scenario never reaches the block whose end deletes it.
CreateClaim ==
    /\ At("claim")
    /\ \/ ~claim /\ claim' = TRUE /\ Advance /\ NoFault
       \/ claim /\ Raise /\ NoFault /\ UNCHANGED claim
       \/ ~claim /\ Raise /\ Fault /\ UNCHANGED claim
    /\ UNCHANGED <<opFrame, scenVars, atts>>

\* --start with an unbound claim fails and rolls back.  A Lease that is
\* still held makes it fail as well.
StartRefused ==
    /\ At("refused")
    /\ \/ Advance /\ NoFault
       \/ Raise /\ Fault
    /\ UNCHANGED <<opFrame, scenVars, atts, claim>>

\* _delete_unbound_claim only warns when the deletion fails.
DeleteClaim ==
    /\ At("unclaim")
    /\ \/ claim' = FALSE /\ NoFault
       \/ UNCHANGED claim /\ Fault
    /\ Advance
    /\ UNCHANGED <<opFrame, scenVars, atts>>

\* _run_regular_step on SSH leaves its results in the homes of the workers.
Dispatch ==
    /\ At("dispatch")
    /\ own' = IF Item.substrate = "ssh" THEN own \cup {"results"} ELSE own
    /\ \/ (Item.substrate = "ssh" => pool.ready) /\ Advance /\ NoFault
       \/ Raise /\ (IF Item.substrate = "ssh" /\ ~pool.ready THEN NoFault ELSE Fault)
    /\ UNCHANGED <<opFrame, script, rt, seen, marker, injected, atts, claim>>

\* stage_failure_injection and cleanup_failure_injection.
Stage ==
    /\ At("stage")
    /\ own' = own \cup {"inject"}
    /\ (Advance /\ NoFault) \/ (Raise /\ Fault)
    /\ UNCHANGED <<opFrame, script, rt, seen, marker, injected, atts, claim>>

Unstage ==
    /\ At("unstage")
    /\ \/ own' = own \ {"inject"} /\ Advance /\ NoFault
       \/ UNCHANGED own /\ Raise /\ Fault
    /\ UNCHANGED <<opFrame, script, rt, seen, marker, injected, atts, claim>>

\* The wrapper: the target invocation that makes the marker runs the
\* delegate; success becomes the injected failure, while a delegate that
\* fails on its own takes the marker back.
Wrapper(delegate) ==
    /\ marker' = (delegate = "ok")
    /\ injected' = IF delegate = "ok" THEN injected + 1 ELSE injected

\* The first command must fail: by the injection, or by a delegate that
\* fails on its own.  The second runs the target cell again and must
\* succeed: without the marker it is the one that gets the failure.
RunInjected ==
    /\ At("injected") /\ ~marker
    /\ own' = IF Item.substrate = "ssh" THEN own \cup {"results"} ELSE own
    /\ \/ Wrapper("ok") /\ Advance /\ NoFault
       \/ Wrapper("failed") /\ Advance /\ Fault
    /\ UNCHANGED <<opFrame, script, rt, seen, atts, claim>>

RunAgain ==
    /\ At("again")
    /\ IF marker
       THEN /\ (Advance /\ NoFault) \/ (Raise /\ Fault)
            /\ UNCHANGED <<marker, injected>>
       ELSE Wrapper("ok") /\ Raise /\ NoFault
    /\ UNCHANGED <<opFrame, script, rt, seen, own, atts, claim>>

\* An exception leaves the script.  The staging context and the block of
\* the unbound claim end first, and neither replaces the exception; then the
\* item is recorded as failed and diagnostics are kept.
Fail ==
    /\ pc = "failed" /\ Goto("attempt")
    /\ failed' = failed \cup {pos} /\ primary' = "scenario"
    /\ \/ own' = own \ {"inject"} /\ NoFault
       \/ "inject" \in own /\ own' = own /\ Fault
    /\ claim' \in IF Item.scenario.name = "kubectl-multi-target-unbound" /\ ip > 1
                  THEN BOOLEAN \cap {FALSE, claim} ELSE {claim}
    /\ UNCHANGED <<run, plan, pos, home, passed, exit, ip, cerr, script, rt, seen,
                   marker, injected, atts, orphans, cacheVars, homeVars>>

\* The user interrupts a scenario: the handlers that name Exception, OSError
\* or SubprocessError do not run, the blocks that end with a cleanup do.  A
\* submission that had created its attempt leaves it unarmed; any other
\* operation that is cut off leaves what it leaves when it fails.  An
\* interrupt while a failure is diagnosed finds the item recorded as failed.
Interrupt ==
    /\ pc \in {"prepare", "script", "failed"} /\ Fault
    /\ primary' = "interrupt" /\ Goto("attempt")
    /\ failed' \in {failed} \cup (IF pc = "failed" THEN {failed \cup {pos}} ELSE {})
    /\ own' \in {own, own \ {"inject"}}
    /\ claim' \in IF Item.scenario.name = "kubectl-multi-target-unbound" /\ ip > 1
                  THEN BOOLEAN \cap {FALSE, claim} ELSE {claim}
    /\ \/ UNCHANGED atts
       \/ /\ At("submit") \/ At("start")
          /\ atts = {}
          /\ atts' = {[run |-> run, pos |-> pos, dir |-> Dir, state |-> "running"]}
    /\ UNCHANGED <<run, plan, pos, home, passed, exit, ip, cerr, script, rt,
                   seen, marker, injected, orphans, cacheVars, homeVars>>

-----------------------------------------------------------------------------
(* The cleanup of a scenario: every operation is attempted, the failures   *)
(* are joined.                                                             *)

CleanupStep(removed, left, then) ==
    /\ Goto(then)
    /\ \/ own' = own \ removed /\ atts' = left /\ NoFault /\ UNCHANGED cerr
       \/ /\ own' \in {own, own \ removed} /\ atts' \in {atts, left}
          /\ cerr' = TRUE /\ Fault

\* _cleanup_kubectl_attempt: nothing without a recorded root or after a
\* collection, otherwise --cancel and --collect on the recorded root.
UnderCleanup ==
    IF rt.root = 0 \/ rt.collected THEN {}
    ELSE {a \in atts : a.run = run /\ a.pos = pos /\ a.dir = rt.root}

\* _cleanup_ssh_remote_results removes by a pattern, so the results of
\* earlier runs go as well.
CleanAttempt ==
    /\ pc = "attempt"
    /\ CASE Item.substrate = "ssh" -> CleanupStep({"results"}, atts, "storage")
         [] Item.substrate = "kubectl" ->
              CleanupStep({}, atts \ UnderCleanup, "storage")
         [] OTHER -> Goto("storage") /\ NoFault /\ UNCHANGED <<own, atts, cerr>>
    /\ orphans' = IF Item.substrate = "ssh" /\ "results" \notin own'
                  THEN orphans \ {"results"} ELSE orphans
    /\ UNCHANGED <<suiteVars, ip, script, rt, seen, marker, injected, claim, cacheVars, homeVars>>

\* _cleanup_scenario_storage: on Slurm the workspace is on the storage too.
CleanStorage ==
    /\ pc = "storage"
    /\ CleanupStep(IF Item.substrate = "slurm"
                   THEN {"data", "workspace", "inject"} ELSE {"data"},
                   atts, "local")
    /\ UNCHANGED <<suiteVars, ip, script, rt, seen, marker, injected, claim, orphans,
                   cacheVars, homeVars>>

\* _cleanup_local_scenario_workspace.
CleanLocal ==
    /\ pc = "local"
    /\ CleanupStep(IF Item.substrate = "slurm" THEN {} ELSE {"workspace"},
                   atts, "cleaned")
    /\ UNCHANGED <<suiteVars, ip, script, rt, seen, marker, injected, claim, orphans,
                   cacheVars, homeVars>>

\* A cleanup error ends the suite, but never replaces the exception of the
\* scenario; an item is recorded as passed only after its cleanup.
Cleaned ==
    /\ pc = "cleaned" /\ NoFault
    /\ IF cerr \/ primary # "none"
       THEN /\ Goto("unwind") /\ UNCHANGED passed
            /\ primary' = IF cerr /\ pos \notin failed THEN "cleanup" ELSE primary
       ELSE /\ passed' = passed \cup {pos} /\ Goto("next") /\ UNCHANGED primary
    /\ UNCHANGED <<run, plan, pos, home, failed, exit, ip, cerr, scenVars,
                   worldVars, cacheVars, homeVars>>

\* The user interrupts the cleanup: what is left of it does not happen, and
\* the interrupt replaces whatever error the scenario had.
InterruptCleanup ==
    /\ pc \in {"attempt", "storage", "local", "cleaned"} /\ Fault
    /\ primary' = "interrupt" /\ cerr' = TRUE /\ Goto("unwind")
    /\ UNCHANGED <<run, plan, pos, home, passed, failed, exit, ip, scenVars,
                   worldVars, cacheVars, homeVars>>

\* The user interrupts the loop between two scenarios, or a transition of the
\* pool, which then leaves the record of its last step.
InterruptLoop ==
    /\ pc \in {"next", "moving", "moved"} /\ Fault
    /\ primary' = "interrupt" /\ Goto("unwind")
    /\ tpc' = "idle" /\ tgoal' = "none"
    /\ UNCHANGED <<run, plan, pos, home, passed, failed, exit, ip, cerr, scenVars,
                   worldVars, cacheVars, pool, record, tmode>>

\* Plausible bug: the homes are restored only when the suite succeeded.
UnwindOnSuccess ==
    /\ pc = "unwind" /\ NoFault
    /\ IF home = "shared" /\ primary = "none"
       THEN Goto("restoring") /\ Begin("restore") /\ UNCHANGED exit
       ELSE /\ Goto("off") /\ UNCHANGED homeVars
            /\ exit' = IF primary = "none" THEN "passed" ELSE "failed"
    /\ UNCHANGED <<run, plan, pos, home, primary, passed, failed, ip, cerr,
                   scenVars, worldVars, cacheVars>>

\* The end of the suite restores the homes when it left them shared.
Unwind ==
    /\ pc = "unwind" /\ NoFault
    /\ IF home = "shared"
       THEN Goto("restoring") /\ Begin("restore") /\ UNCHANGED exit
       ELSE /\ Goto("off") /\ UNCHANGED homeVars
            /\ exit' = IF primary = "none" THEN "passed" ELSE "failed"
    /\ UNCHANGED <<run, plan, pos, home, primary, passed, failed, ip, cerr,
                   scenVars, worldVars, cacheVars>>

-----------------------------------------------------------------------------
(* What happens to the harness from outside.                               *)

Die ==
    /\ pc # "off" /\ deaths > 0 /\ deaths' = deaths - 1 /\ UNCHANGED faults
    /\ Goto("off") /\ exit' = "died"
    /\ tpc' = "idle" /\ tgoal' = "none"
    /\ UNCHANGED <<run, plan, pos, home, primary, passed, failed, ip, cerr,
                   scenVars, worldVars, cacheVars, pool, record, tmode>>

LosePod ==
    /\ Fault /\ PodLost
    /\ UNCHANGED <<suiteVars, pc, ip, cerr, scenVars, worldVars, cacheVars>>

\* The working tree is edited between runs, or a cached archive is damaged.
Edit ==
    /\ pc = "off" /\ run < MaxRuns /\ Fault
    /\ \/ source' \in Sources \ {source} /\ UNCHANGED cache
       \/ /\ cache[source] = "good" /\ UNCHANGED source
          /\ cache' = [cache EXCEPT ![source] = "bad"]
    /\ UNCHANGED <<suiteVars, pc, ip, cerr, scenVars, worldVars, snap, homeVars>>

Operate ==
    \/ Submit \/ Resume \/ Wait \/ WaitRunning \/ Cancel \/ Collect
    \/ Check \/ Judge \/ Arm \/ CreateClaim \/ StartRefused \/ DeleteClaim
    \/ Dispatch \/ Stage \/ Unstage \/ RunInjected \/ RunAgain

Harness ==
    \/ TransitionStep \/ TransitionError \/ RequireFixture
    \/ BuildArchive \/ PublishArchive
    \/ NextStep \/ Prepare \/ ScriptDone \/ Operate \/ Fail
    \/ CleanAttempt \/ CleanStorage \/ CleanLocal \/ Cleaned \/ Unwind

Next ==
    \/ Harness \/ Start \/ Interrupt \/ InterruptCleanup \/ InterruptLoop
    \/ Die \/ AttemptEnds \/ LosePod \/ Edit

\* A harness that is not killed goes on: each of its commands has a timeout.
Spec == Init /\ [][Next]_vars /\ WF_vars(Harness)

-----------------------------------------------------------------------------
(* Properties.                                                             *)

\* The home mode the pool has after the first i steps of the plan.
HomeAt(i) ==
    IF \E j \in 1..i : IsTransition(plan[j])
    THEN plan[CHOOSE j \in 1..i :
                /\ IsTransition(plan[j])
                /\ \A k \in j + 1..i : ~IsTransition(plan[k])].transition
    ELSE "separate"

\* The plan of a run holds every selected work item once, SSH items only
\* where the preceding transitions have left the pool in the home mode of
\* their scenario, and leaves the pool separate (plan_scenarios).
PlanSound ==
    pc = "next" /\ pos = 0 =>
        /\ \E s \in Selections :
              /\ {plan[i] : i \in Work} = WorkItems(s[1], s[2])
              /\ Cardinality(Work) = Cardinality(WorkItems(s[1], s[2]))
        /\ \A i \in Work :
              plan[i].substrate = "ssh" => HomeAt(i) = plan[i].scenario.home
        /\ \A i \in Work :
              plan[i].substrate = "kubectl" => HomeAt(i) = "separate"
        /\ HomeAt(Len(plan)) = "separate"

\* Whatever the scenario did, a cleanup that neither failed nor was cut off
\* leaves no attempt of this run that still holds the claim Lease, and so does
\* an interrupt of the scenario once the root of its attempt is recorded
\* (_cleanup_kubectl_attempt with the flags its callers keep).  The one attempt
\* that nothing releases is that of a submission interrupted before its root
\* was recorded: nothing arms it, and the cleanup returns without an error.
AttemptsReleased ==
    pc \in {"next", "unwind", "restoring"} /\ ~cerr =>
        \A a \in atts : a.run = run => primary = "interrupt" /\ rt.root = 0

\* The suite goes on to its next scenario only when the previous one has
\* left nothing on the storage, in the worker homes and on the host
\* (_cleanup_scenario_resources).
Isolated ==
    pc = "next" => own = {}

\* While the pool has shared homes, or may get them, a record on disk says
\* so, wherever the harness is killed (SshHomeTransitionManager).
HomeJournaled ==
    pool.mode # "separate" => record # "none"

\* An SSH scenario runs only against a pool in the home mode it declares.
HomeAsDeclared ==
    pc = "script" /\ Item.substrate = "ssh" =>
        pool.mode = Item.scenario.home

\* A run that is past its preflight has recovered whatever an earlier run
\* left: no record, separate homes.
PreflightRecovers ==
    pc \in {"fixture", "archive", "quarantine", "publish"} /\ UsesSsh =>
        record = "none" /\ pool.mode = "separate"

\* Exit code 0 means that every planned item has passed and none failed,
\* with the pool separate again when the plan used it.
ExitZeroMeansAll ==
    exit = "passed" =>
        /\ passed = Work /\ failed = {}
        /\ UsesSsh => record = "none" /\ pool.mode = "separate"

\* Neither a failed cleanup nor a failed restore replaces the exception of
\* the scenario that failed; only a later interrupt by the user does.
CleanupNeverMasks ==
    pc = "off" /\ exit = "failed" /\ failed # {} =>
        primary \in {"scenario", "interrupt", "unrestored"}

\* A failure-and-resume item that passed has had exactly one failure
\* injected, whatever else failed on its way (the wrapper script).
InjectedOnce ==
    pc = "next" /\ pos \in Work /\ Injects(Item) => injected = 1

\* The archive a run deploys is the verified one of the sources it has
\* snapshot, however earlier runs died while they published theirs.
ArchiveVerified ==
    pc \in {"next", "moving", "prepare", "script"} => cache[snap] = "good"

\* A harness that is not killed ends, and shared homes are given up, or the
\* failure to do so is on record.
HomesGivenUp ==
    (home = "shared") ~>
        (pool.mode = "separate" \/ record = "unhealthy" \/ exit = "died")

\* A cleanup that neither failed nor was cut off was complete: no attempt of the
\* run still holds the claim but that of a submission interrupted before its root
\* was recorded, and the next scenario finds no trace of the last one.
CleanupComplete == AttemptsReleased /\ Isolated

\* The home mode of the worker pool is what the plan, the record on disk and the
\* running scenario say it is, wherever an earlier run was killed.
HomesSound == PlanSound /\ HomeJournaled /\ HomeAsDeclared /\ PreflightRecovers

\* The exit status of the suite is true: 0 means that everything planned passed
\* with the archive of this run's sources and its one injected failure, and no
\* cleanup or restore hides the first failure.
ExitSound ==
    /\ TypeOK
    /\ ExitZeroMeansAll
    /\ CleanupNeverMasks
    /\ InjectedOnce
    /\ ArchiveVerified
=============================================================================

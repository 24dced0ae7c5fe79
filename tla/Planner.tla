------------------------------ MODULE Planner ------------------------------
(***************************************************************************)
(* The integration scenarios and the order in which a suite runs them      *)
(* (integration-tests/lib/scenario_planner.py).  A plan is a sequence of   *)
(* work items, one per scenario and concrete substrate, with at most one   *)
(* batch of shared-home SSH items between two transitions of the SSH       *)
(* worker pool.                                                            *)
(***************************************************************************)
EXTENDS Integers, Sequences, FiniteSets

Substrates == {"ssh", "slurm", "kubectl"}

\* SchedulePhase: the values order the phases.
Before == 10
SharedHome == 20
Kubectl == 25
After == 30

Entry(name, substrates, order, phase, home) ==
    [name |-> name, substrates |-> substrates, order |-> order,
     phase |-> phase, home |-> home]

Catalog ==
    {Entry("baseline", Substrates, 10, Before, "separate"),
     Entry("mdtest-sweep", Substrates, 15, Before, "separate"),
     Entry("default-dio", Substrates, 20, Before, "separate"),
     Entry("failure-resume", Substrates, 30, Before, "separate"),
     Entry("mixed-batch", Substrates, 35, Before, "separate"),
     Entry("retained-lifecycle", {"ssh", "slurm"}, 40, Before, "separate"),
     Entry("live-capture", Substrates, 50, Before, "separate"),
     Entry("slurm-cartesian", {"slurm"}, 60, Before, "none"),
     Entry("ssh-single-big-file", {"ssh"}, 70, Before, "separate"),
     Entry("ssh-weighted-roots", {"ssh"}, 80, Before, "separate"),
     Entry("ssh-shared-home", {"ssh"}, 90, SharedHome, "shared"),
     Entry("slurm-scheduling", {"slurm"}, 100, After, "none"),
     Entry("kubectl-retained-read", {"kubectl"}, 110, Kubectl, "none"),
     Entry("kubectl-cancel", {"kubectl"}, 120, Kubectl, "none"),
     Entry("kubectl-coordinator-loss", {"kubectl"}, 130, Kubectl, "none"),
     Entry("kubectl-endpoint-drift", {"kubectl"}, 140, Kubectl, "none"),
     Entry("kubectl-multi-target", {"kubectl"}, 150, Kubectl, "none"),
     Entry("kubectl-multi-target-unbound", {"kubectl"}, 160, Kubectl, "none"),
     Entry("kubectl-same-namespace-targets", {"kubectl"}, 170, Kubectl, "none")}

Names == {sc.name : sc \in Catalog}

Concrete(substrate) == IF substrate = "all" THEN Substrates ELSE {substrate}

\* _validate_scenario: SSH support and a home mode go together, and a home
\* mode fixes the phase.
ValidEntry(sc) ==
    /\ sc.substrates # {} /\ sc.substrates \subseteq Substrates
    /\ ("ssh" \in sc.substrates) <=> (sc.home # "none")
    /\ CASE sc.home = "shared" ->
              sc.substrates = {"ssh"} /\ sc.phase = SharedHome
         [] sc.home = "separate" -> sc.phase = Before
         [] OTHER -> sc.phase # SharedHome

\* select_scenarios: a requested name must exist and run on the substrate;
\* with nothing requested, the scenarios the substrate does not run drop out.
Selectable(substrate, requested) ==
    /\ \A sc \in Catalog : ValidEntry(sc)
    /\ requested \subseteq Names
    /\ \A sc \in Catalog : sc.name \in requested =>
           sc.substrates \cap Concrete(substrate) # {}

Selected(substrate, requested) ==
    {sc \in Catalog : /\ requested = {} \/ sc.name \in requested
                      /\ sc.substrates \cap Concrete(substrate) # {}}

\* _work_items: one item per scenario and selected substrate.
WorkItems(substrate, requested) ==
    UNION {{[scenario |-> sc, substrate |-> s]
              : s \in sc.substrates \cap Concrete(substrate)}
             : sc \in Selected(substrate, requested)}

\* _schedule_phase: a Kubernetes item has no SSH home and waits until the
\* pool is restored, whatever phase its scenario declares.
SchedulePhase(item) ==
    IF item.substrate = "kubectl" THEN Kubectl ELSE item.scenario.phase

SubstrateRank(s) == CASE s = "kubectl" -> 0 [] s = "slurm" -> 1 [] OTHER -> 2

\* The sort key of _work_items; a scenario's order is unique in the catalog.
SortKey(item) ==
    10000 * item.scenario.phase + 10 * item.scenario.order
        + SubstrateRank(item.substrate)

\* The items of one schedule phase, in the order of their sort key.
InOrder(items) ==
    [i \in 1..Cardinality(items) |->
        CHOOSE x \in items :
            Cardinality({y \in items : SortKey(y) < SortKey(x)}) = i - 1]

Transition(mode) == [transition |-> mode]
IsTransition(step) == "transition" \in DOMAIN step

\* plan_scenarios: the shared-home items stand between two transitions.
PlanScenarios(substrate, requested) ==
    LET items == WorkItems(substrate, requested)
        phase(p) == InOrder({x \in items : SchedulePhase(x) = p})
        shared == phase(SharedHome)
    IN  phase(Before)
        \o (IF shared = <<>> THEN <<>>
            ELSE <<Transition("shared")>> \o shared
                   \o <<Transition("separate")>>)
        \o phase(Kubectl) \o phase(After)

\* planned_work: what a shard of the substrate has to complete, in order.
PlannedWork(substrate) ==
    LET isWork(step) == ~IsTransition(step)
    IN  SelectSeq(PlanScenarios(substrate, {}), isWork)
=============================================================================

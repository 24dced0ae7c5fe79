------------------------------ MODULE BatchProofs ------------------------------
(***************************************************************************)
(* What a report of a batch says is true, whatever the batch, its engines  *)
(* and earlier reports did: TLAPS proofs for every number of groups,       *)
(* executions, reports and faults.                                         *)
(*                                                                         *)
(* The inductive invariant BatchInv follows a result from the file to the  *)
(* entry an engine writes (Told), to the group report (Written), to        *)
(* reports.txt (Sections) and to the document and the page (Assembled,     *)
(* Paged).  It holds because of two facts that relate the report to the    *)
(* batch: an execution that was staged has succeeded and keeps its files   *)
(* (Staged), and an engine only works while its report waits (Positions).  *)
(***************************************************************************)
EXTENDS Batch, FiniteSetTheorems, WellFoundedInduction, TLAPS

Pcs == {"idle", "clear", "start", "finish", "unlink", "combine", "assemble",
        "page", "tidy"}
Over == {"out", "empty", "failed", "done"}
Stages == Over \cup {"waiting", "parsing", "rendering", "writing", "rendered"}
Manifests == {ManifestOf(n) : n \in 1..Groups}
Jobs ==
    [pc : Pcs, run : 0..MaxRuns, request : Requests \cup {None},
     manifest : Manifests \cup {None},
     staged : [1..Groups -> SUBSET Execs],
     outcome : [1..Groups -> Outcomes \cup {None}],
     fragments : [1..Groups -> Entries \cup {None}],
     failed : SUBSET (1..Groups), broken : BOOLEAN]

\* The sets the variables take their values from.
LedgerTyped ==
    /\ manifest \in Manifests /\ sealed \in BOOLEAN
    /\ status \in [Execs -> Statuses]
    /\ DOMAIN files = Execs
    /\ \A e \in Execs : files[e] \in {None} \cup Quality[e]
JobTyped == job \in Jobs /\ stage \in [1..Groups -> Stages] /\ faults \in 0..MaxFaults
OutTyped ==
    /\ report \in [1..Groups -> Text \cup {None}]
    /\ identity \in [1..Groups -> Text \cup {None}]
    /\ fragment \in [1..Groups -> Entries \cup {None}]
    /\ \A g \in 1..Groups : fragment[g] # None => DOMAIN fragment[g] \subseteq Members(g)
    /\ sidecars \in [Execs -> 0..MaxRuns]
    /\ doc \in Documents \cup {None}
    /\ html \in {None} \cup (1..MaxRuns)

\* A report that was started has a request and the manifest it read, and one
\* that has ended is idle.
Posed ==
    /\ job.run >= 1 => job.request \in Requests /\ job.manifest \in Manifests
    /\ job.pc # "idle" => job.run >= 1
    /\ exit # None => job.pc = "idle" /\ job.run >= 1

\* Engines work between the start of the first group and the end of the last;
\* what a group's end leaves behind says how it ended.
Positions ==
    /\ job.pc \in {"idle", "unlink", "combine", "assemble", "page", "tidy"} =>
           \A g \in 1..Groups : stage[g] \in Over
    /\ job.pc = "clear" => \A g \in 1..Groups : stage[g] \in {"out", "waiting"}
    /\ \A g \in 1..Groups :
          /\ job.fragments[g] # None => stage[g] = "done" \/ job.pc = "idle"
          /\ job.outcome[g] = "Reporting failed" => job.broken

\* The batch never takes back what was staged.
Staged ==
    \A g \in 1..Groups : \A e \in job.staged[g] : e \in Members(g) /\ status[e] = "SUCCESS"

\* The entries of a group tell the truth about the files, and an execution
\* they call readable has a sidecar of this run.
EntriesTrue(f, g) ==
    /\ DOMAIN f = job.staged[g]
    /\ \A e \in job.staged[g] :
          /\ f[e] = "complete" => files[e] = "whole"
          /\ Kind[g] = "io" /\ f[e] \in {"complete", "partial"} => sidecars[e] = job.run
Told ==
    \A g \in 1..Groups :
        /\ stage[g] \in {"rendering", "writing", "rendered"} =>
              fragment[g] \in Entries /\ EntriesTrue(fragment[g], g)
        /\ job.fragments[g] # None => EntriesTrue(job.fragments[g], g)

\* A group report is whole when its engine is done and shows what the entries say.
WholeText(shown) == [run |-> job.run, shows |-> shown, whole |-> TRUE]
Readable(f, g) == {e \in job.staged[g] : f[e] \in {"complete", "partial"}}
Written ==
    \A g \in 1..Groups :
        /\ stage[g] \in {"parsing", "rendering"} => report[g] = None
        /\ stage[g] = "rendered" =>
              \/ report[g] = None /\ Shown(g) = {}
              \/ report[g] = WholeText(Shown(g))
        /\ stage[g] = "done" /\ job.fragments[g] # None =>
              report[g] = WholeText(Readable(job.fragments[g], g))
        /\ identity[g] # None => identity[g].whole

\* reports.txt is whole, and after a report that wrote it, it is what is owned.
Aggregate == IF Cardinality(Eligible) < 2 THEN None ELSE [g \in Eligible |-> report[g]]
Late == job.pc \in {"assemble", "page", "tidy"} /\ ~job.broken
Clean == exit # None /\ exit # 1
Sections ==
    /\ CombinedIsWhole
    /\ Late \/ Clean => combined = Aggregate
    /\ Clean => ~job.broken

\* The document is true, and that of this run has its texts and sidecars.
DocumentTrue ==
    doc # None =>
        /\ doc.run <= job.run
        /\ job.pc \in {"clear", "start", "finish", "unlink", "combine", "assemble"} =>
              doc.run < job.run
        /\ doc.complete =>
              \A e \in DOMAIN doc.executions : status[e] = "SUCCESS" /\ files[e] = "whole"
Said(g) == {e \in Members(g) : doc.executions[e].result \in {"complete", "partial"}}
TextsThere ==
    doc # None /\ doc.run = job.run =>
        \A g \in Committed(job.manifest) :
            Said(g) # {} => report[g] = WholeText(Said(g))
SidecarsThere ==
    /\ job.pc \notin {"idle", "clear"} => \A e \in Execs : sidecars[e] \in {0, job.run}
    /\ doc # None /\ doc.run = job.run =>
          /\ \A e \in doc.live : sidecars[e] = job.run
          /\ \A e \in Execs : sidecars[e] \in {0, job.run}

\* The page is that of the document, and the exit status tells.
Paged ==
    /\ job.pc = "page" /\ ~job.broken => doc # None /\ doc.run = job.run
    /\ job.pc = "tidy" /\ ~job.broken =>
          doc # None /\ doc.run = job.run /\ html = job.run
    /\ Clean => /\ doc # None /\ doc.run = job.run /\ html = job.run
                /\ job.request.require => (exit = 0 <=> doc.complete)
    /\ (job.pc = "tidy" \/ exit # None) /\ doc # None /\ doc.run = job.run
          /\ job.request.comparison = "unknown" => html = None

BatchInv ==
    /\ LedgerTyped /\ JobTyped /\ OutTyped /\ Posed /\ Positions
    /\ Staged /\ Told /\ Written /\ Sections
    /\ DocumentTrue /\ TextsThere /\ SidecarsThere /\ Paged

-----------------------------------------------------------------------------
(* The manifest.                                                           *)

\* The rows of the first n groups are the first executions, because groups
\* are committed in order (ManifestOf).
LEMMA RowsAreFirst ==
  ASSUME NEW n \in 1..Groups
  PROVE  \E k \in 1..Len(GroupOf) : {e \in Execs : GroupOf[e] <= n} = 1..k
<1>1. GroupOf \in Seq(1..Groups) /\ Execs = 1..Len(GroupOf) /\ Len(GroupOf) \in Nat
  BY BatchAssumption DEF Execs
<1>2. Groups \in Nat /\ \A e \in Execs : GroupOf[e] \in 1..Groups
  BY <1>1, BatchAssumption DEF Execs
<1>3. \A i, j \in Execs : i < j => GroupOf[i] <= GroupOf[j]
  BY BatchAssumption
<1>4. PICK one \in Execs : GroupOf[one] = n
  BY BatchAssumption DEF Members
<1> DEFINE Beyond == {e \in 1..(Len(GroupOf) + 1) : e \in Execs => GroupOf[e] > n}
<1>5. Beyond \subseteq Nat /\ Len(GroupOf) + 1 \in Beyond
  BY <1>1
<1>6. PICK least \in Beyond : \A e \in Beyond : ~ (<<e, least>> \in OpToRel(<, Nat))
  <2> HIDE DEF Beyond
  <2> QED BY <1>5, WFMin, NatLessThanWellFounded
<1>7. \A e \in Beyond : ~ (e < least)
  BY <1>5, <1>6 DEF OpToRel
<1>8. least \in 1..(Len(GroupOf) + 1) /\ (least \in Execs => GroupOf[least] > n)
  BY <1>6
<1>9. \A e \in Execs : e < least => GroupOf[e] <= n
  BY <1>1, <1>2, <1>7, SMTT(30)
<1>10. \A e \in Execs : e >= least => GroupOf[e] > n
  <2> SUFFICES ASSUME NEW e \in Execs, e >= least PROVE GroupOf[e] > n
    OBVIOUS
  <2>1. least \in Execs
    BY <1>1, <1>8
  <2>2. GroupOf[least] <= GroupOf[e]
    BY <1>1, <1>2, <1>3, <2>1
  <2> QED BY <1>2, <1>8, <2>1, <2>2
<1>11. one < least
  BY <1>1, <1>2, <1>4, <1>8, <1>10
<1>12. {e \in Execs : GroupOf[e] <= n} = 1..(least - 1)
  BY <1>1, <1>2, <1>8, <1>9, <1>10, SMTT(30)
<1>13. least - 1 \in 1..Len(GroupOf)
  BY <1>1, <1>8, <1>11
<1> QED BY <1>12, <1>13

\* What the validation asks of a manifest, and what a report takes from it.
LEMMA ManifestFacts ==
  ASSUME NEW n \in 1..Groups
  PROVE  /\ ManifestValid(ManifestOf(n))
         /\ ManifestOf(n).revision = n
         /\ Committed(ManifestOf(n)) = 1..n
         /\ Rows(ManifestOf(n)) = {e \in Execs : GroupOf[e] <= n}
<1> DEFINE m == ManifestOf(n)
<1>1. GroupOf \in Seq(1..Groups) /\ Groups \in Nat /\ n \in Nat /\ n > 0
  BY BatchAssumption
<1>2. PICK k \in 1..Len(GroupOf) : {e \in Execs : GroupOf[e] <= n} = 1..k
  BY RowsAreFirst
<1>3. /\ m.revision = n
      /\ m.groups = [g \in 1..n |-> g]
      /\ m.rows = [i \in 1..k |-> <<i, GroupOf[i]>>]
  BY <1>2 DEF ManifestOf
<1>4. Len(m.groups) = n /\ Len(m.rows) = k
  BY <1>1, <1>2, <1>3
<1> HIDE DEF m
<1>5. Committed(m) = 1..n /\ Rows(m) = 1..k
  BY <1>3, <1>4 DEF Committed, Rows
<1>6. \A i \in 1..k : m.rows[i][1] = i /\ m.rows[i][2] = GroupOf[i]
  BY <1>3
<1>7. \A i, j \in 1..k : i < j => GroupOf[i] <= GroupOf[j]
  BY <1>2, BatchAssumption
<1>8. {m.rows[i][2] : i \in 1..k} = 1..n
  <2>1. \A i \in 1..k : GroupOf[i] \in 1..n
    BY <1>1, <1>2 DEF Execs
  <2>2. \A g \in 1..n : \E i \in 1..k : GroupOf[i] = g
    <3> TAKE g \in 1..n
    <3>1. PICK e \in Execs : GroupOf[e] = g
      BY <1>1, BatchAssumption DEF Members
    <3>2. e \in 1..k
      BY <1>1, <1>2, <3>1
    <3> QED BY <3>1, <3>2
  <2> DEFINE R == {m.rows[i][2] : i \in 1..k}
  <2>3. \A r : r \in R <=> \E i \in 1..k : r = GroupOf[i]
    BY <1>6
  <2>4. \A r : r \in R <=> r \in 1..n
    <3> HIDE DEF R
    <3> QED BY <2>1, <2>2, <2>3
  <2> QED BY <2>4
<1>9. ManifestValid(m)
  <2>1. {m.groups[i] : i \in 1..n} = 1..n
    BY <1>3
  <2> QED BY <1>1, <1>3, <1>4, <1>6, <1>7, <1>8, <2>1, ZenonT(30) DEF ManifestValid
<1> QED BY <1>2, <1>3, <1>5, <1>9 DEF m

\* What is used of a manifest: its groups and rows exist, and a committed group
\* has all its executions among the rows.
LEMMA ManifestUse ==
  ASSUME NEW m \in Manifests
  PROVE  /\ ManifestValid(m) /\ m.revision \in 1..Groups /\ m = ManifestOf(m.revision)
         /\ Committed(m) \subseteq 1..Groups
         /\ Rows(m) \subseteq Execs
         /\ \A g \in Committed(m) : Members(g) \subseteq Rows(m)
<1>1. PICK n \in 1..Groups : m = ManifestOf(n)
  BY DEF Manifests
<1>2. \A e \in Execs : GroupOf[e] \in 1..Groups
  BY BatchAssumption DEF Execs
<1> QED BY <1>1, <1>2, ManifestFacts, BatchAssumption DEF Members

-----------------------------------------------------------------------------
(* What a step leaves alone of the running report.                         *)

\* A report's own progress: which run it is, and how far its groups are.
SameRun ==
    job'.run = job.run /\ job'.request = job.request /\ job'.manifest = job.manifest
SameGroups ==
    job'.staged = job.staged /\ job'.outcome = job.outcome /\ job'.fragments = job.fragments

\* The fields of the running report (_GroupReports and the locals of
\* report_batch).
LEMMA JobFields ==
  ASSUME JobTyped
  PROVE  /\ job.pc \in Pcs /\ job.run \in 0..MaxRuns /\ job.broken \in BOOLEAN
         /\ job.request \in Requests \cup {None} /\ job.manifest \in Manifests \cup {None}
         /\ job.staged \in [1..Groups -> SUBSET Execs]
         /\ job.outcome \in [1..Groups -> Outcomes \cup {None}]
         /\ job.fragments \in [1..Groups -> Entries \cup {None}]
         /\ job.failed \in SUBSET (1..Groups)
  BY DEF JobTyped, Jobs

\* The report goes on to its next step.
LEMMA JobMoves ==
  ASSUME JobTyped, NEW p \in Pcs, job' = [job EXCEPT !.pc = p]
  PROVE  /\ job' \in Jobs /\ job'.pc = p /\ job'.broken = job.broken
         /\ SameRun /\ SameGroups
  BY DEF JobTyped, Jobs, SameRun, SameGroups

\* The report goes on after a failure.
LEMMA JobBreaks ==
  ASSUME JobTyped, NEW p \in Pcs, job' = [job EXCEPT !.pc = p, !.broken = TRUE]
  PROVE  /\ job' \in Jobs /\ job'.pc = p /\ job'.broken
         /\ SameRun /\ SameGroups
  BY DEF JobTyped, Jobs, SameRun, SameGroups

\* Nothing that the entries of a group rest on has changed.
LEMMA ToldKept ==
  ASSUME Told, SameRun, SameGroups, UNCHANGED <<stage, fragment, files, sidecars>>
  PROVE  Told'
  BY DEF Told, EntriesTrue, SameRun, SameGroups

\* Nothing that the group reports rest on has changed.
LEMMA WrittenKept ==
  ASSUME Written, SameRun, SameGroups, UNCHANGED <<stage, report, identity, fragment>>
  PROVE  Written'
  BY DEF Written, WholeText, Readable, Shown, SameRun, SameGroups

\* The groups of reports.txt are the same.
LEMMA AggregateKept ==
  ASSUME SameRun, job'.outcome = job.outcome, UNCHANGED <<report, identity>>
  PROVE  Aggregate' = Aggregate
  BY DEF Aggregate, Eligible, HasOwnedReport, Committed, SameRun

\* A step outside reports.txt that makes nothing later than it was.
LEMMA SectionsKept ==
  ASSUME Sections, SameRun, job'.outcome = job.outcome, job'.broken = job.broken,
         UNCHANGED <<report, identity, combined, exit>>, Late' => Late
  PROVE  Sections'
  BY AggregateKept DEF Sections, CombinedIsWhole, Clean

\* The document stays what it is.
LEMMA TextsKept ==
  ASSUME TextsThere, SameRun, UNCHANGED <<doc, report>>
  PROVE  TextsThere'
  BY DEF TextsThere, Said, WholeText, Committed, SameRun

-----------------------------------------------------------------------------
(* The batch goes on.                                                      *)

\* A step of the batch is no step of a report.
BatchStep ==
    /\ UNCHANGED <<job, stage, outVars, exit>> /\ faults' \in 0..MaxFaults
    /\ LedgerTyped'
    /\ \A e \in Execs :
          status[e] = "SUCCESS" => status'[e] = "SUCCESS" /\ files'[e] = files[e]

\* Commits, the seal and the executions; no execution that succeeded is run again.
LEMMA BatchingSteps ==
  ASSUME LedgerTyped, JobTyped, Batching
  PROVE  BatchStep
<1> USE DEF BatchStep, LedgerTyped
<1>0. faults \in 0..MaxFaults /\ MaxFaults \in Nat
  BY BatchAssumption DEF JobTyped
<1>1. CASE PublishGroup
  <2>1. manifest.revision \in 1..Groups
    BY ManifestUse
  <2>2. manifest.revision + 1 \in 1..Groups
    BY <1>1, <2>1, BatchAssumption DEF PublishGroup
  <2> QED BY <1>0, <1>1, <2>2 DEF PublishGroup, Manifests
<1>2. CASE Seal
  BY <1>0, <1>2 DEF Seal
<1>3. ASSUME NEW e \in Execs, Begin(e) PROVE BatchStep
  BY <1>0, <1>3 DEF Begin, Statuses
<1>4. ASSUME NEW e \in Execs, Fall(e) PROVE BatchStep
  BY <1>0, <1>4 DEF Fall, Statuses
<1>5. ASSUME NEW e \in Execs, NEW q \in Quality[e], Succeed(e, q) PROVE BatchStep
  BY <1>0, <1>5 DEF Succeed, Statuses
<1> QED BY <1>1, <1>2, <1>3, <1>4, <1>5 DEF Batching

\* What a report has read or said of the batch stays true (execution statuses
\* only move forward from what is not SUCCESS).
LEMMA BatchKeeps ==
  ASSUME BatchInv, BatchStep
  PROVE  BatchInv'
<1>1. SameRun /\ SameGroups /\ job'.pc = job.pc /\ job'.broken = job.broken
  BY DEF BatchStep, SameRun, SameGroups
<1>2. LedgerTyped' /\ JobTyped' /\ OutTyped' /\ Posed' /\ Positions'
  BY DEF BatchInv, BatchStep, outVars, JobTyped, OutTyped, Posed, Positions
<1>3. /\ \A g \in 1..Groups : job.staged[g] \subseteq Execs
      /\ doc # None => DOMAIN doc.executions \subseteq Execs
  BY JobFields DEF BatchInv, OutTyped, Documents
<1>4. Staged'
  BY <1>1, <1>3 DEF BatchInv, BatchStep, Staged, SameGroups
<1>5. Told'
  BY <1>1, <1>3 DEF BatchInv, BatchStep, Staged, Told, EntriesTrue, SameRun, SameGroups, outVars
<1>6. Written'
  BY <1>1, WrittenKept DEF BatchInv, BatchStep, outVars
<1>7. Sections'
  BY <1>1, SectionsKept DEF BatchInv, BatchStep, outVars, Late, SameGroups
<1>8. DocumentTrue'
  BY <1>1, <1>3 DEF BatchInv, BatchStep, DocumentTrue, SameRun, outVars
<1>9. TextsThere'
  BY <1>1, TextsKept DEF BatchInv, BatchStep, outVars
<1>10. SidecarsThere' /\ Paged'
  BY <1>1 DEF BatchInv, BatchStep, SidecarsThere, Paged, Clean, SameRun, outVars
<1> QED BY <1>2, <1>4, <1>5, <1>6, <1>7, <1>8, <1>9, <1>10 DEF BatchInv

-----------------------------------------------------------------------------
(* The groups of a report.                                                 *)

\* What a step of a group and its engine leaves alone; nothing is published
\* before every group has ended, so only the group's own files can change.
GroupStep ==
    /\ job.pc \in {"start", "finish"} /\ job'.pc = job.pc /\ SameRun
    /\ UNCHANGED <<ledgerVars, combined, doc, html, exit>>
    /\ job.broken => job'.broken
    /\ \A e \in Execs : sidecars'[e] \in {sidecars[e], job.run}

\* A report that is at its groups has not published anything yet.
LEMMA NotPublished ==
  ASSUME BatchInv, job.pc \in {"clear", "start", "finish", "unlink", "combine", "assemble"}
  PROVE  /\ exit = None /\ job.run \in 1..MaxRuns
         /\ doc # None => doc.run < job.run
  BY JobFields, BatchAssumption DEF BatchInv, Posed, DocumentTrue

\* An engine works, and a group waits for its text, only while the report is
\* at its groups.
LEMMA EnginesWork ==
  ASSUME BatchInv, NEW g \in 1..Groups,
         stage[g] \in {"parsing", "rendering", "writing", "rendered"}
  PROVE  job.pc \in {"start", "finish"}
  BY JobFields DEF BatchInv, Positions, Over, Pcs

\* For a step of a group it is enough to look at the groups.
LEMMA GroupKeeps ==
  ASSUME BatchInv, GroupStep, JobTyped', OutTyped', Positions', Staged', Told', Written'
  PROVE  BatchInv'
<1> USE DEF GroupStep
<1>1. LedgerTyped' /\ Posed'
  BY DEF BatchInv, LedgerTyped, ledgerVars, Posed, SameRun
<1>2. /\ exit = None /\ job.run \in 1..MaxRuns
      /\ doc # None => doc.run < job.run
  BY NotPublished
<1>3. Sections'
  BY <1>2 DEF BatchInv, Sections, CombinedIsWhole, Late, Clean
<1>4. doc # None => doc.run # job.run
  BY <1>2 DEF BatchInv, OutTyped, Documents
<1>5. DocumentTrue' /\ TextsThere' /\ Paged'
  BY <1>2, <1>4 DEF BatchInv, DocumentTrue, TextsThere, Paged, Clean, ledgerVars, SameRun
<1>6. SidecarsThere'
  BY <1>2, <1>4 DEF BatchInv, SidecarsThere, SameRun
<1> QED BY <1>1, <1>3, <1>5, <1>6 DEF BatchInv

\* An execution whose input failed, or whose engine ended with an error.
LEMMA GroupFailsEffect ==
  ASSUME JobTyped, NEW g \in 1..Groups, GroupFails(g)
  PROVE  /\ job' \in Jobs /\ job'.pc = job.pc /\ job'.broken /\ SameRun
         /\ job'.staged = job.staged /\ job'.fragments = job.fragments
         /\ job'.outcome = [job.outcome EXCEPT ![g] = "Reporting failed"]
         /\ stage' = [stage EXCEPT ![g] = "failed"] /\ stage' \in [1..Groups -> Stages]
<1>1. job' = [job EXCEPT !.outcome = [job.outcome EXCEPT ![g] = "Reporting failed"],
                         !.failed = job.failed \cup {g}, !.broken = TRUE]
  BY DEF GroupFails
<1>2. [job.outcome EXCEPT ![g] = "Reporting failed"] \in [1..Groups -> Outcomes \cup {None}]
  BY JobFields DEF Outcomes
<1>3. job.failed \cup {g} \in SUBSET (1..Groups)
  BY JobFields
<1>4. /\ job' \in Jobs /\ job'.pc = job.pc /\ job'.broken /\ SameRun
      /\ job'.staged = job.staged /\ job'.fragments = job.fragments
      /\ job'.outcome = [job.outcome EXCEPT ![g] = "Reporting failed"]
  BY <1>1, <1>2, <1>3 DEF JobTyped, Jobs, SameRun
<1>5. stage' = [stage EXCEPT ![g] = "failed"] /\ stage' \in [1..Groups -> Stages]
  BY DEF GroupFails, JobTyped, Stages, Over
<1> QED BY <1>4, <1>5

\* A group that fails says nothing any more.
LEMMA FailureTells ==
  ASSUME Told, Written, SameRun, job'.staged = job.staged, job'.fragments = job.fragments,
         UNCHANGED <<files, report, identity, fragment, sidecars>>,
         \A x \in 1..Groups : stage'[x] = stage[x] \/ stage'[x] = "failed"
  PROVE  Told' /\ Written'
<1>1. Told'
  <2> SUFFICES ASSUME NEW x \in 1..Groups
      PROVE  /\ stage'[x] \in {"rendering", "writing", "rendered"} =>
                    fragment'[x] \in Entries /\ EntriesTrue(fragment[x], x)'
             /\ job'.fragments[x] # None => EntriesTrue(job.fragments[x], x)'
    BY DEF Told
  <2> QED BY DEF Told, EntriesTrue, SameRun
<1>2. Written'
  <2> SUFFICES ASSUME NEW x \in 1..Groups
      PROVE  /\ stage'[x] \in {"parsing", "rendering"} => report'[x] = None
             /\ stage'[x] = "rendered" =>
                   \/ report'[x] = None /\ Shown(x)' = {}
                   \/ report'[x] = WholeText(Shown(x))'
             /\ stage'[x] = "done" /\ job'.fragments[x] # None =>
                   report'[x] = WholeText(Readable(job.fragments[x], x))'
             /\ identity'[x] # None => identity'[x].whole
    BY DEF Written
  <2> QED BY DEF Written, WholeText, Readable, Shown, SameRun
<1> QED BY <1>1, <1>2

\* _run_group_reports: a failed group leaves what the other groups have.
LEMMA EngineFailsKeeps ==
  ASSUME BatchInv, NEW g \in 1..Groups, EngineFails(g)
  PROVE  BatchInv'
<1>1. job.pc \in {"start", "finish"}
  BY EnginesWork DEF EngineFails
<1>2. /\ job' \in Jobs /\ job'.pc = job.pc /\ job'.broken /\ SameRun
      /\ job'.staged = job.staged /\ job'.fragments = job.fragments
      /\ job'.outcome = [job.outcome EXCEPT ![g] = "Reporting failed"]
      /\ stage' = [stage EXCEPT ![g] = "failed"] /\ stage' \in [1..Groups -> Stages]
  BY GroupFailsEffect DEF EngineFails, BatchInv
<1>3. GroupStep
  BY <1>1, <1>2 DEF GroupStep, EngineFails, outVars
<1>4. JobTyped' /\ OutTyped'
  <2>1. faults' \in 0..MaxFaults
    BY BatchAssumption DEF EngineFails, BatchInv, JobTyped
  <2>2. OutTyped'
    BY DEF BatchInv, OutTyped, EngineFails, outVars
  <2> QED BY <1>2, <2>1, <2>2 DEF JobTyped
<1>5. stage \in [1..Groups -> Stages] /\ stage[g] \notin {"done", "failed"}
  BY DEF EngineFails, BatchInv, JobTyped
<1>6. Positions'
  BY <1>1, <1>2, <1>5 DEF BatchInv, Positions
<1>7. \A x \in 1..Groups : stage'[x] = stage[x] \/ stage'[x] = "failed"
  BY <1>2, <1>5
<1>8. Staged'
  BY <1>2 DEF BatchInv, Staged, EngineFails, ledgerVars
<1>9. UNCHANGED <<files, report, identity, fragment, sidecars>>
  BY DEF EngineFails, ledgerVars, outVars
<1>10. Told' /\ Written'
  BY <1>2, <1>7, <1>9, FailureTells DEF BatchInv
<1> QED BY <1>3, <1>4, <1>6, <1>8, <1>10, GroupKeeps

\* A parse task writes the sidecar of an execution of this run.
LEMMA ParseTaskKeeps ==
  ASSUME BatchInv, NEW g \in 1..Groups, NEW x \in Execs, ParseTask(g, x)
  PROVE  BatchInv'
<1> USE DEF ParseTask
<1>1. job.pc \in {"start", "finish"}
  BY EnginesWork
<1>2. SameRun /\ SameGroups
  BY DEF SameRun, SameGroups
<1>3. job.run \in 1..MaxRuns
  BY <1>1, NotPublished
<1>4. /\ sidecars \in [Execs -> 0..MaxRuns]
      /\ sidecars' = [sidecars EXCEPT ![x] = job.run]
      /\ \A e \in Execs : sidecars'[e] \in {sidecars[e], job.run}
  BY DEF BatchInv, OutTyped
<1>5. GroupStep
  BY <1>1, <1>2, <1>4 DEF GroupStep
<1>6. JobTyped' /\ OutTyped'
  BY <1>3, <1>4 DEF BatchInv, JobTyped, OutTyped
<1>7. Positions' /\ Staged'
  BY <1>2 DEF BatchInv, Positions, Staged, ledgerVars
<1>8. Told'
  BY <1>2, <1>4, JobFields DEF BatchInv, Told, EntriesTrue, ledgerVars
<1>9. Written'
  BY <1>2, WrittenKept DEF BatchInv
<1> QED BY <1>5, <1>6, <1>7, <1>8, <1>9, GroupKeeps

\* The entries of a fragment tell the truth (WriteFragment with EntryState): the
\* files were read after they were staged, and every parse task that has a
\* sidecar to write has ended.
LEMMA WriteFragmentKeeps ==
  ASSUME BatchInv, NEW g \in 1..Groups, WriteFragment(g)
  PROVE  BatchInv'
<1> DEFINE entries == [e \in job.staged[g] |-> EntryState(e)]
<1>1. job.pc \in {"start", "finish"} /\ stage[g] = "parsing"
  BY EnginesWork DEF WriteFragment
<1>2. job' = job /\ SameRun /\ SameGroups
  BY DEF WriteFragment, SameRun, SameGroups
<1>3. UNCHANGED <<ledgerVars, files, report, identity, sidecars, combined, doc, html, exit, faults>>
  BY DEF WriteFragment, ledgerVars
<1>4. fragment' = [fragment EXCEPT ![g] = entries]
  BY DEF WriteFragment
<1>5. stage' = [stage EXCEPT ![g] = "rendering"]
  BY DEF WriteFragment
<1>6. /\ stage \in [1..Groups -> Stages] /\ fragment \in [1..Groups -> Entries \cup {None}]
      /\ report \in [1..Groups -> Text \cup {None}]
  BY DEF BatchInv, JobTyped, OutTyped
<1>7. job.staged[g] \in SUBSET Execs /\ job.staged[g] \subseteq Members(g)
  BY JobFields DEF BatchInv, Staged
<1>8. entries \in [job.staged[g] -> Results] /\ entries \in Entries
  <2>1. \A e : EntryState(e) \in Results
    BY DEF EntryState, Results
  <2> QED BY <1>7, <2>1 DEF Entries
<1>9. EntriesTrue(entries, g)
  <2> SUFFICES ASSUME NEW e \in job.staged[g]
      PROVE  /\ entries[e] = "complete" => files[e] = "whole"
             /\ Kind[g] = "io" /\ entries[e] \in {"complete", "partial"} =>
                    sidecars[e] = job.run
    BY DEF EntriesTrue
  <2>1. entries[e] = EntryState(e)
    OBVIOUS
  <2>2. Kind[g] = "io" => Unparsed(g) = {}
    BY DEF WriteFragment
  <2> QED BY <2>1, <2>2 DEF EntryState, Unparsed
<1> HIDE DEF entries
<1>10. GroupStep
  BY <1>1, <1>2, <1>3 DEF GroupStep
<1>11. JobTyped' /\ OutTyped'
  <2>1. JobTyped'
    BY <1>2, <1>3, <1>5 DEF BatchInv, JobTyped, Stages
  <2>2. DOMAIN entries \subseteq Members(g)
    BY <1>7, <1>8
  <2> QED BY <1>3, <1>4, <1>6, <1>8, <2>1, <2>2 DEF BatchInv, OutTyped
<1>12. Positions'
  BY <1>1, <1>2, <1>5, <1>6 DEF BatchInv, Positions
<1>13. Staged'
  BY <1>2, <1>3 DEF BatchInv, Staged, ledgerVars
<1>14. Told'
  <2> SUFFICES ASSUME NEW x \in 1..Groups
      PROVE  /\ stage'[x] \in {"rendering", "writing", "rendered"} =>
                    fragment'[x] \in Entries /\ EntriesTrue(fragment[x], x)'
             /\ job'.fragments[x] # None => EntriesTrue(job.fragments[x], x)'
    BY DEF Told
  <2>1. CASE x = g
    <3>1. fragment'[x] = entries /\ EntriesTrue(fragment[x], x)'
      BY <1>2, <1>3, <1>4, <1>6, <1>9, <2>1 DEF EntriesTrue
    <3> QED BY <1>2, <1>3, <1>8, <2>1, <3>1 DEF BatchInv, Told, EntriesTrue
  <2>2. CASE x # g
    BY <1>2, <1>3, <1>4, <1>5, <1>6, <2>2 DEF BatchInv, Told, EntriesTrue
  <2> QED BY <2>1, <2>2
<1>15. Written'
  <2> SUFFICES ASSUME NEW x \in 1..Groups
      PROVE  /\ stage'[x] \in {"parsing", "rendering"} => report'[x] = None
             /\ stage'[x] = "rendered" =>
                   \/ report'[x] = None /\ Shown(x)' = {}
                   \/ report'[x] = WholeText(Shown(x))'
             /\ stage'[x] = "done" /\ job'.fragments[x] # None =>
                   report'[x] = WholeText(Readable(job.fragments[x], x))'
             /\ identity'[x] # None => identity'[x].whole
    BY DEF Written
  <2>1. CASE x = g
    BY <1>1, <1>3, <1>5, <1>6, <2>1 DEF BatchInv, Written
  <2>2. CASE x # g
    BY <1>2, <1>3, <1>4, <1>5, <1>6, <2>2 DEF BatchInv, Written, WholeText, Readable, Shown
  <2> QED BY <2>1, <2>2
<1> QED BY <1>10, <1>11, <1>12, <1>13, <1>14, <1>15, GroupKeeps

\* Opening, finishing or leaving out the text of a group (start_document_render
\* and its tee): what a finished text shows is what the entries say.
LEMMA TextKeeps ==
  ASSUME BatchInv, NEW g \in 1..Groups, OpenText(g) \/ CloseText(g) \/ NothingToShow(g)
  PROVE  BatchInv'
<1> DEFINE open == [run |-> job.run, shows |-> {}, whole |-> FALSE]
<1>1. job.pc \in {"start", "finish"} /\ stage[g] \in {"rendering", "writing"}
  BY EnginesWork DEF OpenText, CloseText, NothingToShow
<1>2. job' = job /\ SameRun /\ SameGroups
  BY DEF OpenText, CloseText, NothingToShow, SameRun, SameGroups
<1>3. UNCHANGED <<ledgerVars, files, identity, fragment, sidecars, combined, doc, html, exit, faults>>
  BY DEF OpenText, CloseText, NothingToShow, ledgerVars, outVars
<1>4. /\ stage \in [1..Groups -> Stages] /\ report \in [1..Groups -> Text \cup {None}]
      /\ job.run \in 1..MaxRuns
  BY <1>1, NotPublished DEF BatchInv, JobTyped, OutTyped
<1>5. Shown(g) \subseteq Execs /\ open \in Text /\ WholeText(Shown(g)) \in Text
  BY <1>4, JobFields DEF BatchInv, Shown, WholeText, Text
<1>6. /\ \/ report' = [report EXCEPT ![g] = open] /\ stage' = [stage EXCEPT ![g] = "writing"]
         \/ report' = [report EXCEPT ![g] = WholeText(Shown(g))]
            /\ stage' = [stage EXCEPT ![g] = "rendered"]
         \/ report' = report /\ stage' = [stage EXCEPT ![g] = "rendered"]
            /\ report[g] = None /\ Shown(g) = {}
  BY DEF BatchInv, Written, OpenText, CloseText, NothingToShow, outVars, WholeText
<1> HIDE DEF open
<1>7. GroupStep
  BY <1>1, <1>2, <1>3 DEF GroupStep
<1>8. JobTyped' /\ OutTyped'
  <2>1. JobTyped'
    BY <1>2, <1>3, <1>4, <1>6 DEF BatchInv, JobTyped, Stages
  <2>2. report' \in [1..Groups -> Text \cup {None}]
    BY <1>4, <1>5, <1>6
  <2> QED BY <1>3, <2>1, <2>2 DEF BatchInv, OutTyped
<1>9. Positions'
  BY <1>1, <1>2, <1>4, <1>6 DEF BatchInv, Positions
<1>10. Staged'
  BY <1>2, <1>3 DEF BatchInv, Staged, ledgerVars
<1>11. \A x \in 1..Groups : x # g => stage'[x] = stage[x] /\ report'[x] = report[x]
  BY <1>4, <1>6
<1>12. /\ stage'[g] = "writing" \/ (stage'[g] = "rendered" /\ report'[g] = WholeText(Shown(g)))
          \/ (stage'[g] = "rendered" /\ report'[g] = None /\ Shown(g) = {})
  BY <1>4, <1>6
<1>13. /\ \A x \in 1..Groups : Shown(x)' = Shown(x)
       /\ \A S : WholeText(S)' = WholeText(S)
       /\ \A x \in 1..Groups : Readable(job.fragments[x], x)' = Readable(job.fragments[x], x)
  BY <1>2, <1>3 DEF Shown, WholeText, Readable
<1>14. Told'
  <2> SUFFICES ASSUME NEW x \in 1..Groups
      PROVE  /\ stage'[x] \in {"rendering", "writing", "rendered"} =>
                    fragment'[x] \in Entries /\ EntriesTrue(fragment[x], x)'
             /\ job'.fragments[x] # None => EntriesTrue(job.fragments[x], x)'
    BY DEF Told
  <2> QED BY <1>1, <1>2, <1>3, <1>11 DEF BatchInv, Told, EntriesTrue
<1>15. Written'
  <2> SUFFICES ASSUME NEW x \in 1..Groups
      PROVE  /\ stage'[x] \in {"parsing", "rendering"} => report'[x] = None
             /\ stage'[x] = "rendered" =>
                   \/ report'[x] = None /\ Shown(x)' = {}
                   \/ report'[x] = WholeText(Shown(x))'
             /\ stage'[x] = "done" /\ job'.fragments[x] # None =>
                   report'[x] = WholeText(Readable(job.fragments[x], x))'
             /\ identity'[x] # None => identity'[x].whole
    BY DEF Written
  <2>1. CASE x = g
    BY <1>2, <1>3, <1>12, <1>13, <2>1 DEF BatchInv, Written, WholeText
  <2>2. CASE x # g
    BY <1>2, <1>3, <1>11, <1>13, <2>2 DEF BatchInv, Written, WholeText
  <2> QED BY <2>1, <2>2
<1> QED BY <1>7, <1>8, <1>9, <1>10, <1>14, <1>15, GroupKeeps

\* The end of a group (finish and _GroupReports.record): only a report whose
\* text is whole gets an identity, and the entries that go into the document
\* are those its text shows.
LEMMA FinishGroupKeeps ==
  ASSUME BatchInv, NEW g \in 1..Groups, FinishGroup(g)
  PROVE  BatchInv'
<1> DEFINE shown == WholeText(Shown(g))
<1>1. job.pc \in {"start", "finish"} /\ stage[g] = "rendered"
  BY EnginesWork DEF FinishGroup
<1>2. /\ stage \in [1..Groups -> Stages] /\ report \in [1..Groups -> Text \cup {None}]
      /\ identity \in [1..Groups -> Text \cup {None}]
      /\ fragment \in [1..Groups -> Entries \cup {None}]
      /\ job.run \in 1..MaxRuns
  BY <1>1, NotPublished DEF BatchInv, JobTyped, OutTyped
<1>3. fragment[g] \in Entries /\ EntriesTrue(fragment[g], g)
  BY <1>1 DEF BatchInv, Told
<1>4. shown \in Text /\ shown # None /\ shown.whole
  <2>1. Shown(g) \in SUBSET Execs
    BY JobFields DEF BatchInv, Shown
  <2>2. shown \in Text /\ shown.whole
    BY <1>2, <2>1 DEF WholeText, Text
  <2> QED BY <2>2, NoneIsNothing
<1>5. \/ report[g] = None /\ Shown(g) = {}
      \/ report[g] = shown
  BY <1>1 DEF BatchInv, Written
<1>6. /\ report' = [report EXCEPT ![g] = shown]
      /\ identity' = [identity EXCEPT ![g] = shown]
  BY <1>4, <1>5 DEF FinishGroup, WholeText
<1>7. stage' = [stage EXCEPT ![g] = "done"]
  BY DEF FinishGroup
<1>8. UNCHANGED <<ledgerVars, files, fragment, sidecars, combined, doc, html, exit, faults>>
  BY DEF FinishGroup, ledgerVars
<1>9. /\ job' \in Jobs /\ job'.pc = job.pc /\ job'.broken = job.broken /\ SameRun
      /\ job'.staged = job.staged
      /\ job'.outcome = [job.outcome EXCEPT ![g] = "Reported"]
      /\ job'.fragments = [job.fragments EXCEPT ![g] = fragment[g]]
  <2>1. job' = [job EXCEPT !.outcome = [job.outcome EXCEPT ![g] = "Reported"],
                           !.fragments = [job.fragments EXCEPT ![g] = fragment[g]]]
    BY DEF FinishGroup
  <2>2. /\ [job.outcome EXCEPT ![g] = "Reported"] \in [1..Groups -> Outcomes \cup {None}]
        /\ [job.fragments EXCEPT ![g] = fragment[g]] \in [1..Groups -> Entries \cup {None}]
    BY <1>3, JobFields DEF BatchInv, Outcomes
  <2> QED BY <2>1, <2>2 DEF BatchInv, JobTyped, Jobs, SameRun
<1> HIDE DEF shown
<1>10. GroupStep
  BY <1>1, <1>8, <1>9 DEF GroupStep
<1>11. JobTyped' /\ OutTyped'
  <2>1. JobTyped'
    BY <1>2, <1>7, <1>8, <1>9 DEF BatchInv, JobTyped, Stages, Over
  <2>2. report' \in [1..Groups -> Text \cup {None}] /\ identity' \in [1..Groups -> Text \cup {None}]
    BY <1>2, <1>4, <1>6
  <2> QED BY <1>8, <2>1, <2>2 DEF BatchInv, OutTyped
<1>12. /\ job.outcome \in [1..Groups -> Outcomes \cup {None}]
       /\ job.fragments \in [1..Groups -> Entries \cup {None}]
  BY JobFields DEF BatchInv
<1>13. \A x \in 1..Groups :
          x # g => /\ stage'[x] = stage[x] /\ report'[x] = report[x]
                   /\ identity'[x] = identity[x]
                   /\ job'.fragments[x] = job.fragments[x]
                   /\ job'.outcome[x] = job.outcome[x]
  BY <1>2, <1>6, <1>7, <1>9, <1>12
<1>14. /\ stage'[g] = "done" /\ report'[g] = shown /\ identity'[g] = shown
       /\ job'.fragments[g] = fragment[g] /\ job'.outcome[g] = "Reported"
  BY <1>2, <1>6, <1>7, <1>9, <1>12
<1>15. Positions'
  BY <1>1, <1>9, <1>13, <1>14, ZenonT(30) DEF BatchInv, Positions
<1>16. Staged'
  BY <1>8, <1>9 DEF BatchInv, Staged, ledgerVars
<1>17. Told'
  <2> SUFFICES ASSUME NEW x \in 1..Groups
      PROVE  /\ stage'[x] \in {"rendering", "writing", "rendered"} =>
                    fragment'[x] \in Entries /\ EntriesTrue(fragment[x], x)'
             /\ job'.fragments[x] # None => EntriesTrue(job.fragments[x], x)'
    BY DEF Told
  <2>1. CASE x = g
    BY <1>3, <1>8, <1>9, <1>14, <2>1 DEF EntriesTrue, SameRun
  <2>2. CASE x # g
    BY <1>8, <1>9, <1>13, <2>2 DEF BatchInv, Told, EntriesTrue, SameRun
  <2> QED BY <2>1, <2>2
<1>18. Written'
  <2> SUFFICES ASSUME NEW x \in 1..Groups
      PROVE  /\ stage'[x] \in {"parsing", "rendering"} => report'[x] = None
             /\ stage'[x] = "rendered" =>
                   \/ report'[x] = None /\ Shown(x)' = {}
                   \/ report'[x] = WholeText(Shown(x))'
             /\ stage'[x] = "done" /\ job'.fragments[x] # None =>
                   report'[x] = WholeText(Readable(job.fragments[x], x))'
             /\ identity'[x] # None => identity'[x].whole
    BY DEF Written
  <2>1. CASE x = g
    <3>1. WholeText(Readable(job.fragments[x], x))' = shown
      BY <1>9, <1>14, <2>1 DEF WholeText, Readable, Shown, SameRun, shown
    <3> QED BY <1>4, <1>14, <2>1, <3>1
  <2>2. CASE x # g
    BY <1>8, <1>9, <1>13, <2>2 DEF BatchInv, Written, WholeText, Readable, Shown, SameRun
  <2> QED BY <2>1, <2>2
<1> QED BY <1>10, <1>11, <1>15, <1>16, <1>17, <1>18, GroupKeeps

\* The start of a group (_start_group_report): what an earlier report left of
\* it goes before anything is staged.
LEMMA StartGroupKeeps ==
  ASSUME BatchInv, NEW g \in 1..Groups, StartGroup(g)
  PROVE  BatchInv'
<1> DEFINE successful == {e \in Members(g) : status[e] = "SUCCESS"}
<1>1. job.pc = "start" /\ stage[g] = "waiting"
  BY DEF StartGroup, FirstAt
<1>2. /\ stage \in [1..Groups -> Stages] /\ report \in [1..Groups -> Text \cup {None}]
      /\ identity \in [1..Groups -> Text \cup {None}]
      /\ fragment \in [1..Groups -> Entries \cup {None}]
  BY DEF BatchInv, JobTyped, OutTyped
<1>3. /\ job.outcome \in [1..Groups -> Outcomes \cup {None}]
      /\ job.staged \in [1..Groups -> SUBSET Execs]
      /\ successful \in SUBSET Execs
  BY JobFields DEF BatchInv, Members
<1>4. UNCHANGED <<ledgerVars, status, files, sidecars, combined, doc, html, exit, faults>>
  BY DEF StartGroup, ledgerVars
<1>5. fragment' = [fragment EXCEPT ![g] = None]
  BY DEF StartGroup
<1> DEFINE OthersSame ==
             \A x \in 1..Groups :
                x # g => /\ stage'[x] = stage[x] /\ report'[x] = report[x]
                         /\ identity'[x] = identity[x] /\ fragment'[x] = fragment[x]
                         /\ job'.outcome[x] = job.outcome[x]
                         /\ job'.staged[x] = job.staged[x]
           Typed ==
             /\ stage' \in [1..Groups -> Stages]
             /\ report' \in [1..Groups -> Text \cup {None}]
             /\ identity' \in [1..Groups -> Text \cup {None}]
           Going ==
             /\ job' \in Jobs /\ job'.pc = job.pc /\ SameRun
             /\ job'.fragments = job.fragments /\ (job.broken => job'.broken)
           Ends ==
             /\ stage'[g] \in {"empty", "failed"}
             /\ job'.staged[g] = job.staged[g]
             /\ job'.outcome[g] = "Reporting failed" => job'.broken
             /\ identity'[g] # None => identity'[g] = identity[g]
           Begins ==
             /\ stage'[g] = "parsing" /\ report'[g] = None /\ identity'[g] = None
             /\ job'.staged[g] = successful
             /\ job'.outcome[g] = job.outcome[g]
<1>6. OthersSame /\ Typed /\ Going /\ (Ends \/ Begins)
  <2>1. CASE successful = {}
    <3>1. job' = [job EXCEPT !.outcome = [job.outcome EXCEPT ![g] = "No successful results"]]
      BY <2>1 DEF StartGroup
    <3>2. [job.outcome EXCEPT ![g] = "No successful results"]
            \in [1..Groups -> Outcomes \cup {None}]
      BY <1>3 DEF Outcomes
    <3>3. /\ Going
          /\ job'.outcome = [job.outcome EXCEPT ![g] = "No successful results"]
          /\ job'.staged = job.staged
      BY <3>1, <3>2 DEF BatchInv, JobTyped, Jobs, SameRun
    <3>4. /\ stage' = [stage EXCEPT ![g] = "empty"]
          /\ report' = report /\ identity' = identity
      BY <2>1 DEF StartGroup
    <3>5. OthersSame
      BY <1>2, <1>3, <1>5, <3>3, <3>4
    <3>6. Typed
      BY <1>2, <3>4 DEF Stages, Over
    <3>7. Ends
      BY <1>2, <1>3, <3>3, <3>4
    <3> QED BY <3>3, <3>5, <3>6, <3>7
  <2>2. successful # {} => /\ report' = [report EXCEPT ![g] = None]
                           /\ identity' = [identity EXCEPT ![g] = None]
    BY DEF StartGroup
  <2>5. successful # {} =>
           /\ report'[g] = None /\ identity'[g] = None
           /\ \A x \in 1..Groups : x # g => report'[x] = report[x] /\ identity'[x] = identity[x]
    BY <1>2, <2>2
  <2>6. \A x \in 1..Groups : x # g => fragment'[x] = fragment[x]
    BY <1>2, <1>5
  <2>3. CASE successful # {} /\ ~GroupFails(g)
    <3>1. /\ job' = [job EXCEPT !.staged = [job.staged EXCEPT ![g] = successful]]
          /\ stage' = [stage EXCEPT ![g] = "parsing"]
      BY <2>3 DEF StartGroup
    <3>2. [job.staged EXCEPT ![g] = successful] \in [1..Groups -> SUBSET Execs]
      BY <1>3
    <3> HIDE DEF successful
    <3>3. /\ Going
          /\ job'.staged = [job.staged EXCEPT ![g] = successful]
          /\ job'.outcome = job.outcome
      BY <3>1, <3>2 DEF BatchInv, JobTyped, Jobs, SameRun
    <3>7. /\ stage'[g] = "parsing" /\ job'.staged[g] = successful
          /\ \A x \in 1..Groups : x # g => stage'[x] = stage[x] /\ job'.staged[x] = job.staged[x]
      <4>1. stage' = [stage EXCEPT ![g] = "parsing"]
        BY <3>1
      <4>2. job'.staged = [job.staged EXCEPT ![g] = successful]
        BY <3>3
      <4>3. stage'[g] = "parsing" /\ \A x \in 1..Groups : x # g => stage'[x] = stage[x]
        BY <1>2, <4>1
      <4>4. DOMAIN job.staged = 1..Groups
        BY <1>3
      <4>5. job'.staged[g] = successful
        BY <4>2, <4>4
      <4>6. \A x \in 1..Groups : x # g => job'.staged[x] = job.staged[x]
        BY <4>2, <4>4
      <4> QED BY <4>3, <4>5, <4>6
    <3>4. OthersSame
      BY <2>3, <2>5, <2>6, <3>3, <3>7
    <3>5. Typed
      BY <1>2, <2>2, <2>3, <3>1 DEF Stages
    <3>6. Begins
      BY <2>3, <2>5, <3>3, <3>7
    <3> QED BY <3>3, <3>4, <3>5, <3>6
  <2>4. CASE successful # {} /\ GroupFails(g)
    <3>1. /\ job' \in Jobs /\ job'.pc = job.pc /\ job'.broken /\ SameRun
          /\ job'.staged = job.staged /\ job'.fragments = job.fragments
          /\ job'.outcome = [job.outcome EXCEPT ![g] = "Reporting failed"]
          /\ stage' = [stage EXCEPT ![g] = "failed"]
      BY <2>4, GroupFailsEffect DEF BatchInv
    <3> HIDE DEF successful
    <3>5. \A x \in 1..Groups : x # g => /\ stage'[x] = stage[x]
                                        /\ job'.outcome[x] = job.outcome[x]
      BY <1>2, <1>3, <3>1
    <3>2. OthersSame
      BY <2>4, <2>5, <2>6, <3>1, <3>5
    <3>3. Typed
      BY <1>2, <2>2, <2>4, <3>1 DEF Stages, Over
    <3>4. Ends
      BY <1>2, <1>3, <2>2, <2>4, <3>1, ZenonT(30)
    <3> QED BY <3>1, <3>2, <3>3, <3>4
  <2> QED BY <2>1, <2>3, <2>4
<1>7. OthersSame
  BY <1>6
<1>8. Ends \/ Begins
  BY <1>6
<1>16. Typed /\ Going
  BY <1>6
<1>9. job.fragments[g] = None
  BY <1>1 DEF BatchInv, Positions
<1>10. GroupStep
  BY <1>1, <1>4, <1>16 DEF GroupStep
<1>11. JobTyped' /\ OutTyped'
  <2>1. JobTyped'
    BY <1>4, <1>16 DEF BatchInv, JobTyped
  <2>2. /\ report' \in [1..Groups -> Text \cup {None}]
        /\ identity' \in [1..Groups -> Text \cup {None}]
        /\ fragment' \in [1..Groups -> Entries \cup {None}]
    BY <1>2, <1>5, <1>16
  <2>3. \A x \in 1..Groups : fragment'[x] = None \/ fragment'[x] = fragment[x]
    BY <1>2, <1>5
  <2> QED BY <1>4, <2>1, <2>2, <2>3 DEF BatchInv, OutTyped
<1>12. Positions'
  <2> SUFFICES ASSUME NEW x \in 1..Groups
      PROVE  /\ job'.fragments[x] # None => stage'[x] = "done" \/ job'.pc = "idle"
             /\ job'.outcome[x] = "Reporting failed" => job'.broken
    BY <1>1, <1>16 DEF Positions
  <2>1. /\ job.fragments[x] # None => stage[x] = "done" \/ job.pc = "idle"
        /\ job.outcome[x] = "Reporting failed" => job.broken
    BY DEF BatchInv, Positions
  <2>2. CASE x = g
    BY <1>8, <1>9, <1>16, <2>1, <2>2
  <2>3. CASE x # g
    BY <1>7, <1>16, <2>1, <2>3
  <2> QED BY <2>2, <2>3
<1>13. Staged'
  BY <1>4, <1>7, <1>8, ZenonT(30) DEF BatchInv, Staged, successful
<1>14. Told'
  <2> SUFFICES ASSUME NEW x \in 1..Groups
      PROVE  /\ stage'[x] \in {"rendering", "writing", "rendered"} =>
                    fragment'[x] \in Entries /\ EntriesTrue(fragment[x], x)'
             /\ job'.fragments[x] # None => EntriesTrue(job.fragments[x], x)'
    BY DEF Told
  <2>1. CASE x = g
    BY <1>8, <1>9, <1>16, <2>1
  <2>2. CASE x # g
    BY <1>4, <1>7, <1>16, <2>2 DEF BatchInv, Told, EntriesTrue, SameRun
  <2> QED BY <2>1, <2>2
<1>15. Written'
  <2> SUFFICES ASSUME NEW x \in 1..Groups
      PROVE  /\ stage'[x] \in {"parsing", "rendering"} => report'[x] = None
             /\ stage'[x] = "rendered" =>
                   \/ report'[x] = None /\ Shown(x)' = {}
                   \/ report'[x] = WholeText(Shown(x))'
             /\ stage'[x] = "done" /\ job'.fragments[x] # None =>
                   report'[x] = WholeText(Readable(job.fragments[x], x))'
             /\ identity'[x] # None => identity'[x].whole
    BY DEF Written
  <2>1. CASE x = g
    BY <1>8, <1>9, <1>16, <2>1 DEF BatchInv, Written
  <2>2. CASE x # g
    <3>1. /\ Shown(x)' = Shown(x)
          /\ Readable(job.fragments[x], x)' = Readable(job.fragments[x], x)
          /\ \A S : WholeText(S)' = WholeText(S)
      BY <1>7, <1>16, <2>2 DEF WholeText, Readable, Shown, SameRun
    <3>2. /\ stage'[x] = stage[x] /\ report'[x] = report[x] /\ identity'[x] = identity[x]
          /\ job'.fragments[x] = job.fragments[x]
      BY <1>7, <1>16, <2>2
    <3>3. Written
      BY DEF BatchInv
    <3> HIDE DEF OthersSame, Typed, Going, Ends, Begins
    <3> QED BY <3>1, <3>2, <3>3 DEF Written
  <2> QED BY <2>1, <2>2
<1> QED BY <1>10, <1>11, <1>12, <1>13, <1>14, <1>15, GroupKeeps

-----------------------------------------------------------------------------
(* The report's own steps.                                                 *)

\* A new report (report_batch up to its first write) has said nothing yet, and
\* the document that is there is an older one.
LEMMA StartReportKeeps ==
  ASSUME BatchInv, NEW r \in Requests, StartReport(r)
  PROVE  BatchInv'
<1>1. /\ job.pc = "idle" /\ job.run \in 0..MaxRuns /\ job.run < MaxRuns
      /\ manifest \in Manifests
  BY JobFields DEF StartReport, BatchInv, LedgerTyped
<1>2. UNCHANGED <<ledgerVars, outVars, faults>> /\ exit' = None
  BY DEF StartReport
<1>3. /\ job'.pc = "clear" /\ job'.run = job.run + 1 /\ job'.request = r
      /\ job'.manifest = manifest /\ job'.broken = FALSE
      /\ job'.staged = [g \in 1..Groups |-> {}]
      /\ job'.outcome = [g \in 1..Groups |-> None]
      /\ job'.fragments = [g \in 1..Groups |-> None]
      /\ job'.failed = {}
      /\ DOMAIN job' = DOMAIN Idle
      /\ job' = [Idle EXCEPT !.pc = "clear", !.run = job.run + 1,
                             !.request = r, !.manifest = manifest]
  BY DEF StartReport, Idle
<1>4. job' \in Jobs
  <2>1. job' = [pc |-> "clear", run |-> job.run + 1, request |-> r, manifest |-> manifest,
                staged |-> [g \in 1..Groups |-> {}],
                outcome |-> [g \in 1..Groups |-> None],
                fragments |-> [g \in 1..Groups |-> None],
                failed |-> {}, broken |-> FALSE]
    BY DEF StartReport, Idle
  <2>2. job.run + 1 \in 0..MaxRuns
    BY <1>1, BatchAssumption
  <2> QED BY <1>1, <2>1, <2>2 DEF Jobs, Pcs
<1>5. \A g \in 1..Groups : stage'[g] \in {"out", "waiting"}
  BY DEF StartReport
<1>6. LedgerTyped' /\ OutTyped' /\ Posed'
  <2>1. LedgerTyped' /\ OutTyped'
    BY <1>2 DEF BatchInv, LedgerTyped, OutTyped, ledgerVars, outVars
  <2> QED BY <1>1, <1>2, <1>3, <2>1 DEF Posed
<1>7. JobTyped'
  BY <1>2, <1>4 DEF StartReport, BatchInv, JobTyped, Stages, Over
<1>8. Positions' /\ Staged' /\ Told'
  <2>1. \A g \in 1..Groups :
           job'.staged[g] = {} /\ job'.outcome[g] = None /\ job'.fragments[g] = None
    BY <1>3
  <2>2. None # "Reporting failed"
    BY NoneIsNothing DEF Outcomes
  <2>3. Positions'
    BY <1>3, <1>5, <2>1, <2>2 DEF Positions
  <2>4. Staged'
    BY <2>1 DEF Staged
  <2>5. Told'
    BY <1>5, <2>1 DEF Told
  <2> QED BY <2>3, <2>4, <2>5
<1>9. Written'
  BY <1>2, <1>5 DEF BatchInv, Written, outVars
<1>10. Sections'
  BY <1>2, <1>3 DEF BatchInv, Sections, CombinedIsWhole, Late, Clean, outVars
<1>11. doc # None => doc.run \in 1..MaxRuns /\ doc.run < job'.run
  BY <1>1, <1>3, BatchAssumption DEF BatchInv, DocumentTrue, OutTyped, Documents
<1>12. DocumentTrue'
  <2>1. doc # None => doc.run <= job'.run /\ doc.run < job'.run
    BY <1>1, <1>3, <1>11, BatchAssumption
  <2>2. UNCHANGED <<status, files, doc>>
    BY <1>2 DEF ledgerVars, outVars
  <2> QED BY <2>1, <2>2 DEF BatchInv, DocumentTrue
<1>13. doc # None => doc.run # job'.run
  BY <1>1, <1>3, <1>11
<1>14. TextsThere' /\ SidecarsThere' /\ Paged'
  BY <1>2, <1>3, <1>13 DEF TextsThere, SidecarsThere, Paged, Clean, outVars
<1> QED BY <1>6, <1>7, <1>8, <1>9, <1>10, <1>12, <1>14 DEF BatchInv

\* clear_live_sidecars: nothing was told that rested on them.
LEMMA ClearSidecarsKeeps ==
  ASSUME BatchInv, ClearSidecars
  PROVE  BatchInv'
<1>1. /\ job' \in Jobs /\ job'.pc = "start" /\ job'.broken = job.broken /\ SameRun /\ SameGroups
  BY JobMoves DEF ClearSidecars, BatchInv, Pcs
<1>2. job.pc = "clear" /\ UNCHANGED <<ledgerVars, stage, report, identity, fragment, combined, doc, html, exit, faults>>
  BY DEF ClearSidecars
<1>3. sidecars' = [e \in Execs |-> 0]
  BY DEF ClearSidecars
<1>4. /\ exit = None /\ job.run \in 1..MaxRuns /\ (doc # None => doc.run < job.run)
      /\ doc # None => doc.run \in 1..MaxRuns
  BY <1>2, NotPublished DEF BatchInv, OutTyped, Documents
<1>5. \A g \in 1..Groups : stage[g] \in {"out", "waiting"} /\ job.fragments[g] = None
  BY <1>2 DEF BatchInv, Positions
<1>6. LedgerTyped' /\ JobTyped'
  BY <1>1, <1>2 DEF BatchInv, LedgerTyped, JobTyped, ledgerVars
<1>7. OutTyped'
  BY <1>2, <1>3, BatchAssumption DEF BatchInv, OutTyped
<1>8. Posed' /\ Positions' /\ Staged'
  <2>1. Posed'
    BY <1>1, <1>2, <1>5 DEF BatchInv, Posed, SameRun, SameGroups, ledgerVars
  <2>2. Positions'
    BY <1>1, <1>2, <1>5 DEF BatchInv, Positions, SameRun, SameGroups, ledgerVars
  <2>3. Staged'
    BY <1>1, <1>2, <1>5 DEF BatchInv, Staged, SameRun, SameGroups, ledgerVars
  <2> QED BY <2>1, <2>2, <2>3
<1>9. Told'
  BY <1>1, <1>2, <1>5 DEF Told, SameGroups
<1>10. Written'
  BY <1>1, <1>2, WrittenKept DEF BatchInv
<1>11. Sections'
  BY <1>1, <1>2, <1>4 DEF BatchInv, Sections, CombinedIsWhole, Late, Clean
<1>12. doc # None => doc.run # job.run
  BY <1>4
<1>13. DocumentTrue' /\ TextsThere' /\ Paged'
  BY <1>1, <1>2, <1>4, <1>12
     DEF BatchInv, DocumentTrue, TextsThere, Paged, Clean, SameRun, ledgerVars
<1>14. SidecarsThere'
  BY <1>1, <1>2, <1>3, <1>12 DEF SidecarsThere, SameRun
<1> QED BY <1>6, <1>7, <1>8, <1>9, <1>10, <1>11, <1>13, <1>14 DEF BatchInv

\* Every selected group is started, or has ended (_run_group_reports).
LEMMA GroupsMove ==
  ASSUME BatchInv, AllStarted \/ AllFinished
  PROVE  BatchInv'
<1>1. \/ job.pc = "start" /\ job' = [job EXCEPT !.pc = "finish"]
      \/ /\ job.pc = "finish" /\ job' = [job EXCEPT !.pc = "unlink"]
         /\ \A g \in 1..Groups : stage[g] \in Over
  BY DEF AllStarted, AllFinished, Over
<1>2. UNCHANGED <<ledgerVars, stage, outVars, exit, faults>>
  BY DEF AllStarted, AllFinished
<1>3. /\ job' \in Jobs /\ job'.broken = job.broken /\ SameRun /\ SameGroups
      /\ \/ job.pc = "start" /\ job'.pc = "finish"
         \/ /\ job.pc = "finish" /\ job'.pc = "unlink"
            /\ \A g \in 1..Groups : stage[g] \in Over
  BY <1>1, JobMoves DEF BatchInv, Pcs
<1>4. /\ exit = None /\ job.run \in 1..MaxRuns /\ (doc # None => doc.run < job.run)
  BY <1>3, NotPublished
<1>5. LedgerTyped' /\ JobTyped' /\ OutTyped'
  BY <1>2, <1>3 DEF BatchInv, LedgerTyped, JobTyped, OutTyped, ledgerVars, outVars
<1>6. Posed' /\ Positions' /\ Staged'
  <2>1. Posed'
    BY <1>2, <1>3, <1>4 DEF BatchInv, Posed, SameRun, SameGroups, ledgerVars
  <2>2. Positions'
    BY <1>2, <1>3, <1>4 DEF BatchInv, Positions, SameRun, SameGroups, ledgerVars
  <2>3. Staged'
    BY <1>2, <1>3, <1>4 DEF BatchInv, Staged, SameRun, SameGroups, ledgerVars
  <2> QED BY <2>1, <2>2, <2>3
<1>7. UNCHANGED <<files, report, identity, fragment, sidecars, combined, doc, html>>
  BY <1>2 DEF ledgerVars, outVars
<1>8. Told' /\ Written'
  BY <1>2, <1>3, <1>7, ToldKept, WrittenKept DEF BatchInv
<1>9. Sections'
  BY <1>2, <1>3, <1>7, SectionsKept DEF BatchInv, Late, SameGroups
<1>10. DocumentTrue' /\ SidecarsThere' /\ Paged'
  BY <1>2, <1>3, <1>4, <1>7
     DEF BatchInv, DocumentTrue, SidecarsThere, Paged, Clean, SameRun, ledgerVars
<1>11. TextsThere'
  BY <1>3, <1>7, TextsKept DEF BatchInv
<1> QED BY <1>5, <1>6, <1>8, <1>9, <1>10, <1>11 DEF BatchInv

\* _write_combined_report: the old aggregate goes first.
LEMMA UnlinkCombinedKeeps ==
  ASSUME BatchInv, UnlinkCombined
  PROVE  BatchInv'
<1>1. job.pc = "unlink" /\ job' = [job EXCEPT !.pc = "combine"] /\ combined' = None
  BY DEF UnlinkCombined
<1>2. UNCHANGED <<ledgerVars, stage, files, report, identity, fragment, sidecars, doc, html, exit, faults>>
  BY DEF UnlinkCombined, ledgerVars
<1>3. job' \in Jobs /\ job'.pc = "combine" /\ job'.broken = job.broken /\ SameRun /\ SameGroups
  BY <1>1, JobMoves DEF BatchInv, Pcs
<1>4. /\ exit = None /\ job.run \in 1..MaxRuns /\ (doc # None => doc.run < job.run)
  BY <1>1, NotPublished
<1>5. LedgerTyped' /\ JobTyped' /\ OutTyped'
  BY <1>2, <1>3 DEF BatchInv, LedgerTyped, JobTyped, OutTyped, ledgerVars
<1>6. Posed' /\ Positions' /\ Staged'
  <2>1. Posed'
    BY <1>1, <1>2, <1>3, <1>4 DEF BatchInv, Posed, SameRun, SameGroups, ledgerVars
  <2>2. Positions'
    BY <1>1, <1>2, <1>3, <1>4 DEF BatchInv, Positions, SameRun, SameGroups, ledgerVars
  <2>3. Staged'
    BY <1>1, <1>2, <1>3, <1>4 DEF BatchInv, Staged, SameRun, SameGroups, ledgerVars
  <2> QED BY <2>1, <2>2, <2>3
<1>7. Told' /\ Written'
  BY <1>2, <1>3, ToldKept, WrittenKept DEF BatchInv
<1>8. Sections'
  BY <1>1, <1>2, <1>3, <1>4 DEF Sections, CombinedIsWhole, Late, Clean
<1>9. DocumentTrue' /\ SidecarsThere' /\ Paged'
  BY <1>1, <1>2, <1>3, <1>4 DEF BatchInv, DocumentTrue, SidecarsThere, Paged, Clean, SameRun, ledgerVars
<1>10. TextsThere'
  BY <1>2, <1>3, TextsKept DEF BatchInv
<1> QED BY <1>5, <1>6, <1>7, <1>8, <1>9, <1>10 DEF BatchInv

\* The groups of reports.txt are finitely many.
LEMMA EligibleCounted ==
  ASSUME JobTyped, job.run >= 1, Posed
  PROVE  Cardinality(Eligible) \in Nat
<1>1. Eligible \subseteq 1..Groups
  BY ManifestUse DEF Posed, Eligible
<1>2. IsFiniteSet(1..Groups)
  BY FS_Interval, BatchAssumption
<1> QED BY <1>1, <1>2, FS_Subset, FS_CardinalityType

\* The aggregate is written, or its write fails (_publish_report_text).
LEMMA CombineKeeps ==
  ASSUME BatchInv, WriteCombined \/ CombinedFails
  PROVE  BatchInv'
<1>1. job.pc = "combine"
  BY DEF WriteCombined, CombinedFails
<1>2. UNCHANGED <<ledgerVars, stage, files, report, identity, fragment, sidecars, doc, html, exit>>
  BY DEF WriteCombined, CombinedFails, ledgerVars, outVars
<1>3. faults' \in 0..MaxFaults
  BY BatchAssumption DEF WriteCombined, CombinedFails, BatchInv, JobTyped
<1>4. /\ job' \in Jobs /\ job'.pc = "assemble" /\ SameRun /\ SameGroups
      /\ job.broken => job'.broken
      /\ \/ combined' = Aggregate
         \/ job'.broken /\ combined' = combined
  <2>1. CASE WriteCombined
    <3>1. job' = [job EXCEPT !.pc = "assemble"] /\ combined' = Aggregate
      BY <2>1 DEF WriteCombined, Aggregate
    <3> QED BY <3>1, JobMoves DEF BatchInv, Pcs
  <2>2. CASE CombinedFails
    <3>1. job' = [job EXCEPT !.pc = "assemble", !.broken = TRUE] /\ combined' = combined
      BY <2>2 DEF CombinedFails, outVars
    <3> QED BY <3>1, JobBreaks DEF BatchInv, Pcs
  <2> QED BY <2>1, <2>2
<1>5. /\ exit = None /\ job.run \in 1..MaxRuns /\ (doc # None => doc.run < job.run)
  BY <1>1, NotPublished
<1>6. LedgerTyped' /\ JobTyped' /\ OutTyped'
  BY <1>2, <1>3, <1>4 DEF BatchInv, LedgerTyped, JobTyped, OutTyped, ledgerVars
<1>7. Posed' /\ Staged'
  BY <1>1, <1>2, <1>4, <1>5 DEF BatchInv, Posed, Staged, SameRun, SameGroups, ledgerVars
<1>8. Positions'
  BY <1>1, <1>2, <1>4 DEF BatchInv, Positions, SameGroups
<1>9. Told' /\ Written'
  BY <1>2, <1>4, ToldKept, WrittenKept DEF BatchInv
<1>10. Aggregate' = Aggregate
  BY <1>2, <1>4, AggregateKept DEF SameGroups
<1>11. Aggregate # None =>
          /\ Cardinality(DOMAIN Aggregate) >= 2
          /\ \A g \in DOMAIN Aggregate : Aggregate[g].whole
  <2>1. Cardinality(Eligible) \in Nat
    BY <1>5, EligibleCounted DEF BatchInv
  <2>2. Eligible \subseteq 1..Groups
    BY <1>5, ManifestUse DEF BatchInv, Posed, Eligible
  <2>3. \A g \in Eligible : report[g] # None /\ identity[g] = report[g]
    BY DEF Eligible, HasOwnedReport
  <2>4. \A g \in Eligible : report[g].whole
    BY <2>2, <2>3 DEF BatchInv, Written
  <2>5. Cardinality(Eligible) < 2 \/ Cardinality(Eligible) >= 2
    BY <2>1
  <2> QED BY <2>4, <2>5 DEF Aggregate
<1>12. Sections'
  BY <1>2, <1>4, <1>5, <1>10, <1>11 DEF BatchInv, Sections, CombinedIsWhole, Late, Clean
<1>13. DocumentTrue' /\ SidecarsThere' /\ Paged'
  BY <1>1, <1>2, <1>4, <1>5 DEF BatchInv, DocumentTrue, SidecarsThere, Paged, Clean, SameRun, ledgerVars
<1>14. TextsThere'
  BY <1>2, <1>4, TextsKept DEF BatchInv
<1> QED BY <1>6, <1>7, <1>8, <1>9, <1>12, <1>13, <1>14 DEF BatchInv

\* The document or the page is not written (_write_results_document).
LEMMA PublishFailsKeeps ==
  ASSUME BatchInv, PublishFails
  PROVE  BatchInv'
<1>1. /\ job.pc \in {"assemble", "page"} /\ UNCHANGED <<ledgerVars, stage, outVars, exit>>
      /\ job.pc = "page" => job.request.comparison # "unknown"
      /\ job' = [job EXCEPT !.pc = "tidy", !.broken = TRUE]
      /\ faults' \in 0..MaxFaults
  BY BatchAssumption DEF PublishFails, BatchInv, JobTyped
<1>2. UNCHANGED <<status, files, report, identity, fragment, sidecars, combined, doc, html>>
  BY <1>1 DEF ledgerVars, outVars
<1>3. job' \in Jobs /\ job'.pc = "tidy" /\ job'.broken /\ SameRun /\ SameGroups
  BY <1>1, JobBreaks DEF BatchInv, Pcs
<1>4. exit = None /\ job.run >= 1
  BY <1>1 DEF BatchInv, Posed
<1>5. LedgerTyped' /\ JobTyped' /\ OutTyped'
  BY <1>1, <1>3 DEF BatchInv, LedgerTyped, JobTyped, OutTyped, ledgerVars, outVars
<1>6. Posed' /\ Positions' /\ Staged'
  <2>1. Posed'
    BY <1>1, <1>2, <1>3, <1>4 DEF BatchInv, Posed, SameRun, SameGroups
  <2>2. Positions'
    BY <1>1, <1>2, <1>3, <1>4 DEF BatchInv, Positions, SameRun, SameGroups
  <2>3. Staged'
    BY <1>1, <1>2, <1>3, <1>4 DEF BatchInv, Staged, SameRun, SameGroups
  <2> QED BY <2>1, <2>2, <2>3
<1>7. Told' /\ Written'
  BY <1>1, <1>2, <1>3, ToldKept, WrittenKept DEF BatchInv
<1>8. Sections'
  BY <1>1, <1>2, <1>3, <1>4 DEF BatchInv, Sections, CombinedIsWhole, Late, Clean
<1>9. DocumentTrue' /\ SidecarsThere'
  BY <1>1, <1>2, <1>3 DEF BatchInv, DocumentTrue, SidecarsThere, SameRun
<1>10. Paged'
  <2>1. CASE job.pc = "assemble"
    <3>1. doc # None => doc.run # job.run
      BY <2>1, NotPublished, JobFields DEF BatchInv, OutTyped, Documents
    <3> QED BY <1>1, <1>2, <1>3, <1>4, <3>1 DEF Paged, Clean, SameRun
  <2>2. CASE job.pc = "page"
    BY <1>1, <1>2, <1>3, <1>4, <2>2 DEF Paged, Clean, SameRun
  <2> QED BY <1>1, <2>1, <2>2
<1>11. TextsThere'
  BY <1>2, <1>3, TextsKept DEF BatchInv
<1> QED BY <1>5, <1>6, <1>7, <1>8, <1>9, <1>10, <1>11 DEF BatchInv

\* The page of the document; none when the comparison cannot be met
\* (publish_document).
LEMMA WritePageKeeps ==
  ASSUME BatchInv, WritePage
  PROVE  BatchInv'
<1>1. /\ job.pc = "page"
      /\ html' = IF job.request.comparison = "unknown" THEN None ELSE job.run
      /\ UNCHANGED <<ledgerVars, stage, status, files, report, identity, fragment, sidecars, combined,
                     doc, exit, faults>>
  BY DEF WritePage, ledgerVars
<1>2. /\ job' \in Jobs /\ job'.pc = "tidy" /\ SameRun /\ SameGroups
      /\ job.broken => job'.broken
      /\ job.request.comparison = "unknown" => job'.broken
  <2>1. job' = [job EXCEPT !.pc = "tidy",
                           !.broken = job.broken \/ job.request.comparison = "unknown"]
    BY DEF WritePage
  <2> QED BY <2>1 DEF BatchInv, JobTyped, Jobs, Pcs, SameRun, SameGroups
<1>3. exit = None /\ job.run \in 1..MaxRuns
  BY <1>1, JobFields, BatchAssumption DEF BatchInv, Posed
<1>4. LedgerTyped' /\ JobTyped'
  BY <1>1, <1>2 DEF BatchInv, LedgerTyped, JobTyped, ledgerVars
<1>5. OutTyped'
  BY <1>1, <1>3 DEF BatchInv, OutTyped
<1>6. Posed' /\ Positions' /\ Staged'
  <2>1. Posed'
    BY <1>1, <1>2, <1>3 DEF BatchInv, Posed, SameRun, SameGroups
  <2>2. Positions'
    BY <1>1, <1>2, <1>3 DEF BatchInv, Positions, SameRun, SameGroups
  <2>3. Staged'
    BY <1>1, <1>2, <1>3 DEF BatchInv, Staged, SameRun, SameGroups
  <2> QED BY <2>1, <2>2, <2>3
<1>7. Told' /\ Written'
  BY <1>1, <1>2, ToldKept, WrittenKept DEF BatchInv
<1>8. Aggregate' = Aggregate
  BY <1>1, <1>2, AggregateKept DEF SameGroups
<1>9. Sections'
  BY <1>1, <1>2, <1>3, <1>8 DEF BatchInv, Sections, CombinedIsWhole, Late, Clean
<1>10. DocumentTrue' /\ SidecarsThere'
  BY <1>1, <1>2 DEF BatchInv, DocumentTrue, SidecarsThere, SameRun
<1>11. Paged'
  BY <1>1, <1>2, <1>3 DEF BatchInv, Paged, Clean, SameRun
<1>12. TextsThere'
  BY <1>1, <1>2, TextsKept DEF BatchInv
<1> QED BY <1>4, <1>5, <1>6, <1>7, <1>9, <1>10, <1>11, <1>12 DEF BatchInv

\* The end of a report: its exit status and the fragments that go.
LEMMA EndReportKeeps ==
  ASSUME BatchInv, EndReport
  PROVE  BatchInv'
<1>1. /\ job.pc = "tidy" /\ exit' = ExitStatus /\ job' = [job EXCEPT !.pc = "idle"]
      /\ fragment' = [g \in 1..Groups |-> IF stage[g] = "out" THEN fragment[g] ELSE None]
      /\ UNCHANGED <<ledgerVars, stage, status, files, report, identity, sidecars, combined, doc,
                     html, faults>>
  BY DEF EndReport, ledgerVars
<1>2. job' \in Jobs /\ job'.pc = "idle" /\ job'.broken = job.broken /\ SameRun /\ SameGroups
  BY <1>1, JobMoves DEF BatchInv, Pcs
<1>3. job.run >= 1 /\ exit = None /\ job.broken \in BOOLEAN
  BY <1>1, JobFields DEF BatchInv, Posed
<1>4. \A g \in 1..Groups : stage[g] \in Over
  BY <1>1 DEF BatchInv, Positions
<1>5. LedgerTyped' /\ JobTyped'
  BY <1>1, <1>2 DEF BatchInv, LedgerTyped, JobTyped, ledgerVars
<1>6. OutTyped'
  BY <1>1 DEF BatchInv, OutTyped
<1>7. Posed' /\ Positions' /\ Staged'
  <2>1. Posed'
    BY <1>1, <1>2, <1>3, <1>4 DEF BatchInv, Posed, SameRun, SameGroups
  <2>2. Positions'
    BY <1>1, <1>2, <1>3, <1>4 DEF BatchInv, Positions, SameRun, SameGroups
  <2>3. Staged'
    BY <1>1, <1>2, <1>3, <1>4 DEF BatchInv, Staged, SameRun, SameGroups
  <2> QED BY <2>1, <2>2, <2>3
<1>8. Told'
  BY <1>1, <1>2, <1>4 DEF BatchInv, Told, EntriesTrue, SameRun, SameGroups, Over
<1>9. Written'
  <2> SUFFICES ASSUME NEW g \in 1..Groups
      PROVE  /\ stage'[g] \in Over
             /\ stage'[g] = "done" /\ job'.fragments[g] # None =>
                   report'[g] = WholeText(Readable(job.fragments[g], g))'
             /\ identity'[g] # None => identity'[g].whole
    BY DEF Written, Over
  <2>1. /\ stage[g] = "done" /\ job.fragments[g] # None =>
              report[g] = WholeText(Readable(job.fragments[g], g))
        /\ identity[g] # None => identity[g].whole
    BY DEF BatchInv, Written
  <2>2. Readable(job.fragments[g], g)' = Readable(job.fragments[g], g)
    BY <1>2 DEF Readable, SameGroups
  <2>3. WholeText(Readable(job.fragments[g], g))' = WholeText(Readable(job.fragments[g], g))
    BY <1>2, <2>2 DEF WholeText, SameRun
  <2>4. stage' = stage /\ report' = report /\ identity' = identity
        /\ job'.fragments[g] = job.fragments[g]
    BY <1>1, <1>2 DEF SameGroups
  <2> QED BY <1>4, <2>1, <2>3, <2>4
<1>10. Aggregate' = Aggregate
  BY <1>1, <1>2, AggregateKept DEF SameGroups
<1>11. exit' # 1 => ~job.broken
  BY <1>1 DEF ExitStatus
<1>12. Sections'
  BY <1>1, <1>2, <1>3, <1>10, <1>11 DEF BatchInv, Sections, CombinedIsWhole, Late, Clean
<1>13. DocumentTrue' /\ SidecarsThere'
  BY <1>1, <1>2 DEF BatchInv, DocumentTrue, SidecarsThere, SameRun
<1>14. Paged'
  <2>1. exit' # 1 => doc # None /\ doc.run = job.run /\ html = job.run
    BY <1>1, <1>11 DEF BatchInv, Paged
  <2>2. exit' # 1 /\ job.request.require => (exit' = 0 <=> doc.complete)
    <3>1. doc # None => doc.complete \in BOOLEAN
      BY DEF BatchInv, OutTyped, Documents
    <3>2. job.request.require \in BOOLEAN
      BY <1>3, BatchAssumption DEF BatchInv, Posed
    <3> QED BY <1>1, <1>11, <2>1, <3>1, <3>2 DEF ExitStatus
  <2> QED BY <1>1, <1>2, <2>1, <2>2 DEF BatchInv, Paged, Clean, SameRun
<1>15. TextsThere'
  BY <1>1, <1>2, TextsKept DEF BatchInv
<1> QED BY <1>5, <1>6, <1>7, <1>8, <1>9, <1>12, <1>13, <1>14, <1>15 DEF BatchInv

\* A killed report leaves what it has written.
LEMMA KilledKeeps ==
  ASSUME BatchInv, Killed
  PROVE  BatchInv'
<1>1. /\ job.pc # "idle" /\ exit' = None /\ job' = [job EXCEPT !.pc = "idle"]
      /\ stage' = [g \in 1..Groups |-> "out"]
      /\ UNCHANGED <<ledgerVars, outVars>> /\ faults' \in 0..MaxFaults
  BY BatchAssumption DEF Killed, BatchInv, JobTyped
<1>2. UNCHANGED <<status, files, report, identity, fragment, sidecars, combined, doc, html>>
  BY <1>1 DEF ledgerVars, outVars
<1>3. job' \in Jobs /\ job'.pc = "idle" /\ job'.broken = job.broken /\ SameRun /\ SameGroups
  BY <1>1, JobMoves DEF BatchInv, Pcs
<1>4. LedgerTyped' /\ JobTyped' /\ OutTyped'
  <2>1. stage' \in [1..Groups -> Stages]
    BY <1>1 DEF Stages, Over
  <2> QED BY <1>1, <1>3, <2>1 DEF BatchInv, LedgerTyped, JobTyped, OutTyped, ledgerVars, outVars
<1>5. Posed' /\ Positions' /\ Staged'
  <2>1. Posed'
    BY <1>1, <1>2, <1>3 DEF BatchInv, Posed, SameRun, SameGroups, Over
  <2>2. Positions'
    BY <1>1, <1>2, <1>3 DEF BatchInv, Positions, SameRun, SameGroups, Over
  <2>3. Staged'
    BY <1>1, <1>2, <1>3 DEF BatchInv, Staged, SameRun, SameGroups, Over
  <2> QED BY <2>1, <2>2, <2>3
<1>6. Told'
  BY <1>1, <1>2, <1>3 DEF BatchInv, Told, EntriesTrue, SameRun, SameGroups
<1>7. Written'
  BY <1>1, <1>2 DEF BatchInv, Written
<1>8. Sections'
  BY <1>1, <1>2, <1>3 DEF BatchInv, Sections, CombinedIsWhole, Late, Clean
<1>9. DocumentTrue' /\ SidecarsThere' /\ Paged'
  BY <1>1, <1>2, <1>3 DEF BatchInv, DocumentTrue, SidecarsThere, Paged, Clean, SameRun
<1>10. TextsThere'
  BY <1>2, <1>3, TextsKept DEF BatchInv
<1> QED BY <1>4, <1>5, <1>6, <1>7, <1>8, <1>9, <1>10 DEF BatchInv

\* An entry of the document (_merge_execution): what it calls readable was
\* staged and read in this run, and it says what the engine said.
LEMMA Merged ==
  ASSUME BatchInv, NEW e \in Execs
  PROVE  LET g == GroupOf[e]
             entry == MergeExecution(e)
         IN  /\ g \in 1..Groups /\ e \in Members(g)
             /\ entry \in Listed /\ entry.ledger = status[e]
             /\ entry.result \in {"complete", "partial"} =>
                   /\ job.fragments[g] # None /\ e \in job.staged[g]
             /\ job.fragments[g] # None /\ e \in job.staged[g] =>
                   entry.result = job.fragments[g][e]
<1> DEFINE g == GroupOf[e]
<1>1. g \in 1..Groups /\ e \in Members(g)
  BY BatchAssumption DEF Execs, Members
<1>2. status[e] \in Statuses /\ job.fragments[g] \in Entries \cup {None}
  BY <1>1, JobFields DEF BatchInv, LedgerTyped
<1>3. CASE job.fragments[g] # None /\ e \in job.staged[g]
  <2>1. status[e] = "SUCCESS"
    BY <1>1, <1>3 DEF BatchInv, Staged
  <2>2. DOMAIN job.fragments[g] = job.staged[g]
    BY <1>1, <1>3 DEF BatchInv, Told, EntriesTrue
  <2>3. job.fragments[g][e] \in Results
    BY <1>2, <1>3, <2>2 DEF Entries
  <2>4. MergeExecution(e) = [ledger |-> status[e], result |-> job.fragments[g][e],
                             problem |-> None]
    BY <1>3, <2>1 DEF MergeExecution
  <2> QED BY <1>1, <1>2, <1>3, <2>3, <2>4 DEF Listed
<1>4. CASE ~(job.fragments[g] # None /\ e \in job.staged[g])
  <2> DEFINE absent == AbsentState(g, e)
  <2>1. MergeExecution(e) = [ledger |-> status[e], result |-> absent.result,
                             problem |-> absent.problem]
    BY <1>4 DEF MergeExecution
  <2>2. /\ absent.result \in {"not_reported", "not_run", "missing"}
        /\ absent.problem \in {None, "report_failed"}
    BY DEF AbsentState
  <2> HIDE DEF absent
  <2> QED BY <1>1, <1>2, <1>4, <2>1, <2>2 DEF Listed, Results
<1> QED BY <1>3, <1>4

\* The new document (assemble_batch_document) is true, has the text of every
\* group it calls readable, and the sidecars it refers to.
LEMMA NewDocument ==
  ASSUME BatchInv, job.pc = "assemble"
  PROVE  /\ Document \in Documents /\ Document.run = job.run
         /\ Document.complete =>
               \A e \in DOMAIN Document.executions : status[e] = "SUCCESS" /\ files[e] = "whole"
         /\ \A g \in Committed(job.manifest) :
               LET said == {e \in Members(g) :
                               Document.executions[e].result \in {"complete", "partial"}}
               IN  said # {} => report[g] = WholeText(said)
         /\ \A e \in Document.live : sidecars[e] = job.run
<1> DEFINE rows == Rows(job.manifest)
           X == [e \in rows |-> MergeExecution(e)]
           live == {e \in rows : /\ Kind[GroupOf[e]] = "io"
                                 /\ X[e].result \in {"complete", "partial"}}
           readable == {"complete", "partial"}
<1>1. job.run \in 1..MaxRuns /\ job.manifest \in Manifests
  BY NotPublished, BatchAssumption DEF BatchInv, Posed
<1>2. /\ rows \subseteq Execs /\ Committed(job.manifest) \subseteq 1..Groups
      /\ \A g \in Committed(job.manifest) : Members(g) \subseteq rows
  BY <1>1, ManifestUse
<1>3. Document = [run |-> job.run, executions |-> X, complete |-> BatchOutcome(X), live |-> live]
  BY DEF Document
<1>4. \A e \in rows : X[e] = MergeExecution(e)
  OBVIOUS
<1>5. DOMAIN X = rows
  OBVIOUS
<1>6. \A e \in rows :
         /\ GroupOf[e] \in 1..Groups
         /\ X[e] \in Listed /\ X[e].ledger = status[e]
         /\ X[e].result \in readable =>
               job.fragments[GroupOf[e]] # None /\ e \in job.staged[GroupOf[e]]
         /\ job.fragments[GroupOf[e]] # None /\ e \in job.staged[GroupOf[e]] =>
               X[e].result = job.fragments[GroupOf[e]][e]
  <2> SUFFICES ASSUME NEW e \in rows
      PROVE  /\ GroupOf[e] \in 1..Groups
             /\ X[e] \in Listed /\ X[e].ledger = status[e]
             /\ X[e].result \in readable =>
                   job.fragments[GroupOf[e]] # None /\ e \in job.staged[GroupOf[e]]
             /\ job.fragments[GroupOf[e]] # None /\ e \in job.staged[GroupOf[e]] =>
                   X[e].result = job.fragments[GroupOf[e]][e]
    OBVIOUS
  <2>1. e \in Execs /\ X[e] = MergeExecution(e)
    BY <1>2, <1>4
  <2> HIDE DEF X
  <2> QED BY <2>1, Merged
<1>7. X \in UNION {[R -> Listed] : R \in SUBSET Execs}
  <2>1. X \in [rows -> Listed]
    BY <1>5, <1>6
  <2> HIDE DEF X
  <2> QED BY <1>2, <2>1
<1> HIDE DEF X
<1>8. BatchOutcome(X) \in BOOLEAN /\ live \in SUBSET Execs
  BY <1>2 DEF BatchOutcome
<1>9. Document \in Documents /\ Document.run = job.run /\ Document.executions = X
      /\ Document.complete = BatchOutcome(X) /\ Document.live = live
  <2> HIDE DEF live
  <2> QED BY <1>1, <1>3, <1>7, <1>8 DEF Documents
<1>10. ASSUME BatchOutcome(X), NEW e \in rows PROVE status[e] = "SUCCESS" /\ files[e] = "whole"
  <2>1. X[e].ledger = "SUCCESS" /\ X[e].result = "complete"
    BY <1>5, <1>10 DEF BatchOutcome
  <2>2. job.fragments[GroupOf[e]] # None /\ e \in job.staged[GroupOf[e]]
        /\ job.fragments[GroupOf[e]][e] = "complete" /\ GroupOf[e] \in 1..Groups
    BY <1>6, <2>1
  <2> QED BY <1>6, <2>1, <2>2 DEF BatchInv, Told, EntriesTrue
<1>11. ASSUME NEW g \in Committed(job.manifest)
       PROVE  LET said == {e \in Members(g) : X[e].result \in readable}
              IN  said # {} => report[g] = WholeText(said)
  <2> DEFINE said == {e \in Members(g) : X[e].result \in readable}
  <2> SUFFICES ASSUME said # {} PROVE report[g] = WholeText(said)
    OBVIOUS
  <2>1. g \in 1..Groups /\ Members(g) \subseteq rows /\ \A e \in Members(g) : GroupOf[e] = g
    BY <1>2 DEF Members
  <2>2. job.fragments[g] # None
    BY <1>6, <2>1
  <2>3. stage[g] = "done"
    BY <2>1, <2>2 DEF BatchInv, Positions
  <2>4. job.staged[g] \subseteq Members(g)
    BY <2>1 DEF BatchInv, Staged
  <2>5. said = Readable(job.fragments[g], g)
    BY <1>6, <2>1, <2>2, <2>4 DEF Readable
  <2> QED BY <2>1, <2>2, <2>3, <2>5 DEF BatchInv, Written
<1>12. ASSUME NEW e \in live PROVE sidecars[e] = job.run
  <2>1. /\ e \in rows /\ Kind[GroupOf[e]] = "io" /\ X[e].result \in readable
    OBVIOUS
  <2>2. /\ job.fragments[GroupOf[e]] # None /\ e \in job.staged[GroupOf[e]]
        /\ job.fragments[GroupOf[e]][e] \in readable /\ GroupOf[e] \in 1..Groups
    BY <1>6, <2>1
  <2> QED BY <2>1, <2>2 DEF BatchInv, Told, EntriesTrue
<1> QED BY <1>5, <1>9, <1>10, <1>11, <1>12

\* write_document renames it into place.
LEMMA WriteDocumentKeeps ==
  ASSUME BatchInv, WriteDocument
  PROVE  BatchInv'
<1>1. /\ job.pc = "assemble" /\ job' = [job EXCEPT !.pc = "page"] /\ doc' = Document
      /\ UNCHANGED <<ledgerVars, stage, status, files, report, identity, fragment, sidecars,
                     combined, html, exit, faults>>
  BY DEF WriteDocument, ledgerVars
<1>2. job' \in Jobs /\ job'.pc = "page" /\ job'.broken = job.broken /\ SameRun /\ SameGroups
  BY <1>1, JobMoves DEF BatchInv, Pcs
<1>3. exit = None /\ job.run \in 1..MaxRuns
  BY <1>1, NotPublished
<1>4. /\ Document \in Documents /\ Document.run = job.run
      /\ Document.complete =>
            \A e \in DOMAIN Document.executions : status[e] = "SUCCESS" /\ files[e] = "whole"
      /\ \A g \in Committed(job.manifest) :
            LET said == {e \in Members(g) :
                            Document.executions[e].result \in {"complete", "partial"}}
            IN  said # {} => report[g] = WholeText(said)
      /\ \A e \in Document.live : sidecars[e] = job.run
  BY <1>1, NewDocument
<1>5. doc' \in Documents /\ doc' # None
  BY <1>1, <1>4, NoneIsNothing
<1>6. LedgerTyped' /\ JobTyped' /\ OutTyped'
  BY <1>1, <1>2, <1>5 DEF BatchInv, LedgerTyped, JobTyped, OutTyped, ledgerVars
<1>7. Posed' /\ Positions' /\ Staged'
  <2>1. Posed'
    BY <1>1, <1>2, <1>3 DEF BatchInv, Posed, SameRun, SameGroups
  <2>2. Positions'
    BY <1>1, <1>2, <1>3 DEF BatchInv, Positions, SameRun, SameGroups
  <2>3. Staged'
    BY <1>1, <1>2, <1>3 DEF BatchInv, Staged, SameRun, SameGroups
  <2> QED BY <2>1, <2>2, <2>3
<1>8. Told' /\ Written'
  BY <1>1, <1>2, ToldKept, WrittenKept DEF BatchInv
<1>9. Sections'
  BY <1>1, <1>2, SectionsKept DEF BatchInv, Late, SameGroups
<1>10. DocumentTrue'
  BY <1>1, <1>2, <1>3, <1>4 DEF DocumentTrue, SameRun
<1>11. TextsThere'
  BY <1>1, <1>2, <1>4 DEF TextsThere, Said, WholeText, SameRun, Committed
<1>12. SidecarsThere'
  BY <1>1, <1>2, <1>4 DEF BatchInv, SidecarsThere, SameRun
<1>13. Paged'
  BY <1>1, <1>2, <1>3, <1>4, <1>5 DEF Paged, Clean, SameRun
<1> QED BY <1>6, <1>7, <1>8, <1>9, <1>10, <1>11, <1>12, <1>13 DEF BatchInv

-----------------------------------------------------------------------------
(* The theorems.                                                           *)

\* A batch starts with its first group and without any report.
LEMMA InitSound == Init => BatchInv
<1> SUFFICES ASSUME Init PROVE BatchInv
  OBVIOUS
<1> USE DEF Init
<1>1. LedgerTyped
  <2>1. 1 \in 1..Groups
    BY BatchAssumption
  <2>2. manifest \in Manifests
    BY <2>1 DEF Manifests
  <2>3. status \in [Execs -> Statuses]
    BY DEF Statuses
  <2>4. DOMAIN files = Execs /\ \A e \in Execs : files[e] = None
    OBVIOUS
  <2> QED BY <2>2, <2>3, <2>4 DEF LedgerTyped
<1>2. /\ job.pc = "idle" /\ job.run = 0 /\ job.broken = FALSE
      /\ \A g \in 1..Groups : /\ job.staged[g] = {} /\ job.outcome[g] = None
                              /\ job.fragments[g] = None
  BY DEF Idle
<1>3. JobTyped
  BY BatchAssumption DEF JobTyped, Jobs, Idle, Pcs, Stages, Over
<1>4. OutTyped
  BY BatchAssumption DEF OutTyped
<1>5. Posed /\ Staged
  BY <1>2 DEF Posed, Staged
<1>6. Positions
  BY <1>2, NoneIsNothing DEF Positions, Over, Outcomes
<1>7. Told /\ Written
  BY <1>2 DEF Told, Written
<1>8. Sections /\ DocumentTrue /\ TextsThere /\ SidecarsThere /\ Paged
  BY <1>2 DEF Sections, CombinedIsWhole, Late, Clean, DocumentTrue, TextsThere, SidecarsThere,
              Paged
<1> QED BY <1>1, <1>3, <1>4, <1>5, <1>6, <1>7, <1>8 DEF BatchInv

\* Every step of the batch, of an engine and of a report keeps the invariant.
LEMMA NextKeeps == BatchInv /\ [Next]_vars => BatchInv'
<1> SUFFICES ASSUME BatchInv, [Next]_vars PROVE BatchInv'
  OBVIOUS
<1>1. CASE Batching
  BY <1>1, BatchingSteps, BatchKeeps DEF BatchInv
<1>2. ASSUME NEW g \in 1..Groups, Engine(g) PROVE BatchInv'
  BY <1>2, ParseTaskKeeps, WriteFragmentKeeps, TextKeeps DEF Engine
<1>3. ASSUME NEW g \in 1..Groups, StartGroup(g) \/ FinishGroup(g) \/ EngineFails(g)
      PROVE  BatchInv'
  BY <1>3, StartGroupKeeps, FinishGroupKeeps, EngineFailsKeeps
<1>4. CASE ClearSidecars \/ AllStarted \/ AllFinished
  BY <1>4, ClearSidecarsKeeps, GroupsMove
<1>5. CASE UnlinkCombined \/ WriteCombined \/ CombinedFails
  BY <1>5, UnlinkCombinedKeeps, CombineKeeps
<1>6. CASE WriteDocument \/ WritePage \/ PublishFails
  BY <1>6, WriteDocumentKeeps, WritePageKeeps, PublishFailsKeeps
<1>7. CASE EndReport \/ Killed
  BY <1>7, EndReportKeeps, KilledKeeps
<1>8. ASSUME NEW r \in Requests, StartReport(r) PROVE BatchInv'
  BY <1>8, StartReportKeeps
<1>9. CASE UNCHANGED vars
  <2>1. UNCHANGED <<job, stage, outVars, exit, faults, manifest, sealed, status, files>>
    BY <1>9 DEF vars, ledgerVars
  <2>2. BatchStep
    BY <2>1 DEF BatchStep, BatchInv, LedgerTyped, JobTyped
  <2> QED BY <2>2, BatchKeeps
<1> QED BY <1>1, <1>2, <1>3, <1>4, <1>5, <1>6, <1>7, <1>8, <1>9 DEF Next, Reporting

\* The invariant holds throughout.
LEMMA AlwaysSound == Spec => []BatchInv
  BY InitSound, NextKeeps, PTL DEF Spec

\* A results.json that says complete is right, whatever the batch did while it
\* was assembled: every execution in it has succeeded with whole results
\* (assemble_batch_document, _batch_outcome).
THEOREM CompleteMeansComplete == Spec => []CompleteIsTrue
<1>1. BatchInv => CompleteIsTrue
  BY DEF BatchInv, DocumentTrue, CompleteIsTrue
<1> QED BY <1>1, AlwaysSound, PTL

\* reports.txt never shows a report that was not finished, and after a report
\* without a write error it has every finished report and nothing else
\* (_write_combined_report, _has_owned_report).
THEOREM CombinedReportIsSound == Spec => []CombinedSound
<1>1. BatchInv => CombinedSound
  <2> SUFFICES ASSUME BatchInv PROVE CombinedIsCurrent
    BY DEF BatchInv, Sections, CombinedSound
  <2> SUFFICES ASSUME Ended, exit # 1
      PROVE  LET owned == {g \in Committed(job.manifest) :
                             /\ identity[g] # None /\ identity[g] = report[g]
                             /\ job.outcome[g] # "No successful results"}
             IN  IF Cardinality(owned) < 2 THEN combined = None
                 ELSE combined = [g \in owned |-> report[g]]
    BY DEF CombinedIsCurrent
  <2>1. combined = Aggregate /\ ~job.broken
    BY DEF BatchInv, Sections, Clean, Ended
  <2>2. Committed(job.manifest) \subseteq 1..Groups
    BY ManifestUse DEF BatchInv, Posed, Ended
  <2>3. \A g \in 1..Groups : /\ job.outcome[g] \in Outcomes \cup {None}
                             /\ job.outcome[g] # "Reporting failed"
    BY <2>1, JobFields DEF BatchInv, Positions
  <2>4. Eligible = {g \in Committed(job.manifest) :
                      /\ identity[g] # None /\ identity[g] = report[g]
                      /\ job.outcome[g] # "No successful results"}
    BY <2>2, <2>3, NoneIsNothing DEF Eligible, HasOwnedReport, Outcomes
  <2> QED BY <2>1, <2>4 DEF Aggregate
<1> QED BY <1>1, AlwaysSound, PTL

\* What one report publishes belongs together, whatever failed or was killed
\* before it: document, group reports, page, sidecars and exit status agree
\* (publish_document, report_batch).
THEOREM ReportsBelongTogether == Spec => []PublishedTogether
<1>1. BatchInv => PublishedTogether
  <2> SUFFICES ASSUME BatchInv PROVE PublishedTogether
    OBVIOUS
  <2>1. TypeOK
    BY ManifestUse DEF BatchInv, LedgerTyped, JobTyped, OutTyped, TypeOK
  <2>2. TextAgreesWithDocument
    <3> SUFFICES ASSUME Ended, doc # None, doc.run = job.run,
                        NEW g \in Committed(job.manifest), Said(g) # {}
        PROVE  /\ report[g] # None /\ report[g].run = job.run
               /\ report[g].whole /\ report[g].shows = Said(g)
      BY DEF TextAgreesWithDocument, Said
    <3>1. report[g] = WholeText(Said(g)) /\ g \in 1..Groups
      BY ManifestUse DEF BatchInv, TextsThere, Posed, Ended
    <3>2. WholeText(Said(g)) \in Text
      <4>1. job.run \in 1..MaxRuns /\ Said(g) \in SUBSET Execs
        BY JobFields, BatchAssumption DEF BatchInv, Posed, Ended, Said, Members
      <4> QED BY <4>1 DEF WholeText, Text
    <3>3. report[g] # None
      BY <3>1, <3>2, NoneIsNothing
    <3>4. /\ WholeText(Said(g)).run = job.run /\ WholeText(Said(g)).whole
          /\ WholeText(Said(g)).shows = Said(g)
      BY DEF WholeText
    <3> QED BY <3>1, <3>3, <3>4
  <2>3. ExitMeansPublished
    <3> SUFFICES ASSUME Ended, exit # 1
        PROVE  /\ doc # None /\ doc.run = job.run /\ html = job.run
               /\ \A g \in 1..Groups : job.outcome[g] # "Reporting failed"
               /\ job.request.require => (exit = 0 <=> doc.complete)
      BY DEF ExitMeansPublished
    <3> QED BY DEF BatchInv, Paged, Clean, Sections, Positions, Ended
  <2>4. NoPageForOtherResults /\ SidecarsMatchDocument
    BY DEF BatchInv, Paged, SidecarsThere, NoPageForOtherResults, SidecarsMatchDocument, Ended
  <2> QED BY <2>1, <2>2, <2>3, <2>4 DEF PublishedTogether
<1> QED BY <1>1, AlwaysSound, PTL
=============================================================================

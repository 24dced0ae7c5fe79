------------------------------- MODULE Batch -------------------------------
(***************************************************************************)
(* Reporting a prepared batch while the batch itself goes on               *)
(* (lib/filesystem_batch.py, lib/filesystem_results.py and the engines     *)
(* utils/extract-elbencho.py and utils/extract-mdtest-elbencho.py).        *)
(*                                                                         *)
(* The batch side commits groups until the first dispatch seals the        *)
(* manifest, then runs the executions in order and records their status;   *)
(* it never waits for a report.  The reporter reads the manifest once and  *)
(* the statuses twice (when it stages a group, when it assembles the       *)
(* document), runs one engine per group on a pool, and replaces, one file  *)
(* at a time, the files of earlier reports: the group reports with the     *)
(* identity that owns them, reports.txt, results.json with its live        *)
(* sidecars, and report.html.  It may die between any two writes.          *)
(***************************************************************************)
EXTENDS Integers, Sequences, FiniteSets

CONSTANTS
    Groups,       \* number of groups the batch ends up with
    GroupOf,      \* sequence: the group of each execution, in manifest order
    Kind,         \* sequence: "io" or "mdtest" for each group
    Quality,      \* sequence: what an execution's result files may turn out to be
    Requests,     \* the reports an operator may ask for
    MaxRuns,      \* reports
    MaxFaults,    \* failed file operations, failed engines and killed reports
    None          \* a model value: no such file, nothing yet

Execs == DOMAIN GroupOf
Members(g) == {e \in Execs : GroupOf[e] = g}

\* Groups are committed one after another, each with its executions.
ASSUME BatchAssumption ==
    /\ Groups \in Nat \ {0} /\ MaxRuns \in Nat /\ MaxFaults \in Nat
    /\ GroupOf \in Seq(1..Groups)
    /\ \A i, j \in Execs : i < j => GroupOf[i] <= GroupOf[j]
    /\ \A g \in 1..Groups : Members(g) # {} /\ Kind[g] \in {"io", "mdtest"}
    /\ \A r \in Requests : r.require \in BOOLEAN

Statuses == {"PENDING", "RUNNING", "SUCCESS", "FAILED"}
Outcomes == {"No successful results", "Reporting failed", "Reported"}
Results == {"complete", "partial", "unparseable", "missing", "not_run", "not_reported"}

\* A group report, the entries of a fragment, and results.json.
Text == [run : 1..MaxRuns, shows : SUBSET Execs, whole : BOOLEAN]
Entries == UNION {[R -> Results] : R \in SUBSET Execs}
Listed == [ledger : Statuses, result : Results, problem : {None, "report_failed"}]
Documents == [run : 1..MaxRuns, executions : UNION {[R -> Listed] : R \in SUBSET Execs},
              complete : BOOLEAN, live : SUBSET Execs]

ASSUME NoneIsNothing == None \notin Text /\ None \notin Documents /\ None \notin Outcomes

VARIABLES
    manifest,   \* committed membership, replaced by one rename
    sealed,     \* batch-sealed.sha256 exists
    status,     \* executions/<id>.status
    files,      \* the result files of each execution: None, or their quality
    job,        \* the running report: its request and what it has read
    stage,      \* each group's position in the running report
    report,     \* groups/<id>/report.txt: None, or its content
    identity,   \* groups/<id>/.report-identity: None, or the content it binds
    fragment,   \* groups/<id>/results.fragment.json: None, or its entries
    sidecars,   \* executions with a live sidecar, and the run that wrote it
    combined,   \* reports.txt: None, or the content of its sections
    doc,        \* results.json: None, or its executions and outcome
    html,       \* report.html: None, or the run whose document it shows
    exit,       \* exit status of a report that ended by itself, None otherwise
    faults

ledgerVars == <<manifest, sealed, status, files>>
outVars == <<report, identity, fragment, sidecars, combined, doc, html>>
vars == <<ledgerVars, job, stage, outVars, exit, faults>>

-----------------------------------------------------------------------------
(* The batch: commits, the seal, and the executions.                       *)

\* The manifest of the first n groups: revision, group ids, execution rows.
ManifestOf(n) ==
    [revision |-> n,
     groups |-> [g \in 1..n |-> g],
     rows |-> [i \in {e \in Execs : GroupOf[e] <= n} |-> <<i, GroupOf[i]>>]]

\* _validate_headers, _validate_groups and _validate_executions: the revision
\* counts the groups, identifiers are consecutive, rows are ordered by group,
\* and every group has a row.
ManifestValid(m) ==
    /\ m.revision = Len(m.groups) /\ m.revision > 0
    /\ \A i \in 1..Len(m.groups) : m.groups[i] = i
    /\ \A i \in 1..Len(m.rows) : m.rows[i][1] = i
    /\ \A i, j \in 1..Len(m.rows) : i < j => m.rows[i][2] <= m.rows[j][2]
    /\ {m.rows[i][2] : i \in 1..Len(m.rows)} = {m.groups[i] : i \in 1..Len(m.groups)}

Committed(m) == {m.groups[i] : i \in 1..Len(m.groups)}
Rows(m) == {m.rows[i][1] : i \in 1..Len(m.rows)}

\* _elbencho_batch_publish_groups: the rename of the manifest is the commit.
PublishGroup ==
    /\ ~sealed /\ manifest.revision < Groups
    /\ manifest' = ManifestOf(manifest.revision + 1)
    /\ UNCHANGED <<sealed, status, files, job, stage, outVars, exit, faults>>

\* _elbencho_batch_run seals before the first dispatch.
Seal ==
    /\ ~sealed
    /\ sealed' = TRUE
    /\ UNCHANGED <<manifest, status, files, job, stage, outVars, exit, faults>>

\* A dispatcher takes the next execution that has not succeeded.
Begin(e) ==
    /\ sealed /\ e \in Rows(manifest)
    /\ status[e] \in {"PENDING", "FAILED"}
    /\ \A x \in Rows(manifest) : /\ status[x] # "RUNNING"
                                 /\ x < e => status[x] \in {"SUCCESS", "FAILED"}
    /\ status' = [status EXCEPT ![e] = "RUNNING"]
    /\ UNCHANGED <<manifest, sealed, files, job, stage, outVars, exit, faults>>

\* The result files are published before the status says SUCCESS.
Succeed(e, q) ==
    /\ status[e] = "RUNNING" /\ q \in Quality[e]
    /\ status' = [status EXCEPT ![e] = "SUCCESS"]
    /\ files' = [files EXCEPT ![e] = q]
    /\ UNCHANGED <<manifest, sealed, job, stage, outVars, exit, faults>>

Fall(e) ==
    /\ status[e] = "RUNNING" /\ faults < MaxFaults
    /\ status' = [status EXCEPT ![e] = "FAILED"]
    /\ faults' = faults + 1
    /\ UNCHANGED <<manifest, sealed, files, job, stage, outVars, exit>>

-----------------------------------------------------------------------------
(* Starting a report.                                                      *)

Idle == [pc |-> "idle", run |-> 0, request |-> None, manifest |-> None,
         staged |-> [g \in 1..Groups |-> {}],
         outcome |-> [g \in 1..Groups |-> None],
         fragments |-> [g \in 1..Groups |-> None],
         failed |-> {}, broken |-> FALSE]

\* _selected_groups: --kind and --groups.
Selected(m, r) ==
    {g \in Committed(m) : /\ r.kind = "all" \/ Kind[g] = r.kind
                          /\ r.groups = {} \/ g \in r.groups}

\* report_batch up to the first write: nothing is touched when the manifest is
\* damaged, a group is unknown or none is selected.
StartReport(r) ==
    /\ job.pc = "idle" /\ job.run < MaxRuns
    /\ ManifestValid(manifest)
    /\ r.groups \subseteq Committed(manifest) /\ Selected(manifest, r) # {}
    /\ job' = [Idle EXCEPT !.pc = "clear", !.run = job.run + 1,
                           !.request = r, !.manifest = manifest]
    /\ stage' = [g \in 1..Groups |->
                   IF g \in Selected(manifest, r) THEN "waiting" ELSE "out"]
    /\ exit' = None
    /\ UNCHANGED <<ledgerVars, outVars, faults>>

\* clear_live_sidecars: this run rewrites the document they belong to.
ClearSidecars ==
    /\ job.pc = "clear"
    /\ sidecars' = [e \in Execs |-> 0]
    /\ job' = [job EXCEPT !.pc = "start"]
    /\ UNCHANGED <<ledgerVars, stage, report, identity, fragment, combined,
                   doc, html, exit, faults>>

\* Selected groups are started, prepared and finished in manifest order.
FirstAt(g, s) ==
    /\ stage[g] = s
    /\ \A x \in 1..(g - 1) : stage[x] # s

\* The group ends without a usable report; the rest of the batch goes on.
GroupFails(g) ==
    /\ stage' = [stage EXCEPT ![g] = "failed"]
    /\ job' = [job EXCEPT !.outcome[g] = "Reporting failed",
                          !.failed = @ \cup {g}, !.broken = TRUE]

\* Whether an engine's filters keep an execution (--only-*).
Kept(e) == job.request.only = {} \/ e \in job.request.only

\* _start_group_report: the earlier fragment goes first; with no successful
\* execution nothing else is touched.  Otherwise the identity goes before the
\* report it binds, and the inputs of the executions that are SUCCESS now are
\* staged; a missing or empty input fails the group.
StartGroup(g) ==
    LET successful == {e \in Members(g) : status[e] = "SUCCESS"}
        readable == \A e \in successful : files[e] # "lost"
    IN  /\ job.pc = "start" /\ FirstAt(g, "waiting")
        /\ fragment' = [fragment EXCEPT ![g] = None]
        /\ IF successful = {}
           THEN /\ stage' = [stage EXCEPT ![g] = "empty"]
                /\ job' = [job EXCEPT !.outcome[g] = "No successful results"]
                /\ UNCHANGED <<report, identity>>
           ELSE /\ identity' = [identity EXCEPT ![g] = None]
                /\ report' = [report EXCEPT ![g] = None]
                /\ \/ /\ readable
                      /\ stage' = [stage EXCEPT ![g] = "parsing"]
                      /\ job' = [job EXCEPT !.staged[g] = successful]
                   \/ ~readable /\ GroupFails(g)
        /\ UNCHANGED <<ledgerVars, sidecars, combined, doc, html, exit, faults>>

\* Every selected group is started; rendering is submitted next.
AllStarted ==
    /\ job.pc = "start" /\ \A g \in 1..Groups : stage[g] # "waiting"
    /\ job' = [job EXCEPT !.pc = "finish"]
    /\ UNCHANGED <<ledgerVars, stage, outVars, exit, faults>>

-----------------------------------------------------------------------------
(* The engines.  An IO engine parses in pool tasks from the moment it is   *)
(* started, writes its fragment when the reporter prepares it and its      *)
(* text when the reporter finishes it; a metadata engine is a process of   *)
(* its own that goes through the same steps at any time.                   *)

\* The executions of the group whose parse task has a sidecar to write.
Unparsed(g) ==
    {e \in job.staged[g] :
        /\ Kind[g] = "io" /\ Kept(e) /\ files[e] \in {"whole", "partial"}
        /\ sidecars[e] # job.run}

\* _execution_task with _live_objects: a parsed execution writes its sidecar.
ParseTask(g, e) ==
    /\ stage[g] = "parsing" /\ e \in Unparsed(g)
    /\ sidecars' = [sidecars EXCEPT ![e] = job.run]
    /\ UNCHANGED <<ledgerVars, job, stage, report, identity, fragment,
                   combined, doc, html, exit, faults>>

\* _execution_entry of either engine: what the entry of an execution says.
EntryState(e) ==
    IF ~Kept(e) THEN "not_reported"
    ELSE CASE files[e] = "whole" -> "complete"
           [] files[e] = "partial" -> "partial"
           [] OTHER -> "unparseable"

\* _finish_io_results, start_results_fragment: the tasks are done and the
\* fragment is written.
WriteFragment(g) ==
    /\ stage[g] = "parsing"
    /\ Kind[g] = "io" =>
         /\ job.pc = "finish" /\ FirstAt(g, "parsing")
         /\ Unparsed(g) = {}
    /\ fragment' = [fragment EXCEPT ![g] = [e \in job.staged[g] |-> EntryState(e)]]
    /\ stage' = [stage EXCEPT ![g] = "rendering"]
    /\ UNCHANGED <<ledgerVars, job, report, identity, sidecars, combined, doc,
                   html, exit, faults>>

Shown(g) == {e \in job.staged[g] : fragment[g][e] \in {"complete", "partial"}}

\* The reporter finishes groups in order, once all are prepared.
InTurn(g) ==
    /\ job.pc = "finish"
    /\ \A x \in 1..Groups : ~(Kind[x] = "io" /\ stage[x] = "parsing")
    /\ \A x \in 1..(g - 1) :
           stage[x] \notin {"parsing", "rendering", "writing", "rendered"}

\* mirror_stdout_to_file: report.txt grows in place while it is written.
OpenText(g) ==
    /\ stage[g] = "rendering" /\ Shown(g) # {}
    /\ Kind[g] = "io" => InTurn(g)
    /\ report' = [report EXCEPT ![g] = [run |-> job.run, shows |-> {}, whole |-> FALSE]]
    /\ stage' = [stage EXCEPT ![g] = "writing"]
    /\ UNCHANGED <<ledgerVars, job, identity, fragment, sidecars, combined,
                   doc, html, exit, faults>>

CloseText(g) ==
    /\ stage[g] = "writing"
    /\ report' = [report EXCEPT ![g] = [run |-> job.run, shows |-> Shown(g), whole |-> TRUE]]
    /\ stage' = [stage EXCEPT ![g] = "rendered"]
    /\ UNCHANGED <<ledgerVars, job, identity, fragment, sidecars, combined,
                   doc, html, exit, faults>>

\* An engine with nothing to show exits 0 and leaves only its fragment.
NothingToShow(g) ==
    /\ stage[g] = "rendering" /\ Shown(g) = {}
    /\ Kind[g] = "io" => InTurn(g)
    /\ stage' = [stage EXCEPT ![g] = "rendered"]
    /\ UNCHANGED <<ledgerVars, job, outVars, exit, faults>>

\* An engine exits with an error after any of its steps.
EngineFails(g) ==
    /\ faults < MaxFaults
    /\ stage[g] \in {"parsing", "rendering", "writing"}
    /\ faults' = faults + 1
    /\ GroupFails(g)
    /\ UNCHANGED <<ledgerVars, outVars, exit>>

\* Plausible bug: the identity is published whatever the outcome, so that a
\* report which could not be finished is owned as well.
FinishGroupAlways(g) ==
    /\ InTurn(g) /\ stage[g] \in {"rendered", "failed"}
    /\ report[g] # None
    /\ identity' = [identity EXCEPT ![g] = report[g]]
    /\ stage' = [stage EXCEPT ![g] = "done"]
    /\ job' = [job EXCEPT !.outcome[g] = "Reported", !.fragments[g] = fragment[g]]
    /\ UNCHANGED <<ledgerVars, report, fragment, sidecars, combined, doc, html,
                   exit, faults>>

\* finish and _GroupReports.record: a report with nothing to show still gets a
\* text, then the identity binds it, then the fragment is read back.
FinishGroup(g) ==
    LET text == IF report[g] = None
                THEN [run |-> job.run, shows |-> {}, whole |-> TRUE] ELSE report[g]
    IN  /\ InTurn(g) /\ stage[g] = "rendered"
        /\ report' = [report EXCEPT ![g] = text]
        /\ identity' = [identity EXCEPT ![g] = text]
        /\ stage' = [stage EXCEPT ![g] = "done"]
        /\ job' = [job EXCEPT !.outcome[g] = "Reported", !.fragments[g] = fragment[g]]
        /\ UNCHANGED <<ledgerVars, fragment, sidecars, combined, doc, html,
                       exit, faults>>

\* Every selected group has ended one way or another.
AllFinished ==
    /\ job.pc = "finish"
    /\ \A g \in 1..Groups : stage[g] \in {"out", "empty", "failed", "done"}
    /\ job' = [job EXCEPT !.pc = "unlink"]
    /\ UNCHANGED <<ledgerVars, stage, outVars, exit, faults>>

-----------------------------------------------------------------------------
(* reports.txt, results.json and report.html.                              *)

\* Plausible bug: a report is taken for owned because it is there.
HasOwnedReportAny(g) == report[g] # None

\* _has_owned_report: the identity binds exactly this content.
HasOwnedReport(g) == report[g] # None /\ identity[g] = report[g]

\* The groups of reports.txt: reported now, or owned from an earlier run.
Eligible ==
    {g \in Committed(job.manifest) :
        job.outcome[g] \in {None, "Reported"} /\ HasOwnedReport(g)}

\* _write_combined_report: the old aggregate goes before anything is read.
UnlinkCombined ==
    /\ job.pc = "unlink"
    /\ combined' = None
    /\ job' = [job EXCEPT !.pc = "combine"]
    /\ UNCHANGED <<ledgerVars, stage, report, identity, fragment, sidecars,
                   doc, html, exit, faults>>

WriteCombined ==
    /\ job.pc = "combine"
    /\ combined' = IF Cardinality(Eligible) < 2 THEN None
                   ELSE [g \in Eligible |-> report[g]]
    /\ job' = [job EXCEPT !.pc = "assemble"]
    /\ UNCHANGED <<ledgerVars, stage, report, identity, fragment, sidecars,
                   doc, html, exit, faults>>

\* The write fails: the report goes on and ends with status 1.
CombinedFails ==
    /\ job.pc = "combine" /\ faults < MaxFaults
    /\ faults' = faults + 1
    /\ job' = [job EXCEPT !.pc = "assemble", !.broken = TRUE]
    /\ UNCHANGED <<ledgerVars, stage, outVars, exit>>

\* _absent_state: a committed execution without a fragment entry.
AbsentState(g, e) ==
    IF stage[g] = "out" THEN [result |-> "not_reported", problem |-> None]
    ELSE IF status[e] # "SUCCESS" THEN [result |-> "not_run", problem |-> None]
    ELSE IF g \in job.failed
         THEN [result |-> "missing", problem |-> "report_failed"]
         ELSE [result |-> "missing", problem |-> None]

\* _merge_execution: the status is read again, after every engine has ended.
MergeExecution(e) ==
    LET g == GroupOf[e]
        entries == job.fragments[g]
        absent == entries = None \/ e \notin job.staged[g]
        state == IF absent THEN AbsentState(g, e)
                 ELSE [result |-> IF status[e] = "SUCCESS" THEN entries[e] ELSE "not_run",
                       problem |-> None]
    IN  [ledger |-> status[e], result |-> state.result, problem |-> state.problem]

\* Plausible bug: executions the report left out do not count.
BatchOutcomeReported(executions) ==
    \A e \in DOMAIN executions :
        executions[e].result \notin {"not_reported", "not_run"} =>
            executions[e].result = "complete"

\* _batch_outcome: complete.
BatchOutcome(executions) ==
    /\ DOMAIN executions # {}
    /\ \A e \in DOMAIN executions : /\ executions[e].ledger = "SUCCESS"
                                    /\ executions[e].result = "complete"

\* assemble_batch_document: every committed execution is listed.
Document ==
    LET executions == [e \in Rows(job.manifest) |-> MergeExecution(e)]
        live == {e \in Rows(job.manifest) :
                    /\ Kind[GroupOf[e]] = "io"
                    /\ executions[e].result \in {"complete", "partial"}}
    IN  [run |-> job.run, executions |-> executions,
         complete |-> BatchOutcome(executions), live |-> live]

\* write_document renames a finished file into place.
WriteDocument ==
    /\ job.pc = "assemble"
    /\ doc' = Document
    /\ job' = [job EXCEPT !.pc = "page"]
    /\ UNCHANGED <<ledgerVars, stage, report, identity, fragment, sidecars,
                   combined, html, exit, faults>>

\* publish_document after the document: a comparison that names an unknown
\* section shows only now; the page of an earlier document is then removed.
WritePage ==
    /\ job.pc = "page"
    /\ html' = IF job.request.comparison = "unknown" THEN None ELSE job.run
    /\ job' = [job EXCEPT !.pc = "tidy",
                          !.broken = @ \/ job.request.comparison = "unknown"]
    /\ UNCHANGED <<ledgerVars, stage, report, identity, fragment, sidecars,
                   combined, doc, exit, faults>>

\* Writing the document or the page fails: what was there stays.
PublishFails ==
    /\ job.pc \in {"assemble", "page"} /\ faults < MaxFaults
    /\ job.pc = "page" => job.request.comparison # "unknown"
    /\ faults' = faults + 1
    /\ job' = [job EXCEPT !.pc = "tidy", !.broken = TRUE]
    /\ UNCHANGED <<ledgerVars, stage, outVars, exit>>

\* The end of report_batch: a failure outranks incompleteness.
ExitStatus ==
    IF job.broken THEN 1
    ELSE IF job.request.require /\ ~doc.complete THEN 3 ELSE 0

\* The document holds every fragment now; the run ends.
EndReport ==
    /\ job.pc = "tidy"
    /\ fragment' = [g \in 1..Groups |->
                      IF stage[g] = "out" THEN fragment[g] ELSE None]
    /\ exit' = ExitStatus
    /\ job' = [job EXCEPT !.pc = "idle"]
    /\ UNCHANGED <<ledgerVars, stage, report, identity, sidecars, combined,
                   doc, html, faults>>

\* The report is killed with its engines between two writes.
Killed ==
    /\ job.pc # "idle" /\ faults < MaxFaults
    /\ faults' = faults + 1
    /\ exit' = None
    /\ job' = [job EXCEPT !.pc = "idle"]
    /\ stage' = [g \in 1..Groups |-> "out"]
    /\ UNCHANGED <<ledgerVars, outVars>>

-----------------------------------------------------------------------------
Init ==
    /\ manifest = ManifestOf(1)
    /\ sealed = FALSE
    /\ status = [e \in Execs |-> "PENDING"]
    /\ files = [e \in Execs |-> None]
    /\ job = Idle
    /\ stage = [g \in 1..Groups |-> "out"]
    /\ report = [g \in 1..Groups |-> None]
    /\ identity = [g \in 1..Groups |-> None]
    /\ fragment = [g \in 1..Groups |-> None]
    /\ sidecars = [e \in Execs |-> 0]
    /\ combined = None
    /\ doc = None
    /\ html = None
    /\ exit = None
    /\ faults = 0

Batching ==
    \/ PublishGroup \/ Seal
    \/ \E e \in Execs : Begin(e) \/ Fall(e) \/ \E q \in Quality[e] : Succeed(e, q)

Engine(g) ==
    \/ \E e \in Execs : ParseTask(g, e)
    \/ WriteFragment(g) \/ OpenText(g) \/ CloseText(g) \/ NothingToShow(g)

Reporting ==
    \/ ClearSidecars \/ AllStarted \/ AllFinished
    \/ \E g \in 1..Groups : StartGroup(g) \/ Engine(g) \/ FinishGroup(g)
    \/ UnlinkCombined \/ WriteCombined \/ WriteDocument \/ WritePage
    \/ EndReport

Next ==
    \/ Batching \/ Reporting
    \/ \E r \in Requests : StartReport(r)
    \/ \E g \in 1..Groups : EngineFails(g)
    \/ CombinedFails \/ PublishFails \/ Killed

Spec == Init /\ [][Next]_vars

-----------------------------------------------------------------------------
\* Every variable keeps its shape; a fragment describes the staged executions
\* and a document the committed ones.
TypeOK ==
    /\ ManifestValid(manifest) /\ sealed \in BOOLEAN
    /\ \A e \in Execs : /\ status[e] \in Statuses
                        /\ files[e] \in {None} \cup Quality[e]
                        /\ sidecars[e] \in 0..MaxRuns
    /\ \A g \in 1..Groups :
          /\ report[g] = None \/ report[g] \in Text
          /\ identity[g] = None \/ identity[g] \in Text
          /\ fragment[g] # None => fragment[g] \in Entries /\ DOMAIN fragment[g] \subseteq Members(g)
    /\ doc = None \/ doc \in Documents
    /\ html \in {None} \cup (1..MaxRuns)
    /\ faults \in 0..MaxFaults

Ended == job.pc = "idle" /\ exit # None

\* A document that says complete is right whatever the batch did while it was
\* being assembled: all its executions had succeeded with whole results.
CompleteIsTrue ==
    doc # None /\ doc.complete =>
        \A e \in DOMAIN doc.executions : status[e] = "SUCCESS" /\ files[e] = "whole"

\* reports.txt never shows a report that was not finished: not one a killed or
\* failed engine left half written, in this run or an earlier one.
CombinedIsWhole ==
    combined # None =>
        /\ Cardinality(DOMAIN combined) >= 2
        /\ \A g \in DOMAIN combined : combined[g].whole

\* A report that ended without a write error leaves in reports.txt every group
\* it reported and every finished report an earlier run left, and no group
\* whose report failed in it.
CombinedIsCurrent ==
    Ended /\ exit # 1 =>
        LET owned == {g \in Committed(job.manifest) :
                        /\ identity[g] # None /\ identity[g] = report[g]
                        /\ job.outcome[g] # "No successful results"}
        IN  IF Cardinality(owned) < 2 THEN combined = None
            ELSE combined = [g \in owned |-> report[g]]

\* What results.json calls reported has a finished group report of the same
\* run behind it that shows the same executions.
TextAgreesWithDocument ==
    Ended /\ doc # None /\ doc.run = job.run =>
        \A g \in Committed(job.manifest) :
            LET said == {e \in Members(g) : doc.executions[e].result
                                              \in {"complete", "partial"}}
            IN  said # {} => /\ report[g] # None /\ report[g].run = job.run
                             /\ report[g].whole /\ report[g].shows = said

\* Exit 0 or 3 means that this run's document and page are in place and that
\* every selected group was reported; with --require-complete 0 means complete.
ExitMeansPublished ==
    Ended /\ exit # 1 =>
        /\ doc # None /\ doc.run = job.run /\ html = job.run
        /\ \A g \in 1..Groups : job.outcome[g] # "Reporting failed"
        /\ job.request.require => (exit = 0 <=> doc.complete)

\* A comparison the new document cannot satisfy leaves no page of an older
\* document beside the new one.
NoPageForOtherResults ==
    Ended /\ doc # None /\ doc.run = job.run /\ job.request.comparison = "unknown"
        => html = None

\* When a run has published its document, every sidecar the document refers to
\* is there and is of that run, and no sidecar of an earlier document is left.
SidecarsMatchDocument ==
    Ended /\ doc # None /\ doc.run = job.run =>
        /\ \A e \in doc.live : sidecars[e] = job.run
        /\ \A e \in Execs : sidecars[e] \in {0, job.run}

\* reports.txt holds the finished reports, all of them and nothing else.
CombinedSound == CombinedIsWhole /\ CombinedIsCurrent

\* What one run publishes belongs together, after failures and kills in earlier
\* runs too: document, group reports, page, sidecars and exit status agree.
PublishedTogether ==
    /\ TypeOK
    /\ TextAgreesWithDocument
    /\ ExitMeansPublished
    /\ NoPageForOtherResults
    /\ SidecarsMatchDocument
=============================================================================

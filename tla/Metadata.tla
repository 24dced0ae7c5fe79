------------------------------ MODULE Metadata ------------------------------
(***************************************************************************)
(* extract-mdtest-elbencho: the report on metadata benchmark results.      *)
(*                                                                         *)
(* Input directories are scanned, one pool task per execution parses its   *)
(* result files, the execution ledger's status files are read, and the     *)
(* results document is published.  The text report and the figures are     *)
(* rendered from that document, at once or later with --from-json.  The    *)
(* benchmark of one directory may still be running, and a command may be   *)
(* killed between any two steps.                                           *)
(*                                                                         *)
(* Source: src/utils/extract-mdtest-elbencho.py and, for the document,     *)
(* src/lib/filesystem_results.py.  The HTML page and the batch reports     *)
(* are those of module Batch; matplotlib is external.                      *)
(*                                                                         *)
(* Abstractions.  A measured rate is a number of fine units, Grain of which *)
(* are the 0.01 ops/s the document keeps.  A result file is how much of it *)
(* has been written.  Phase times and latency bounds go the way of the     *)
(* rates and are left out.                                                 *)
(***************************************************************************)
EXTENDS Integers, Sequences, FiniteSets, SequencesExt, FiniteSetsExt

CONSTANTS
    None,            \* the absent value
    Running,         \* the directory whose benchmark may be running
    Archived,        \* a directory of earlier results
    Out,             \* the output directory of several inputs
    Replayed,        \* the output directory of --from-json
    Plan,            \* Running's executions: [id, shape, want, readable]
    Target,          \* Running's storage target
    Archives,        \* what Archived may hold
    Measured,        \* iteration -> operation -> [rate, hist]
    Options,         \* command lines: [nodes, complete, mixed]
    Inputs,          \* the sequences of input directories
    Grain,           \* fine units in the rate unit of the document
    Workers,         \* report_workers: the pool's processes
    MaxRuns,         \* bound: commands run
    MaxStamps        \* bound: datestamps the file names are checked for

ASSUME GrainAssumption == Grain \in Nat \ {0}

ASSUME WorkersAssumption == Workers \in Nat \ {0}

Operations == <<"WRITE", "STAT", "RMFILES">>

Dirs == {Running, Archived}

Places == Dirs \cup {Out, Replayed}

VARIABLES
    dirs,            \* the input directories
    pc, run, args,   \* the command: its step, its number, its options
    settled,         \* all inputs' executions had succeeded when it started
    inputs,          \* its input directories
    tasks,           \* the pool's tasks, in order of submission
    scanned,         \* how many inputs are scanned
    statuses,        \* directory -> the ledger states read
    document,        \* the results document in memory
    results,         \* place -> results.json
    reports,         \* place -> report.txt
    figures,         \* the figures of the running command
    status           \* how the last command ended

argVars == <<run, args, settled, inputs>>
parseVars == <<tasks, scanned, statuses>>
outVars == <<results, reports, figures>>
vars == <<dirs, pc, argVars, parseVars, document, outVars, status>>

Opt(S) == S \cup {None}

SumOver(op(_), S) == MapThenSumSet(op, S)

Concatenated(seqs) == FoldLeft(LAMBDA acc, x : acc \o x, <<>>, seqs)

\* Python's round of n/d: half goes to the even neighbour.
Round(n, d) ==
    LET q == n \div d
        r == 2 * (n % d)
    IN IF r < d THEN q ELSE IF r > d THEN q + 1 ELSE q + (q % 2)

Before(a, b) == a[1] < b[1] \/ (a[1] = b[1] /\ a[2] < b[2])

-----------------------------------------------------------------------------
(* Directories.  A directory d has d.ledger, the executions in executions/ *)
(* (a definition that is not readable has coordinates nobody can parse),   *)
(* d.status, their status files, d.files, iteration -> what is written of  *)
(* its two result files, d.target and d.want, MDTEST_ITERATIONS.  A CSV    *)
(* file has some whole rows and perhaps a torn one, an OUT file has some   *)
(* sections; a file that does not exist reads like an empty one.           *)

Shape(key) == <<key.nodes, key.tasks>>

Count(n) == 1 .. n

\* The iterations of Running's benchmark.
KeyOf(exec, i) ==
    [nodes |-> exec.shape[1], tasks |-> exec.shape[2], stamp |-> 2, iter |-> i]

\* All executions of a directory have ended and can be read.
Settled(d) ==
    /\ d.ledger /= <<>>
    /\ \A i \in DOMAIN d.ledger : /\ d.ledger[i].readable
                                  /\ d.ledger[i].id \in DOMAIN d.status
                                  /\ d.status[d.ledger[i].id] = "success"

NewDir == [ledger |-> Plan, status |-> [i \in {} |-> None], files |-> [k \in {} |-> None],
           target |-> Target, want |-> 2]

Init ==
    /\ \E archive \in Archives : dirs = [d \in Dirs |-> IF d = Running THEN NewDir ELSE archive]
    /\ pc = "idle" /\ run = 0 /\ args = None /\ settled = FALSE /\ inputs = <<>>
    /\ tasks = <<>> /\ scanned = 0 /\ statuses = [d \in {} |-> None]
    /\ document = None /\ results = [p \in Places |-> None]
    /\ reports = [p \in Places |-> None] /\ figures = <<>> /\ status = None

\* The benchmark's next file content: the files of an iteration appear
\* together and the phases before the last are written at once; the last one
\* adds a torn row, completes it and adds its section.
Advanced(file) ==
    IF file.rows = 0
    THEN [file EXCEPT !.rows = Len(Operations) - 1, !.out = Len(Operations) - 1]
    ELSE IF file.out < file.rows THEN [file EXCEPT !.out = @ + 1]
    ELSE IF file.torn THEN [file EXCEPT !.rows = @ + 1, !.torn = FALSE]
    ELSE [file EXCEPT !.torn = TRUE]

Finished(file) == file.out = Len(Operations)

Now == dirs[Running]

\* The execution that may run: all before it have ended.
Current ==
    LET open == {i \in DOMAIN Plan : i \notin DOMAIN Now.status
                                     \/ Now.status[i] = "running"}
    IN IF open = {} THEN 0 ELSE Min(open)

SetStatus(i, s) ==
    dirs' = [dirs EXCEPT ![Running].status =
                [j \in DOMAIN Now.status \cup {i} |-> IF j = i THEN s ELSE Now.status[j]]]

\* The benchmark takes a step: an execution starts, writes, ends or fails.
Benchmark ==
    /\ Current /= 0
    /\ LET i == Current
           exec == Plan[i]
           keys == {KeyOf(exec, n) : n \in Count(exec.want)}
           open == {k \in keys : k \notin DOMAIN Now.files \/ ~Finished(Now.files[k])}
           next == CHOOSE k \in open : \A other \in open : k.iter <= other.iter
           write(file) == dirs' = [dirs EXCEPT ![Running].files =
                [k \in DOMAIN Now.files \cup {next} |->
                    IF k = next THEN file ELSE Now.files[k]]]
       IN \/ i \notin DOMAIN Now.status /\ SetStatus(i, "running")
          \/ /\ i \in DOMAIN Now.status /\ open /= {}
             /\ IF next \in DOMAIN Now.files THEN write(Advanced(Now.files[next]))
                ELSE write([rows |-> 0, torn |-> FALSE, out |-> 0])
          \/ i \in DOMAIN Now.status /\ open = {} /\ SetStatus(i, "success")
          \/ i \in DOMAIN Now.status /\ open /= {} /\ SetStatus(i, "failed")
    /\ UNCHANGED <<pc, argVars, parseVars, document, outVars, status>>

-----------------------------------------------------------------------------
(* Histograms and rates.                                                   *)

CombineHistograms(hists) ==
    [b \in UNION {DOMAIN hists[i] : i \in DOMAIN hists} |->
        SumOver(LAMBDA i : hists[i][b], {i \in DOMAIN hists : b \in DOMAIN hists[i]})]

Total(hist) == SumOver(LAMBDA b : hist[b], DOMAIN hist)

\* The first bucket at which percent of the count is reached; 0 when empty.
Percentile(hist, percent) ==
    LET reached == {b \in DOMAIN hist :
            100 * SumOver(LAMBDA x : hist[x], {x \in DOMAIN hist : x <= b})
                >= percent * Total(hist)}
    IN IF Total(hist) = 0 THEN 0 ELSE Min(reached)

\* round_ops: what the document keeps of a rate.
RoundOps(rate) == Round(rate, Grain)

-----------------------------------------------------------------------------
(* Scanning and parsing.                                                   *)

Selected(shape) == args.nodes = {} \/ shape[1] \in args.nodes

\* _read_mdtest_ledger: the executions whose coordinates can be parsed.
ReadLedger(d) == SelectSeq(dirs[d].ledger, LAMBDA e : e.readable)

Shapes(d) == {Shape(k) : k \in DOMAIN dirs[d].files}

\* The iterations of one shape, by iteration and datestamp.
FilesOf(d, shape) ==
    SetToSortSeq({k \in DOMAIN dirs[d].files : Shape(k) = shape},
        LAMBDA a, b : a.iter < b.iter \/ (a.iter = b.iter /\ a.stamp < b.stamp))

Task(d, id, shape, want, keys) ==
    [dir |-> d, id |-> id, shape |-> shape, want |-> want, keys |-> keys,
     selected |-> Selected(shape), csv |-> None, iters |-> <<>>,
     recorded |-> None]

\* _planned_slots: every ledger slot takes the files of its shape that no
\* slot before it took; the shapes left over have no execution.
PlannedSlots(d) ==
    LET ledger == ReadLedger(d)
        taken(i) == \E j \in 1 .. i - 1 : ledger[j].shape = ledger[i].shape
        slots == [i \in DOMAIN ledger |->
            Task(d, ledger[i].id, ledger[i].shape, ledger[i].want,
                 IF taken(i) THEN <<>> ELSE FilesOf(d, ledger[i].shape))]
        left == SetToSortSeq(Shapes(d) \ {ledger[i].shape : i \in DOMAIN ledger}, Before)
    IN slots \o [i \in DOMAIN left |->
                    Task(d, None, left[i], dirs[d].want, FilesOf(d, left[i]))]

\* start_results_fragment: beside a ledger, files outside it and outside the
\* filters are left out.
SubmittedTasks(d) ==
    LET planned == PlannedSlots(d)
        ledger == \E i \in DOMAIN planned : planned[i].id /= None
    IN SelectSeq(planned, LAMBDA t : t.selected \/ t.id /= None \/ ~ledger)

\* parse_csv_file: what each operation's row says.
ParseCsv(d, key) ==
    LET file == dirs[d].files[key]
    IN [rows |-> {Operations[i] : i \in Count(file.rows)},
        torn |-> IF file.torn THEN {Operations[file.rows + 1]} ELSE {}]

\* parse_out_file: the operations with a histogram.
ParseOut(d, key) == {Operations[i] : i \in Count(dirs[d].files[key].out)}

\* incomplete_result_reason: every operation has a complete row and a
\* histogram.
Whole(csv, out) == csv.rows = ToSet(Operations) /\ out = ToSet(Operations)

\* _iteration_entry: the phases something was parsed of, rates rounded.
IterationEntry(key, csv, out) ==
    [key |-> key,
     whole |-> Whole(csv, out),
     phases |-> csv.rows \cup csv.torn \cup out,
     rate |-> [op \in csv.rows |-> RoundOps(Measured[key][op].rate)],
     hist |-> [op \in out |-> Measured[key][op].hist]]

WholeOnes(task) == SelectSeq(task.iters, LAMBDA it : it.whole)

\* _aggregate_json, per operation: the mean of what was measured, rounded.
AggregateJson(task) ==
    LET used == WholeOnes(task)
    IN IF used = <<>> THEN None
       ELSE [op \in ToSet(Operations) |->
                Round(SumOver(LAMBDA i : Measured[used[i].key][op].rate, DOMAIN used),
                      Len(used) * Grain)]

\* _missing_iterations: expected numbers without any file.
MissingIterations(task) ==
    IF task.want = None THEN {}
    ELSE Count(task.want) \ {task.iters[i].key.iter : i \in DOMAIN task.iters}

\* Mutant: iterations without files do not make an execution partial.
ResultStateOfFound(task) ==
    IF task.keys = <<>> THEN "missing"
    ELSE IF \A i \in DOMAIN task.iters : task.iters[i].phases = {} THEN "unparseable"
    ELSE IF \E i \in DOMAIN task.iters : ~task.iters[i].whole THEN "partial" ELSE "complete"

\* _result_state
ResultState(task) ==
    IF task.keys = <<>> THEN "missing"
    ELSE IF \A i \in DOMAIN task.iters : task.iters[i].phases = {} THEN "unparseable"
    ELSE IF \/ \E i \in DOMAIN task.iters : ~task.iters[i].whole
            \/ MissingIterations(task) /= {}
         THEN "partial" ELSE "complete"

\* _execution_entry or _not_reported_entry of a finished task.
FragmentEntry(task) ==
    IF ~task.selected
    THEN [state |-> "not_reported", shape |-> task.shape, iters |-> <<>>,
          aggregate |-> None, files |-> None]
    ELSE [state |-> ResultState(task), shape |-> task.shape, iters |-> task.iters,
          aggregate |-> AggregateJson(task), files |-> task.recorded]

-----------------------------------------------------------------------------
(* The document.  Group g is the g-th input.                               *)

\* _ordinary_ledger's entries are every definition, readable or not; a
\* directory without one has no ledger.
HasLedger(d) == dirs[d].ledger /= <<>>

\* The state a status file gives; none, or no known state, is unknown.
LedgerState(d, id) ==
    IF id \in DOMAIN statuses[d] THEN statuses[d][id] ELSE "unknown"

Entry(g, d, id) ==
    LET mine == {i \in DOMAIN tasks : tasks[i].dir = d /\ tasks[i].id = id}
    IN IF mine = {} THEN None ELSE FragmentEntry(tasks[Min(mine)])

\* _merge_execution: an execution that neither succeeded nor has an unknown
\* state was not run and keeps no results.
MergeExecution(g, d, id, entry) ==
    LET ledger == IF id = None THEN "unknown" ELSE LedgerState(d, id)
        run0 == ledger \in {"success", "unknown"}
    IN [group |-> g, id |-> id, ledger |-> ledger,
        state |-> IF entry = None
                  THEN IF ledger /= "success" THEN "not_run" ELSE "missing"
                  ELSE IF run0 THEN entry.state ELSE "not_run",
        shape |-> IF entry = None THEN None ELSE entry.shape,
        iters |-> IF entry = None \/ ~run0 THEN <<>> ELSE entry.iters,
        aggregate |-> IF entry = None \/ ~run0 THEN None ELSE entry.aggregate,
        files |-> IF entry = None THEN None ELSE entry.files]

\* _merge_group: the ledger's executions, or without one the files' shapes.
MergeGroup(g) ==
    LET d == inputs[g]
        ledger == dirs[d].ledger
        loose == SelectSeq(tasks, LAMBDA t : t.dir = d /\ t.id = None)
    IN IF HasLedger(d)
       THEN [i \in DOMAIN ledger |->
                MergeExecution(g, d, ledger[i].id, Entry(g, d, ledger[i].id))]
       ELSE [i \in DOMAIN loose |-> MergeExecution(g, d, None, FragmentEntry(loose[i]))]

\* assemble_inputs_document: complete when there is an execution, and each
\* succeeded with complete results.
AssembleDocument ==
    LET execs == Concatenated([g \in DOMAIN inputs |-> MergeGroup(g)])
    IN [by |-> run,
        dirs |-> inputs,
        targets |-> [g \in DOMAIN inputs |-> dirs[inputs[g]].target],
        execs |-> execs,
        complete |-> /\ execs /= <<>>
                     /\ \A i \in DOMAIN execs :
                            execs[i].ledger = "success" /\ execs[i].state = "complete"]

-----------------------------------------------------------------------------
(* The text report.                                                        *)

\* More than one known target: the report's label starts with "mixed".
Mixed(targets) == Cardinality(ToSet(targets) \ {None}) > 1

\* _complete_iterations, each with its group.
CompleteIterations(doc) ==
    Concatenated([i \in DOMAIN doc.execs |->
        LET e == doc.execs[i]
            used == IF e.state = "not_reported" THEN <<>>
                    ELSE SelectSeq(e.iters, LAMBDA it : it.whole)
        IN [k \in DOMAIN used |-> [group |-> e.group, it |-> used[k]]]])

\* _iteration_key: targets are kept apart in a mixed report only.
IterationKey(doc, found) ==
    <<IF Mixed(doc.targets) THEN doc.targets[found.group] ELSE None, found.it.key>>

\* document_iterations: an iteration found in two groups is ambiguous.
DocumentIterations(doc) ==
    LET all == CompleteIterations(doc)
        ambiguous == {IterationKey(doc, all[i]) : i \in {j \in DOMAIN all :
            \E k \in DOMAIN all : /\ all[k].group /= all[j].group
                                  /\ IterationKey(doc, all[k]) = IterationKey(doc, all[j])}}
    IN SelectSeq(all, LAMBDA f : IterationKey(doc, f) \notin ambiguous)

\* aggregate_metrics for one shape: per operation the rates, their extremes
\* and the percentiles of the combined histogram.
AggregateShape(found, shape) ==
    LET mine == SelectSeq(found, LAMBDA f : Shape(f.it.key) = shape)
        rates(op) == {mine[i].it.rate[op] : i \in DOMAIN mine}
        hist(op) == CombineHistograms([i \in DOMAIN mine |-> mine[i].it.hist[op]])
    IN [shape |-> shape,
        keys |-> {<<mine[i].group, mine[i].it.key>> : i \in DOMAIN mine},
        stamps |-> {mine[i].it.key.stamp : i \in DOMAIN mine},
        count |-> Len(mine),
        sum |-> [op \in ToSet(Operations) |->
                    SumOver(LAMBDA i : mine[i].it.rate[op], DOMAIN mine)],
        low |-> [op \in ToSet(Operations) |-> Min(rates(op))],
        high |-> [op \in ToSet(Operations) |-> Max(rates(op))],
        hist |-> [op \in ToSet(Operations) |-> hist(op)],
        lat |-> [op \in ToSet(Operations) |->
                    [p \in {0, 50, 90, 99, 100} |-> Percentile(hist(op), p)]]]

\* print_terminal_table's rows: the selected shapes, by nodes and tasks.
TableRows(doc) ==
    LET found == DocumentIterations(doc)
        shapes == SetToSortSeq({s \in {Shape(found[i].it.key) : i \in DOMAIN found} :
                                    Selected(s)}, Before)
    IN [i \in DOMAIN shapes |-> AggregateShape(found, shapes[i])]

-----------------------------------------------------------------------------
(* The figures.                                                            *)

Multi(rows) == Cardinality({rows[i].shape[1] : i \in DOMAIN rows}) > 1

\* What a figure is drawn against: nodes, or tasks when one node count is
\* left.
ScaleOf(rows, row) == IF Multi(rows) THEN row.shape[1] ELSE row.shape[2]

\* The lines of a figure: one per tasks count, or one in all.
Lines(rows) ==
    IF Multi(rows)
    THEN LET threads == SetToSortSeq({rows[i].shape[2] : i \in DOMAIN rows},
                                     LAMBDA a, b : a < b)
         IN [t \in DOMAIN threads |-> SelectSeq(rows, LAMBDA r : r.shape[2] = threads[t])]
    ELSE <<rows>>

\* plot_single_node_rates and plot_multi_node_rates
RatesFigure(rows) ==
    [kind |-> "rates", multi |-> Multi(rows),
     lines |-> [l \in DOMAIN Lines(rows) |->
        [i \in DOMAIN Lines(rows)[l] |->
            [x |-> ScaleOf(rows, Lines(rows)[l][i]), row |-> Lines(rows)[l][i].shape]]]]

\* _normalize_to_max_percent, as fractions; zeros when there is no rate.
NormalizeToMax(points) ==
    LET best == CHOOSE b \in DOMAIN points : \A i \in DOMAIN points :
                    points[i].sum * points[b].n <= points[b].sum * points[i].n
    IN [i \in DOMAIN points |->
          IF points[best].sum = 0 THEN <<0, 1>>
          ELSE <<points[i].sum * points[best].n, points[i].n * points[best].sum>>]

\* Rate per unit of scale is sum / (count * scale).
PerUnit(rows, line, op) ==
    [i \in DOMAIN line |-> [sum |-> line[i].sum[op],
                            n |-> line[i].count * ScaleOf(rows, line[i])]]

\* plot_multi_node_efficiency leaves out a line that does not start at the
\* smallest node count, or starts at a rate of 0.
EfficiencyLines(rows, op) ==
    LET least == Min({rows[i].shape[1] : i \in DOMAIN rows})
        drawn == IF Multi(rows)
                 THEN SelectSeq(Lines(rows), LAMBDA line :
                        line[1].shape[1] = least /\ line[1].sum[op] > 0)
                 ELSE Lines(rows)
    IN [l \in DOMAIN drawn |-> NormalizeToMax(PerUnit(rows, drawn[l], op))]

EfficiencyFigure(rows, op) ==
    [kind |-> "efficiency", multi |-> Multi(rows), op |-> op,
     lines |-> EfficiencyLines(rows, op)]

\* plot_latency_histograms: a curve per tasks count, over all nodes.
HistogramFigure(rows, op) ==
    LET threads == {rows[i].shape[2] : i \in DOMAIN rows}
        of(t) == SelectSeq(rows, LAMBDA r : r.shape[2] = t)
    IN [kind |-> "histogram", multi |-> Multi(rows), op |-> op,
        curves |-> [t \in threads |->
            CombineHistograms([i \in DOMAIN of(t) |-> of(t)[i].hist[op]])]]

\* plot_all; the lines of the three operations share one efficiency file on
\* a single node.
PlotAll(rows) ==
    <<RatesFigure(rows)>>
    \o [i \in DOMAIN Operations |-> EfficiencyFigure(rows, Operations[i])]
    \o [i \in DOMAIN Operations |-> HistogramFigure(rows, Operations[i])]

(* File names: NAME_MAX, a datestamp and ".png" have their real lengths.   *)

NameMax == 255

\* _plot_prefixes: the lengths of a multi-node run's and of a single-node
\* run's prefixes, e.g. "mdtest-elbencho-mn-latency-hist-create-".
PlotPrefixes(multi) ==
    IF multi THEN {25, 37, 35, 39} ELSE {25, 30, 39, 37}

Digits(n) == IF n < 10 THEN 1 ELSE IF n < 100 THEN 2 ELSE 3

\* join_datestamps of n datestamps within a budget: the whole join, the ends
\* and the count, or the count.
JoinStamps(n, budget) ==
    IF 16 * n - 1 <= budget THEN [form |-> "all", len |-> 16 * n - 1]
    ELSE IF 36 + Digits(n) <= budget THEN [form |-> "ends", len |-> 36 + Digits(n)]
    ELSE [form |-> "count", len |-> Min({1 + Digits(n), budget})]

\* join_datestamps_for_filename
StampForPrefix(prefix, n) == JoinStamps(n, NameMax - prefix - 4)

\* _title_datestamp_token: the budget of the longest prefix.
TitleStamp(multi, n) == StampForPrefix(Max(PlotPrefixes(multi)), n)

-----------------------------------------------------------------------------
(* The command.                                                            *)

\* Where a report on the inputs goes.
Place == IF args.json THEN Replayed ELSE IF Len(inputs) = 1 THEN inputs[1] ELSE Out

\* The command ends; what it parsed ends with it.
Ends(how) ==
    /\ pc' = "idle" /\ status' = how
    /\ tasks' = <<>> /\ scanned' = 0 /\ statuses' = [d \in {} |-> None]

Begins(step) ==
    /\ pc' = step /\ status' = None
    /\ tasks' = <<>> /\ scanned' = 0 /\ statuses' = [d \in {} |-> None]

\* main up to the target guard: inputs of several known targets are refused
\* unless that is allowed.
StartReport(dirSeq, o) ==
    /\ pc = "idle" /\ run < MaxRuns
    /\ run' = run + 1 /\ args' = [nodes |-> o.nodes, complete |-> o.complete, json |-> FALSE]
    /\ inputs' = dirSeq /\ settled' = \A d \in ToSet(dirSeq) : Settled(dirs[d])
    /\ document' = None /\ figures' = <<>>
    /\ IF Mixed([i \in DOMAIN dirSeq |-> dirs[dirSeq[i]].target]) /\ ~o.mixed
       THEN Ends("refused")
       ELSE Begins("scan")
    /\ UNCHANGED <<dirs, results, reports>>

TaskDone(i) == tasks[i].selected => tasks[i].recorded /= None

\* start_results_fragment for the next input.  The executor of a single
\* worker runs every task when it is submitted.
Scan ==
    /\ pc = "scan"
    /\ Workers = 1 => \A i \in DOMAIN tasks : TaskDone(i)
    /\ tasks' = tasks \o SubmittedTasks(inputs[scanned + 1])
    /\ scanned' = scanned + 1
    /\ pc' = IF scanned + 1 = Len(inputs) THEN "parse" ELSE "scan"
    /\ UNCHANGED <<dirs, argVars, statuses, document, outVars, status>>

\* Tasks start in order of submission, one per worker.
Active(i) ==
    /\ pc \in {"scan", "parse"} /\ ~TaskDone(i)
    /\ Cardinality({j \in 1 .. i - 1 : ~TaskDone(j)}) < Workers

\* The task that still has an iteration to load.
Loading(i) == Active(i) /\ Len(tasks[i].iters) < Len(tasks[i].keys)

\* _load_iteration reads the CSV file, then the OUT file.
LoadCsv(i) ==
    /\ Loading(i) /\ tasks[i].csv = None
    /\ tasks' = [tasks EXCEPT ![i].csv =
                    ParseCsv(tasks[i].dir, tasks[i].keys[Len(tasks[i].iters) + 1])]
    /\ UNCHANGED <<dirs, pc, argVars, scanned, statuses, document, outVars, status>>

LoadOut(i) ==
    /\ Loading(i) /\ tasks[i].csv /= None
    /\ LET key == tasks[i].keys[Len(tasks[i].iters) + 1]
           entry == IterationEntry(key, tasks[i].csv, ParseOut(tasks[i].dir, key))
       IN tasks' = [tasks EXCEPT ![i].csv = None, ![i].iters = Append(@, entry)]
    /\ UNCHANGED <<dirs, pc, argVars, scanned, statuses, document, outVars, status>>

\* _result_file_records: the digests are taken when all is parsed.
RecordFiles(i) ==
    /\ Active(i) /\ Len(tasks[i].iters) = Len(tasks[i].keys)
    /\ tasks' = [tasks EXCEPT ![i].recorded =
                    [k \in ToSet(tasks[i].keys) |-> dirs[tasks[i].dir].files[k]]]
    /\ UNCHANGED <<dirs, pc, argVars, scanned, statuses, document, outVars, status>>

\* The fragments are built when every task has ended.
Gather ==
    /\ pc = "parse"
    /\ \A i \in DOMAIN tasks : TaskDone(i)
    /\ pc' = "ledger"
    /\ UNCHANGED <<dirs, argVars, parseVars, document, outVars, status>>

\* _ordinary_ledger reads the status files of one input after the other.
ReadStatuses ==
    /\ pc = "ledger" /\ Cardinality(DOMAIN statuses) < Len(inputs)
    /\ LET d == inputs[Cardinality(DOMAIN statuses) + 1]
       IN statuses' = [x \in DOMAIN statuses \cup {d} |->
                          IF x = d THEN dirs[d].status ELSE statuses[x]]
    /\ UNCHANGED <<dirs, pc, argVars, tasks, scanned, document, outVars, status>>

\* write_json_outputs: the document replaces results.json.
Publish ==
    /\ pc = "ledger" /\ Cardinality(DOMAIN statuses) = Len(inputs)
    /\ \E doc \in {AssembleDocument} :
            document' = doc /\ results' = [results EXCEPT ![Place] = doc]
    /\ pc' = "clear"
    /\ tasks' = <<>> /\ statuses' = [d \in {} |-> None]
    /\ UNCHANGED <<dirs, argVars, scanned, reports, figures, status>>

\* _report_from_json: the document of an earlier command is rendered into a
\* directory of its own, with options of its own.
StartReplay(place, o) ==
    /\ pc = "idle" /\ run < MaxRuns
    /\ results[place] /= None
    /\ run' = run + 1 /\ args' = [nodes |-> o.nodes, complete |-> o.complete, json |-> TRUE]
    /\ inputs' = results[place].dirs /\ settled' = FALSE
    /\ document' = results[place] /\ figures' = <<>>
    /\ IF Mixed(results[place].targets) /\ ~o.mixed
       THEN Ends("refused")
       ELSE Begins("clear")
    /\ UNCHANGED <<dirs, results, reports>>

\* Mutant: the report of an earlier run is left to be overwritten.
RemoveStaleReportNot ==
    /\ pc = "clear"
    /\ pc' = "render"
    /\ UNCHANGED <<dirs, argVars, parseVars, document, outVars, status>>

\* remove_stale_report
RemoveStaleReport ==
    /\ pc = "clear"
    /\ reports' = [reports EXCEPT ![Place] = None]
    /\ pc' = "render"
    /\ UNCHANGED <<dirs, argVars, parseVars, document, results, figures, status>>

\* The exit status: incomplete comes before an empty report.
ExitStatus(empty) ==
    IF args.complete /\ ~document.complete THEN "incomplete"
    ELSE IF empty THEN "empty" ELSE "ok"

\* render_text_report: without a row nothing is written.
Render ==
    /\ pc = "render"
    /\ LET rows == TableRows(document)
       IN \/ /\ rows = <<>>
             /\ Ends(ExitStatus(TRUE)) /\ UNCHANGED reports
          \/ /\ rows /= <<>>
             /\ reports' = [reports EXCEPT ![Place] =
                    [of |-> document.by, targets |-> document.targets, rows |-> rows]]
             /\ pc' = "plot" /\ UNCHANGED <<parseVars, status>>
    /\ UNCHANGED <<dirs, argVars, document, results, figures>>

Plot ==
    /\ pc = "plot"
    /\ figures' = PlotAll(reports[Place].rows)
    /\ Ends(ExitStatus(FALSE))
    /\ UNCHANGED <<dirs, argVars, document, results, reports>>

\* The command is killed.  Until it publishes, it leaves nothing behind.
Kill ==
    /\ pc \in {"clear", "render", "plot"}
    /\ Ends("killed")
    /\ document' = None /\ figures' = <<>>
    /\ UNCHANGED <<dirs, argVars, results, reports>>

Command ==
    \/ Scan \/ Gather \/ ReadStatuses \/ Publish \/ RemoveStaleReport \/ Render \/ Plot
    \/ \E i \in DOMAIN tasks : LoadCsv(i) \/ LoadOut(i) \/ RecordFiles(i)

Next ==
    \/ Benchmark \/ Command \/ Kill
    \/ \E o \in Options : \/ \E dirSeq \in Inputs : StartReport(dirSeq, o)
                          \/ \E place \in Places : StartReplay(place, o)

Spec == Init /\ [][Next]_vars

-----------------------------------------------------------------------------
(* Properties.                                                             *)

Steps == {"idle", "scan", "parse", "ledger", "clear", "render", "plot"}

\* Every variable has its type; what is parsed and reported are iterations
\* of the directories.
TypeOK ==
    /\ pc \in Steps /\ run \in 0 .. MaxRuns
    /\ status \in Opt({"refused", "incomplete", "empty", "ok", "killed"})
    /\ DOMAIN dirs = Dirs /\ ToSet(inputs) \subseteq Dirs
    /\ scanned \in 0 .. Len(inputs) /\ DOMAIN statuses \subseteq ToSet(inputs)
    /\ \A i \in DOMAIN tasks : /\ ToSet(tasks[i].keys) \subseteq DOMAIN dirs[tasks[i].dir].files
                               /\ Len(tasks[i].iters) <= Len(tasks[i].keys)
    /\ \A p \in Places : reports[p] /= None =>
            /\ reports[p].of \in 1 .. run
            /\ \A i \in DOMAIN reports[p].rows :
                    reports[p].rows[i].keys \subseteq (1 .. Cardinality(Dirs)) \X DOMAIN Measured

Documents == {results[p] : p \in Places} \ {None}

\* Every row of every report averages whole iterations only: the rates are
\* those measured, rounded once, and its latencies count every observation
\* of every iteration it names.
RowsAreWhole ==
    \A p \in Places : reports[p] /= None =>
        \A i \in DOMAIN reports[p].rows : \A op \in ToSet(Operations) :
            LET row == reports[p].rows[i]
            IN /\ row.count = Cardinality(row.keys)
               /\ row.sum[op] = SumOver(LAMBDA k : RoundOps(Measured[k[2]][op].rate), row.keys)
               /\ row.low[op] * row.count <= row.sum[op] /\ row.sum[op] <= row.high[op] * row.count
               /\ Total(row.hist[op]) = SumOver(LAMBDA k : Total(Measured[k[2]][op].hist), row.keys)
               /\ \A q \in {50, 90, 99, 100} : row.lat[op][0] <= row.lat[op][q]
                                               /\ row.lat[op][q] <= row.lat[op][100]

\* No iteration is counted twice: a copy of a result in a second input makes
\* both unusable, unless the inputs are different targets.
NothingCountedTwice ==
    \A p \in Places : reports[p] /= None =>
        \A i, j \in DOMAIN reports[p].rows :
            \A a \in reports[p].rows[i].keys : \A b \in reports[p].rows[j].keys :
                (a[2] = b[2] /\ a /= b) =>
                    reports[p].targets[a[1]] /= reports[p].targets[b[1]]

\* A document says it is complete only if every execution of every input,
\* readable or not, has succeeded, and each of its iterations is whole both
\* on disk and in the document.
CompleteIsTrue ==
    \A doc \in Documents : doc.complete =>
        \A g \in DOMAIN doc.dirs :
            LET d == dirs[doc.dirs[g]]
                found == {f.it.key : f \in {x \in ToSet(CompleteIterations(doc)) : x.group = g}}
            IN \A i \in DOMAIN d.ledger :
                /\ d.ledger[i].id \in DOMAIN d.status /\ d.status[d.ledger[i].id] = "success"
                /\ \A n \in Count(d.ledger[i].want) : \E k \in DOMAIN d.files \cap found :
                        Shape(k) = d.ledger[i].shape /\ k.iter = n /\ Finished(d.files[k])

\* A command over directories whose executions had all succeeded before it
\* started, and without filters, finds them complete and exits with 0.
CompleteIsFound ==
    (pc = "idle" /\ status \notin {None, "killed", "refused"} /\ ~args.json
        /\ args.nodes = {} /\ settled)
    => /\ document.complete
       /\ status = IF TableRows(document) = <<>> THEN "empty" ELSE "ok"

\* Results of an execution the ledger calls failed or running are in no
\* report, however whole its files are.
OnlySucceededReported ==
    \A doc \in Documents : \A f \in ToSet(CompleteIterations(doc)) :
        LET d == dirs[doc.dirs[f.group]]
        IN \A i \in DOMAIN d.ledger :
            (/\ d.ledger[i].readable /\ d.ledger[i].shape = Shape(f.it.key)
             /\ d.ledger[i].id \in DOMAIN d.status)
            => d.status[d.ledger[i].id] = "success"

\* The mean the document states for an execution and the mean the text
\* report computes from its rounded iterations differ by one unit at most.
MeansAgree ==
    \A doc \in Documents : \A e \in ToSet(doc.execs) : e.aggregate /= None =>
        LET used == SelectSeq(e.iters, LAMBDA it : it.whole)
        IN \A op \in ToSet(Operations) :
            LET sum == SumOver(LAMBDA i : used[i].rate[op], DOMAIN used)
                gap == e.aggregate[op] * Len(used) - sum
            IN gap <= Len(used) /\ -gap <= Len(used)

\* The digests recorded for a whole iteration are those of whole files.
DigestsOfWhole ==
    \A doc \in Documents : \A e \in ToSet(doc.execs) : \A i \in DOMAIN e.iters :
        e.iters[i].whole => Finished(e.files[e.iters[i].key])

\* When a command ends by itself, its report.txt is of the document it
\* published or was given, or there is none: nothing older is left.
ReportIsCurrent ==
    (pc = "idle" /\ status \notin {None, "killed", "refused"}) =>
        /\ status \in {"ok"} => reports[Place] /= None
        /\ reports[Place] /= None => /\ reports[Place].of = document.by
                                     /\ reports[Place].rows = TableRows(document)

\* The rate figure draws every row of the table once, in order of scale, and
\* the best point of every efficiency line is at 100 percent.
FiguresShowTable ==
    \A i \in DOMAIN figures :
        /\ figures[i].kind = "rates" =>
            LET points == Concatenated(figures[i].lines)
                rows == reports[Place].rows
            IN /\ Len(points) = Len(rows)
               /\ {p.row : p \in ToSet(points)} = {r.shape : r \in ToSet(rows)}
               /\ \A l \in DOMAIN figures[i].lines : \A k \in 2 .. Len(figures[i].lines[l]) :
                    figures[i].lines[l][k - 1].x < figures[i].lines[l][k].x
        /\ figures[i].kind = "efficiency" =>
            \A l \in DOMAIN figures[i].lines :
                LET e == figures[i].lines[l]
                IN /\ \A k \in DOMAIN e : e[k][1] <= e[k][2]
                   /\ (\E k \in DOMAIN e : e[k][1] > 0) => \E k \in DOMAIN e : e[k][1] = e[k][2]

\* Whatever the number of datestamps, every figure's file name fits and the
\* token in the titles fits into any of them.
NamesFit ==
    run = 0 => \A n \in 1 .. MaxStamps : \A multi \in BOOLEAN :
        \A prefix \in PlotPrefixes(multi) :
            /\ prefix + StampForPrefix(prefix, n).len + 4 <= NameMax
            /\ prefix + TitleStamp(multi, n).len + 4 <= NameMax
            /\ TitleStamp(multi, n).form /= "count"

\* The document is true of the directories it was made from, while the benchmark
\* goes on: complete exactly when all is whole, from successful executions only.
DocumentSound ==
    /\ TypeOK
    /\ CompleteIsTrue
    /\ CompleteIsFound
    /\ OnlySucceededReported
    /\ DigestsOfWhole
    /\ MeansAgree

\* The text report and its figures are those of the document just published and
\* count each whole iteration once.
TextSound ==
    /\ RowsAreWhole
    /\ NothingCountedTwice
    /\ ReportIsCurrent
    /\ FiguresShowTable
    /\ NamesFit
=============================================================================

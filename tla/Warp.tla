------------------------------- MODULE Warp -------------------------------
(***************************************************************************)
(* extract-warp: the report on a directory of warp GET results.            *)
(*                                                                         *)
(* A benchmark may still be writing into the directory while it is read:   *)
(* the directory is listed once to choose the format, once for the         *)
(* datestamp and once to parse.  Every readable result becomes a metric,   *)
(* unless a corrupt file ends the command; the plots follow the size and   *)
(* thread filters, the per-client plots look for clients that fall behind, *)
(* and report.txt comes last.  The command may be run again over the same  *)
(* directory.                                                              *)
(*                                                                         *)
(* Source: src/utils/extract-warp.py.  numpy and matplotlib are external.  *)
(*                                                                         *)
(* Abstractions.  A client is its position in by_client.  Rates, sizes and *)
(* latencies are small numbers; a mean over runs is multiplied by Common,  *)
(* and z < -Z is decided on squares, so that nothing is rounded where the  *)
(* code does not round.  A figure is a record of what it draws.            *)
(***************************************************************************)
EXTENDS Integers, Sequences, FiniteSets, SequencesExt, FiniteSetsExt

CONSTANTS
    None,            \* the absent value
    Raised,          \* the outcome of a parser that raises ValueError
    Uncaught,        \* that of one whose error the parse loop does not catch
    Results,         \* the result files a benchmark can leave
    Options,         \* the command lines: [sizes, threads, perClient]
    Kilo,            \* 1024: what separates one size unit from the next
    Z,               \* --client-outlier-threshold
    MinSegments,     \* --client-min-underperform-segments
    TopBars,         \* bars and heatmap rows drawn at most
    TopBoxes,        \* boxes and percentile lines drawn at most
    TopSeries,       \* outlier lines of the time series at most
    MaxClients,      \* bound: clients of a run
    MaxFiles,        \* bound: files in the directory
    MaxRuns,         \* bound: runs of the command
    MaxScales        \* bound: scale points the subplot selection is checked on

ASSUME SmallInstance == MaxFiles \in 1 .. 3 /\ Kilo >= 2

VARIABLES
    files,           \* the directory, in listing order
    pc,              \* the step the command is at
    run,             \* how often the command was started
    opts,            \* its options
    before,          \* the files that were whole when it started
    format,          \* detect_warp_file_format's answer
    stamp,           \* the file that names the datestamp; 0: an mtime
    todo,            \* files listed and not parsed yet
    metrics,         \* the WarpMetrics parsed, in order
    multi,           \* is_multi_node
    shown,           \* filtered_plot_metrics
    configs,         \* per-client configurations left to plot
    figures,         \* the figures this run saved, in order
    report,          \* report.txt: None, or what it holds
    status           \* None, or how the run ended: "ok", "usage", "crash"

dirVars == <<files>>
argVars == <<run, opts, before>>
parseVars == <<format, stamp, todo, metrics>>
plotVars == <<multi, shown, configs, figures>>
vars == <<dirVars, pc, argVars, parseVars, plotVars, report, status>>

Opt(S) == S \cup {None}

\* A multiple of every number of runs a client is averaged over.
Common == 6

SumOver(op(_), S) == MapThenSumSet(op, S)

AllClients == 1 .. MaxClients

\* The distinct members of a sequence, in the order of first appearance.
FirstSeen(s) ==
    FoldLeft(LAMBDA acc, x : IF x \in ToSet(acc) THEN acc ELSE Append(acc, x), <<>>, s)

Concatenated(seqs) == FoldLeft(LAMBDA acc, x : acc \o x, <<>>, seqs)

Ascending(S) == SetToSortSeq(S, LAMBDA a, b : a < b)

UpTo(s, n) == SubSeq(s, 1, IF Len(s) < n THEN Len(s) ELSE n)

-----------------------------------------------------------------------------
(* Object sizes.  A label is the number and the unit that are printed.     *)

Units == <<"T", "G", "M", "K">>

UnitSize(u) ==
    CASE u = "T" -> Kilo * Kilo * Kilo * Kilo
      [] u = "G" -> Kilo * Kilo * Kilo
      [] u = "M" -> Kilo * Kilo
      [] u = "K" -> Kilo
      [] u = "B" -> 1

\* Python's round of n/d: half goes to the even neighbour.
Round(n, d) ==
    LET q == n \div d
        r == 2 * (n % d)
    IN IF r < d THEN q ELSE IF r > d THEN q + 1 ELSE q + (q % 2)

LargestUnit(bytes) ==
    LET fit == {i \in DOMAIN Units : bytes >= UnitSize(Units[i])}
    IN IF fit = {} THEN "B" ELSE Units[Min(fit)]

FormatSize(bytes) ==
    LET u == LargestUnit(bytes) IN [n |-> Round(bytes, UnitSize(u)), u |-> u]

\* parse_size knows K, M, G and T only and raises on a label in bytes.
ParsesSize(label) == label.u /= "B"

ParseSize(label) == label.n * UnitSize(label.u)

-----------------------------------------------------------------------------
(* Histograms: a function from milliseconds to a count.                    *)

AggregateHistograms(hists) ==
    [b \in UNION {DOMAIN hists[i] : i \in DOMAIN hists} |->
        SumOver(LAMBDA i : hists[i][b], {i \in DOMAIN hists : b \in DOMAIN hists[i]})]

Count(hist) == SumOver(LAMBDA b : hist[b], DOMAIN hist)

\* compute_percentile_from_histogram: the first bucket at which the
\* cumulative count reaches percent/100 of the total; 0 without requests.
Percentile(hist, percent) ==
    LET total == Count(hist)
        cumulative(b) == SumOver(LAMBDA x : hist[x], {x \in DOMAIN hist : x <= b})
        reached == {b \in DOMAIN hist : 100 * cumulative(b) >= total * percent}
    IN IF total = 0 THEN 0 ELSE Min(reached)

\* compute_stats_from_histogram, as far as the report shows it.
Stats(hist) ==
    [p25 |-> Percentile(hist, 25), p50 |-> Percentile(hist, 50),
     p75 |-> Percentile(hist, 75), p90 |-> Percentile(hist, 90),
     p99 |-> Percentile(hist, 99),
     fastest |-> IF Count(hist) = 0 THEN 0 ELSE Min(DOMAIN hist),
     slowest |-> IF Count(hist) = 0 THEN 0 ELSE Max(DOMAIN hist)]

NoHistogram == [b \in {} |-> 0]

\* aggregate_multi_sized_first_byte: nothing without a histogram.
MultiSized(hists) ==
    LET some == SelectSeq(hists, LAMBDA h : DOMAIN h /= {})
    IN IF some = <<>> THEN None ELSE AggregateHistograms(some)

-----------------------------------------------------------------------------
(* Parsing.  A result file f has:                                          *)
(*   f.ext      "json" or "out"         f.bad   what is wrong with it, or  *)
(*   f.bytes    object size                     None                       *)
(*   f.threads  concurrency             f.rate  each client's bytes/s      *)
(*   f.segs     each client's segment rates; a client without segments is  *)
(*              not in the domain                                          *)
(*   f.hists    histograms by request size   f.single  one request size    *)
(*   f.lost     clients without valid request data                         *)
(*   f.stamped  a datestamp in the name f.version  the recorded version    *)

\* Results parse_warp_json passes over without a message.
Passed == {"analyzed", "interim", "two operations", "not GET"}

Clients(f) == DOMAIN f.rate

\* The request data of one client, for the requests and the histograms.
WithRequests(f) == Clients(f) \ f.lost

\* total's first_byte: a single-sized result carries its one histogram, with
\* warp's own figures; request sizes that differ are aggregated.
FirstByte(f) == IF f.single THEN f.hists[1] ELSE MultiSized(f.hists)

\* Each client's throughput segments; a text result has none.
ThroughputSegments(f) == IF f.ext = "json" THEN f.segs ELSE [c \in {} |-> <<>>]

\* The metric of a readable result.  Text results have neither segments nor
\* histograms.
Metric(f, i) ==
    [src |-> i,
     nodes |-> Cardinality(Clients(f)),
     size |-> FormatSize(f.bytes),
     threads |-> f.threads,
     bw |-> SumOver(LAMBDA c : 8 * f.rate[c], Clients(f)),
     hist |-> IF f.ext = "json" THEN FirstByte(f) ELSE NoHistogram,
     ttfb |-> IF f.ext = "json" /\ ~f.single THEN Stats(FirstByte(f)) ELSE None,
     requests |-> WithRequests(f),
     rate |-> f.rate,
     segs |-> ThroughputSegments(f)]

\* The client blocks of a text result: one that does not parse is left out.
TextRates(f) == [c \in WithRequests(f) |-> f.rate[c]]

\* parse_warp_json: a metric, None, or Raised.  A corrupt file, zstd data that
\* do not decompress or JSON that is no object, raises what nobody catches.
ParseJson(f, i) ==
    IF f.bad \in Passed THEN None
    ELSE IF f.bad = "corrupt" THEN Uncaught
    ELSE IF f.bad /= None \/ FirstByte(f) = None THEN Raised
    ELSE Metric(f, i)

\* parse_warp_file: names other than warp-GET-<size>-c_<n>-s_<n>_ are not
\* results; a missing overall figure raises, a bad client block does not.
ParseText(f, i) ==
    IF f.bad = "other name" THEN None
    ELSE IF f.bad /= None THEN Raised
    ELSE [Metric(f, i) EXCEPT !.rate = TextRates(f)]

-----------------------------------------------------------------------------
(* Clients that fall behind.                                               *)

\* Mutant: a client far above the mean is flagged as well.
BehindEitherSide(v) ==
    LET n == Cardinality(DOMAIN v)
        sum == SumOver(LAMBDA c : v[c], DOMAIN v)
        squares == SumOver(LAMBDA c : v[c] * v[c], DOMAIN v)
    IN {c \in DOMAIN v :
          (sum - n * v[c]) * (sum - n * v[c]) > Z * Z * (n * squares - sum * sum)}

\* (v - mean) / stddev < -Z, with both sides squared.
Behind(v) ==
    LET n == Cardinality(DOMAIN v)
        sum == SumOver(LAMBDA c : v[c], DOMAIN v)
        squares == SumOver(LAMBDA c : v[c] * v[c], DOMAIN v)
    IN {c \in DOMAIN v :
          /\ n * v[c] < sum
          /\ (sum - n * v[c]) * (sum - n * v[c]) > Z * Z * (n * squares - sum * sum)}

\* identify_underperforming_clients: worst first, ties in dict order.
Underperformers(v) ==
    SetToSortSeq(Behind(v), LAMBDA a, b : v[a] < v[b] \/ (v[a] = v[b] /\ a < b))

\* _collect_client_avg_throughput, in Gbps times Common.
AverageRates(ms) ==
    LET with(c) == {i \in DOMAIN ms : c \in DOMAIN ms[i].rate}
    IN [c \in {d \in AllClients : with(d) /= {}} |->
          (Common \div Cardinality(with(c)))
            * SumOver(LAMBDA i : 8 * ms[i].rate[c], with(c))]

\* plot_client_throughput_distribution
Distribution(ms) ==
    LET v == AverageRates(ms)
    IN IF DOMAIN v = {} THEN None
       ELSE [values |-> v, marked |-> Underperformers(v)]

\* plot_underperforming_clients_bars
Bars(ms) ==
    LET worst == Underperformers(AverageRates(ms))
    IN IF worst = <<>> THEN None ELSE UpTo(worst, TopBars)

\* _collect_ttfb_underperformer_metrics and the box data: the underperformers
\* that have request data in some run of the configuration.
BoxLabels(ms, names) ==
    SelectSeq(names, LAMBDA c : \E i \in DOMAIN ms : c \in ms[i].requests)

\* plot_underperforming_clients_ttfb_boxplot
Boxplot(ms) ==
    LET boxes == BoxLabels(ms, UpTo(Underperformers(AverageRates(ms)), TopBoxes))
    IN IF boxes = <<>> THEN None ELSE boxes

\* plot_client_ttfb_percentile_lines: drawn whenever there is an
\* underperformer, with a reference line when others have request data.
PercentileLines(ms) ==
    LET names == UpTo(Underperformers(AverageRates(ms)), TopBoxes)
    IN IF names = <<>> THEN None
       ELSE [lines |-> Ascending(ToSet(BoxLabels(ms, names))),
             reference |-> \E i \in DOMAIN ms : ms[i].requests \ ToSet(names) /= {}]

\* The segments of one run: each the clients that have one of that index.
RunSegments(m) ==
    LET longest == Max({0} \cup {Len(m.segs[c]) : c \in DOMAIN m.segs})
    IN [k \in 1 .. longest |->
          [c \in {d \in DOMAIN m.segs : Len(m.segs[d]) >= k} |-> 8 * m.segs[c][k]]]

\* all_segments_data: the runs of a configuration one after the other.
Timeline(ms) == Concatenated([i \in DOMAIN ms |-> RunSegments(ms[i])])

\* Segments in which a client falls behind; one client, or no variation,
\* says nothing.
SlowSegments(line, c) ==
    {k \in DOMAIN line :
        Cardinality(DOMAIN line[k]) >= 2 /\ c \in DOMAIN line[k] /\ c \in Behind(line[k])}

\* plot_client_underperformance_heatmap: most segments first, ties in the
\* order in which the clients first fell behind.
Heatmap(ms) ==
    LET line == Timeline(ms)
        all == {c \in AllClients : \E k \in DOMAIN line : c \in DOMAIN line[k]}
        slow == [c \in all |-> SlowSegments(line, c)]
        rows == {c \in all : slow[c] /= {} /\ Cardinality(slow[c]) >= MinSegments}
        before2(a, b) ==
            \/ Cardinality(slow[a]) > Cardinality(slow[b])
            \/ /\ Cardinality(slow[a]) = Cardinality(slow[b])
               /\ \/ Min(slow[a]) < Min(slow[b])
                  \/ Min(slow[a]) = Min(slow[b]) /\ a < b
        order == UpTo(SetToSortSeq(rows, before2), TopBars)
    IN IF rows = {} THEN None
       ELSE [rows |-> order, cells |-> [c \in ToSet(order) |-> slow[c]],
             segments |-> Len(line)]

\* plot_client_throughput_timeseries: each client's segments averaged over
\* the runs by index.  The rate is bytes/s divided by 1e9 and called Gbps.
Timeseries(ms) ==
    LET v == AverageRates(ms)
        clients == {c \in AllClients : \E i \in DOMAIN ms : c \in DOMAIN ms[i].segs}
        having(c, k) == {i \in DOMAIN ms : c \in DOMAIN ms[i].segs /\ Len(ms[i].segs[c]) >= k}
        longest == Max({0} \cup {Len(ms[i].segs[c]) : <<i, c>> \in
                        {p \in (DOMAIN ms) \X clients : p[2] \in DOMAIN ms[p[1]].segs}})
        mean(c, k) == (Common \div Cardinality(having(c, k)))
                        * SumOver(LAMBDA i : ms[i].segs[c][k], having(c, k))
    IN IF clients = {} \/ DOMAIN v = {} THEN None
       ELSE [band |-> [k \in 1 .. longest |->
                [c \in {d \in clients : having(d, k) /= {}} |-> mean(c, k)]],
             lines |-> SelectSeq(UpTo(Underperformers(v), TopSeries),
                                 LAMBDA c : c \in clients)]

\* plot_persistent_underperformers: in how many of the multi-node runs it
\* took part in a client fell behind.
Persistent(ms) ==
    LET runs == SelectSeq(ms, LAMBDA m : m.nodes > 1 /\ DOMAIN m.rate /= {})
        part(c) == {i \in DOMAIN runs : c \in DOMAIN runs[i].rate}
        flagged(c) == {i \in part(c) : c \in Behind(runs[i].rate)}
    IN {[client |-> c, count |-> Cardinality(flagged(c)), runs |-> Cardinality(part(c))]
            : c \in {d \in AllClients : flagged(d) /= {}}}

\* The clients the text report recommends for investigation.
Severe(rates) == {r \in rates : 2 * r.count >= r.runs}

-----------------------------------------------------------------------------
(* The figures over all runs.                                              *)

\* sorted(ms, key=op), which keeps the order of equal keys.
SortedBy(op(_), ms) ==
    LET order == SetToSortSeq(DOMAIN ms, LAMBDA i, j :
                    op(ms[i]) < op(ms[j]) \/ (op(ms[i]) = op(ms[j]) /\ i < j))
    IN [k \in DOMAIN order |-> ms[order[k]]]

\* What the figures are drawn against: nodes, or threads on one node.
ScaleOf(m) == IF multi THEN m.nodes ELSE m.threads

\* The lines of a figure: one per size and threads, or per size on one node.
Combination(m) == IF multi THEN [size |-> m.size, threads |-> m.threads]
                  ELSE [size |-> m.size, threads |-> 0]

\* calculate_scaling_efficiency, as fractions of the best bandwidth per unit;
\* 0/1 everywhere when there is none.
Efficiency(points) ==
    LET best == CHOOSE b \in DOMAIN points : \A k \in DOMAIN points :
                    points[k].bw * points[b].x <= points[b].bw * points[k].x
    IN [k \in DOMAIN points |->
          IF points[best].bw = 0 THEN <<0, 1>>
          ELSE <<points[k].bw * points[best].x, points[k].x * points[best].bw>>]

\* plot_metrics' prepared data: the combinations by size, then threads, each
\* with its points by scale.
PreparedData ==
    LET combos == SetToSortSeq({Combination(shown[i]) : i \in DOMAIN shown},
            LAMBDA a, b : \/ ParseSize(a.size) < ParseSize(b.size)
                          \/ ParseSize(a.size) = ParseSize(b.size) /\ a.threads < b.threads
                          \/ ParseSize(a.size) = ParseSize(b.size) /\ a.threads = b.threads
                             /\ a.size.n > b.size.n)
        points(c) ==
            LET ms == SortedBy(ScaleOf, SelectSeq(shown, LAMBDA m : Combination(m) = c))
            IN [k \in DOMAIN ms |-> [x |-> ScaleOf(ms[k]), bw |-> ms[k].bw, src |-> ms[k].src]]
    IN [i \in DOMAIN combos |-> [combo |-> combos[i], points |-> points(combos[i])]]

Suffix == IF multi THEN "mn" ELSE "snp"

Figure(kind, suffix, label, data) ==
    [kind |-> kind, suffix |-> suffix, label |-> label, data |-> data]

\* select_histogram_subplot_values: all of at most five scale points, else
\* the ends and up to three between them.
SelectSubplots(values) ==
    LET n == Len(values)
        step == Max({1, (n - 2) \div 3})
        middle == [k \in 1 .. ((n - 3) \div step) + 1 |-> values[2 + (k - 1) * step]]
    IN IF n <= 5 THEN values ELSE <<values[1]>> \o UpTo(middle, 3) \o <<values[n]>>

\* plot_ttfb_histograms: a figure for each size that has a histogram at a
\* selected scale point.
HistogramFigures ==
    LET chosen == SelectSubplots(Ascending({ScaleOf(shown[i]) : i \in DOMAIN shown}))
        valid(size) == SelectSeq(shown, LAMBDA m :
            m.size = size /\ DOMAIN m.hist /= {} /\ ScaleOf(m) \in ToSet(chosen))
        sizes == SelectSeq(FirstSeen([i \in DOMAIN shown |-> shown[i].size]),
                           LAMBDA size : valid(size) /= <<>>)
    IN [i \in DOMAIN sizes |->
          Figure("histogram", IF multi THEN "mn" ELSE "sn", sizes[i],
                 [subplots |-> chosen,
                  curves |-> {m.src : m \in ToSet(valid(sizes[i]))}])]

-----------------------------------------------------------------------------
(* The command.                                                            *)

FilterMetrics(ms, o) ==
    SelectSeq(ms, LAMBDA m : /\ o.sizes = {} \/ m.size \in o.sizes
                             /\ o.threads = {} \/ m.threads \in o.threads)

Init ==
    /\ files = <<>> /\ pc = "idle" /\ run = 0 /\ opts = None /\ before = {}
    /\ format = None /\ stamp = None /\ todo = <<>> /\ metrics = <<>>
    /\ multi = FALSE /\ shown = <<>> /\ configs = <<>> /\ figures = <<>>
    /\ report = None /\ status = None

\* A benchmark leaves another result file.
AddFile(f) ==
    /\ Len(files) < MaxFiles
    /\ files' = Append(files, f)
    /\ UNCHANGED <<pc, argVars, parseVars, plotVars, report, status>>

\* A benchmark completes the result it was writing.
FinishFile(i) ==
    /\ files[i].bad \in {"interim", "unreadable"}
    /\ files' = [files EXCEPT ![i].bad = None]
    /\ UNCHANGED <<pc, argVars, parseVars, plotVars, report, status>>

Start(o) ==
    /\ pc = "idle" /\ run < MaxRuns
    /\ pc' = "detect" /\ run' = run + 1 /\ opts' = o
    /\ before' = {i \in DOMAIN files : files[i].bad = None}
    /\ status' = None /\ metrics' = <<>> /\ shown' = <<>> /\ figures' = <<>>
    /\ format' = None /\ stamp' = None /\ todo' = <<>> /\ configs' = <<>>
    /\ multi' = FALSE
    /\ UNCHANGED <<dirVars, report>>

Ends(how) == pc' = "idle" /\ status' = how

With(ext) == {i \in DOMAIN files : files[i].ext = ext}

\* The .out files the datestamp and the format look at are named warp-GET.
NamedText == {i \in With("out") : files[i].bad /= "other name"}

\* detect_warp_file_format; with neither, a usage error.
DetectFormat ==
    /\ pc = "detect"
    /\ \/ /\ With("json") = {} /\ NamedText = {}
          /\ Ends("usage") /\ UNCHANGED format
       \/ /\ With("json") /= {}
          /\ format' = "json" /\ pc' = "stamp" /\ UNCHANGED status
       \/ /\ With("json") = {} /\ NamedText /= {}
          /\ format' = "out" /\ pc' = "stamp" /\ UNCHANGED status
    /\ UNCHANGED <<dirVars, argVars, stamp, todo, metrics, plotVars, report>>

\* The datestamp is the first in a file name, else the earliest mtime.
PickStamp ==
    /\ pc = "stamp"
    /\ LET named == {i \in IF format = "json" THEN With("json") ELSE NamedText :
                        files[i].stamped}
       IN stamp' = IF named = {} THEN 0 ELSE Min(named)
    /\ pc' = "list"
    /\ UNCHANGED <<dirVars, argVars, format, todo, metrics, plotVars, report, status>>

ListFiles ==
    /\ pc = "list"
    /\ todo' = Ascending(With(format))
    /\ pc' = "parse"
    /\ UNCHANGED <<dirVars, argVars, format, stamp, metrics, plotVars, report, status>>

Parsed(i) == IF format = "json" THEN ParseJson(files[i], i) ELSE ParseText(files[i], i)

\* Mutant: the first file that cannot be read ends the loop.
ParseFileStops ==
    /\ pc = "parse" /\ todo /= <<>>
    /\ todo' = IF Parsed(Head(todo)) \in {Raised, Uncaught} THEN <<>> ELSE Tail(todo)
    /\ metrics' = IF Parsed(Head(todo)) \in {None, Raised, Uncaught} THEN metrics
                  ELSE Append(metrics, Parsed(Head(todo)))
    /\ UNCHANGED <<dirVars, pc, argVars, format, stamp, plotVars, report, status>>

\* One turn of the parse loop: a file that cannot be read is skipped, while a
\* corrupt one ends the command before anything is plotted or reported.
ParseFile ==
    /\ pc = "parse" /\ todo /= <<>>
    /\ LET parsed == Parsed(Head(todo))
       IN \/ /\ parsed = Uncaught
             /\ Ends("crash") /\ UNCHANGED <<todo, metrics>>
          \/ /\ parsed /= Uncaught
             /\ todo' = Tail(todo)
             /\ metrics' = IF parsed \in {None, Raised} THEN metrics
                           ELSE Append(metrics, parsed)
             /\ UNCHANGED <<pc, status>>
    /\ UNCHANGED <<dirVars, argVars, format, stamp, plotVars, report>>

\* Without a metric a usage error; else whether there are several nodes is
\* decided on all metrics, and the plots take the filtered ones.
Filter ==
    /\ pc = "parse" /\ todo = <<>>
    /\ IF metrics = <<>>
       THEN Ends("usage") /\ UNCHANGED <<multi, shown>>
       ELSE /\ multi' = \E i \in DOMAIN metrics : metrics[i].nodes > 1
            /\ shown' = FilterMetrics(metrics, opts)
            /\ pc' = "throughput" /\ UNCHANGED status
    /\ UNCHANGED <<dirVars, argVars, parseVars, configs, figures, report>>

\* The sizes sort only when every label can be parsed.
Sortable(ms) == \A i \in DOMAIN ms : ParsesSize(ms[i].size)

\* plot_metrics up to the first figure: the axis of no metrics has no end.
PlotThroughput ==
    /\ pc = "throughput"
    /\ \/ /\ shown = <<>> \/ ~Sortable(shown)
          /\ Ends("crash") /\ UNCHANGED figures
       \/ /\ shown /= <<>> /\ Sortable(shown)
          /\ figures' = Append(figures, Figure("throughput", Suffix, None, PreparedData))
          /\ pc' = "latency" /\ UNCHANGED status
    /\ UNCHANGED <<dirVars, argVars, parseVars, multi, shown, configs, report>>

PlotLatency ==
    /\ pc = "latency"
    /\ figures' = Append(figures, Figure("latency", Suffix, None, PreparedData))
    /\ pc' = "scaling"
    /\ UNCHANGED <<dirVars, argVars, parseVars, multi, shown, configs, report, status>>

PlotScaling ==
    /\ pc = "scaling"
    /\ LET lines == PreparedData
       IN figures' = Append(figures, Figure("scaling", Suffix, None,
            [i \in DOMAIN lines |-> [combo |-> lines[i].combo,
                                     efficiency |-> Efficiency(lines[i].points)]]))
    /\ pc' = "histograms"
    /\ UNCHANGED <<dirVars, argVars, parseVars, multi, shown, configs, report, status>>

\* The configuration the per-client figures group by.
ConfigOf(m) == [size |-> m.size, threads |-> m.threads, nodes |-> m.nodes]

\* The histograms, then the per-client figures when they are asked for and
\* there is more than one node.
PlotHistograms ==
    /\ pc = "histograms"
    /\ figures' = figures \o HistogramFigures
    /\ IF opts.perClient /\ multi
       THEN /\ configs' = FirstSeen([i \in DOMAIN shown |-> ConfigOf(shown[i])])
            /\ pc' = "clients"
       ELSE pc' = "report" /\ UNCHANGED configs
    /\ UNCHANGED <<dirVars, argVars, parseVars, multi, shown, report, status>>

\* The figures of one configuration that have something to draw.  Its runs
\* all have the same node count, so the name says "sn".
ConfigFigures(config) ==
    LET ms == SelectSeq(shown, LAMBDA m : ConfigOf(m) = config)
        drawn == <<<<"distribution", Distribution(ms)>>, <<"bars", Bars(ms)>>,
                   <<"boxplot", Boxplot(ms)>>, <<"heatmap", Heatmap(ms)>>,
                   <<"timeseries", Timeseries(ms)>>, <<"percentiles", PercentileLines(ms)>>>>
        some == SelectSeq(drawn, LAMBDA d : d[2] /= None)
    IN [i \in DOMAIN some |-> Figure(some[i][1], "sn", config, some[i][2])]

\* One configuration; a single node, or no per-client rates, has nothing to
\* compare.
PlotClients ==
    /\ pc = "clients" /\ configs /= <<>>
    /\ configs' = Tail(configs)
    /\ LET config == Head(configs)
           ms == SelectSeq(shown, LAMBDA m : ConfigOf(m) = config)
       IN figures' =
            IF config.nodes = 1 \/ \A i \in DOMAIN ms : DOMAIN ms[i].rate = {}
            THEN figures
            ELSE figures \o ConfigFigures(config)
    /\ UNCHANGED <<dirVars, pc, argVars, parseVars, multi, shown, report, status>>

PlotPersistent ==
    /\ pc = "clients" /\ configs = <<>>
    /\ figures' = IF Persistent(shown) = {} THEN figures
                  ELSE Append(figures, Figure("persistent", "mn", None,
                    [rates |-> Persistent(shown), severe |-> Severe(Persistent(shown))]))
    /\ pc' = "report"
    /\ UNCHANGED <<dirVars, argVars, parseVars, multi, shown, configs, report, status>>

\* print_table's detailed tables: every metric, by size, threads and nodes.
DetailTables ==
    LET key(m) == [size |-> m.size, threads |-> m.threads]
        keys == FirstSeen([i \in DOMAIN metrics |-> key(metrics[i])])
        order == SetToSortSeq(DOMAIN keys, LAMBDA i, j :
            LET a == keys[i]
                b == keys[j]
            IN \/ ParseSize(a.size) < ParseSize(b.size)
               \/ ParseSize(a.size) = ParseSize(b.size) /\ a.threads < b.threads
               \/ ParseSize(a.size) = ParseSize(b.size) /\ a.threads = b.threads /\ i < j)
        rows(k) == SortedBy(LAMBDA m : m.nodes, SelectSeq(metrics, LAMBDA m : key(m) = k))
    IN [i \in DOMAIN order |-> [of |-> keys[order[i]], rows |-> rows(keys[order[i]])]]

\* The summary table: the filtered metrics, or None when there is none.
SummaryTable ==
    LET ms == FilterMetrics(metrics, opts)
    IN IF ms = <<>> THEN None ELSE {ms[i].src : i \in DOMAIN ms}

\* versions.of(metrics), each read beside its result file.
ProducedBy == {files[metrics[i].src].version : i \in DOMAIN metrics}

\* report.txt is opened, then printed to; a label that cannot be sorted
\* leaves the versions alone in it.
WriteReport ==
    /\ pc = "report"
    /\ IF Sortable(metrics)
       THEN /\ report' = [run |-> run, versions |-> ProducedBy,
                          detail |-> DetailTables, summary |-> SummaryTable]
            /\ Ends("ok")
       ELSE /\ report' = [run |-> run, versions |-> ProducedBy,
                          detail |-> <<>>, summary |-> None]
            /\ Ends("crash")
    /\ UNCHANGED <<dirVars, argVars, parseVars, plotVars>>

Benchmark == (\E f \in Results : AddFile(f)) \/ (\E i \in DOMAIN files : FinishFile(i))

Command ==
    \/ DetectFormat \/ PickStamp \/ ListFiles \/ ParseFile \/ Filter
    \/ PlotThroughput \/ PlotLatency \/ PlotScaling \/ PlotHistograms
    \/ PlotClients \/ PlotPersistent \/ WriteReport

Next == Benchmark \/ (\E o \in Options : Start(o)) \/ Command

Spec == Init /\ [][Next]_vars

-----------------------------------------------------------------------------
(* Properties.                                                             *)

Steps == {"idle", "detect", "stamp", "list", "parse", "throughput", "latency",
          "scaling", "histograms", "clients", "report"}

\* Every variable has its type, and metrics, filtered metrics and listed
\* files refer to files of the directory.
TypeOK ==
    /\ files \in Seq(Results \cup {[f EXCEPT !.bad = None] : f \in Results})
    /\ Len(files) <= MaxFiles
    /\ pc \in Steps /\ run \in 0 .. MaxRuns /\ opts \in Opt(Options)
    /\ before \subseteq DOMAIN files
    /\ format \in Opt({"json", "out"}) /\ stamp \in Opt(0 .. Len(files))
    /\ ToSet(todo) \subseteq DOMAIN files
    /\ \A m \in ToSet(metrics) : m.src \in DOMAIN files /\ m.nodes \in Nat \ {0}
    /\ ToSet(shown) \subseteq ToSet(metrics)
    /\ multi \in BOOLEAN /\ status \in Opt({"ok", "usage", "crash"})

Done == pc = "idle" /\ status = "ok"

Figures(kind) == {f \in ToSet(figures) : f.kind = kind}

\* Once the loop has gone through the files it listed, each result that was
\* whole when the command started, in the format it settled on, has been parsed
\* into exactly one metric, whatever the benchmark writes meanwhile and
\* whichever other files the loop skips.  A corrupt file stops the loop (main),
\* and then nothing is said of the rest.
NothingReadableDropped ==
    (format /= None /\ todo = <<>> /\ pc \notin {"stamp", "list", "parse"}) =>
        \A i \in before : (files[i].ext = format /\ Parsed(i) /= Raised) =>
            Cardinality({k \in DOMAIN metrics : metrics[k].src = i}) = 1

\* A successful run replaces report.txt by tables that show each parsed
\* metric in exactly one row, sorted by size, threads and nodes, while the
\* summary holds the filtered metrics only.
ReportShowsAll ==
    Done =>
        LET tables == report.detail
            rows == Concatenated([t \in DOMAIN tables |-> tables[t].rows])
        IN /\ report.run = run
           /\ Len(rows) = Len(metrics) /\ ToSet(rows) = ToSet(metrics)
           /\ \A t \in DOMAIN tables : \A k \in DOMAIN tables[t].rows :
                /\ tables[t].rows[k].size = tables[t].of.size
                /\ k > 1 => tables[t].rows[k - 1].nodes <= tables[t].rows[k].nodes
           /\ \A t \in 2 .. Len(tables) :
                ParseSize(tables[t - 1].of.size) <= ParseSize(tables[t].of.size)
           /\ report.summary = IF shown = <<>> THEN None ELSE {m.src : m \in ToSet(shown)}

\* The versions at the head of the report are those of the results whose
\* rows it shows: all of them, filtered from the plots or not.
ProvenanceCoversRows ==
    Done => report.versions =
        {files[m.src].version : m \in UNION {ToSet(t.rows) : t \in ToSet(report.detail)}}

\* No figure draws a run the filters exclude.
FiguresFollowFilters ==
    \A f \in ToSet(figures) :
        /\ f.kind \in {"throughput", "latency"} =>
            \A line \in ToSet(f.data) : \A p \in ToSet(line.points) :
                LET m == Metric(files[p.src], p.src)
                IN /\ opts.sizes = {} \/ m.size \in opts.sizes
                   /\ opts.threads = {} \/ m.threads \in opts.threads
        /\ f.kind = "distribution" =>
                /\ opts.sizes = {} \/ f.label.size \in opts.sizes
                /\ opts.threads = {} \/ f.label.threads \in opts.threads

\* A run never saves two figures under one name, and every configuration of
\* several nodes with rates has its distribution when it is asked for.
FiguresApart ==
    /\ \A i, j \in DOMAIN figures : i /= j =>
            <<figures[i].kind, figures[i].suffix, figures[i].label>>
              /= <<figures[j].kind, figures[j].suffix, figures[j].label>>
    /\ (Done /\ opts.perClient) => \A m \in ToSet(shown) :
            (m.nodes > 1 /\ DOMAIN m.rate /= {}) =>
                \E f \in Figures("distribution") :
                    /\ <<f.label.size, f.label.threads, f.label.nodes>>
                         = <<m.size, m.threads, m.nodes>>
                    /\ DOMAIN m.rate \subseteq DOMAIN f.data.values

\* The marked clients are slower than all others, come worst first, and are
\* few: at most n / (1 + Z^2) of n clients can be more than Z deviations
\* below their mean.
OutliersAreFewAndSlowest ==
    \A f \in Figures("distribution") :
        LET v == f.data.values
            marked == f.data.marked
        IN /\ Len(marked) * (1 + Z * Z) <= Cardinality(DOMAIN v)
           /\ \A k \in DOMAIN marked :
                /\ k > 1 => v[marked[k - 1]] <= v[marked[k]]
                /\ \A c \in DOMAIN v \ ToSet(marked) : v[marked[k]] < v[c]

\* Slower than the others, who are equal and enough to reach Z deviations.
AloneBehind(rate, c) ==
    /\ Z * Z < Cardinality(DOMAIN rate) - 1
    /\ \A a, b \in DOMAIN rate \ {c} : rate[a] = rate[b] /\ rate[c] < rate[a]

\* A client's persistent rate counts the multi-node runs it took part in:
\* marked in all of them it is at 100 percent, and it is listed whenever a
\* configuration of one run marks it.
PersistentRatesTrue ==
    /\ \A f \in Figures("persistent") : \A r \in f.data.rates :
        LET part == {m \in ToSet(shown) : m.nodes > 1 /\ r.client \in DOMAIN m.rate}
        IN /\ r.runs = Cardinality(part)
           /\ r.count \in 1 .. r.runs
           /\ (\A m \in part : AloneBehind(m.rate, r.client))
                => r.count = r.runs /\ r \in f.data.severe
    /\ Done => \A f \in Figures("bars") :
        LET ms == {m \in ToSet(shown) : ConfigOf(m) = f.label}
        IN Cardinality(ms) = 1 =>
            \E p \in Figures("persistent") :
                ToSet(f.data) \subseteq {r.client : r \in p.data.rates}

\* A cell of the heatmap is a segment its client really has, in the run the
\* position belongs to, and the figure is as wide as the runs together.
HeatmapCellsReal ==
    \A f \in Figures("heatmap") :
        LET ms == SelectSeq(shown, LAMBDA m : ConfigOf(m) = f.label)
            wide(m) == Max({0} \cup {Len(m.segs[c]) : c \in DOMAIN m.segs})
            ahead(i) == SumOver(LAMBDA j : wide(ms[j]), 1 .. i - 1)
        IN /\ f.data.segments = ahead(Len(ms) + 1)
           /\ \A c \in DOMAIN f.data.cells : \A k \in f.data.cells[c] :
                \E i \in DOMAIN ms : \E d \in DOMAIN ms[i].segs :
                    /\ c \in DOMAIN ms[i].segs
                    /\ k - ahead(i) \in 1 .. Len(ms[i].segs[c])
                    /\ k - ahead(i) \in 1 .. Len(ms[i].segs[d])
                    /\ ms[i].segs[c][k - ahead(i)] < ms[i].segs[d][k - ahead(i)]

\* The percentiles of a result with several request sizes are nearest ranks
\* of all its requests: below the percentile lie fewer requests than its
\* share, up to it at least its share, and they grow with the share.
PercentilesAreRanks ==
    \A m \in ToSet(metrics) : m.ttfb /= None =>
        LET hists == files[m.src].hists
            upTo(x) == SumOver(LAMBDA i :
                SumOver(LAMBDA b : hists[i][b], {b \in DOMAIN hists[i] : b <= x}), DOMAIN hists)
            total == upTo(m.ttfb.slowest)
            rank(x, percent) == /\ 100 * upTo(x) >= percent * total
                                /\ 100 * upTo(x - 1) < percent * total
        IN total > 0 =>
            /\ rank(m.ttfb.p25, 25) /\ rank(m.ttfb.p50, 50) /\ rank(m.ttfb.p99, 99)
            /\ m.ttfb.fastest <= m.ttfb.p25 /\ m.ttfb.p99 <= m.ttfb.slowest

\* The best point of every scaling line is at 100 percent and none is above.
BestScalesFully ==
    \A f \in Figures("scaling") : \A i \in DOMAIN f.data :
        LET e == f.data[i].efficiency
        IN /\ \A k \in DOMAIN e : e[k][1] <= e[k][2]
           /\ (\E k \in DOMAIN e : e[k][1] > 0) => \E k \in DOMAIN e : e[k][1] = e[k][2]

\* Of any number of scale points at most five are drawn, in order and with
\* both ends, and no gap between them is much wider than a third of the rest.
SubplotsRepresentative ==
    (pc = "histograms") => \A n \in 1 .. MaxScales :
        LET s == SelectSubplots([i \in 1 .. n |-> i])
        IN /\ Len(s) = Min({n, 5}) /\ s[1] = 1 /\ Last(s) = n
           /\ \A k \in 2 .. Len(s) :
                s[k] > s[k - 1] /\ 3 * (s[k] - s[k - 1]) <= n + 4

\* A size label is the object size rounded to the nearest of its unit.
SizeLabelsNear ==
    \A m \in ToSet(metrics) :
        LET bytes == files[m.src].bytes
            off == ParseSize(m.size) - bytes
        IN 2 * off <= UnitSize(m.size.u) /\ -2 * off <= UnitSize(m.size.u)

\* A run that was not stopped by a corrupt file reports all that could be read, and
\* plots what was asked for, whatever the benchmark writes while the command runs.
ReportSound ==
    /\ TypeOK
    /\ NothingReadableDropped
    /\ ReportShowsAll
    /\ ProvenanceCoversRows
    /\ FiguresFollowFilters
    /\ FiguresApart

\* The figures say what is so: marked clients are slow, rates, cells, ranks and
\* efficiencies are those of the results, and what is left out is the least.
FiguresTrue ==
    /\ OutliersAreFewAndSlowest
    /\ PersistentRatesTrue
    /\ HeatmapCellsReal
    /\ PercentilesAreRanks
    /\ BestScalesFully
    /\ SubplotsRepresentative
    /\ SizeLabelsNear
===========================================================================

------------------------------- MODULE Live -------------------------------
(***************************************************************************)
(* The live statistics of one elbencho phase: the interval CSV a running   *)
(* benchmark appends to, the streaming analysis of it, the steady window,  *)
(* the fairness windows and the client classes, the per-client sidecar and *)
(* the analysis rebuilt from a published document.                         *)
(*                                                                         *)
(* Sources: src/lib/elbencho_live_report.py, elbencho_live_steady.py and   *)
(* elbencho_live_results.py.  elbencho itself (external) is the writer of  *)
(* the rows: a Total row first, then one row per client.                   *)
(*                                                                         *)
(* Abstractions.  One phase and mix type, so one base domain, split into   *)
(* occurrences.  A byte counter is a small number of MiB and time a number *)
(* of ticks, two of which are one live interval; a rate is kept as the     *)
(* pair <<bytes, elapsed>> it is the quotient of, a median as twice its    *)
(* value, so that no arithmetic is rounded where the code does not.  A     *)
(* client is its position in client_sort_key order.                        *)
(***************************************************************************)
EXTENDS Integers, Sequences, FiniteSets, SequencesExt, FiniteSetsExt

CONSTANTS
    None,            \* the absent value
    N,               \* the number of clients
    Window5,         \* ticks of the "5 s" window
    Window30,        \* ticks of the "30 s" window
    Shortfall,       \* DEFAULT_SHORTFALL_PERCENT
    MinSlow,         \* DEFAULT_MIN_SLOW_WINDOWS
    MaxRows,         \* heatmap rows and chart lines selected
    MaxIntervals,    \* bound: intervals written to the file
    MaxOdd           \* bound: irregular rows in the file

Clients == 1 .. N

Total == 0            \* the rank of the Total row
Tick == 2            \* elbencho's live interval, in ticks
JumpMax == 1         \* OCCURRENCE_RATE_JUMP_MAX_MS
JumpFactor == 4      \* OCCURRENCE_RATE_JUMP_FACTOR
Labels == {"interval", "5s", "30s"}

VARIABLES
    clock,           \* elbencho: runtime of the last interval written
    truth,           \* elbencho: each client's byte counter
    turn,            \* elbencho: 0 before a Total row, else the next client
    written,         \* elbencho: intervals written
    odd,             \* elbencho: irregular rows written
    again,           \* elbencho: how often the phase was run again
    rows,            \* the parsed rows, each with its occurrence
    tracker,         \* _OccurrenceTracker's state of the base domain
    doms,            \* the domains, by occurrence + 1
    pc,              \* "read", "window", "windows", "emit" or "done"
    first,           \* "time ms [first]" of the phase, or None
    cur,             \* the occurrence analysed by the later passes
    at,              \* the next interval of the second pass
    ring,            \* _SnapshotRing
    last,            \* last_seen: each client's last sample
    bounds,          \* what _capture_bounds keeps
    steady,          \* SteadyAnalysis of the domain cur
    objects,         \* the live objects built, by occurrence + 1
    split            \* (phases, others) of LiveObjects.split

fileVars == <<clock, truth, turn, written, odd, again>>
readVars == <<rows, tracker, doms>>
passVars == <<first, cur, at, ring, last, bounds, steady>>
outVars == <<objects, split>>
vars == <<fileVars, readVars, pc, passVars, outVars>>

Opt(S) == S \cup {None}

SumOver(S, op(_)) == MapThenSumSet(op, S)

\* Python's round of n/d for n >= 0: half goes to the even neighbour.
Round(n, d) ==
    LET q == n \div d
        r == 2 * (n % d)
    IN IF r < d THEN q ELSE IF r > d THEN q + 1 ELSE q + (q % 2)

\* Twice percentile_from_sorted(values, 50); 0 of an empty list.
Median2(values) ==
    LET s == SortSeq(values, LAMBDA a, b : a < b)
        n == Len(s)
    IN IF n = 0 THEN 0 ELSE s[(n + 1) \div 2] + s[n \div 2 + 1]

\* The present values of a client-indexed function, as a list.
Present(f) == LET S == SetToSeq({c \in DOMAIN f : f[c] # None})
              IN [i \in DOMAIN S |-> f[S[i]]]

-----------------------------------------------------------------------------
(* Occurrence tracking *)

NewTracker == [occ |-> 0, time |-> None, seen |-> {}, total |-> None]

TotalRateJumpRestarted(t, row) ==
    /\ t.time # None /\ t.total # None
    /\ row.done # None /\ row.rate # None
    /\ row.rate > 0
    /\ LET elapsed == row.time - t.time
           delta == row.done - t.total
       IN /\ elapsed > 0 /\ delta > 0
          /\ elapsed <= JumpMax
          /\ Tick * delta > elapsed * Max({JumpFactor * row.rate, row.rate + 1})

StartsNewOccurrence(t, row) ==
    /\ row.rank = Total /\ t.time # None
    /\ \/ row.time < t.time
       \/ row.time = t.time /\ Total \in t.seen
       \/ row.done # None /\ t.total # None /\ row.done < t.total
       \/ TotalRateJumpRestarted(t, row)

\* _OccurrenceTracker.domain_key: the tracker after one row.
DomainKey(t, row) ==
    LET fresh == StartsNewOccurrence(t, row)
        kept == IF fresh \/ t.time # row.time THEN {} ELSE t.seen
    IN [occ   |-> IF fresh THEN t.occ + 1 ELSE t.occ,
        time  |-> row.time,
        seen  |-> kept \cup {row.rank},
        total |-> IF row.rank = Total /\ row.done # None THEN row.done
                  ELSE IF fresh THEN None ELSE t.total]

-----------------------------------------------------------------------------
(* The first pass: intervals, client summaries and fleet points *)

NoRows == [c \in Clients |-> None]

NewSummary(missing) ==
    [rates |-> <<>>, missing |-> missing, invalid |-> 0,
     final |-> None, finish |-> None, firstProgress |-> None]

NewDomain ==
    [times |-> <<>>, toInterval |-> <<>>, agg |-> <<>>, fleet |-> <<>>,
     clients |-> NoRows, prev |-> NoRows, buffer |-> None,
     diag |-> [missing |-> 0, nonAdjacent |-> 0, resets |-> 0,
               nonPositive |-> 0, malformed |-> 0]]

\* Mutant: the interval the prior sample belongs to is not looked at.
DeriveRateAnyPrior(prior, done, time, i) ==
    IF \/ prior = None
       \/ prior # None /\ (time <= prior.time \/ done < prior.done)
    THEN None
    ELSE <<done - prior.done, time - prior.time>>

DeriveRate(prior, done, time, i) ==
    IF prior = None THEN None
    ELSE IF \/ prior.interval # i - 1
            \/ time <= prior.time
            \/ done < prior.done
         THEN None
         ELSE <<done - prior.done, time - prior.time>>

\* ClientSummary.observe_done_bytes
ObserveDoneBytes(s, done, time, i) ==
    [s EXCEPT !.final = done,
              !.finish = IF s.final # done THEN time ELSE @,
              !.firstProgress = IF @ = None /\ done > 0 THEN i ELSE @]

\* One client of _mark_missing_clients, _derive_interval_rates, add_rate.
FlushClient(d, c, i) ==
    LET b == d.buffer
        done == b.rows[c]
        s == d.clients[c]
        rate == DeriveRate(d.prev[c], done, b.time, i)
        adjacent == d.prev[c] # None /\ d.prev[c].interval = i - 1
        o == ObserveDoneBytes(IF s = None THEN NewSummary(i) ELSE s,
                              done, b.time, i)
    IN IF done = None
       THEN IF s = None THEN None ELSE [s EXCEPT !.missing = @ + 1]
       ELSE [o EXCEPT !.invalid = IF adjacent /\ rate = None THEN @ + 1 ELSE @,
                      !.rates = IF rate = None THEN @
                                ELSE Append(@, [interval |-> i, rate |-> rate])]

\* The diagnostics the same functions count.
FlushDiagnostics(d, i) ==
    LET rowsOf == d.buffer.rows
        here == {c \in Clients : rowsOf[c] # None}
        had == {c \in here : d.prev[c] # None}
        far == {c \in had : d.prev[c].interval # i - 1}
        late == {c \in had \ far : d.buffer.time <= d.prev[c].time}
        back == {c \in had \ (far \cup late) : rowsOf[c] < d.prev[c].done}
        new == {c \in here : d.clients[c] = None}
        gone == {c \in Clients \ here : d.clients[c] # None}
    IN [d.diag EXCEPT !.missing = @ + Cardinality(gone) + i * Cardinality(new),
                      !.nonAdjacent = @ + Cardinality(far),
                      !.nonPositive = @ + Cardinality(late),
                      !.resets = @ + Cardinality(back)]

\* _record_aggregate: a point unless the Total row was blank.
RecordAggregate(d, i) ==
    LET b == d.buffer
        latency == IF b.lat = 0 /\ b.rate \in {None, 0} THEN None ELSE b.lat
    IN IF b.rate = None /\ latency = None THEN d.agg
       ELSE Append(d.agg, [interval |-> i, time |-> b.time,
                           rate |-> b.rate, lat |-> latency])

FlushInterval(d) ==
    LET b == d.buffer
        i == Len(d.times)
        rate == [c \in Clients |->
                    IF b.rows[c] = None THEN None
                    ELSE DeriveRate(d.prev[c], b.rows[c], b.time, i)]
    IN IF b = None THEN d
       ELSE [d EXCEPT
               !.times = Append(@, b.time),
               !.toInterval = [t \in DOMAIN @ \cup {b.time} |->
                                  IF t = b.time THEN i ELSE @[t]],
               !.agg = RecordAggregate(d, i),
               !.fleet = IF \A c \in Clients : rate[c] = None THEN @
                         ELSE Append(@, [interval |-> i, rate |-> rate]),
               !.clients = [c \in Clients |-> FlushClient(d, c, i)],
               !.prev = [c \in Clients |->
                            IF b.rows[c] = None THEN @[c]
                            ELSE [done |-> b.rows[c], time |-> b.time,
                                  interval |-> i]],
               !.diag = FlushDiagnostics(d, i),
               !.buffer = None]

AdvanceBuffer(d, time) ==
    LET new == [time |-> time, rows |-> NoRows, rate |-> None, lat |-> None]
    IN IF d.buffer = None THEN [d EXCEPT !.buffer = new]
       ELSE IF d.buffer.time = time THEN d
       ELSE [FlushInterval(d) EXCEPT !.buffer = new]

\* The body of analyze_live_csv's loop: one parsed row into its domain.
AnalyzeRow(ds, row) ==
    LET ready == IF row.occ < Len(ds) THEN ds ELSE Append(ds, NewDomain)
        d == AdvanceBuffer(ready[row.occ + 1], row.time)
        e == IF row.rank = Total
             THEN [d EXCEPT !.buffer.rate = row.rate, !.buffer.lat = row.lat]
             ELSE IF row.done = None
             THEN [d EXCEPT !.diag.malformed = @ + 1]
             ELSE [d EXCEPT !.buffer.rows[row.rank] = row.done]
    IN [ready EXCEPT ![row.occ + 1] = e]

FlushAll(ds) == [k \in DOMAIN ds |-> FlushInterval(ds[k])]

\* The loop itself, over rows that carry their occurrence.
AnalyzeLiveCsv(rs) == FlushAll(FoldLeft(AnalyzeRow, <<>>, rs))

-----------------------------------------------------------------------------
(* The steady window *)

AllStartedInterval(d) ==
    LET started == {d.clients[c].firstProgress :
                       c \in {k \in Clients : d.clients[k] # None}} \ {None}
    IN IF started = {} THEN None ELSE Max(started)

IntervalMs(d) ==
    LET gaps == SelectSeq([k \in 1 .. Len(d.times) - 1 |->
                              d.times[k + 1] - d.times[k]],
                          LAMBDA g : g > 0)
    IN IF gaps = <<>> THEN Tick ELSE Round(Median2(gaps), 2)

WindowLengthIntervals(label, ms) ==
    Max({1, Round(CASE label = "interval" -> 0
                    [] label = "5s" -> Window5
                    [] label = "30s" -> Window30, ms)})

LastIntervalAtOrBefore(d, limit) ==
    LET S == IF limit = None THEN {}
             ELSE {k \in DOMAIN d.times : d.times[k] <= limit}
    IN IF S = {} THEN None ELSE Max(S) - 1

\* First interval of candidate..end whose rate is 3/4 of the median rate.
RampStart(d, candidate, end) ==
    LET pts == SelectSeq(d.agg, LAMBDA p : /\ p.interval \in candidate .. end
                                           /\ p.rate # None)
        median == Median2([k \in DOMAIN pts |-> pts[k].rate])
        past == {pts[k].interval : k \in {j \in DOMAIN pts :
                                             8 * pts[j].rate >= 3 * median}}
    IN IF past = {} THEN candidate ELSE Min(past)

NoWindow(reason) == [start |-> None, end |-> None, startMs |-> None,
                     endMs |-> None, reason |-> reason]

SteadyWindow(d, limit, ms) ==
    LET end == LastIntervalAtOrBefore(d, limit)
        started == IF \A c \in Clients : d.clients[c] = None THEN 1
                   ELSE AllStartedInterval(d)
        candidate == Max({1, started})
        start == RampStart(d, candidate, end)
        startMs == d.times[start + 1]
        endMs == d.times[end + 1]
        span == Max({2 * Window5, 2 * ms})
    IN IF end = None THEN NoWindow("no_first_time")
       ELSE IF started = None \/ (started # None /\ candidate > end)
       THEN [NoWindow("no_steady_state") EXCEPT !.end = end, !.endMs = endMs]
       ELSE [start |-> start, end |-> end, startMs |-> startMs,
             endMs |-> endMs,
             reason |-> IF endMs - startMs < span THEN "too_short"
                        ELSE IF 2 * (startMs - d.times[1]) > endMs - d.times[1]
                        THEN "no_steady_state" ELSE None]

Available(w) == w.reason = None /\ w.startMs # None

-----------------------------------------------------------------------------
(* The second pass: snapshots, windows, bounds *)

\* _domain_client_rows and _iter_interval_snapshots: DoneBytes of interval i;
\* a row of an interval already passed is skipped.
Snapshot(rs, d, occ, i) ==
    LET mine == SelectSeq(rs, LAMBDA r : /\ r.occ = occ /\ r.rank # Total
                                         /\ r.done # None
                                         /\ r.time \in DOMAIN d.toInterval)
        ivl(k) == d.toInterval[mine[k].time]
        here == {k \in DOMAIN mine : /\ ivl(k) = i
                                     /\ \A j \in 1 .. k : ivl(j) <= i}
    IN [c \in Clients |->
          LET ks == {k \in here : mine[k].rank = c}
          IN IF ks = {} THEN None ELSE mine[Max(ks)].done]

NewRing == [snaps |-> <<>>, lastDone |-> NoRows, resetAt |-> [c \in Clients |-> -1]]

Depth(st) == Max({st.len[label] : label \in Labels})

RingAdd(r, depth, i, snap) ==
    [snaps |-> [j \in (DOMAIN r.snaps \cup {i}) \ {i - depth - 1} |->
                   IF j = i THEN snap ELSE r.snaps[j]],
     lastDone |-> [c \in Clients |->
                     IF snap[c] = None THEN r.lastDone[c] ELSE snap[c]],
     resetAt |-> [c \in Clients |->
                     IF snap[c] # None /\ r.lastDone[c] # None
                        /\ snap[c] < r.lastDone[c]
                     THEN i ELSE r.resetAt[c]]]

\* Mutant: a reset hidden inside a positive delta is counted as progress.
WindowDeltasSignOnly(snap, previous, resetAt, begin) ==
    [c \in Clients |->
       IF \/ snap[c] = None \/ previous[c] = None
          \/ snap[c] # None /\ previous[c] # None /\ snap[c] < previous[c]
       THEN None ELSE snap[c] - previous[c]]

WindowDeltas(snap, previous, resetAt, begin) ==
    [c \in Clients |->
       IF snap[c] = None \/ previous[c] = None THEN None
       ELSE IF snap[c] < previous[c] \/ resetAt[c] > begin THEN None
       ELSE snap[c] - previous[c]]

\* _SnapshotRing.deltas: None without a baseline.
RingDeltas(r, i, begin) ==
    IF begin < 0 \/ begin \notin DOMAIN r.snaps THEN None
    ELSE WindowDeltas(r.snaps[i], r.snaps[begin], r.resetAt, begin)

\* One entry of a WindowSeries.
WindowEntry(st, label, i, deltas) ==
    [end |-> i, deltas |-> deltas,
     median2 |-> IF Present(deltas) = <<>> THEN None
                 ELSE Median2(Present(deltas)),
     inSteady |-> /\ Available(st.window)
                  /\ i - st.len[label] >= st.window.start
                  /\ i <= st.window.end]

Below(bytes, median2, percent) == 200 * bytes < percent * median2

\* _record_ratios for one client, 5 s windows and 30 s windows.
RecordRatios(s, label, bytes, median2, endMs) ==
    LET short == IF Below(bytes, median2, 100 - Shortfall) THEN 1 ELSE 0
        slow == IF Below(bytes, median2, 100 - 2 * Shortfall) THEN 1 ELSE 0
        ratio == <<bytes, median2, endMs>>
        worse(w) == IF w = None THEN ratio
                    ELSE IF bytes * w[2] < w[1] * median2 THEN ratio ELSE w
    IN IF label = "5s"
       THEN [s EXCEPT !.w5 = @ + 1, !.short5 = @ + short, !.slow5 = @ + slow,
                      !.worst5 = worse(@)]
       ELSE [s EXCEPT !.w30 = @ + 1, !.short30 = @ + short, !.worst30 = worse(@)]

\* _SteadyPass._record for one window size, when the window has a baseline.
Record(st, d, r, i, label) ==
    LET deltas == RingDeltas(r, i, i - st.len[label])
        e == WindowEntry(st, label, i, deltas)
        counts == /\ e.inSteady /\ e.median2 \notin {None, 0}
                  /\ label # "interval"
    IN IF deltas = None THEN st
       ELSE [st EXCEPT
               !.series[label] = Append(@, e),
               !.clients = [c \in Clients |->
                   IF counts /\ deltas[c] # None
                   THEN RecordRatios(@[c], label, deltas[c], e.median2,
                                     d.times[i + 1])
                   ELSE @[c]]]

NoBounds == [start |-> None, end |-> None, resets |-> {}]

CaptureBounds(b, w, completed, seen, resetAt) ==
    LET s == IF b.start = None /\ completed >= w.start
             THEN [b EXCEPT !.start = seen] ELSE b
    IN IF s.end = None /\ completed >= w.end
       THEN [s EXCEPT !.end = seen,
                      !.resets = {c \in Clients : resetAt[c] > w.start}]
       ELSE s

\* _steady_deltas: bytes between the bounds, scaled to the window's span.
SteadyDeltas(b, w) ==
    [c \in Clients |->
       IF b.start = None \/ b.end = None THEN None
       ELSE IF b.end[c] = None \/ b.start[c] = None \/ c \in b.resets THEN None
       ELSE LET s == b.start[c]
                e == b.end[c]
            IN IF e.time > s.time /\ e.done >= s.done
               THEN Round((e.done - s.done) * (w.endMs - w.startMs),
                          e.time - s.time)
               ELSE None]

\* _classify; shares are sixtieths, so that they are exact up to 6 windows.
Classify(s, fleet2) ==
    IF s.ratio = None /\ s.w5 = 0 THEN None
    ELSE IF \/ s.ratio # None /\ Below(s.ratio[1], s.ratio[2], 100 - Shortfall)
            \/ s.w30 > 0 /\ 2 * s.short30 >= s.w30
    THEN "persistent"
    ELSE IF s.slow5 >= MinSlow /\ 60 * s.slow5 >= fleet2 * s.w5
    THEN "transient"
    ELSE "ok"

\* _SteadyPass.finish and _steady_bytes.
Finish(st, b) ==
    LET deltas == SteadyDeltas(b, st.window)
        median2 == Median2(Present(deltas))
        with == [c \in Clients |->
                   [st.clients[c] EXCEPT
                      !.bytes = deltas[c],
                      !.ratio = IF deltas[c] # None /\ median2 > 0
                                THEN <<deltas[c], median2>> ELSE None]]
        share == [c \in Clients |->
                    IF with[c].w5 = 0 THEN None
                    ELSE (60 * with[c].slow5) \div with[c].w5]
        fleet2 == Median2(Present(share))
    IN IF ~Available(st.window) THEN st
       ELSE [st EXCEPT !.clients = [c \in Clients |->
                [with[c] EXCEPT !.cls = Classify(with[c], fleet2)]]]

-----------------------------------------------------------------------------
(* Selection of clients *)

RatioLess(a, b) ==
    IF a = None \/ b = None THEN a # None /\ b = None
    ELSE a[1] * b[2] < b[1] * a[2]

\* Sorted by a ratio (absent last), then by client.
ByRatio(S, ratio(_)) ==
    SetToSortSeq(S, LAMBDA a, b :
        \/ RatioLess(ratio(a), ratio(b))
        \/ ~RatioLess(ratio(b), ratio(a)) /\ a < b)

Known(d) == {c \in Clients : d.clients[c] # None}

FirstOf(seq, n) == SubSeq(seq, 1, Min({n, Len(seq)}))

ClassifiedClients(d, st, limit) ==
    LET of(cls) == {c \in Known(d) : st.clients[c].cls = cls}
    IN FirstOf(ByRatio(of("persistent"), LAMBDA c : st.clients[c].ratio)
               \o ByRatio(of("transient"), LAMBDA c : st.clients[c].worst5),
               limit)

RepresentativeValues(values, limit) ==
    LET n == Len(values)
    IN IF limit <= 0 \/ n = 0 THEN <<>>
       ELSE IF n <= limit THEN values
       ELSE IF limit = 1 THEN <<values[n \div 2 + 1]>>
       ELSE [k \in 1 .. limit |-> values[Round((k - 1) * (n - 1), limit - 1) + 1]]

SelectHeatmapRows(d, st, limit) ==
    LET chosen == ClassifiedClients(d, st, limit)
        ratio(c) == st.clients[c].ratio
        rest == ByRatio(Known(d) \ ToSet(chosen), ratio)
    IN IF limit <= 0 THEN <<>>
       ELSE ByRatio(ToSet(chosen \o
                          RepresentativeValues(rest, limit - Len(chosen))), ratio)

\* _summary_rows: the client summaries, by class and then by ratio.
SummaryRows(d, st) ==
    LET of(cls) == ByRatio({c \in Known(d) : st.clients[c].cls = cls},
                           LAMBDA c : st.clients[c].ratio)
    IN of("persistent") \o of("transient") \o of("ok") \o of(None)

-----------------------------------------------------------------------------
(* Per-client series of a domain, and a domain rebuilt from them *)

\* collect_selected_client_detail: one client's rate in each interval.
SelectedRates(rs, d, occ, c) ==
    LET snaps == [i \in 0 .. Len(d.times) - 1 |-> Snapshot(rs, d, occ, i)[c]]
        prior(i) == {j \in 0 .. i - 1 : snaps[j] # None}
    IN [i \in 0 .. Len(d.times) - 1 |->
          IF snaps[i] = None \/ prior(i) = {} THEN None
          ELSE LET j == Max(prior(i))
               IN DeriveRate([done |-> snaps[j], time |-> d.times[j + 1],
                              interval |-> j],
                             snaps[i], d.times[i + 1], i)]

\* _IntervalSamples.emit: a delta from the client's last emitted sample.
\* Mutant: the base of a delta is lost over an interval without a sample.
EmitForgetful(acc, time, snap) ==
    [done |-> [c \in Clients |-> IF snap[c] = None THEN 0 ELSE snap[c]],
     out |-> Append(acc.out,
        [time |-> time,
         delta |-> [c \in Clients |-> IF snap[c] = None THEN None
                                      ELSE snap[c] - acc.done[c]]])]

Emit(acc, time, snap) ==
    [done |-> [c \in Clients |-> IF snap[c] = None THEN acc.done[c] ELSE snap[c]],
     out |-> Append(acc.out,
        [time |-> time,
         delta |-> [c \in Clients |-> IF snap[c] = None THEN None
                                      ELSE snap[c] - acc.done[c]]])]

\* _write_sidecar over _iter_interval_samples: one record per interval.
WriteSidecar(rs, d, occ) ==
    FoldLeft(LAMBDA acc, i : Emit(acc, d.times[i + 1], Snapshot(rs, d, occ, i)),
             [done |-> [c \in Clients |-> 0], out |-> <<>>],
             [i \in DOMAIN d.times |-> i - 1]).out

TotalRowOf(p) ==
    [occ |-> 0, time |-> p.time, rank |-> Total, done |-> None,
     rate |-> p.rate, lat |-> p.lat]

\* _document_rows for one interval: acc carries each client's DoneBytes.
DocumentInterval(acc, rec, agg) ==
    LET pts == SelectSeq(agg, LAMBDA p : p.time = rec.time)
        done == [c \in Clients |-> IF rec.delta[c] = None THEN acc.done[c]
                                   ELSE acc.done[c] + rec.delta[c]]
        present == SetToSortSeq({c \in Clients : rec.delta[c] # None}, <)
        total == IF pts # <<>> THEN <<TotalRowOf(pts[Len(pts)])>>
                 ELSE IF present # <<>> THEN <<>>
                 ELSE <<TotalRowOf([time |-> rec.time, rate |-> None,
                                    lat |-> None])>>
        client == [k \in DOMAIN present |->
                     [occ |-> 0, time |-> rec.time, rank |-> present[k],
                      done |-> done[present[k]], rate |-> None, lat |-> None]]
    IN [done |-> done, rows |-> acc.rows \o total \o client]

DocumentRows(obj) ==
    FoldLeft(LAMBDA acc, rec : DocumentInterval(acc, rec, obj.agg),
             [done |-> [c \in Clients |-> 0], rows |-> <<>>], obj.series).rows

\* analyze_document_live: the first pass over the rebuilt rows.
AnalyzeDocumentLive(obj) == AnalyzeLiveCsv(DocumentRows(obj))[1]

-----------------------------------------------------------------------------
(* The live object of a domain *)

\* _record gives a window a Jain index when two clients moved data in it.
HasJain(e) == LET v == Present(e.deltas)
              IN Len(v) >= 2 /\ \E k \in DOMAIN v : v[k] > 0

\* _fairness, _window_object and SteadyAnalysis.summary, per window size.
Fairness(st) ==
    [label \in Labels |->
       LET kept == SelectSeq(st.series[label], LAMBDA e : e.inSteady)
           windows == Len(SelectSeq(kept, HasJain))
       IN IF windows = 0 THEN None
          ELSE [windows |-> windows,
                ends |-> [k \in DOMAIN kept |-> kept[k].end],
                clients |-> [k \in DOMAIN kept |-> Len(Present(kept[k].deltas))]]]

\* _client_row: the columns that are not measurements of their own.
ClientRowOf(d, st, c) ==
    LET s == d.clients[c]
    IN [class |-> st.clients[c].cls, final |-> s.final, finish |-> s.finish,
        valid |-> Len(s.rates), missing |-> s.missing, invalid |-> s.invalid,
        short5 |-> st.clients[c].short5, w5 |-> st.clients[c].w5,
        started |-> IF s.firstProgress = None THEN None
                    ELSE d.times[s.firstProgress + 1]]

\* _selected_series: the chart lines, then the heatmap rows not among them.
Selected(d, st) ==
    LET lines == ClassifiedClients(d, st, MaxRows)
    IN lines \o SelectSeq(SelectHeatmapRows(d, st, MaxRows),
                          LAMBDA c : c \notin ToSet(lines))

\* _build_live_object, with the sidecar of level "full", the series of level
\* "selected" and the rows of the text summary.
LiveObject(rs, d, st, occ) ==
    [occ |-> occ, agg |-> d.agg, fairness |-> Fairness(st),
     clients |-> [c \in Known(d) |-> ClientRowOf(d, st, c)],
     series |-> WriteSidecar(rs, d, occ),
     selected |-> Selected(d, st),
     heat |-> SelectHeatmapRows(d, st, MaxRows),
     rates |-> [c \in Known(d) |-> SelectedRates(rs, d, occ, c)],
     summary |-> SummaryRows(d, st)]

-----------------------------------------------------------------------------
(* elbencho writes the file (external); each row is read as it comes *)

Read(row) ==
    LET t == DomainKey(tracker, row)
        keyed == [row EXCEPT !.occ = t.occ]
    IN /\ tracker' = t
       /\ rows' = Append(rows, keyed)
       /\ doms' = AnalyzeRow(doms, keyed)

Row(time, rank, done, rate, lat) ==
    [occ |-> 0, time |-> time, rank |-> rank, done |-> done,
     rate |-> rate, lat |-> lat]

Reading == pc = "read" /\ UNCHANGED <<pc, passVars, outVars>>

Odd == odd < MaxOdd /\ odd' = odd + 1

\* A Total row of counters now, at a time.
WriteTotal(time, now, done, rate) ==
    /\ turn = 0 /\ written < MaxIntervals
    /\ clock' = time /\ truth' = now /\ turn' = 1 /\ written' = written + 1
    /\ Read(Row(time, Total, done, rate,
                IF rate = None THEN None ELSE IF rate = 0 THEN 0 ELSE 1))

Step1(k) == [c \in Clients |-> truth[c] + k[c]]
Ones == [c \in Clients |-> 1]
Sum(f) == SumOver(Clients, LAMBDA c : f[c])

Advance ==
    /\ Reading /\ WriteTotal(clock + Tick, Step1(Ones), Sum(Step1(Ones)), N)
    /\ UNCHANGED <<odd, again>>

\* An interval longer than usual.
Late ==
    /\ Reading /\ Odd /\ WriteTotal(clock + 2 * Tick, Step1(Ones), Sum(Step1(Ones)), N)
    /\ UNCHANGED again

\* A client stalls, or its service restarts its counter one lower.
Irregular(c, by) ==
    LET now == Step1([Ones EXCEPT ![c] = by])
    IN /\ Reading /\ Odd /\ now[c] >= 0
       /\ WriteTotal(clock + Tick, now, Sum(now), Max({0, Sum(now) - Sum(truth)}))
       /\ UNCHANGED again

\* A Total row whose cells are empty.
Blank ==
    /\ Reading /\ Odd /\ WriteTotal(clock + Tick, Step1(Ones), None, None)
    /\ UNCHANGED again

\* The phase is run again: its clock and counters start over.
RunAgain(time, each) ==
    LET now == [c \in Clients |-> each]
    IN /\ Reading /\ Odd /\ written > 0 /\ time > 0
       /\ again' = again + 1
       /\ WriteTotal(time, now, Sum(now), N)

\* The client rows of the interval, in order.
NextTurn == turn' = IF turn = N THEN 0 ELSE turn + 1

ClientRow ==
    /\ Reading /\ turn > 0 /\ NextTurn
    /\ Read(Row(clock, turn, truth[turn], None, None))
    /\ UNCHANGED <<clock, truth, written, odd, again>>

\* _parse_row rejects the row, or elbencho did not write it.
NoClientRow ==
    /\ Reading /\ Odd /\ turn > 0 /\ NextTurn
    /\ UNCHANGED <<clock, truth, written, again, readVars>>

\* A client row without a usable counter.
MalformedRow ==
    /\ Reading /\ Odd /\ turn > 0 /\ NextTurn
    /\ Read(Row(clock, turn, None, None, None))
    /\ UNCHANGED <<clock, truth, written, again>>

\* The end of the file: every domain's last interval is flushed.
EndOfFile ==
    /\ pc = "read" /\ turn = 0 /\ written > 0
    /\ doms' = FlushAll(doms)
    /\ first' \in {None, clock, clock - 1}
    /\ pc' = "window"
    /\ UNCHANGED <<fileVars, rows, tracker, cur, at, ring, last, bounds,
                   steady, outVars>>

-----------------------------------------------------------------------------
(* The later passes *)

NewClientSteady ==
    [bytes |-> None, ratio |-> None, w5 |-> 0, short5 |-> 0, slow5 |-> 0,
     worst5 |-> None, w30 |-> 0, short30 |-> 0, worst30 |-> None, cls |-> None]

Domain == doms[cur + 1]

\* analyze_steady up to its loop; nothing to stream when no client moved data.
AnalyzeSteady ==
    LET ms == IntervalMs(Domain)
    IN /\ pc = "window"
       /\ steady' = [window |-> SteadyWindow(Domain, first, ms), ms |-> ms,
                     len |-> [label \in Labels |->
                                 WindowLengthIntervals(label, ms)],
                     series |-> [label \in Labels |-> <<>>],
                     clients |-> [c \in Clients |-> NewClientSteady]]
       /\ at' = 0 /\ ring' = NewRing /\ last' = NoRows /\ bounds' = NoBounds
       /\ pc' = IF AllStartedInterval(Domain) = None THEN "emit" ELSE "windows"
       /\ UNCHANGED <<fileVars, readVars, first, cur, outVars>>

\* _SteadyPass.complete
Complete ==
    LET snap == Snapshot(rows, Domain, cur, at)
        r == RingAdd(ring, Depth(steady), at, snap)
        seen == [c \in Clients |-> IF snap[c] = None THEN last[c]
                                   ELSE [done |-> snap[c],
                                         time |-> Domain.times[at + 1]]]
        w == steady.window
        b == CaptureBounds(bounds, w, at - 1, last, ring.resetAt)
        rec(st, label) == Record(st, Domain, r, at, label)
    IN /\ pc = "windows" /\ at < Len(Domain.times)
       /\ ring' = r /\ last' = seen /\ at' = at + 1
       /\ bounds' = IF Available(w)
                    THEN CaptureBounds(b, w, at, seen, r.resetAt) ELSE bounds
       /\ steady' = rec(rec(rec(steady, "interval"), "5s"), "30s")
       /\ UNCHANGED <<fileVars, readVars, pc, first, cur, outVars>>

FinishPass ==
    /\ pc = "windows" /\ at = Len(Domain.times)
    /\ steady' = Finish(steady, bounds)
    /\ pc' = "emit"
    /\ UNCHANGED <<fileVars, readVars, first, cur, at, ring, last, bounds, outVars>>

\* build_live_objects: one object per domain that has any row of use.
BuildLiveObject ==
    /\ pc = "emit"
    /\ objects' = IF Domain.agg = <<>> /\ Known(Domain) = {} THEN objects
                  ELSE Append(objects, LiveObject(rows, Domain, steady, cur))
    /\ cur' = IF cur + 1 < Len(doms) THEN cur + 1 ELSE cur
    /\ pc' = IF cur + 1 < Len(doms) THEN "window" ELSE "split"
    /\ UNCHANGED <<fileVars, readVars, first, at, ring, last, bounds,
                   steady, split>>

\* LiveObjects.split: the first domain is the phase's, when it is attached.
Split(attached) ==
    LET occs == [k \in DOMAIN objects |-> objects[k].occ]
        head == attached /\ objects # <<>>
    IN /\ pc = "split" /\ pc' = "done"
       /\ split' = [phases |-> IF head THEN <<occs[1]>> ELSE <<>>,
                    others |-> IF head THEN Tail(occs) ELSE occs,
                    additional |-> IF head THEN Len(occs) - 1 ELSE 0]
       /\ UNCHANGED <<fileVars, readVars, passVars, objects>>

-----------------------------------------------------------------------------

Init ==
    /\ clock = 0 /\ truth = [c \in Clients |-> 0] /\ turn = 0
    /\ written = 0 /\ odd = 0 /\ again = 0
    /\ rows = <<>> /\ tracker = NewTracker /\ doms = <<>>
    /\ pc = "read" /\ first = None /\ cur = 0 /\ at = 0
    /\ ring = NewRing /\ last = NoRows /\ bounds = NoBounds /\ steady = None
    /\ objects = <<>> /\ split = None

Writing ==
    \/ Advance \/ Late \/ Blank
    \/ \E c \in Clients, by \in {-1, 0} : Irregular(c, by)
    \/ \E time \in {Tick, clock, clock + 1, clock + Tick}, each \in {1, 5} :
          RunAgain(time, each)
    \/ ClientRow \/ NoClientRow \/ MalformedRow
    \/ EndOfFile

Analysing ==
    \/ AnalyzeSteady \/ Complete \/ FinishPass \/ BuildLiveObject
    \/ \E attached \in BOOLEAN : Split(attached)

Next == Writing \/ Analysing

Spec == Init /\ [][Next]_vars

-----------------------------------------------------------------------------
(* Properties *)

TypeOK ==
    /\ turn \in 0 .. N /\ odd \in 0 .. MaxOdd
    /\ pc \in {"read", "window", "windows", "emit", "split", "done"}
    /\ tracker.occ \in 0 .. Max({0, written - 1})
    /\ Len(doms) \in 0 .. tracker.occ + 1
    /\ at \in 0 .. MaxIntervals
    /\ \A k \in DOMAIN rows : rows[k].occ \in 0 .. tracker.occ

\* The object just built.
Built == IF pc \in {"window", "split"} THEN {Len(objects)} \ {0} ELSE {}

\* The counter a client wrote in interval i of an occurrence, from the file.
Wrote(occ, c, i) ==
    LET S == {k \in DOMAIN rows : /\ rows[k].occ = occ /\ rows[k].rank = c
                                  /\ rows[k].time = doms[occ + 1].times[i + 1]}
    IN IF S = {} THEN None ELSE rows[Max(S)].done

Intervals(occ) == 0 .. Len(doms[occ + 1].times) - 1

\* Counter c went back between its last sample before i and interval i.
WentBack(occ, c, i) ==
    LET before == {j \in Intervals(occ) : j < i /\ Wrote(occ, c, j) # None}
    IN /\ Wrote(occ, c, i) # None /\ before # {}
       /\ Wrote(occ, c, i) < Wrote(occ, c, Max(before))

\* Within one occurrence time only goes forward, and a Total counter never
\* goes back: a phase run again is never read as a continuation that runs
\* backwards (the tracker decides from the Total row alone).
OccurrencesMonotone ==
    pc = "read" => \A j \in DOMAIN rows, k \in {Len(rows)} :
       j < k /\ rows[j].occ = rows[k].occ =>
          /\ rows[j].time <= rows[k].time
          /\ (rows[j].rank = Total /\ rows[k].rank = Total) =>
                /\ rows[j].time < rows[k].time
                /\ (rows[j].done # None /\ rows[k].done # None) =>
                      rows[j].done <= rows[k].done

\* Every interval of a domain is accounted for once per client: it has a
\* sample or it is missing; and every sample but a client's first is a rate,
\* an invalid pair or a pair that is not adjacent.
SamplesAccountedFor ==
    pc = "window" /\ cur = 0 => \A o \in 0 .. Len(doms) - 1 :
       LET d == doms[o + 1]
           samples(c) == Cardinality({i \in Intervals(o) : Wrote(o, c, i) # None})
           used(c) == Len(d.clients[c].rates) + d.clients[c].invalid
       IN /\ \A c \in Known(d) :
                samples(c) + d.clients[c].missing = Len(d.times)
          /\ SumOver(Known(d), samples) =
                SumOver(Known(d), used) + d.diag.nonAdjacent + Cardinality(Known(d))
          /\ d.diag.missing = SumOver(Known(d), LAMBDA c : d.clients[c].missing)

\* A rate is the bytes written between two neighbouring intervals over the
\* time between them; the rates of the selected clients, from a later pass
\* over the file, are those the first pass summarised.
RatesAreTrue ==
    \A k \in Built :
       LET o == objects[k].occ
           d == doms[o + 1]
       IN \A c \in Known(d) :
            LET rs == d.clients[c].rates
                got == objects[k].rates[c]
            IN /\ \A j \in DOMAIN rs :
                     LET i == rs[j].interval
                     IN /\ Wrote(o, c, i) # None /\ Wrote(o, c, i - 1) # None
                        /\ rs[j].rate = <<Wrote(o, c, i) - Wrote(o, c, i - 1),
                                          d.times[i + 1] - d.times[i]>>
                        /\ got[i] = rs[j].rate
               /\ Cardinality({i \in DOMAIN got : got[i] # None}) = Len(rs)

\* A window counts a client exactly when both its end samples exist and the
\* counter never went back in between, however the ring remembers it.
WindowsMatchFile ==
    pc = "emit" => \A label \in Labels :
       LET ser == steady.series[label]
           len == steady.len[label]
       IN \A k \in DOMAIN ser : \A c \in Clients :
            LET e == ser[k].end
                b == e - len
                whole == /\ Wrote(cur, c, e) # None /\ Wrote(cur, c, b) # None
                         /\ \A i \in b + 1 .. e : ~WentBack(cur, c, i)
            IN ser[k].deltas[c] = IF whole THEN Wrote(cur, c, e) - Wrote(cur, c, b)
                                  ELSE None

\* A client has steady bytes exactly when it was sampled at or before the
\* start, again by the end, and its counter did not go back inside the
\* window; what happens after the window changes nothing.
SteadyBytesOfWindow ==
    pc = "emit" /\ at > 0 /\ Available(steady.window) => \A c \in Clients :
       LET w == steady.window
           by(i) == {j \in 0 .. i : Wrote(cur, c, j) # None}
           s == Max(by(w.start))
           e == Max(by(w.end))
           t == Domain.times
           ok == /\ by(w.start) # {} /\ e > s
                 /\ \A i \in w.start + 1 .. w.end : ~WentBack(cur, c, i)
       IN steady.clients[c].bytes =
             IF ok THEN Round((Wrote(cur, c, e) - Wrote(cur, c, s))
                                 * (w.endMs - w.startMs), t[e + 1] - t[s + 1])
             ELSE None

\* The ratios that classify a client come from the steady window alone: its
\* windows are those of the series that lie wholly inside it, hold the client
\* and have a median to compare with; the worst of them is one of those.
RatiosFromSteadyWindows ==
    pc = "emit" /\ at > 0 => \A c \in Clients :
       LET of(label) == {k \in DOMAIN steady.series[label] :
              LET e == steady.series[label][k]
              IN /\ e.inSteady /\ e.deltas[c] # None /\ e.median2 > 0
                 /\ Available(steady.window)
                 /\ Domain.times[e.end - steady.len[label] + 1] >= steady.window.startMs
                 /\ Domain.times[e.end + 1] <= steady.window.endMs}
           s == steady.clients[c]
       IN /\ s.w5 = Cardinality(of("5s")) /\ s.w30 = Cardinality(of("30s"))
          /\ s.worst5 = None <=> of("5s") = {}
          /\ \A k \in of("5s") :
                LET e == steady.series["5s"][k]
                IN s.worst5[1] * e.median2 <= e.deltas[c] * s.worst5[2]

\* The analysis rebuilt from a document and its sidecar is the analysis of the
\* file: same intervals, same client summaries, same fleet points.
RebuildAgrees ==
    \A k \in Built :
       LET d == doms[objects[k].occ + 1]
           r == AnalyzeDocumentLive(objects[k])
       IN /\ r.times = d.times /\ r.clients = d.clients
          /\ r.agg = d.agg /\ r.fleet = d.fleet
          /\ r.diag = [d.diag EXCEPT !.malformed = 0]

\* Selection keeps the worst clients: at most MaxRows, none twice, and a
\* classified client is left out only when the rows are full of such.
SelectionKeepsWorst ==
    \A k \in Built :
       LET heat == objects[k].heat
           class == [c \in DOMAIN objects[k].clients |-> objects[k].clients[c].class]
       IN /\ Len(heat) = Min({MaxRows, Cardinality(Known(doms[objects[k].occ + 1]))})
          /\ IsInjective(heat) /\ IsInjective(objects[k].selected)
          /\ \A c \in DOMAIN class : class[c] \in {"persistent", "transient"} =>
                \/ c \in ToSet(heat)
                \/ \A r \in ToSet(heat) : class[r] \notin {"ok", None}
          /\ ToSet(objects[k].summary) = Known(doms[objects[k].occ + 1])

\* Every analysed occurrence is published exactly once, attached or not.
EveryDomainPublished ==
    pc = "done" =>
       /\ Len(split.phases) + Len(split.others) = Len(objects)
       /\ ToSet(split.phases \o split.others) = {objects[k].occ : k \in DOMAIN objects}

\* The rates of a client are true of its rows: occurrences never run backwards,
\* every sample is a rate, invalid or not adjacent, and a rate is bytes over the
\* time between two neighbouring samples, in both passes over the file.
RatesSound == TypeOK /\ OccurrencesMonotone /\ SamplesAccountedFor /\ RatesAreTrue

\* The steady window judges clients by what the file holds inside it, although
\* the analysis keeps a ring of snapshots and resets only.
SteadySound == WindowsMatchFile /\ SteadyBytesOfWindow /\ RatiosFromSteadyWindows

\* What is published leads back to the analysis: a rebuild gives the same result,
\* the worst clients are among those shown, and no domain of a phase is lost.
PublishedSound == RebuildAgrees /\ SelectionKeepsWorst /\ EveryDomainPublished
=============================================================================

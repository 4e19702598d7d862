------------------------------- MODULE History ------------------------------
(***************************************************************************)
(* One target's rows in history.db and what is read from them: uptime,     *)
(* percentiles, the strip and the latency trend (history.py, and           *)
(* diagnostics.py latency_trend).  Rows are recorded round by round and    *)
(* pruned by age; either can fail without the round noticing.              *)
(*                                                                         *)
(* Time is counted in whole steps.  Timestamps have one fixed format, so   *)
(* that comparing their text compares times.                               *)
(***************************************************************************)
EXTENDS Integers, FiniteSets

CONSTANTS
    Ttfb,                        \* answer times, in ms
    RETENTION,
    TREND_WINDOW,
    STRIP_BUCKETS,
    MIN_CHANGE_PCT,
    TREND_MIN_CHANGE_MS,
    TREND_MIN_SAMPLES,
    TREND_MIN_SUCCESS_PCT,
    TREND_MAX_SUCCESS_GAP_PCT,
    MaxRows,                     \* bound: rows at a time
    MaxTime                      \* bound: the clock

\* The code does not ask for the first: a shorter retention leaves the trend
\* without the window it compares with.
ASSUME HistoryAssumption ==
    /\ RETENTION >= 2 * TREND_WINDOW
    /\ RETENTION \in Nat
    /\ TREND_WINDOW \in Nat \ {0}
    /\ STRIP_BUCKETS \in Nat \ {0}
    /\ Ttfb \subseteq Nat \ {0}
    /\ TREND_MIN_SAMPLES \in Nat \ {0}
    /\ MaxRows \in Nat
    /\ MaxTime \in Nat

VARIABLES
    rows,        \* probe_results of the target, by id
    clock

histVars == <<rows, clock>>

NULL == -1

\* A probe that did not answer has no ttfb_ms; inside the hysteresis window it
\* keeps the status the target had.
Row ==
    { r \in [at : 0..MaxTime, status : {"UP", "DEGRADED", "DOWN"},
             ttfb_ms : Ttfb \union {NULL}] :
        r.status = "DOWN" => r.ttfb_ms = NULL }

HistInit == rows = [id \in {} |-> NULL] /\ clock = 0

-----------------------------------------------------------------------------
(*                            Writing and pruning                          *)

\* INTEGER PRIMARY KEY: one more than the largest in the table.
NewId ==
    IF DOMAIN rows = {} THEN 1
    ELSE 1 + (CHOOSE i \in DOMAIN rows : \A j \in DOMAIN rows : j <= i)

\* _record_run_sync; on an error, or a disabled history, the round is a gap.
RecordRow(r) ==
    /\ Cardinality(DOMAIN rows) < MaxRows
    /\ r.at = clock
    /\ rows' = [i \in DOMAIN rows \union {NewId} |->
                  IF i = NewId THEN r ELSE rows[i]]
    /\ UNCHANGED clock

ClockTicks ==
    /\ clock < MaxTime
    /\ clock' = clock + 1
    /\ UNCHANGED rows

\* Fault: rows go while a report still counts them.
CutoffEarly == clock - RETENTION + 1

Cutoff == clock - RETENTION

\* _prune_sync.
Prune ==
    LET kept == {i \in DOMAIN rows : rows[i].at >= Cutoff} IN
    /\ kept # DOMAIN rows
    /\ rows' = [i \in kept |-> rows[i]]
    /\ UNCHANGED clock

HistNext == ClockTicks \/ Prune \/ \E r \in Row : RecordRow(r)

HistSpec == HistInit /\ [][HistNext]_histVars

-----------------------------------------------------------------------------
(*                                  Reading                                *)

Answered(i) == rows[i].ttfb_ms # NULL

\* checked_at >= since AND checked_at < until.
Within(since, until) == {i \in DOMAIN rows : since <= rows[i].at /\ rows[i].at < until}
Since(since) == Within(since, MaxTime + 1)

Available(i) == rows[i].status # "DOWN" /\ Answered(i)

\* uptime_pct: how many of how many; none of none is no data.
Uptime(since) ==
    [ total |-> Cardinality(Since(since)),
      up    |-> Cardinality({i \in Since(since) : Available(i)}) ]

\* CUME_DIST of row i, as a count of rows.
Reaches(i, among, p) ==
    100 * Cardinality({j \in among : rows[j].ttfb_ms <= rows[i].ttfb_ms})
        >= p * Cardinality(among)

Least(values) == CHOOSE v \in values : \A w \in values : v <= w

\* Fault: the last row whose PERCENT_RANK is within p, never the slowest.
PercentileByRank(p, since, until) ==
    LET among   == {i \in Within(since, until) : Answered(i)}
        Rank(i) == Cardinality({j \in among : rows[j].ttfb_ms < rows[i].ttfb_ms})
    IN IF among = {} THEN NULL
       ELSE -Least({-rows[i].ttfb_ms : i \in
                       {j \in among : 100 * Rank(j) <= p * (Cardinality(among) - 1)}})

\* latency_percentiles: among the rows that answered.
Percentile(p, since, until) ==
    LET among == {i \in Within(since, until) : Answered(i)} IN
    IF among = {} THEN NULL
    ELSE Least({rows[i].ttfb_ms : i \in {j \in among : Reaches(j, among, p)}})

\* Fault: the strip goes by status alone.
WorstByStatus(slot) ==
    IF \E i \in slot : rows[i].status = "DOWN" THEN "DOWN"
    ELSE IF \E i \in slot : rows[i].status = "DEGRADED" THEN "DEGRADED"
    ELSE "UP"

\* A probe that did not answer counts as DOWN before its status is looked at.
Worst(slot) ==
    IF \E i \in slot : ~Available(i) THEN "DOWN"
    ELSE IF \E i \in slot : rows[i].status = "DEGRADED" THEN "DEGRADED"
    ELSE "UP"

\* A row of this very moment belongs to the last slot.
Slot(i, since) ==
    LET n == ((rows[i].at - since) * STRIP_BUCKETS) \div (clock - since) IN
    IF n < STRIP_BUCKETS THEN n ELSE STRIP_BUCKETS - 1

\* status_strip, since a moment before now.
Strip(since) ==
    [ n \in 0..STRIP_BUCKETS - 1 |->
        LET slot == {i \in Since(since) : Slot(i, since) = n} IN
        IF slot = {} THEN "none" ELSE Worst(slot) ]

\* latency_trend_windows: until the boundary, and from it.
TrendWindows ==
    LET boundary == clock - TREND_WINDOW
        Summary(since, until) ==
            [ p95     |-> Percentile(95, since, until),
              samples |-> Cardinality({i \in Within(since, until) : Answered(i)}),
              total   |-> Cardinality(Within(since, until)) ] IN
    [ recent   |-> Summary(boundary, MaxTime + 1),
      previous |-> Summary(boundary - TREND_WINDOW, boundary) ]

Magnitude(n) == IF n < 0 THEN -n ELSE n
Lesser(m, n) == IF m < n THEN m ELSE n

\* The answer rates of two windows are high, and close to each other.
Comparable(recent, previous) ==
    LET RecentRate   == 100 * recent.samples * previous.total
        PreviousRate == 100 * previous.samples * recent.total
        Whole        == recent.total * previous.total IN
    /\ Lesser(RecentRate, PreviousRate) >= TREND_MIN_SUCCESS_PCT * Whole
    /\ Magnitude(RecentRate - PreviousRate) <= TREND_MAX_SUCCESS_GAP_PCT * Whole

\* latency_trend: comparability before magnitude, and both floors.
LatencyTrend(recent, previous) ==
    LET change == recent.p95 - previous.p95 IN
    CASE NULL \in {recent.p95, previous.p95} -> "no_data"
      [] NULL \notin {recent.p95, previous.p95}
            /\ Lesser(recent.samples, previous.samples) < TREND_MIN_SAMPLES
            -> "too_few_samples"
      [] NULL \notin {recent.p95, previous.p95}
            /\ Lesser(recent.samples, previous.samples) >= TREND_MIN_SAMPLES
            -> IF ~Comparable(recent, previous) THEN "incomparable"
               ELSE IF \/ 100 * Magnitude(change) < MIN_CHANGE_PCT * previous.p95
                       \/ Magnitude(change) < TREND_MIN_CHANGE_MS THEN "ok"
               ELSE IF change > 0 THEN "degrading" ELSE "improving"

Verdict == LatencyTrend(TrendWindows.recent, TrendWindows.previous)

-----------------------------------------------------------------------------
(*                                Properties                               *)

HistTypeOK ==
    /\ DOMAIN rows \subseteq Nat \ {0}
    /\ rows \in [DOMAIN rows -> Row]
    /\ Cardinality(DOMAIN rows) <= MaxRows
    /\ clock \in 0..MaxTime

Spans == {clock - n : n \in 1..RETENTION}

\* A percentile is the value at index ceil(p * n) of the sorted answers: fewer
\* are below it, and enough are not above it (CUME_DIST and MIN, over ties and
\* tiny windows).
NearestRank ==
    \A p \in {50, 95}, since \in Spans \union {0} :
        LET among == {i \in Since(since) : Answered(i)}
            rank  == (p * Cardinality(among) + 99) \div 100
            value == Percentile(p, since, MaxTime + 1) IN
        IF among = {} THEN value = NULL
        ELSE /\ Cardinality({i \in among : rows[i].ttfb_ms < value}) < rank
             /\ Cardinality({i \in among : rows[i].ttfb_ms <= value}) >= rank

\* The strip and the figure beside it are about the same rows: a target is shown
\* without a failure exactly if its uptime says 100%, and without any data
\* exactly if its uptime says so (the hysteresis rows, the row of this moment,
\* slots without a probe).
StripAgreesWithUptime ==
    \A since \in Spans :
        LET shown == {Strip(since)[n] : n \in 0..STRIP_BUCKETS - 1}
            uptime == Uptime(since) IN
        /\ "DOWN" \in shown <=> uptime.up < uptime.total
        /\ shown = {"none"} <=> uptime.total = 0

\* Pruning is not seen: no report over a window within the retention, and no
\* verdict on the trend, depends on whether this round's prune succeeded
\* (_prune_sync's cutoff, the readers' bounds).
PruneUnseen ==
    [][~(DOMAIN rows \subseteq DOMAIN rows') =>
          /\ \A since \in Spans :
                Uptime(since)' = Uptime(since)
                    /\ Percentile(95, since, MaxTime + 1)'
                          = Percentile(95, since, MaxTime + 1)
          /\ Verdict' = Verdict]_histVars

=============================================================================

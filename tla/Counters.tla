------------------------------ MODULE Counters ------------------------------
(***************************************************************************)
(* What the metric engine makes of the counters of one row                 *)
(* (metric_engine.py): the points of a chart, from neighbouring samples;   *)
(* the row of an endpoint table, from the first sample and the last; and   *)
(* the values of a Top-N chart.  The server counts events; now and then it *)
(* resets the row's counters and gives them a new marker (stats_reset), or *)
(* a counter is lost with the marker unchanged.  A sample may miss the row *)
(* or a value of it, and the server's clock, which gives a row its time    *)
(* (snapshot_time), may stand or step back.  Samples are sorted by another *)
(* clock, the collector's, which is taken to go on.                        *)
(*                                                                         *)
(* The engine's loop over the samples depends on the ones before only, so  *)
(* each of its rounds is taken here when its sample is.                    *)
(***************************************************************************)
EXTENDS Integers, Sequences, FiniteSets, SequencesExt

CONSTANTS
  Columns,     \* the counters of the row
  Nothing,     \* None, NULL, not a number, no row
  Steps,       \* bound: what the clock does between two samples
  MaxSamples,  \* bound: samples of the run
  MaxEvents,   \* bound: events of a counter
  MaxEpoch     \* bound: the last reset marker

ASSUME CountersAssumption ==
  /\ Nothing \notin Int /\ Steps \subseteq Int
  /\ IsFiniteSet(Columns)
  /\ MaxSamples \in Nat /\ MaxEvents \in Nat /\ MaxEpoch \in Nat

Statuses == {"ok", "no_activity", "missing_start", "missing_end", "epoch_changed",
             "counter_decrease", "invalid_value", "invalid_interval"}

VARIABLES
  transform,  \* of the chart's series: "delta" (or "rate") or "difference"
  optional,   \* columns that are declared optional
  real,       \* events of each counter since the run began
  count,      \* the counters
  epoch,      \* the row's reset marker, Nothing while it was never reset
  rows,       \* the row in each sample, or Nothing
  truth,      \* history: real at each sample
  lost,       \* history: a counter was lost under the same marker
  previous,   \* the loop: the point before, or Nothing
  points,     \* the series of each column: at which sample, which value
  counts      \* interval_counts of each series

declared == <<transform, optional>>
server   == <<real, count, epoch, lost>>
sampled  == <<rows, truth>>
series   == <<previous, points, counts>>
vars     == <<declared, server, sampled, series>>

Init ==
  /\ transform \in {"delta", "difference"} /\ optional \in SUBSET Columns
  /\ real = [c \in Columns |-> 0] /\ count = [c \in Columns |-> 0]
  /\ epoch \in {Nothing, 0} /\ lost = FALSE
  /\ rows = << >> /\ truth = << >>
  /\ previous = Nothing
  /\ points = [c \in Columns |-> << >>]
  /\ counts = [c \in Columns |-> [s \in Statuses |-> 0]]

-----------------------------------------------------------------------------
(* Comparing two readings of a value, and of the row.                      *)

CounterStatus(x, y) ==
  IF Nothing \in {x, y} THEN "invalid_value"
  ELSE IF y < x THEN "counter_decrease" ELSE "ok"

GaugeStatus(x, y) ==
  IF Nothing \in {x, y} THEN "invalid_value"
  ELSE IF x = y THEN "no_activity" ELSE "ok"

(* Unknown on both sides is no evidence of a reset.                        *)
EpochStatus(a, b) ==
  IF a.epoch = b.epoch THEN "ok"
  ELSE IF Nothing \in {a.epoch, b.epoch} THEN "invalid_value" ELSE "epoch_changed"

ValueStatus(a, b, c) ==
  IF transform = "delta" THEN CounterStatus(a.value[c], b.value[c])
                         ELSE GaugeStatus(a.value[c], b.value[c])

-----------------------------------------------------------------------------
(* A chart: one round of _transform_interval_points.                       *)

PairStatus(a, b, c) ==
  IF EpochStatus(a, b) # "ok" THEN EpochStatus(a, b)
  ELSE IF b.time <= a.time THEN "invalid_interval"
  ELSE ValueStatus(a, b, c)

(* A null value of an optional series is no failure.                       *)
Excused(a, b, c) ==
  /\ c \in optional /\ EpochStatus(a, b) = "ok" /\ a.time < b.time
  /\ ValueStatus(a, b, c) = "invalid_value"

Number == Len(rows) + 1

AddPoint(value) ==
  points' = [c \in Columns |-> Append(points[c], [at |-> Number, value |-> value[c]])]

CountAll(status) == counts' = [c \in Columns |-> [counts[c] EXCEPT ![status] = @ + 1]]

Gap == [c \in Columns |-> Nothing]

(* Mutant: the point before a gap is kept.                                 *)
MissingKept ==
  IF previous = Nothing
    THEN UNCHANGED series
    ELSE /\ AddPoint(Gap) /\ CountAll("missing_end") /\ UNCHANGED previous

(* The row is missing: the first sample without it ends the line.          *)
Missing ==
  IF previous = Nothing
    THEN UNCHANGED series
    ELSE /\ previous' = Nothing /\ AddPoint(Gap) /\ CountAll("missing_end")

(* The row appears, for the first time or again.                           *)
Appears(row) ==
  /\ previous' = row /\ AddPoint(Gap)
  /\ IF Number = 1 THEN UNCHANGED counts ELSE CountAll("missing_start")

Goes(row) ==
  /\ previous' = row
  /\ AddPoint([c \in Columns |-> IF PairStatus(previous, row, c) = "ok"
                                   THEN row.value[c] - previous.value[c] ELSE Nothing])
  /\ counts' = [c \in Columns |-> IF Excused(previous, row, c) THEN counts[c]
                  ELSE [counts[c] EXCEPT ![PairStatus(previous, row, c)] = @ + 1]]

Round(row) ==
  CASE row = Nothing                         -> Missing
    [] row # Nothing /\ previous = Nothing   -> Appears(row)
    [] row # Nothing /\ previous # Nothing   -> Goes(row)

-----------------------------------------------------------------------------

(* An event is counted.                                                    *)
Event(c) ==
  /\ Len(rows) < MaxSamples /\ real[c] < MaxEvents
  /\ real' = [real EXCEPT ![c] = @ + 1] /\ count' = [count EXCEPT ![c] = @ + 1]
  /\ UNCHANGED <<declared, epoch, lost, sampled, series>>

(* The server resets the row's counters, under a marker never used before. *)
Reset ==
  /\ Len(rows) < MaxSamples /\ epoch # MaxEpoch
  /\ count' = [c \in Columns |-> 0]
  /\ epoch' = IF epoch = Nothing THEN 1 ELSE epoch + 1
  /\ UNCHANGED <<declared, real, lost, sampled, series>>

(* A counter is lost, and the marker says nothing of it.                   *)
Lose(c) ==
  /\ Len(rows) < MaxSamples /\ count[c] > 0
  /\ count' = [count EXCEPT ![c] = 0] /\ lost' = TRUE
  /\ UNCHANGED <<declared, real, epoch, sampled, series>>

LastTime ==
  LET seen == {i \in DOMAIN rows : rows[i] # Nothing}
  IN  IF seen = {} THEN 0 ELSE rows[CHOOSE i \in seen : \A j \in seen : j <= i].time

Take(row) ==
  /\ Len(rows) < MaxSamples
  /\ rows' = Append(rows, row) /\ truth' = Append(truth, real)
  /\ Round(row)
  /\ UNCHANGED <<declared, server>>

Sample ==
  \/ Take(Nothing)
  \/ \E step \in Steps, known \in SUBSET Columns :
       Take([time  |-> LastTime + step,
             epoch |-> epoch,
             value |-> [c \in Columns |-> IF c \in known THEN count[c] ELSE Nothing]])

Next == Sample \/ Reset \/ \E c \in Columns : Event(c) \/ Lose(c)

Spec == Init /\ [][Next]_vars

-----------------------------------------------------------------------------
(* An endpoint table: build_table_result.                                  *)

Start == rows[1]
Finish == rows[Len(rows)]

(* Mutant: a changed marker is outranked by nothing and forgotten.         *)
CombinedWithoutEpochs(ss) ==
  CASE "counter_decrease" \in ss -> "counter_decrease"
    [] "counter_decrease" \notin ss /\ "invalid_value" \in ss -> "invalid_value"
    [] OTHER -> "ok"

Combined(ss) ==
  CASE "epoch_changed" \in ss -> "epoch_changed"
    [] "epoch_changed" \notin ss /\ "counter_decrease" \in ss -> "counter_decrease"
    [] ss \cap {"epoch_changed", "counter_decrease"} = {} /\ "invalid_value" \in ss
         -> "invalid_value"
    [] OTHER -> "ok"

ColumnStatus(c) == CounterStatus(Start.value[c], Finish.value[c])

Required == {c \in Columns : ~(c \in optional /\ ColumnStatus(c) = "invalid_value")}

TableStatus ==
  IF Start = Nothing THEN "missing_start"
  ELSE IF Finish = Nothing THEN "missing_end"
  ELSE IF Finish.time <= Start.time THEN "invalid_interval"
  ELSE Combined({EpochStatus(Start, Finish)} \cup {ColumnStatus(c) : c \in Required})

Cell(c) == IF ColumnStatus(c) = "ok" THEN Finish.value[c] - Start.value[c] ELSE Nothing

(* The row is shown when it is comparable and a delta of it is not zero.   *)
Shown ==
  /\ Len(rows) > 1 /\ {Start, Finish} # {Nothing} /\ TableStatus = "ok"
  /\ \E c \in Columns : Cell(c) \notin {Nothing, 0}

-----------------------------------------------------------------------------
(* A Top-N chart: _top_n_interval_series, which has no markers.            *)

TopNStatus(a, b, c) ==
  IF a = Nothing THEN "missing_start"
  ELSE IF b = Nothing THEN "missing_end"
  ELSE IF b.time <= a.time THEN "invalid_interval"
  ELSE CounterStatus(a.value[c], b.value[c])

-----------------------------------------------------------------------------

Values == Nat \cup {Nothing}

Readings == [time : Int, epoch : Values, value : [Columns -> Values]]

TypeOK ==
  /\ transform \in {"delta", "difference"} /\ optional \in SUBSET Columns
  /\ lost \in BOOLEAN
  /\ real \in [Columns -> Nat] /\ count \in [Columns -> Nat] /\ epoch \in Values
  /\ rows \in Seq(Readings \cup {Nothing}) /\ truth \in Seq([Columns -> Nat])
  /\ Len(truth) = Len(rows)
  /\ previous \in Readings \cup {Nothing}
  /\ points \in [Columns -> Seq([at : Nat, value :
                  IF transform = "delta" THEN Values ELSE Int \cup {Nothing}])]
  /\ counts \in [Columns -> [Statuses -> Nat]]

Numbers == 1 .. Len(rows)
Pairs == {i \in Numbers : i > 1 /\ {rows[i - 1], rows[i]} # {Nothing}}

(* A point of a counter's chart is what happened between its sample and    *)
(* the sample before: never across a gap, never more than what happened,   *)
(* whatever is reset or lost in between, and exactly that on a server that *)
(* marks its resets.                                                       *)
ChartTrue ==
  transform = "delta" =>
    \A c \in Columns : \A k \in DOMAIN points[c] :
      LET p == points[c][k]
      IN  p.value # Nothing =>
            /\ p.at \in 2 .. Len(rows)
            /\ LET happened == truth[p.at][c] - truth[p.at - 1][c]
               IN  0 <= p.value /\ p.value <= happened /\ (~lost => p.value = happened)

(* The same of the row of an endpoint table and the whole run.             *)
TableTrue ==
  Shown => \A c \in Columns : Cell(c) # Nothing =>
    LET happened == truth[Len(rows)][c] - truth[1][c]
    IN  0 <= Cell(c) /\ Cell(c) <= happened /\ (~lost => Cell(c) = happened)

Comparable(n) == n["ok"] + n["no_activity"]
Unmatched(n) == n["missing_start"] + n["missing_end"]
Invalid(n) == n["epoch_changed"] + n["counter_decrease"] + n["invalid_value"]
                + n["invalid_interval"]

(* interval_coverage tells the truth: each pair of neighbouring samples in *)
(* which the row was seen is counted once, whatever was missing before.    *)
CoverageComplete ==
  \A c \in Columns \ optional :
    Comparable(counts[c]) + Unmatched(counts[c]) + Invalid(counts[c]) = Cardinality(Pairs)

(* Charts and Top-N charts, which are calculated by different code, agree  *)
(* on every interval as long as no marker changes.                         *)
TopNAgrees ==
  LET changed == {i \in Pairs : /\ Nothing \notin {rows[i - 1], rows[i]}
                                /\ EpochStatus(rows[i - 1], rows[i]) # "ok"}
  IN  changed = {} /\ transform = "delta" =>
        \A c \in Columns \ optional, s \in Statuses :
          counts[c][s] = Cardinality({i \in Pairs : TopNStatus(rows[i - 1], rows[i], c) = s})

=============================================================================

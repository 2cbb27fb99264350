----------------------------- MODULE MetricItem -----------------------------
(***************************************************************************)
(* The item a metric becomes (build_metric_item of metric_engine.py): what *)
(* the collections of its source came to, whether the chart, the table or  *)
(* the Top-N chart made of the samples shows anything, and what the item   *)
(* says of what it does not show.  Counters has the samples, the chart's   *)
(* series and the table's row; here are the collections that failed, the   *)
(* Top-N charts, the series left out because they are zero, and the item's *)
(* status, reason and diagnostics.                                         *)
(***************************************************************************)
EXTENDS Counters

CONSTANT Failed  \* bound: how a collection of the source may fail

ASSUME FailedAssumption == Failed \subseteq {"error", "unsupported", "skipped"}

VARIABLES
  source,  \* of the metric: a "query" or a "sampler"
  health   \* what the collections of the source came to

itemVars == <<vars, source, health>>

ItemInit == Init /\ source \in {"query", "sampler"} /\ health = {}

(* A query that failed makes a sample without rows, as one that found none *)
(* does.                                                                   *)
Collect ==
  /\ Sample
  /\ IF rows'[Number] = Nothing
       THEN \E s \in {"empty"} \cup (IF source = "query" THEN Failed ELSE {}) :
              health' = health \cup {s}
       ELSE health' = health \cup {"ok"}
  /\ UNCHANGED source

(* A sampler that failed makes no sample, and leaves a diagnostic.         *)
SamplerFails ==
  /\ source = "sampler"
  /\ \E s \in Failed \ {"skipped"} : health' = health \cup {s}
  /\ UNCHANGED <<vars, source>>

ItemNext ==
  \/ Collect \/ SamplerFails
  \/ (Reset \/ \E c \in Columns : Event(c) \/ Lose(c)) /\ UNCHANGED <<source, health>>

ItemSpec == ItemInit /\ [][ItemNext]_itemVars

-----------------------------------------------------------------------------
(* What is shown.                                                          *)

Known(c) == {p.value : p \in ToSet(points[c])} \ {Nothing}

(* A series that is all zero is kept aside, as evidence that it was read.  *)
ZeroSeries == {c \in Columns : Known(c) = {0}}

ChartShows == \E c \in Columns \ ZeroSeries : Known(c) # {}

Intervals(mode) ==
  IF Len(rows) < 2 THEN {}
  ELSE LET pairs == IF mode = "interval" THEN {<<i - 1, i>> : i \in 2 .. Len(rows)}
                                         ELSE {<<1, Len(rows)>>}
       IN  {p \in pairs : {rows[p[1]], rows[p[2]]} # {Nothing}}

Rank(p, c) == TopNStatus(rows[p[1]], rows[p[2]], c)

(* A value that is not positive is no candidate.                           *)
TopNShows(mode, c) ==
  \E p \in Intervals(mode) :
    Rank(p, c) = "ok" /\ rows[p[2]].value[c] > rows[p[1]].value[c]

-----------------------------------------------------------------------------
(* interval_coverage of a result, as counts by status.                     *)

ChartCoverage ==
  [s \in Statuses |-> FoldFunction(+, 0, [c \in Columns |-> counts[c][s]])]

TableCoverage ==
  [s \in Statuses |->
     IF Len(rows) > 1 /\ {Start, Finish} # {Nothing} /\ TableStatus = s THEN 1 ELSE 0]

TopNCoverage(mode, c) ==
  [s \in Statuses |-> Cardinality({p \in Intervals(mode) : Rank(p, c) = s})]

-----------------------------------------------------------------------------
(* The item.                                                               *)

Failure ==
  CASE "error" \in health -> "error"
    [] "error" \notin health /\ "unsupported" \in health -> "unsupported"
    [] health \cap {"error", "unsupported"} = {} /\ "skipped" \in health -> "skipped"
    [] OTHER -> "none"

(* Without a successful collection the item is what its source was.        *)
SourceFailed ==
  IF source = "query" THEN health \cap {"ok", "empty"} = {} ELSE rows = << >> /\ Failure # "none"

SourceStatus == IF Failure = "none" THEN "error" ELSE Failure

ItemStatus(shows) ==
  IF SourceFailed THEN SourceStatus
  ELSE IF shows THEN "ok"
  ELSE IF source = "query" /\ Failure = "error" THEN "error" ELSE "empty"

(* Mutant: what was left out is told only when nothing could be compared.  *)
FeedbackIfNothing(n, shows) ==
  IF Comparable(n) = 0 /\ Invalid(n) > 0 THEN "omitted"
  ELSE IF Comparable(n) = 0 /\ Unmatched(n) > 0 /\ ~shows THEN "no keys" ELSE "none"

Feedback(n, shows) ==
  IF Invalid(n) > 0 THEN "omitted"
  ELSE IF Comparable(n) = 0 /\ Unmatched(n) > 0 /\ ~shows THEN "no keys" ELSE "none"

Item(shows, n) ==
  [status      |-> ItemStatus(shows),
   reason      |-> IF SourceFailed \/ ItemStatus(shows) = "error"
                     THEN "of the source" ELSE Feedback(n, shows),
   diagnostics |-> {d \in {"metric_source_samples", "metric_interval_coverage"} :
                      IF d = "metric_source_samples" THEN Failure # "none" \/ SourceFailed
                      ELSE ~SourceFailed /\ Feedback(n, shows) = "omitted"}]

-----------------------------------------------------------------------------

(* Nothing in the item says that something is missing from it.             *)
Silent(shows, n) ==
  LET item == Item(shows, n)
  IN  /\ item.status = "empty" /\ item.reason = "none" /\ item.diagnostics = {}
      /\ Unmatched(n) = 0

Quiet(c) == truth[1][c] = truth[Len(rows)][c]

SeenAtAll == ToSet(rows) # {Nothing} /\ rows # << >>

SameMarker == Cardinality({row.epoch : row \in ToSet(rows) \ {Nothing}}) = 1

(* An item that is empty and says nothing of it means that nothing         *)
(* happened: on a server that marks its resets, no counter the metric      *)
(* requires moved between the first sample and the last, whatever failed,  *)
(* was missing or was null in between.  A Top-N chart, which reads no      *)
(* marker, says it of samples with one marker.                             *)
SilenceIsQuiet ==
  ~lost /\ SeenAtAll =>
    /\ transform = "delta" /\ Silent(ChartShows, ChartCoverage)
         => \A c \in Columns \ optional : Quiet(c)
    /\ Silent(Shown, TableCoverage) /\ {Start, Finish} # {Nothing}
         => \A c \in Columns \ optional : Quiet(c)
    /\ SameMarker => \A c \in Columns :
         /\ Silent(TopNShows("interval", c), TopNCoverage("interval", c)) => Quiet(c)
         /\ Silent(TopNShows("first_last", c), TopNCoverage("first_last", c))
              /\ {Start, Finish} # {Nothing} => Quiet(c)
=============================================================================

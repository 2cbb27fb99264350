------------------------- MODULE MetricItem_proofs -------------------------
(***************************************************************************)
(* What TLAPS proves of Counters, for any columns, samples, events and     *)
(* clock, and of MetricItem: a metric whose collections fail now and then, *)
(* with or without a sample, still samples as Counters does, so its chart  *)
(* and its table are as true as they are there, and an item that shows     *)
(* nothing and says nothing of it had nothing to show.                     *)
(***************************************************************************)
EXTENDS MetricItem, Folding

USE CountersAssumption

LastRow == IF rows = << >> THEN Nothing ELSE rows[Len(rows)]

Seen == {i \in Numbers : rows[i] # Nothing}

(* There is a last sample with the row (LastTime is its time).             *)
LatestInv == Seen = {} \/ \E i \in Seen : \A j \in Seen : j <= i

(* What happened is never taken back.                                      *)
TruthInv ==
  /\ \A i \in Numbers : \A c \in Columns : truth[i][c] <= real[c]
  /\ \A i, j \in Numbers : i < j => \A c \in Columns : truth[i][c] <= truth[j][c]

(* A marker that was seen is not newer than the server's.                  *)
MarkerInv ==
  \A i \in Seen : rows[i].epoch # Nothing => epoch # Nothing /\ rows[i].epoch <= epoch

(* Between two readings under one marker a counter grows by no more than   *)
(* what happened, and by all of it unless a counter was lost.              *)
Within(x, y, s, t) == y - x <= t - s /\ (~lost => y - x = t - s)

ServerInv ==
  \A i \in Seen : rows[i].epoch = epoch =>
    \A c \in Columns : rows[i].value[c] # Nothing =>
      Within(rows[i].value[c], count[c], truth[i][c], real[c])

PairInv ==
  \A i, j \in Seen : i < j /\ rows[i].epoch = rows[j].epoch =>
    \A c \in Columns : Nothing \notin {rows[i].value[c], rows[j].value[c]} =>
      Within(rows[i].value[c], rows[j].value[c], truth[i][c], truth[j][c])

(* The status of the interval between two samples, which may lack the row. *)
IntervalStatus(a, b, c) ==
  IF a = Nothing THEN "missing_start"
  ELSE IF b = Nothing THEN "missing_end" ELSE PairStatus(a, b, c)

(* Each interval is counted under its own status.                          *)
Having(c, s) == {i \in Pairs : IntervalStatus(rows[i - 1], rows[i], c) = s}

StatusInv ==
  \A c \in Columns \ optional, s \in Statuses : counts[c][s] = Cardinality(Having(c, s))

IInv ==
  /\ TypeOK
  /\ previous = LastRow /\ LatestInv
  /\ TruthInv /\ MarkerInv /\ ServerInv /\ PairInv
  /\ ChartTrue
  /\ CoverageComplete /\ StatusInv

-----------------------------------------------------------------------------

LEMMA InitIInv == Init => IInv
<1> SUFFICES ASSUME Init PROVE IInv
  OBVIOUS
<1>1. rows = << >> /\ truth = << >> /\ Len(rows) = 0
  BY DEF Init
<1>2. Numbers = {} /\ Seen = {} /\ Pairs = {}
  BY <1>1 DEF Numbers, Seen, Pairs
<1>3. TypeOK
  <2>1. rows \in Seq(Readings \cup {Nothing}) /\ truth \in Seq([Columns -> Nat])
        /\ Len(truth) = Len(rows)
    BY <1>1
  <2>2. points \in [Columns -> Seq([at : Nat, value :
                     IF transform = "delta" THEN Values ELSE Int \cup {Nothing}])]
    BY DEF Init
  <2>3. real \in [Columns -> Nat] /\ count \in [Columns -> Nat]
        /\ counts \in [Columns -> [Statuses -> Nat]]
    BY DEF Init
  <2>4. /\ transform \in {"delta", "difference"} /\ optional \in SUBSET Columns
        /\ epoch \in Values /\ previous \in Readings \cup {Nothing}
    BY DEF Init, Values
  <2>5. lost \in BOOLEAN
    BY DEF Init
  <2>6. QED
    BY <2>1, <2>2, <2>3, <2>4, <2>5 DEF TypeOK
<1>4. /\ previous = LastRow /\ LatestInv
      /\ TruthInv /\ MarkerInv /\ ServerInv /\ PairInv
  BY <1>1, <1>2 DEF Init, LastRow, LatestInv, TruthInv, MarkerInv, ServerInv,
                    PairInv
<1>5. ChartTrue
  BY DEF Init, ChartTrue
<1>6. CoverageComplete
  <2>1. \A c \in Columns : \A s \in Statuses : counts[c][s] = 0
    BY DEF Init
  <2>2. Cardinality(Pairs) = 0
    BY <1>2, FS_EmptySet
  <2>3. QED
    BY <2>1, <2>2 DEF CoverageComplete, Comparable, Unmatched, Invalid, Statuses
<1>7. StatusInv
  <2>1. \A c \in Columns : \A s \in Statuses : counts[c][s] = 0 /\ Having(c, s) = {}
    BY <1>2 DEF Init, Having
  <2>2. QED
    BY <2>1, FS_EmptySet DEF StatusInv
<1>8. QED
  BY <1>3, <1>4, <1>5, <1>6, <1>7 DEF IInv

-----------------------------------------------------------------------------
(* The server: no sample is taken, and the loop does not move.             *)

LEMMA ServerTypes ==
  ASSUME TypeOK PROVE
    /\ \A i \in Seen : rows[i] \in Readings
    /\ \A i \in Numbers : \A c \in Columns : truth[i][c] \in Nat
    /\ \A i \in Seen : \A c \in Columns :
         rows[i].value[c] # Nothing => rows[i].value[c] \in Nat
    /\ \A i \in Seen : rows[i].epoch # Nothing => rows[i].epoch \in Nat
    /\ \A c \in Columns : real[c] \in Nat /\ count[c] \in Nat
<1>1. \A i \in Numbers : rows[i] \in Readings \cup {Nothing}
                         /\ truth[i] \in [Columns -> Nat]
  BY DEF TypeOK, Numbers
<1>2. \A i \in Seen : rows[i] \in Readings /\ i \in Numbers
  BY <1>1 DEF Seen
<1>3. QED
  BY <1>1, <1>2 DEF TypeOK, Readings, Values

LEMMA SampledUnchanged ==
  ASSUME UNCHANGED <<declared, sampled, series>>, lost => lost',
         ChartTrue, CoverageComplete, StatusInv, previous = LastRow, LatestInv
  PROVE  /\ ChartTrue' /\ CoverageComplete' /\ StatusInv'
         /\ previous' = LastRow' /\ LatestInv'
         /\ Numbers' = Numbers /\ Seen' = Seen
<1>1. UNCHANGED <<transform, optional, rows, truth, previous, points, counts>>
  BY DEF declared, sampled, series
<1>2. /\ ChartTrue' /\ CoverageComplete' /\ previous' = LastRow' /\ LatestInv'
      /\ Numbers' = Numbers /\ Seen' = Seen
  BY <1>1 DEF ChartTrue, CoverageComplete, LastRow, LatestInv, Numbers, Seen, Pairs,
              Comparable, Unmatched, Invalid
<1>3. StatusInv'
  <2>1. \A c \in Columns, s \in Statuses : Having(c, s)' = Having(c, s)
    BY <1>1 DEF Having, Pairs, Numbers, IntervalStatus, PairStatus, EpochStatus,
                ValueStatus
  <2>2. QED
    BY <1>1, <2>1 DEF StatusInv
<1>4. QED
  BY <1>2, <1>3

LEMMA ServerStepTypes ==
  ASSUME TypeOK, UNCHANGED <<declared, sampled, series>>,
         real' \in [Columns -> Nat], count' \in [Columns -> Nat],
         epoch' \in Values, lost' \in BOOLEAN
  PROVE  TypeOK'
BY DEF TypeOK, declared, sampled, series

LEMMA EventIInv == ASSUME IInv, NEW c \in Columns, Event(c) PROVE IInv'
<1> USE DEF IInv
<1>1. /\ UNCHANGED <<declared, epoch, lost, sampled, series>>
      /\ real' = [real EXCEPT ![c] = @ + 1]
      /\ count' = [count EXCEPT ![c] = @ + 1]
  BY DEF Event
<1>2. /\ ChartTrue' /\ CoverageComplete' /\ StatusInv'
      /\ previous' = LastRow' /\ LatestInv'
      /\ Numbers' = Numbers /\ Seen' = Seen /\ rows' = rows /\ truth' = truth
  BY <1>1, SampledUnchanged DEF sampled
<1>3. TypeOK'
  <2>1. real' \in [Columns -> Nat] /\ count' \in [Columns -> Nat]
    BY <1>1 DEF TypeOK
  <2>2. epoch' \in Values /\ lost' \in BOOLEAN
    BY <1>1 DEF TypeOK
  <2>3. QED
    BY <1>1, <2>1, <2>2, ServerStepTypes
<1>4. \A d \in Columns : \/ d # c /\ real'[d] = real[d] /\ count'[d] = count[d]
                         \/ real'[d] = real[d] + 1 /\ count'[d] = count[d] + 1
  BY <1>1 DEF TypeOK
<1>5. TruthInv'
  BY <1>2, <1>4, ServerTypes DEF TruthInv
<1>6. MarkerInv' /\ PairInv'
  BY <1>1, <1>2 DEF MarkerInv, PairInv, Within
<1>7. ServerInv'
  <2> SUFFICES ASSUME NEW i \in Seen, rows[i].epoch = epoch,
                      NEW d \in Columns, rows[i].value[d] # Nothing
               PROVE  Within(rows[i].value[d], count[d], truth[i][d], real[d])'
    BY <1>1, <1>2 DEF ServerInv
  <2>1. Within(rows[i].value[d], count[d], truth[i][d], real[d])
    BY DEF ServerInv
  <2>2. rows[i].value[d] \in Nat /\ truth[i][d] \in Nat
        /\ real[d] \in Nat /\ count[d] \in Nat
    BY ServerTypes DEF Seen
  <2>3. QED
    BY <1>1, <1>2, <1>4, <2>1, <2>2 DEF Within
<1>8. QED
  BY <1>2, <1>3, <1>5, <1>6, <1>7

LEMMA ResetIInv == ASSUME IInv, Reset PROVE IInv'
<1> USE DEF IInv
<1>1. /\ UNCHANGED <<declared, real, lost, sampled, series>>
      /\ count' = [c \in Columns |-> 0]
      /\ epoch' = IF epoch = Nothing THEN 1 ELSE epoch + 1
  BY DEF Reset
<1>2. /\ ChartTrue' /\ CoverageComplete' /\ StatusInv'
      /\ previous' = LastRow' /\ LatestInv'
      /\ Numbers' = Numbers /\ Seen' = Seen /\ rows' = rows /\ truth' = truth
  BY <1>1, SampledUnchanged DEF sampled
<1>3. epoch' \in Nat /\ (epoch # Nothing => epoch \in Nat /\ epoch < epoch')
  BY <1>1 DEF TypeOK, Values
<1>4. TypeOK'
  <2>1. count' \in [Columns -> Nat] /\ epoch' \in Values
    BY <1>1, <1>3 DEF Values
  <2>2. real' \in [Columns -> Nat] /\ lost' \in BOOLEAN
    BY <1>1 DEF TypeOK
  <2>3. QED
    BY <1>1, <2>1, <2>2, ServerStepTypes
<1>5. \A i \in Seen : rows[i].epoch # Nothing => rows[i].epoch < epoch'
  BY <1>3, ServerTypes DEF MarkerInv
<1>6. \A i \in Seen : rows[i].epoch # epoch'
  BY <1>3, <1>5, ServerTypes
<1>7. MarkerInv'
  BY <1>2, <1>3, <1>5, ServerTypes DEF MarkerInv
<1>8. TruthInv' /\ PairInv' /\ ServerInv'
  BY <1>1, <1>2, <1>6 DEF TruthInv, PairInv, ServerInv, Within
<1>9. QED
  BY <1>2, <1>4, <1>7, <1>8

LEMMA LoseIInv == ASSUME IInv, NEW c \in Columns, Lose(c) PROVE IInv'
<1> USE DEF IInv
<1>1. /\ UNCHANGED <<declared, real, epoch, sampled, series>>
      /\ count' = [count EXCEPT ![c] = 0] /\ lost' = TRUE
  BY DEF Lose
<1>2. /\ ChartTrue' /\ CoverageComplete' /\ StatusInv'
      /\ previous' = LastRow' /\ LatestInv'
      /\ Numbers' = Numbers /\ Seen' = Seen /\ rows' = rows /\ truth' = truth
  BY <1>1, SampledUnchanged DEF sampled
<1>3. TypeOK'
  <2>1. real' \in [Columns -> Nat] /\ count' \in [Columns -> Nat]
    BY <1>1 DEF TypeOK
  <2>2. epoch' \in Values /\ lost' \in BOOLEAN
    BY <1>1 DEF TypeOK
  <2>3. QED
    BY <1>1, <2>1, <2>2, ServerStepTypes
<1>4. \A d \in Columns : count'[d] = 0 \/ count'[d] = count[d]
  BY <1>1 DEF TypeOK
<1>5. TruthInv' /\ MarkerInv'
  BY <1>1, <1>2 DEF TruthInv, MarkerInv
<1>6. PairInv'
  BY <1>1, <1>2, ServerTypes DEF PairInv, Within
<1>7. ServerInv'
  <2> SUFFICES ASSUME NEW i \in Seen, rows[i].epoch = epoch,
                      NEW d \in Columns, rows[i].value[d] # Nothing
               PROVE  count'[d] - rows[i].value[d] <= real[d] - truth[i][d]
    BY <1>1, <1>2 DEF ServerInv, Within
  <2>1. count[d] - rows[i].value[d] <= real[d] - truth[i][d]
    BY DEF ServerInv, Within
  <2>2. truth[i][d] <= real[d]
    BY DEF TruthInv, Seen
  <2>3. /\ rows[i].value[d] \in Nat /\ real[d] \in Nat /\ truth[i][d] \in Nat
    BY ServerTypes DEF Seen
  <2>4. QED
    BY <1>4, <2>1, <2>2, <2>3
<1>8. QED
  BY <1>2, <1>3, <1>5, <1>6, <1>7

-----------------------------------------------------------------------------
(* A sample: one row is appended, and the loop takes one round.            *)

(* What a sample may contain.                                              *)
Sampled(row) ==
  row # Nothing =>
    /\ row \in Readings /\ row.epoch = epoch
    /\ \A c \in Columns : row.value[c] # Nothing => row.value[c] = count[c]

LEMMA SampleRow ==
  ASSUME IInv, Sample PROVE \E row : Take(row) /\ Sampled(row)
<1>1. CASE Take(Nothing)
  BY <1>1 DEF Sampled
<1>2. ASSUME NEW step \in Steps, NEW known \in SUBSET Columns
      PROVE  Sampled([time  |-> LastTime + step,
                      epoch |-> epoch,
                      value |-> [c \in Columns |-> IF c \in known THEN count[c]
                                                              ELSE Nothing]])
  <2>1. LastTime \in Int
    <3>1. DOMAIN rows = Numbers
      BY DEF IInv, TypeOK, Numbers
    <3>2. CASE Seen = {}
      BY <3>1, <3>2 DEF LastTime, Seen
    <3>3. CASE Seen # {}
      <4> DEFINE last == CHOOSE i \in Seen : \A j \in Seen : j <= i
      <4>1. last \in Seen
        BY <3>3 DEF IInv, LatestInv
      <4>2. rows[last].time \in Int
        BY <4>1, ServerTypes DEF IInv, Readings
      <4>3. LastTime = rows[last].time
        BY <3>1, <3>3 DEF LastTime, Seen
      <4>4. QED
        BY <4>2, <4>3
    <3>4. QED
      BY <3>2, <3>3
  <2>2. LastTime + step \in Int
    BY <2>1
  <2>3. \A c \in Columns : count[c] \in Nat
    BY DEF IInv, TypeOK
  <2>4. epoch \in Values
    BY DEF IInv, TypeOK
  <2>5. QED
    BY <2>2, <2>3, <2>4 DEF Sampled, Readings, Values
<1>3. QED
  BY <1>1, <1>2 DEF Sample

LEMMA TakeFacts ==
  ASSUME TypeOK, NEW row, Take(row)
  PROVE  /\ UNCHANGED <<declared, server>>
         /\ Len(rows) \in Nat /\ Len(rows') = Number /\ Number \in Numbers'
         /\ Numbers' = Numbers \cup {Number} /\ Number \notin Numbers
         /\ \A i \in Numbers : i < Number /\ rows'[i] = rows[i] /\ truth'[i] = truth[i]
         /\ rows'[Number] = row /\ truth'[Number] = real
         /\ \A i \in Numbers : i \in 1 .. Len(rows)
<1>1. rows' = Append(rows, row) /\ truth' = Append(truth, real)
      /\ UNCHANGED <<declared, server>>
  BY DEF Take
<1>2. rows \in Seq(Readings \cup {Nothing}) /\ truth \in Seq([Columns -> Nat])
      /\ Len(truth) = Len(rows) /\ Len(rows) \in Nat
  BY DEF TypeOK
<1>3. /\ Len(rows') = Len(rows) + 1 /\ rows'[Len(rows) + 1] = row
      /\ \A i \in 1 .. Len(rows) : rows'[i] = rows[i]
  BY <1>1, <1>2
<1>4. /\ truth'[Len(rows) + 1] = real
      /\ \A i \in 1 .. Len(rows) : truth'[i] = truth[i]
  BY <1>1, <1>2
<1>5. QED
  BY <1>1, <1>2, <1>3, <1>4 DEF Numbers, Number

LEMMA TakeHistory ==
  ASSUME IInv, NEW row, Take(row), Sampled(row)
  PROVE  LatestInv' /\ TruthInv' /\ MarkerInv' /\ ServerInv' /\ PairInv'
<1> USE DEF IInv
<1>1. /\ UNCHANGED <<declared, server>>
      /\ Number \in Nat /\ Numbers' = Numbers \cup {Number}
      /\ \A i \in Numbers : i < Number /\ rows'[i] = rows[i] /\ truth'[i] = truth[i]
      /\ \A i \in Numbers : i \in Nat
      /\ rows'[Number] = row /\ truth'[Number] = real
  BY TakeFacts DEF Numbers, Number
<1>2. /\ UNCHANGED <<real, count, epoch, lost>>
  BY <1>1 DEF server
<1>3. /\ \A i \in Seen' : \/ i \in Seen /\ i \in Numbers /\ rows'[i] = rows[i]
                          \/ i = Number /\ row # Nothing
      /\ Seen \subseteq Seen'
      /\ row # Nothing => Number \in Seen'
  BY <1>1 DEF Seen
<1>4. LatestInv'
  <2>1. CASE row # Nothing
    BY <1>1, <1>3, <2>1 DEF LatestInv
  <2>2. CASE row = Nothing
    <3>1. Seen' = Seen
      BY <1>3, <2>2
    <3>2. QED
      BY <3>1 DEF LatestInv
  <2>3. QED
    BY <2>1, <2>2
<1>5. TruthInv'
  <2>1. \A i \in Numbers' : \A c \in Columns : truth'[i][c] <= real'[c]
    <3>1. \A c \in Columns : real[c] <= real[c]
      BY ServerTypes
    <3>2. QED
      BY <1>1, <1>2, <3>1 DEF TruthInv
  <2>2. \A i, j \in Numbers' : i < j => \A c \in Columns : truth'[i][c] <= truth'[j][c]
    BY <1>1, <1>2 DEF TruthInv
  <2>3. QED
    BY <2>1, <2>2 DEF TruthInv
<1>6. MarkerInv'
  <2>1. row # Nothing /\ row.epoch # Nothing => epoch \in Nat /\ row.epoch = epoch
    BY DEF Sampled, TypeOK, Values
  <2>2. QED
    BY <1>1, <1>2, <1>3, <2>1 DEF MarkerInv
<1>7. ServerInv'
  <2> SUFFICES ASSUME NEW i \in Seen', rows'[i].epoch = epoch,
                      NEW c \in Columns, rows'[i].value[c] # Nothing
               PROVE  Within(rows'[i].value[c], count[c], truth'[i][c], real[c])
    BY <1>2 DEF ServerInv, Within
  <2>1. CASE i \in Seen /\ i \in Numbers /\ rows'[i] = rows[i]
    BY <1>1, <2>1 DEF ServerInv
  <2>2. CASE i = Number /\ row # Nothing
    <3>1. row.value[c] = count[c] /\ truth'[i] = real /\ rows'[i] = row
      BY <1>1, <2>2 DEF Sampled
    <3>2. count[c] \in Nat /\ real[c] \in Nat
      BY ServerTypes
    <3>3. QED
      BY <3>1, <3>2 DEF Within
  <2>3. QED
    BY <1>3, <2>1, <2>2
<1>8. PairInv'
  <2> SUFFICES ASSUME NEW i \in Seen', NEW j \in Seen', i < j,
                      rows'[i].epoch = rows'[j].epoch, NEW c \in Columns,
                      Nothing \notin {rows'[i].value[c], rows'[j].value[c]}
               PROVE  Within(rows'[i].value[c], rows'[j].value[c],
                             truth'[i][c], truth'[j][c])
    BY <1>2 DEF PairInv, Within
  <2>1. i \in Seen /\ i \in Numbers /\ rows'[i] = rows[i] /\ truth'[i] = truth[i]
    BY <1>1, <1>3
  <2>2. CASE j \in Seen /\ j \in Numbers /\ rows'[j] = rows[j]
    BY <1>1, <2>1, <2>2 DEF PairInv
  <2>3. CASE j = Number /\ row # Nothing
    <3>1. /\ rows'[j] = row /\ row.epoch = epoch /\ row.value[c] = count[c]
          /\ truth'[j] = real
      BY <1>1, <2>3 DEF Sampled
    <3>2. QED
      BY <2>1, <3>1 DEF ServerInv
  <2>4. QED
    BY <1>3, <2>2, <2>3
<1>9. QED
  BY <1>4, <1>5, <1>6, <1>7, <1>8

-----------------------------------------------------------------------------
(* The round of the loop.                                                  *)

LEMMA PairOk ==
  ASSUME TypeOK, NEW a \in Readings, NEW b \in Readings, NEW c \in Columns,
         PairStatus(a, b, c) = "ok"
  PROVE  /\ a.epoch = b.epoch /\ a.value[c] \in Nat /\ b.value[c] \in Nat
         /\ transform = "delta" => a.value[c] <= b.value[c]
<1>1. EpochStatus(a, b) = "ok" /\ ValueStatus(a, b, c) = "ok"
  BY DEF PairStatus
<1>2. a.epoch = b.epoch
  BY <1>1 DEF EpochStatus
<1>3. a.value[c] \in Values /\ b.value[c] \in Values
  BY DEF Readings
<1>4. QED
  BY <1>1, <1>2, <1>3 DEF ValueStatus, CounterStatus, GaugeStatus, Values

(* A point that has a value has it from two rows that can be compared.     *)
Charted(row, c, v) ==
  v # Nothing => /\ previous # Nothing /\ row # Nothing
                 /\ PairStatus(previous, row, c) = "ok"
                 /\ v = row.value[c] - previous.value[c]

LEMMA RoundPoints ==
  ASSUME NEW row, Round(row)
  PROVE  \/ points' = points
         \/ \E value :
              /\ \A c \in Columns : Charted(row, c, value[c])
              /\ points' = [c \in Columns |->
                             Append(points[c], [at |-> Number, value |-> value[c]])]
<1>1. CASE points' = points
  BY <1>1
<1>2. CASE AddPoint(Gap)
  <2>1. /\ \A c \in Columns : Charted(row, c, Gap[c])
        /\ points' = [c \in Columns |->
                       Append(points[c], [at |-> Number, value |-> Gap[c]])]
    BY <1>2 DEF AddPoint, Gap, Charted
  <2>2. \E value : /\ \A c \in Columns : Charted(row, c, value[c])
                   /\ points' = [c \in Columns |->
                         Append(points[c], [at |-> Number, value |-> value[c]])]
    <3> WITNESS Gap
    <3> QED
      BY <2>1
  <2>3. QED
    BY <2>2
<1>3. CASE previous # Nothing /\ row # Nothing /\ Goes(row)
  <2> DEFINE value == [c \in Columns |-> IF PairStatus(previous, row, c) = "ok"
                                           THEN row.value[c] - previous.value[c]
                                           ELSE Nothing]
  <2>1. \A c \in Columns : Charted(row, c, value[c])
    BY <1>3 DEF Charted
  <2>2. points' = [c \in Columns |->
                     Append(points[c], [at |-> Number, value |-> value[c]])]
    BY <1>3 DEF Goes, AddPoint
  <2> HIDE DEF value
  <2>3. \E v : /\ \A c \in Columns : Charted(row, c, v[c])
               /\ points' = [c \in Columns |->
                     Append(points[c], [at |-> Number, value |-> v[c]])]
    <3> WITNESS value
    <3> QED
      BY <2>1, <2>2
  <2>4. QED
    BY <2>3
<1>4. QED
  BY <1>1, <1>2, <1>3 DEF Round, Missing, Appears, series

LEMMA PairStatusType ==
  ASSUME TypeOK, NEW a, NEW b, NEW c \in Columns
  PROVE  PairStatus(a, b, c) \in Statuses
BY DEF PairStatus, EpochStatus, ValueStatus, CounterStatus, GaugeStatus, Statuses

LEMMA RoundCounts ==
  ASSUME TypeOK, NEW row, Round(row), previous = LastRow
  PROVE  /\ counts' \in [Columns -> [Statuses -> Nat]]
         /\ \A c \in Columns \ optional :
              IF Number > 1 /\ ~(previous = Nothing /\ row = Nothing)
                THEN counts'[c] = [counts[c] EXCEPT
                                    ![IntervalStatus(previous, row, c)] = @ + 1]
                ELSE counts'[c] = counts[c]
<1>1. /\ counts \in [Columns -> [Statuses -> Nat]] /\ Len(rows) \in Nat
      /\ previous # Nothing => Number > 1
  BY DEF TypeOK, LastRow, Number
<1>2. CASE row = Nothing /\ previous = Nothing
  BY <1>1, <1>2 DEF Round, Missing, series
<1>3. CASE row = Nothing /\ previous # Nothing
  <2>1. counts' = [c \in Columns |-> [counts[c] EXCEPT !["missing_end"] = @ + 1]]
    BY <1>3 DEF Round, Missing, CountAll
  <2>2. QED
    BY <1>1, <1>3, <2>1 DEF IntervalStatus, Statuses
<1>4. CASE row # Nothing /\ previous = Nothing /\ Number = 1
  BY <1>1, <1>4 DEF Round, Appears
<1>5. CASE row # Nothing /\ previous = Nothing /\ Number # 1
  <2>1. counts' = [c \in Columns |-> [counts[c] EXCEPT !["missing_start"] = @ + 1]]
    BY <1>5 DEF Round, Appears, CountAll
  <2>2. Number > 1
    BY <1>1, <1>5 DEF Number
  <2>3. QED
    BY <1>1, <1>5, <2>1, <2>2 DEF IntervalStatus, Statuses
<1>6. CASE row # Nothing /\ previous # Nothing
  <2>1. counts' = [c \in Columns |->
                     IF Excused(previous, row, c) THEN counts[c]
                     ELSE [counts[c] EXCEPT ![PairStatus(previous, row, c)] = @ + 1]]
    BY <1>6 DEF Round, Goes
  <2>2. \A c \in Columns : PairStatus(previous, row, c) \in Statuses
    BY PairStatusType
  <2>3. \A c \in Columns \ optional : ~Excused(previous, row, c)
    BY DEF Excused
  <2>4. QED
    BY <1>1, <1>6, <2>1, <2>2, <2>3 DEF IntervalStatus
<1>7. QED
  BY <1>2, <1>3, <1>4, <1>5, <1>6

-----------------------------------------------------------------------------

(* A new point is of the interval before its sample, and tells the truth.  *)
LEMMA NewPoint ==
  ASSUME IInv, NEW row, Take(row), Sampled(row),
         NEW c \in Columns, NEW v, Charted(row, c, v), v # Nothing
  PROVE  /\ v \in Int /\ Number \in 2 .. Number
         /\ transform = "delta" =>
              /\ v \in Nat
              /\ LET happened == real[c] - truth[Number - 1][c]
                 IN  v <= happened /\ (~lost => v = happened)
<1> USE DEF IInv
<1>1. /\ previous = LastRow /\ previous # Nothing /\ row # Nothing
      /\ PairStatus(previous, row, c) = "ok"
      /\ v = row.value[c] - previous.value[c]
  BY DEF Charted
<1>2. Len(rows) \in Nat \ {0} /\ rows[Len(rows)] = previous
  BY <1>1 DEF LastRow, TypeOK
<1>3. Len(rows) \in Seen /\ Len(rows) \in Numbers /\ Number - 1 = Len(rows)
  BY <1>1, <1>2 DEF Seen, Numbers, Number
<1>4. previous \in Readings /\ row \in Readings
  BY <1>1 DEF TypeOK, Sampled
<1>5. /\ previous.epoch = row.epoch /\ row.epoch = epoch
      /\ previous.value[c] \in Nat /\ row.value[c] \in Nat
      /\ row.value[c] = count[c]
      /\ transform = "delta" => previous.value[c] <= row.value[c]
  BY <1>1, <1>4, PairOk DEF Sampled
<1>6. Within(previous.value[c], count[c], truth[Len(rows)][c], real[c])
  BY <1>2, <1>3, <1>5 DEF ServerInv
<1>7. v \in Int /\ (transform = "delta" => v \in Nat)
  BY <1>1, <1>5
<1>8. Number \in 2 .. Number
  BY <1>2 DEF Number
<1>9. QED
  BY <1>1, <1>3, <1>5, <1>6, <1>7, <1>8 DEF Within

LEMMA TakeTypes ==
  ASSUME IInv, NEW row, Take(row), Sampled(row) PROVE TypeOK'
<1> USE DEF IInv
<1>1. Round(row) /\ rows' = Append(rows, row) /\ truth' = Append(truth, real)
      /\ UNCHANGED <<transform, optional, real, count, epoch, lost>>
  BY DEF Take, declared, server
<1>2. rows' \in Seq(Readings \cup {Nothing}) /\ truth' \in Seq([Columns -> Nat])
      /\ Len(truth') = Len(rows')
  <2>1. row \in Readings \cup {Nothing}
    BY DEF Sampled
  <2>2. QED
    BY <1>1, <2>1 DEF TypeOK
<1>3. previous' \in Readings \cup {Nothing}
  <2>1. previous' \in {previous, row, Nothing}
    BY <1>1 DEF Round, Missing, Appears, Goes, series
  <2>2. QED
    BY <2>1 DEF TypeOK, Sampled
<1>4. counts' \in [Columns -> [Statuses -> Nat]]
  BY <1>1, RoundCounts
<1>5. points' \in [Columns -> Seq([at : Nat, value :
                     IF transform' = "delta" THEN Values ELSE Int \cup {Nothing}])]
  <2> DEFINE Point == [at : Nat, value :
                       IF transform = "delta" THEN Values ELSE Int \cup {Nothing}]
  <2>1. points \in [Columns -> Seq(Point)]
    BY DEF TypeOK
  <2>2. CASE points' = points
    BY <1>1, <2>1, <2>2
  <2>3. ASSUME NEW value, \A c \in Columns : Charted(row, c, value[c]),
               points' = [c \in Columns |->
                          Append(points[c], [at |-> Number, value |-> value[c]])]
        PROVE  points' \in [Columns -> Seq(Point)]
    <3>1. ASSUME NEW c \in Columns PROVE [at |-> Number, value |-> value[c]] \in Point
      <4>1. Number \in Nat
        BY DEF TypeOK, Number
      <4>2. value[c] = Nothing \/ (value[c] \in Int
                                   /\ (transform = "delta" => value[c] \in Nat))
        BY <2>3, NewPoint
      <4>3. value[c] \in IF transform = "delta" THEN Values ELSE Int \cup {Nothing}
        BY <4>2 DEF Values
      <4>4. QED
        BY <4>1, <4>3
    <3> HIDE DEF Point
    <3>2. \A c \in Columns :
            Append(points[c], [at |-> Number, value |-> value[c]]) \in Seq(Point)
      BY <2>1, <3>1
    <3>3. QED
      BY <2>3, <3>2
  <2>4. points' \in [Columns -> Seq(Point)]
    BY <1>1, <2>1, <2>2, <2>3, RoundPoints
  <2>5. QED
    BY <1>1, <2>4
<1>6. /\ transform' \in {"delta", "difference"} /\ optional' \in SUBSET Columns
      /\ real' \in [Columns -> Nat] /\ count' \in [Columns -> Nat]
      /\ epoch' \in Values
  BY <1>1 DEF TypeOK
<1>7. lost' \in BOOLEAN
  BY <1>1 DEF TypeOK
<1>8. QED
  BY <1>2, <1>3, <1>4, <1>5, <1>6, <1>7 DEF TypeOK

LEMMA TakePrevious ==
  ASSUME IInv, NEW row, Take(row) PROVE previous' = LastRow'
<1>1. Round(row) /\ rows' = Append(rows, row) /\ rows \in Seq(Readings \cup {Nothing})
  BY DEF Take, IInv, TypeOK
<1>2. rows' # << >> /\ rows'[Len(rows')] = row
  BY <1>1
<1>3. previous' = row
  BY <1>1 DEF Round, Missing, Appears, Goes, series
<1>4. QED
  BY <1>2, <1>3 DEF LastRow

(* ChartTrue of one point of a series of n samples.                        *)
PointTrue(p, c, n, t) ==
  p.value # Nothing =>
    /\ p.at \in 2 .. n
    /\ LET happened == t[p.at][c] - t[p.at - 1][c]
       IN  0 <= p.value /\ p.value <= happened /\ (~lost => p.value = happened)

LEMMA TakeChart ==
  ASSUME IInv, NEW row, Take(row), Sampled(row) PROVE ChartTrue'
<1> USE DEF IInv
<1>1. /\ UNCHANGED <<transform, real, lost>> /\ Round(row)
      /\ Len(rows) \in Nat /\ Len(rows') = Number
      /\ \A i \in 1 .. Len(rows) : truth'[i] = truth[i]
      /\ truth'[Number] = real
  BY TakeFacts DEF Take, declared, server, Numbers
<1>2. SUFFICES ASSUME transform = "delta", NEW c \in Columns, NEW k \in DOMAIN points'[c]
               PROVE  PointTrue(points'[c][k], c, Number, truth')
  BY <1>1 DEF ChartTrue, PointTrue
<1>3. ASSUME NEW p, PointTrue(p, c, Len(rows), truth)
      PROVE  PointTrue(p, c, Number, truth')
  <2> SUFFICES ASSUME p.value # Nothing PROVE PointTrue(p, c, Number, truth')
    BY DEF PointTrue
  <2>1. p.at \in 2 .. Len(rows)
    BY <1>3 DEF PointTrue
  <2>2. p.at \in 2 .. Number /\ p.at \in 1 .. Len(rows) /\ p.at - 1 \in 1 .. Len(rows)
    BY <1>1, <2>1 DEF Number
  <2>3. truth'[p.at] = truth[p.at] /\ truth'[p.at - 1] = truth[p.at - 1]
    BY <1>1, <2>2
  <2>4. QED
    BY <1>3, <2>2, <2>3 DEF PointTrue
<1>4. \A j \in DOMAIN points[c] : PointTrue(points[c][j], c, Len(rows), truth)
  BY <1>2 DEF ChartTrue, PointTrue
<1>5. CASE points' = points
  BY <1>2, <1>3, <1>4, <1>5
<1>6. ASSUME NEW value, Charted(row, c, value[c]),
             points' = [d \in Columns |->
                        Append(points[d], [at |-> Number, value |-> value[d]])]
      PROVE  PointTrue(points'[c][k], c, Number, truth')
  <2> DEFINE new == [at |-> Number, value |-> value[c]]
  <2>1. points'[c] = Append(points[c], new)
    BY <1>6
  <2>2. PICK P : points[c] \in Seq(P)
    BY DEF TypeOK
  <2>3. \/ k \in DOMAIN points[c] /\ points'[c][k] = points[c][k]
        \/ points'[c][k] = new
    <3> HIDE DEF new
    <3> QED
      BY <1>2, <2>1, <2>2
  <2>4. PointTrue(new, c, Number, truth')
    <3> SUFFICES ASSUME value[c] # Nothing PROVE PointTrue(new, c, Number, truth')
      BY DEF PointTrue
    <3>1. /\ Number \in 2 .. Number /\ value[c] \in Nat
          /\ value[c] <= real[c] - truth[Number - 1][c]
          /\ ~lost => value[c] = real[c] - truth[Number - 1][c]
      BY <1>2, <1>6, NewPoint
    <3>2. truth'[Number] = real /\ truth'[Number - 1] = truth[Number - 1]
      BY <1>1, <3>1 DEF Number
    <3>3. QED
      BY <3>1, <3>2 DEF PointTrue
  <2>5. QED
    BY <1>3, <1>4, <2>3, <2>4
<1>7. QED
  BY <1>1, <1>5, <1>6, RoundPoints

-----------------------------------------------------------------------------
(* The coverage.                                                           *)

(* A sample adds an interval unless the row was missing before and after.  *)
Adds(row) == Number > 1 /\ ~(previous = Nothing /\ row = Nothing)

LEMMA TakePairs ==
  ASSUME IInv, NEW row, Take(row)
  PROVE  /\ Pairs' = IF Adds(row) THEN Pairs \cup {Number} ELSE Pairs
         /\ Number \notin Pairs
         /\ IsFiniteSet(Pairs) /\ Pairs \subseteq Numbers
         /\ \A i \in Pairs : rows'[i] = rows[i] /\ rows'[i - 1] = rows[i - 1]
         /\ Number > 1 => rows'[Number - 1] = previous
         /\ rows'[Number] = row
<1> USE DEF IInv
<1>1. /\ Len(rows) \in Nat /\ Len(rows') = Number /\ Number = Len(rows) + 1
      /\ Numbers = 1 .. Len(rows) /\ Numbers' = 1 .. Number
      /\ \A i \in 1 .. Len(rows) : rows'[i] = rows[i]
      /\ rows'[Number] = row
  BY TakeFacts DEF Numbers, Number
<1>2. Number > 1 => rows'[Number - 1] = previous
  <2>1. Number > 1 => Len(rows) \in 1 .. Len(rows) /\ rows # << >>
    BY <1>1
  <2>2. QED
    BY <1>1, <2>1 DEF LastRow
<1>3. \A i \in Pairs : i \in 1 .. Len(rows) /\ i - 1 \in 1 .. Len(rows)
  BY <1>1 DEF Pairs
<1>4. IsFiniteSet(Pairs)
  <2>1. IsFiniteSet(1 .. Len(rows))
    BY <1>1, FS_Interval
  <2>2. QED
    BY <1>3, <2>1, FS_Subset
<1> DEFINE Absent(x, y) == x = Nothing /\ y = Nothing
<1>5. \A x, y : {x, y} # {Nothing} <=> ~Absent(x, y)
  OBVIOUS
<1>6. /\ \A i \in Numbers : i \in Pairs <=> i > 1 /\ ~Absent(rows[i - 1], rows[i])
      /\ \A i \in Numbers' :
            i \in Pairs' <=> i > 1 /\ ~Absent(rows'[i - 1], rows'[i])
  BY <1>5 DEF Pairs
<1> HIDE DEF Absent
<1>7. \A i \in Numbers : i \in Pairs' <=> i \in Pairs
  <2> SUFFICES ASSUME NEW i \in Numbers PROVE i \in Pairs' <=> i \in Pairs
    OBVIOUS
  <2>1. i \in Nat /\ i \in Numbers' /\ (i > 1 => i - 1 \in 1 .. Len(rows))
    BY <1>1
  <2>2. rows'[i] = rows[i] /\ (i > 1 => rows'[i - 1] = rows[i - 1])
    BY <1>1, <2>1
  <2>3. QED
    BY <1>6, <2>1, <2>2
<1>8. Number \in Pairs' <=> Adds(row)
  BY <1>1, <1>2, <1>6 DEF Adds, Absent
<1>9. /\ Pairs \subseteq Numbers /\ Pairs' \subseteq Numbers \cup {Number}
      /\ Number \notin Numbers
  BY <1>1 DEF Pairs
<1>10. Pairs' = IF Adds(row) THEN Pairs \cup {Number} ELSE Pairs
  <2>1. CASE Adds(row)
    BY <1>7, <1>8, <1>9, <2>1
  <2>2. CASE ~Adds(row)
    BY <1>7, <1>8, <1>9, <2>2
  <2>3. QED
    BY <2>1, <2>2
<1>11. QED
  BY <1>1, <1>2, <1>3, <1>4, <1>9, <1>10

Total(n) == Comparable(n) + Unmatched(n) + Invalid(n)

LEMMA Counted ==
  ASSUME NEW n \in [Statuses -> Nat], NEW s \in Statuses
  PROVE  Total([n EXCEPT ![s] = @ + 1]) = Total(n) + 1
<1> DEFINE m == [n EXCEPT ![s] = @ + 1]
<1>1. \A r \in Statuses : n[r] \in Nat /\ m[r] = IF r = s THEN n[r] + 1 ELSE n[r]
  OBVIOUS
<1> HIDE DEF m
<1>2. QED
  BY <1>1 DEF Total, Comparable, Unmatched, Invalid, Statuses, m

LEMMA IntervalStatusType ==
  ASSUME TypeOK, NEW a, NEW b, NEW c \in Columns
  PROVE  IntervalStatus(a, b, c) \in Statuses
BY PairStatusType DEF IntervalStatus, Statuses

LEMMA TakeCoverage ==
  ASSUME IInv, NEW row, Take(row) PROVE CoverageComplete' /\ StatusInv'
<1> USE DEF IInv
<1>1. Round(row) /\ UNCHANGED <<transform, optional>>
  BY DEF Take, declared
<1>2. \A c \in Columns \ optional :
        IF Adds(row)
          THEN counts'[c] = [counts[c] EXCEPT
                              ![IntervalStatus(previous, row, c)] = @ + 1]
          ELSE counts'[c] = counts[c]
  BY <1>1, RoundCounts DEF Adds
<1>3. /\ Pairs' = IF Adds(row) THEN Pairs \cup {Number} ELSE Pairs
      /\ Number \notin Pairs /\ IsFiniteSet(Pairs)
      /\ \A i \in Pairs : rows'[i] = rows[i] /\ rows'[i - 1] = rows[i - 1]
      /\ Number > 1 => rows'[Number - 1] = previous
      /\ rows'[Number] = row
  BY TakePairs
<1>4. CoverageComplete'
  <2> SUFFICES ASSUME NEW c \in Columns \ optional
               PROVE  Total(counts'[c]) = Cardinality(Pairs')
    BY <1>1 DEF CoverageComplete, Total, Comparable, Unmatched, Invalid
  <2>1. Total(counts[c]) = Cardinality(Pairs)
    BY DEF CoverageComplete, Total
  <2>2. CASE ~Adds(row)
    BY <1>2, <1>3, <2>1, <2>2
  <2>3. CASE Adds(row)
    <3>1. Total(counts'[c]) = Total(counts[c]) + 1
      <4> DEFINE s == IntervalStatus(previous, row, c)
      <4>1. s \in Statuses /\ counts[c] \in [Statuses -> Nat]
        BY IntervalStatusType DEF TypeOK
      <4>2. counts'[c] = [counts[c] EXCEPT ![s] = @ + 1]
        BY <1>2, <2>3
      <4> HIDE DEF s
      <4>3. QED
        BY <4>1, <4>2, Counted
    <3>2. Cardinality(Pairs') = Cardinality(Pairs) + 1
      BY <1>3, <2>3, FS_AddElement
    <3>3. QED
      BY <2>1, <3>1, <3>2
  <2>4. QED
    BY <2>2, <2>3
<1>5. StatusInv'
  <2> SUFFICES ASSUME NEW c \in Columns \ optional, NEW s \in Statuses
               PROVE  counts'[c][s] = Cardinality(Having(c, s)')
    BY <1>1 DEF StatusInv
  <2> DEFINE status == IntervalStatus(previous, row, c)
  <2>1. counts[c][s] = Cardinality(Having(c, s)) /\ counts[c] \in [Statuses -> Nat]
    BY DEF StatusInv, TypeOK
  <2>2. IsFiniteSet(Having(c, s)) /\ Number \notin Having(c, s)
    BY <1>3, FS_Subset DEF Having
  <2>3. Having(c, s)' = IF Adds(row) /\ status = s THEN Having(c, s) \cup {Number}
                                                   ELSE Having(c, s)
    <3>1. Having(c, s)' = {i \in Pairs' : IntervalStatus(rows'[i - 1], rows'[i], c) = s}
      BY <1>1 DEF Having, IntervalStatus, PairStatus, EpochStatus, ValueStatus
    <3>2. Adds(row) => rows'[Number - 1] = previous
      BY <1>3 DEF Adds
    <3>3. QED
      BY <1>3, <3>1, <3>2 DEF Having
  <2>4. CASE Adds(row) /\ status = s
    <3>1. counts'[c][s] = counts[c][s] + 1
      BY <1>2, <2>1, <2>4
    <3>2. Cardinality(Having(c, s) \cup {Number}) = Cardinality(Having(c, s)) + 1
      BY <2>2, FS_AddElement
    <3>3. Having(c, s)' = Having(c, s) \cup {Number}
      BY <2>3, <2>4
    <3>4. QED
      BY <2>1, <3>1, <3>2, <3>3
  <2>5. CASE ~(Adds(row) /\ status = s)
    <3>1. counts'[c][s] = counts[c][s]
      BY <1>2, <2>1, <2>5
    <3>2. QED
      BY <2>1, <2>3, <2>5, <3>1
  <2>6. QED
    BY <2>4, <2>5
<1>6. QED
  BY <1>4, <1>5

-----------------------------------------------------------------------------

LEMMA NextIInv == ASSUME IInv, [Next]_vars PROVE IInv'
<1>1. CASE Sample
  <2>1. PICK row : Take(row) /\ Sampled(row)
    BY <1>1, SampleRow
  <2>2. QED
    BY <2>1, TakeTypes, TakePrevious, TakeHistory, TakeChart, TakeCoverage DEF IInv
<1>2. CASE Reset
  BY <1>2, ResetIInv
<1>3. ASSUME NEW c \in Columns, Event(c) \/ Lose(c) PROVE IInv'
  BY <1>3, EventIInv, LoseIInv
<1>4. CASE UNCHANGED vars
  <2>1. UNCHANGED <<declared, server, sampled, series>>
    BY <1>4 DEF vars
  <2>2. UNCHANGED <<real, count, epoch, lost, rows, truth>>
    BY <2>1 DEF server, sampled
  <2>3. TypeOK'
    BY <2>1, <2>2, ServerStepTypes DEF IInv, TypeOK
  <2>4. /\ ChartTrue' /\ CoverageComplete' /\ StatusInv'
        /\ previous' = LastRow' /\ LatestInv'
        /\ Numbers' = Numbers /\ Seen' = Seen
    BY <2>1, <2>2, SampledUnchanged DEF IInv
  <2>5. TruthInv' /\ MarkerInv' /\ ServerInv' /\ PairInv'
    BY <2>2, <2>4 DEF IInv, TruthInv, MarkerInv, ServerInv, PairInv, Within
  <2>6. QED
    BY <2>3, <2>4, <2>5 DEF IInv
<1>5. QED
  BY <1>1, <1>2, <1>3, <1>4 DEF Next

(* The inductive invariant holds of every reachable state.                 *)
THEOREM Invariance == Spec => []IInv
<1>1. Init => IInv
  BY InitIInv
<1>2. IInv /\ [Next]_vars => IInv'
  BY NextIInv
<1>3. QED
  BY <1>1, <1>2, PTL DEF Spec

(* The variables keep their types: no delta of a counter is negative.      *)
THEOREM TypeCorrect == Spec => []TypeOK
<1>1. IInv => TypeOK
  BY DEF IInv
<1>2. QED
  BY <1>1, Invariance, PTL

(* Whatever is reset, lost or missing, a point of a counter's chart is     *)
(* what happened in its interval, or less if the server lost a counter     *)
(* without a mark (_transform_interval_points).                            *)
THEOREM ChartsTrue == Spec => []ChartTrue
<1>1. IInv => ChartTrue
  BY DEF IInv
<1>2. QED
  BY <1>1, Invariance, PTL

(* The coverage of a chart counts each interval of its row exactly once.   *)
THEOREM Covered == Spec => []CoverageComplete
<1>1. IInv => CoverageComplete
  BY DEF IInv
<1>2. QED
  BY <1>1, Invariance, PTL

(* The row of an endpoint table is comparable only when its two readings   *)
(* are under one marker (_table_row_interval_status).                      *)
LEMMA ShownTrue == ASSUME IInv PROVE TableTrue
<1> USE DEF IInv
<1> SUFFICES ASSUME Shown, NEW c \in Columns, Cell(c) # Nothing
             PROVE  LET happened == truth[Len(rows)][c] - truth[1][c]
                    IN  /\ 0 <= Cell(c) /\ Cell(c) <= happened
                        /\ ~lost => Cell(c) = happened
  BY DEF TableTrue
<1> DEFINE n == Len(rows)
<1>1. n \in Nat /\ n > 1 /\ TableStatus = "ok"
  BY DEF Shown, TypeOK
<1>2. Start # Nothing /\ Finish # Nothing
      /\ Combined({EpochStatus(Start, Finish)} \cup {ColumnStatus(d) : d \in Required})
            = "ok"
  BY <1>1 DEF TableStatus
<1>3. EpochStatus(Start, Finish) \notin {"epoch_changed", "invalid_value"}
  <2> DEFINE ss == {EpochStatus(Start, Finish)} \cup {ColumnStatus(d) : d \in Required}
  <2>1. EpochStatus(Start, Finish) \in ss
    OBVIOUS
  <2> HIDE DEF ss
  <2>2. "epoch_changed" \notin ss /\ "invalid_value" \notin ss
    BY <1>2 DEF Combined, ss
  <2>3. QED
    BY <2>1, <2>2
<1>4. Start.epoch = Finish.epoch
  BY <1>3 DEF EpochStatus
<1>5. 1 \in Seen /\ n \in Seen /\ 1 \in Numbers /\ n \in Numbers
  BY <1>1, <1>2 DEF Seen, Numbers, Start, Finish
<1>6. ColumnStatus(c) = "ok" /\ Cell(c) = Finish.value[c] - Start.value[c]
  BY DEF Cell
<1>7. /\ Start.value[c] \in Nat /\ Finish.value[c] \in Nat
      /\ Start.value[c] <= Finish.value[c]
  <2>1. Nothing \notin {Start.value[c], Finish.value[c]}
    BY <1>6 DEF ColumnStatus, CounterStatus
  <2>2. Start.value[c] \in Nat /\ Finish.value[c] \in Nat
    BY <1>5, <2>1, ServerTypes DEF Start, Finish
  <2>3. QED
    BY <1>6, <2>1, <2>2 DEF ColumnStatus, CounterStatus
<1>8. Within(Start.value[c], Finish.value[c], truth[1][c], truth[n][c])
  BY <1>1, <1>4, <1>5, <1>7 DEF PairInv, Start, Finish
<1>9. QED
  BY <1>6, <1>7, <1>8 DEF Within

(* A cell of an endpoint table is what happened between the first and the  *)
(* last sample, whatever the row went through in between.                  *)
THEOREM TablesTrue == Spec => []TableTrue
<1>1. IInv => TableTrue
  BY ShownTrue
<1>2. QED
  BY <1>1, Invariance, PTL

LEMMA StatusesAgree == ASSUME IInv PROVE TopNAgrees
<1> USE DEF IInv
<1> DEFINE changed == {i \in Pairs : /\ Nothing \notin {rows[i - 1], rows[i]}
                                     /\ EpochStatus(rows[i - 1], rows[i]) # "ok"}
<1> SUFFICES ASSUME changed = {}, transform = "delta",
                    NEW c \in Columns \ optional, NEW s \in Statuses
             PROVE  counts[c][s] =
                      Cardinality({i \in Pairs : TopNStatus(rows[i - 1], rows[i], c) = s})
  BY DEF TopNAgrees
<1>1. ASSUME NEW i \in Pairs
      PROVE  IntervalStatus(rows[i - 1], rows[i], c) = TopNStatus(rows[i - 1], rows[i], c)
  BY DEF IntervalStatus, PairStatus, ValueStatus, TopNStatus
<1>2. Having(c, s) = {i \in Pairs : TopNStatus(rows[i - 1], rows[i], c) = s}
  BY <1>1 DEF Having
<1>3. QED
  BY <1>2 DEF StatusInv

(* As long as no marker changes, a chart and a Top-N chart of a counter    *)
(* judge every interval alike.                                             *)
THEOREM ChartsAgree == Spec => []TopNAgrees
<1>1. IInv => TopNAgrees
  BY StatusesAgree
<1>2. QED
  BY <1>1, Invariance, PTL

-----------------------------------------------------------------------------
(* The items of a metric.                                                  *)

(* The collections of a metric are the samples of Counters, or stutter     *)
(* (build_metric_item sees failed collections as samples without rows).    *)
THEOREM Samples == ItemSpec => Spec
<1>1. ItemInit => Init
  BY DEF ItemInit
<1>2. [ItemNext]_itemVars => [Next]_vars
  <2>1. CASE Collect
    BY <2>1 DEF Collect, Next
  <2>2. CASE SamplerFails
    BY <2>2 DEF SamplerFails
  <2>3. CASE Reset \/ \E c \in Columns : Event(c) \/ Lose(c)
    BY <2>3 DEF Next
  <2>4. CASE UNCHANGED itemVars
    BY <2>4 DEF itemVars
  <2>5. QED
    BY <2>1, <2>2, <2>3, <2>4 DEF ItemNext
<1>3. QED
  BY <1>1, <1>2, PTL DEF ItemSpec, Spec

(* Whatever collections failed, a chart never shows more of a counter than *)
(* happened (_transform_interval_points).                                  *)
THEOREM ItemChartsTrue == ItemSpec => []ChartTrue
  BY Samples, ChartsTrue, PTL

(* Nor does a table (build_table_result).                                  *)
THEOREM ItemTablesTrue == ItemSpec => []TableTrue
  BY Samples, TablesTrue, PTL

-----------------------------------------------------------------------------
(* What an item that says nothing means.                                   *)

(* Each interval that could be compared has a point of its own.            *)
Drawn(i, c) ==
  \E k \in DOMAIN points[c] :
    points[c][k].value = rows[i].value[c] - rows[i - 1].value[c]

DrawnInv ==
  \A c \in Columns : \A i \in Pairs :
    IntervalStatus(rows[i - 1], rows[i], c) = "ok" => Drawn(i, c)

LEMMA TakeDrawn ==
  ASSUME IInv, DrawnInv, NEW row, Take(row), Sampled(row) PROVE DrawnInv'
<1> USE DEF IInv
<1>1. /\ UNCHANGED <<transform, optional>> /\ Round(row) /\ Len(rows) \in Nat
      /\ Pairs' \subseteq Pairs \cup {Number}
      /\ \A i \in Pairs : rows'[i] = rows[i] /\ rows'[i - 1] = rows[i - 1]
      /\ Number \in Pairs' => rows'[Number - 1] = previous /\ rows'[Number] = row
  <2>1. /\ Pairs' = IF Adds(row) THEN Pairs \cup {Number} ELSE Pairs
        /\ Number \notin Pairs
        /\ \A i \in Pairs : rows'[i] = rows[i] /\ rows'[i - 1] = rows[i - 1]
        /\ Number > 1 => rows'[Number - 1] = previous
        /\ rows'[Number] = row
    BY TakePairs
  <2>2. Number \in Pairs' => Number > 1
    BY <2>1 DEF Adds
  <2>3. Round(row) /\ UNCHANGED <<transform, optional>> /\ Len(rows) \in Nat
    BY DEF Take, declared, TypeOK
  <2>4. QED
    BY <2>1, <2>2, <2>3
<1>2. \A a, b, c : IntervalStatus(a, b, c)' = IntervalStatus(a, b, c)
  BY <1>1 DEF IntervalStatus, PairStatus, EpochStatus, ValueStatus
<1>3. SUFFICES ASSUME NEW c \in Columns, NEW i \in Pairs',
                      IntervalStatus(rows'[i - 1], rows'[i], c) = "ok"
               PROVE  \E k \in DOMAIN points'[c] :
                        points'[c][k].value = rows'[i].value[c] - rows'[i - 1].value[c]
  BY <1>1 DEF DrawnInv, Drawn, IntervalStatus, PairStatus, EpochStatus, ValueStatus
<1>4. PICK P : points[c] \in Seq(P)
  BY DEF TypeOK
<1>5. /\ DOMAIN points[c] \subseteq DOMAIN points'[c]
      /\ \A k \in DOMAIN points[c] : points'[c][k] = points[c][k]
  <2>1. CASE points' = points
    BY <2>1
  <2>2. ASSUME NEW value, points' = [d \in Columns |->
                             Append(points[d], [at |-> Number, value |-> value[d]])]
        PROVE  /\ DOMAIN points[c] \subseteq DOMAIN points'[c]
               /\ \A k \in DOMAIN points[c] : points'[c][k] = points[c][k]
    <3> DEFINE new == [at |-> Number, value |-> value[c]]
    <3>1. points'[c] = Append(points[c], new)
      BY <2>2
    <3> HIDE DEF new
    <3>2. QED
      BY <1>4, <3>1
  <2>3. QED
    BY <1>1, <2>1, <2>2, RoundPoints
<1>6. CASE i \in Pairs
  <2>1. rows'[i] = rows[i] /\ rows'[i - 1] = rows[i - 1]
    BY <1>1, <1>6
  <2>2. Drawn(i, c)
    BY <1>3, <1>6, <2>1 DEF DrawnInv
  <2>3. QED
    BY <1>5, <2>1, <2>2 DEF Drawn
<1>7. CASE i = Number
  <2>1. /\ IntervalStatus(previous, row, c) = "ok"
        /\ rows'[i - 1] = previous /\ rows'[i] = row
    BY <1>1, <1>3, <1>7
  <2>2. previous # Nothing /\ row # Nothing /\ PairStatus(previous, row, c) = "ok"
    BY <2>1 DEF IntervalStatus
  <2>3. AddPoint([d \in Columns |-> IF PairStatus(previous, row, d) = "ok"
                                      THEN row.value[d] - previous.value[d] ELSE Nothing])
    BY <1>1, <2>2 DEF Round, Goes
  <2> DEFINE new == [at |-> Number, value |-> row.value[c] - previous.value[c]]
  <2>4. points'[c] = Append(points[c], new)
    BY <2>2, <2>3 DEF AddPoint
  <2> HIDE DEF new
  <2>5. Len(points[c]) + 1 \in DOMAIN points'[c] /\ points'[c][Len(points[c]) + 1] = new
    BY <1>4, <2>4
  <2>6. new.value = row.value[c] - previous.value[c]
    BY DEF new
  <2>7. QED
    BY <2>1, <2>5, <2>6
<1>8. QED
  BY <1>1, <1>6, <1>7

LEMMA NextDrawn == ASSUME IInv, DrawnInv, [Next]_vars PROVE DrawnInv'
<1>1. CASE Sample
  BY <1>1, SampleRow, TakeDrawn
<1>2. CASE UNCHANGED <<declared, sampled, series>>
  <2>1. UNCHANGED <<transform, optional, rows, points>>
    BY <1>2 DEF declared, sampled, series
  <2>2. QED
    BY <2>1 DEF DrawnInv, Drawn, IntervalStatus, PairStatus, EpochStatus, ValueStatus, Pairs,
                Numbers
<1>3. QED
  BY <1>1, <1>2 DEF Next, Reset, Event, Lose, vars

LEMMA InitDrawn == Init => DrawnInv
  BY DEF Init, DrawnInv, Pairs, Numbers

(* When the row was seen and no interval lacks it, every sample has it.    *)
LEMMA SeenThroughout ==
  ASSUME TypeOK, SeenAtAll, \A i \in Pairs : rows[i - 1] # Nothing /\ rows[i] # Nothing
  PROVE  Seen = Numbers /\ Numbers = 1 .. Len(rows) /\ Len(rows) \in Nat \ {0}
<1>1. /\ Len(rows) \in Nat \ {0} /\ Numbers = 1 .. Len(rows)
      /\ rows \in Seq(Readings \cup {Nothing})
  BY DEF TypeOK, SeenAtAll, Numbers
<1>2. PICK j \in Numbers : rows[j] # Nothing
  BY <1>1 DEF SeenAtAll, ToSet
<1>3. \A i \in Numbers : i > 1 => (rows[i - 1] = Nothing <=> rows[i] = Nothing)
  BY DEF Pairs
<1> DEFINE Up == {n \in Nat : j + n \in Numbers => rows[j + n] # Nothing}
           Down == {n \in Nat : j - n \in Numbers => rows[j - n] # Nothing}
<1>4. Nat \subseteq Up
  <2>1. 0 \in Up
    BY <1>1, <1>2
  <2>2. ASSUME NEW n \in Nat, n \in Up PROVE n + 1 \in Up
    <3> SUFFICES ASSUME j + (n + 1) \in Numbers PROVE rows[j + (n + 1)] # Nothing
      OBVIOUS
    <3>1. /\ j + n \in Numbers /\ j + (n + 1) > 1 /\ (j + (n + 1)) - 1 = j + n
      BY <1>1
    <3>2. QED
      BY <1>3, <2>2, <3>1
  <2>3. QED
    <3> HIDE DEF Up
    <3>1. QED
      BY <2>1, <2>2, SetInduction
<1>5. Nat \subseteq Down
  <2>1. 0 \in Down
    BY <1>1, <1>2
  <2>2. ASSUME NEW n \in Nat, n \in Down PROVE n + 1 \in Down
    <3> SUFFICES ASSUME j - (n + 1) \in Numbers PROVE rows[j - (n + 1)] # Nothing
      OBVIOUS
    <3>1. /\ j - n \in Numbers /\ j - n > 1 /\ (j - n) - 1 = j - (n + 1)
      BY <1>1
    <3>2. QED
      BY <1>3, <2>2, <3>1
  <2>3. QED
    <3> HIDE DEF Down
    <3>1. QED
      BY <2>1, <2>2, SetInduction
<1>6. ASSUME NEW i \in Numbers PROVE rows[i] # Nothing
  <2>1. CASE i >= j
    <3>1. i - j \in Nat /\ j + (i - j) = i
      BY <1>1, <2>1
    <3>2. QED
      BY <1>4, <3>1
  <2>2. CASE i < j
    <3>1. j - i \in Nat /\ j - (j - i) = i
      BY <1>1, <2>2
    <3>2. QED
      BY <1>5, <3>1
  <2>3. QED
    BY <1>1, <2>1, <2>2
<1>7. QED
  BY <1>1, <1>6 DEF Seen

(* A counter that moved in no interval did not move.                       *)
LEMMA StillThroughout ==
  ASSUME TypeOK, Len(rows) \in Nat \ {0}, NEW c,
         \A i \in 2 .. Len(rows) : truth[i - 1][c] = truth[i][c]
  PROVE  Quiet(c)
<1> DEFINE Still == {n \in Nat : n + 1 \in 1 .. Len(rows) => truth[1][c] = truth[n + 1][c]}
<1>1. 0 \in Still
  OBVIOUS
<1>2. ASSUME NEW n \in Nat, n \in Still PROVE n + 1 \in Still
  <2> SUFFICES ASSUME (n + 1) + 1 \in 1 .. Len(rows) PROVE truth[1][c] = truth[(n + 1) + 1][c]
    OBVIOUS
  <2>1. n + 1 \in 1 .. Len(rows) /\ (n + 1) + 1 \in 2 .. Len(rows) /\ ((n + 1) + 1) - 1 = n + 1
    OBVIOUS
  <2>2. QED
    BY <1>2, <2>1
<1>3. Nat \subseteq Still
  <2> HIDE DEF Still
  <2>1. QED
    BY <1>1, <1>2, SetInduction
<1>4. Len(rows) - 1 \in Nat /\ (Len(rows) - 1) + 1 = Len(rows) /\ Len(rows) \in 1 .. Len(rows)
  OBVIOUS
<1>5. QED
  BY <1>3, <1>4 DEF Quiet

(* Two readings under one marker that are the same.                        *)
LEMMA SameReading ==
  ASSUME IInv, ~lost, NEW i \in Seen, NEW j \in Seen, i < j, NEW c \in Columns,
         rows[i].epoch = rows[j].epoch, Nothing \notin {rows[i].value[c], rows[j].value[c]},
         rows[i].value[c] = rows[j].value[c]
  PROVE  truth[i][c] = truth[j][c]
<1>1. Within(rows[i].value[c], rows[j].value[c], truth[i][c], truth[j][c])
  BY DEF IInv, PairInv
<1>2. truth[i][c] \in Nat /\ truth[j][c] \in Nat /\ rows[i].value[c] \in Nat
  BY ServerTypes DEF IInv, Seen
<1>3. QED
  BY <1>1, <1>2 DEF Within

LEMMA FourZeros ==
  ASSUME NEW a \in Nat, NEW b \in Nat, NEW c \in Nat, NEW d \in Nat, a + b + c + d = 0
  PROVE  a = 0 /\ b = 0 /\ c = 0 /\ d = 0
OBVIOUS

(* What an item that says nothing of what is missing stands for.           *)
LEMMA SilentMeans ==
  ASSUME NEW shows \in BOOLEAN, NEW n \in [Statuses -> Nat], Silent(shows, n)
  PROVE  /\ ~shows
         /\ \A s \in Statuses \ {"ok", "no_activity"} : n[s] = 0
<1>1. ItemStatus(shows) = "empty" /\ Item(shows, n).reason = "none" /\ Unmatched(n) = 0
  BY DEF Silent, Item
<1>2. ~SourceFailed /\ ~shows
  <2>1. SourceStatus # "empty"
    BY DEF SourceStatus, Failure
  <2>2. QED
    BY <1>1, <2>1 DEF ItemStatus
<1>3. Feedback(n, shows) = "none"
  BY <1>1, <1>2 DEF Item
<1>4. \A s \in Statuses : n[s] \in Nat
  OBVIOUS
<1>5. Invalid(n) \in Nat /\ Invalid(n) = 0
  <2>1. Invalid(n) \in Nat
    BY <1>4 DEF Invalid, Statuses
  <2>2. QED
    BY <1>3, <2>1 DEF Feedback
<1>6. n["missing_start"] = 0 /\ n["missing_end"] = 0
  <2>1. n["missing_start"] \in Nat /\ n["missing_end"] \in Nat
    BY <1>4 DEF Statuses
  <2>2. QED
    BY <1>1, <2>1 DEF Unmatched
<1>7. \A s \in {"epoch_changed", "counter_decrease", "invalid_value", "invalid_interval"} : n[s] = 0
  <2>1. /\ n["epoch_changed"] \in Nat /\ n["counter_decrease"] \in Nat
        /\ n["invalid_value"] \in Nat /\ n["invalid_interval"] \in Nat
    BY <1>4 DEF Statuses
  <2>2. /\ n["epoch_changed"] = 0 /\ n["counter_decrease"] = 0
        /\ n["invalid_value"] = 0 /\ n["invalid_interval"] = 0
    BY <1>5, <2>1, FourZeros DEF Invalid
  <2>3. QED
    BY <2>2
<1>8. QED
  BY <1>2, <1>6, <1>7 DEF Statuses

LEMMA ChartSums ==
  ASSUME IInv
  PROVE  /\ ChartCoverage \in [Statuses -> Nat]
         /\ \A s \in Statuses : ChartCoverage[s] = 0 => \A c \in Columns : counts[c][s] = 0
<1> SUFFICES ASSUME NEW s \in Statuses
             PROVE  /\ Sum([c \in Columns |-> counts[c][s]]) \in Nat
                    /\ Sum([c \in Columns |-> counts[c][s]]) = 0
                         => \A c \in Columns : counts[c][s] = 0
  <2>1. ChartCoverage = [s \in Statuses |-> Sum([c \in Columns |-> counts[c][s]])]
    BY DEF ChartCoverage, Sum
  <2>2. QED
    BY <2>1
<1> DEFINE f == [c \in Columns |-> counts[c][s]]
<1>1. f \in [Columns -> Nat] /\ \A c \in Columns : f[c] = counts[c][s]
  BY DEF IInv, TypeOK
<1> HIDE DEF f
<1>2. Sum(f) \in Nat /\ (Sum(f) = 0 => \A c \in Columns : f[c] = 0)
  BY <1>1, SumZero
<1>3. QED
  BY <1>1, <1>2 DEF f

LEMMA ChartSilence ==
  ASSUME IInv, DrawnInv, ~lost, SeenAtAll, transform = "delta",
         Silent(ChartShows, ChartCoverage), NEW c \in Columns \ optional
  PROVE  Quiet(c)
<1> USE DEF IInv
<1>1. ~ChartShows /\ \A s \in Statuses \ {"ok", "no_activity"} : ChartCoverage[s] = 0
  <2>1. ChartShows \in BOOLEAN
    BY DEF ChartShows
  <2>2. QED
    BY <2>1, SilentMeans, ChartSums
<1>2. ASSUME NEW s \in Statuses \ {"ok", "no_activity"} PROVE Having(c, s) = {}
  <2>1. counts[c][s] = 0
    BY <1>1, <1>2, ChartSums
  <2>2. IsFiniteSet(Having(c, s))
    <3>1. IsFiniteSet(1 .. Len(rows))
      BY FS_Interval DEF TypeOK
    <3>2. Having(c, s) \subseteq 1 .. Len(rows)
      BY DEF Having, Pairs, Numbers
    <3>3. QED
      BY <3>1, <3>2, FS_Subset
  <2>3. QED
    BY <2>1, <2>2, FS_EmptySet DEF StatusInv
<1>3. ASSUME NEW i \in Pairs PROVE IntervalStatus(rows[i - 1], rows[i], c) = "ok"
  <2>1. IntervalStatus(rows[i - 1], rows[i], c) \in {"ok", "no_activity"}
    BY <1>2, IntervalStatusType DEF Having
  <2>2. IntervalStatus(rows[i - 1], rows[i], c) # "no_activity"
    BY DEF IntervalStatus, PairStatus, EpochStatus, ValueStatus, CounterStatus
  <2>3. QED
    BY <2>1, <2>2
<1>4. \A i \in Pairs : rows[i - 1] # Nothing /\ rows[i] # Nothing
                       /\ PairStatus(rows[i - 1], rows[i], c) = "ok"
  BY <1>3 DEF IntervalStatus
<1>5. Seen = Numbers /\ Numbers = 1 .. Len(rows) /\ Len(rows) \in Nat \ {0}
  BY <1>4, SeenThroughout
<1>6. ASSUME NEW i \in 2 .. Len(rows) PROVE truth[i - 1][c] = truth[i][c]
  <2>1. i \in Seen /\ i - 1 \in Seen /\ i - 1 < i /\ i \in Numbers /\ i > 1
    BY <1>5
  <2>2. i \in Pairs
    BY <2>1 DEF Pairs, Seen
  <2>3. rows[i - 1] \in Readings /\ rows[i] \in Readings
    BY <2>1, ServerTypes
  <2>4. /\ rows[i - 1].epoch = rows[i].epoch
        /\ rows[i - 1].value[c] \in Nat /\ rows[i].value[c] \in Nat
    BY <1>4, <2>2, <2>3, PairOk
  <2>5. PICK k \in DOMAIN points[c] : points[c][k].value = rows[i].value[c] - rows[i - 1].value[c]
    BY <1>3, <2>2 DEF DrawnInv, Drawn
  <2>6. points[c][k].value \in Known(c)
    <3>1. points[c][k].value # Nothing
      BY <2>4, <2>5
    <3>2. points[c][k] \in ToSet(points[c])
      BY DEF ToSet
    <3>3. QED
      BY <3>1, <3>2 DEF Known
  <2>7. Known(c) = {0}
    BY <1>1, <2>6 DEF ChartShows, ZeroSeries
  <2>8. rows[i - 1].value[c] = rows[i].value[c]
    BY <2>4, <2>5, <2>6, <2>7
  <2>9. Nothing \notin {rows[i - 1].value[c], rows[i].value[c]}
    BY <2>4
  <2>10. QED
    BY <2>1, <2>4, <2>8, <2>9, SameReading
<1>7. QED
  BY <1>5, <1>6, StillThroughout

LEMMA TableSilence ==
  ASSUME IInv, ~lost, SeenAtAll, {Start, Finish} # {Nothing},
         Silent(Shown, TableCoverage), NEW c \in Columns \ optional
  PROVE  Quiet(c)
<1> USE DEF IInv
<1>1. Len(rows) \in Nat \ {0} /\ DOMAIN rows = 1 .. Len(rows)
  BY DEF TypeOK, SeenAtAll
<1>2. ~Shown /\ \A s \in Statuses \ {"ok", "no_activity"} : TableCoverage[s] = 0
  <2>1. Shown \in BOOLEAN
    BY DEF Shown
  <2>2. TableCoverage \in [Statuses -> Nat]
    BY DEF TableCoverage
  <2>3. QED
    BY <2>1, <2>2, SilentMeans
<1>3. CASE Len(rows) = 1
  BY <1>3 DEF Quiet
<1>4. CASE Len(rows) > 1
  <2>1. \A s \in Statuses \ {"ok", "no_activity"} : TableStatus # s
    BY <1>2, <1>4 DEF TableCoverage
  <2> DEFINE ss == {EpochStatus(Start, Finish)} \cup {ColumnStatus(d) : d \in Required}
  <2>2. Start # Nothing /\ Finish # Nothing /\ Combined(ss) \notin Statuses \ {"ok", "no_activity"}
    <3>1. TableStatus \notin {"missing_start", "missing_end", "invalid_interval"}
      BY <2>1 DEF Statuses
    <3>2. QED
      BY <2>1, <3>1 DEF TableStatus
  <2> HIDE DEF ss
  <2>3. ss \cap {"epoch_changed", "counter_decrease", "invalid_value"} = {}
    BY <2>2 DEF Combined, Statuses
  <2>4. Start.epoch = Finish.epoch
    BY <2>3 DEF ss, EpochStatus
  <2>5. ColumnStatus(c) = "ok"
    <3>1. c \in Required
      BY DEF Required
    <3>2. ColumnStatus(c) \in ss
      BY <3>1 DEF ss
    <3>3. QED
      BY <2>3, <3>2 DEF ColumnStatus, CounterStatus
  <2>6. 1 \in Seen /\ Len(rows) \in Seen /\ 1 < Len(rows)
    BY <1>1, <1>4, <2>2 DEF Seen, Numbers, Start, Finish
  <2>7. Nothing \notin {Start.value[c], Finish.value[c]}
    BY <2>5 DEF ColumnStatus, CounterStatus
  <2>8. Start.value[c] \in Nat /\ Finish.value[c] \in Nat
    BY <2>6, <2>7, ServerTypes DEF Start, Finish
  <2>9. Cell(c) \in {Nothing, 0} /\ Cell(c) = Finish.value[c] - Start.value[c]
    <3>1. TableStatus = "ok"
      <4>1. TableStatus \in Statuses
        BY DEF TableStatus, Combined, Statuses
      <4>2. TableStatus # "no_activity"
        BY DEF TableStatus, Combined
      <4>3. QED
        BY <2>1, <4>1, <4>2
    <3>2. QED
      BY <1>2, <1>4, <2>5, <3>1 DEF Shown, Cell
  <2>10. Start.value[c] = Finish.value[c]
    BY <2>8, <2>9
  <2>11. truth[1][c] = truth[Len(rows)][c]
    BY <2>4, <2>6, <2>7, <2>10, SameReading DEF Start, Finish
  <2>12. QED
    BY <2>11 DEF Quiet
<1>5. QED
  BY <1>1, <1>3, <1>4

(* An interval that a Top-N chart judges and shows nothing of.             *)
LEMMA RankStill ==
  ASSUME IInv, ~lost, SameMarker, NEW i \in Seen, NEW j \in Seen, i < j, NEW c \in Columns,
         Rank(<<i, j>>, c) = "ok", ~(rows[j].value[c] > rows[i].value[c])
  PROVE  truth[i][c] = truth[j][c]
<1> USE DEF IInv
<1>1. Nothing \notin {rows[i].value[c], rows[j].value[c]} /\ ~(rows[j].value[c] < rows[i].value[c])
  BY DEF Rank, TopNStatus, CounterStatus
<1>2. rows[i].value[c] \in Nat /\ rows[j].value[c] \in Nat
  BY <1>1, ServerTypes
<1>3. rows[i].value[c] = rows[j].value[c]
  BY <1>1, <1>2
<1>4. rows[i].epoch = rows[j].epoch
  <2> DEFINE marks == {row.epoch : row \in ToSet(rows) \ {Nothing}}
  <2>0. Len(rows) \in Nat /\ DOMAIN rows = 1 .. Len(rows)
    BY DEF TypeOK
  <2>1. rows[i].epoch \in marks /\ rows[j].epoch \in marks
    <3>1. \A k \in Seen : rows[k] \in ToSet(rows) \ {Nothing}
      BY <2>0 DEF Seen, Numbers, ToSet
    <3>2. QED
      BY <3>1
  <2>2. IsFiniteSet(marks)
    <3>1. IsFiniteSet(1 .. Len(rows))
      BY <2>0, FS_Interval
    <3> DEFINE f == [k \in 1 .. Len(rows) |-> rows[k].epoch]
    <3>2. IsFiniteSet({f[k] : k \in 1 .. Len(rows)})
      <4> HIDE DEF f
      <4>1. QED
        BY <3>1, ImageFinite
    <3>3. marks \subseteq {f[k] : k \in 1 .. Len(rows)}
      BY DEF ToSet, TypeOK
    <3>4. QED
      BY <3>2, <3>3, FS_Subset
  <2>3. Cardinality(marks) = 1
    BY DEF SameMarker
  <2> HIDE DEF marks
  <2>4. PICK m : marks = {m}
    BY <2>2, <2>3, FS_Singleton
  <2>5. QED
    BY <2>1, <2>4
<1>5. QED
  BY <1>1, <1>3, <1>4, SameReading

LEMMA RanksFinite ==
  ASSUME IInv, NEW mode, NEW c \in Columns
  PROVE  /\ TopNCoverage(mode, c) \in [Statuses -> Nat]
         /\ \A s \in Statuses : TopNCoverage(mode, c)[s] = 0 =>
               \A p \in Intervals(mode) : Rank(p, c) # s
<1>1. IsFiniteSet(Intervals(mode))
  <2>1. Len(rows) \in Nat
    BY DEF IInv, TypeOK
  <2>2. IsFiniteSet(2 .. Len(rows)) /\ IsFiniteSet({<<1, Len(rows)>>})
    <3>1. IsFiniteSet(2 .. Len(rows))
      BY <2>1, FS_Interval
    <3>2. IsFiniteSet({<<1, Len(rows)>>})
      BY FS_Singleton
    <3>3. QED
      BY <3>1, <3>2
  <2>3. IsFiniteSet({<<i - 1, i>> : i \in 2 .. Len(rows)})
    <3> DEFINE f == [i \in 2 .. Len(rows) |-> <<i - 1, i>>]
    <3>1. IsFiniteSet({f[i] : i \in 2 .. Len(rows)})
      <4> HIDE DEF f
      <4>1. QED
        BY <2>2, ImageFinite
    <3>2. QED
      BY <3>1
  <2>4. \/ Intervals(mode) = {} \/ Intervals(mode) \subseteq {<<i - 1, i>> : i \in 2 .. Len(rows)}
        \/ Intervals(mode) \subseteq {<<1, Len(rows)>>}
    BY DEF Intervals
  <2>5. QED
    BY <2>2, <2>3, <2>4, FS_Subset, FS_EmptySet
<1>2. ASSUME NEW s \in Statuses
      PROVE  LET with == {p \in Intervals(mode) : Rank(p, c) = s}
             IN  IsFiniteSet(with) /\ Cardinality(with) \in Nat /\ (Cardinality(with) = 0 => with = {})
  <2> DEFINE with == {p \in Intervals(mode) : Rank(p, c) = s}
  <2>1. IsFiniteSet(with)
    BY <1>1, FS_Subset
  <2> HIDE DEF with
  <2>2. Cardinality(with) \in Nat /\ (Cardinality(with) = 0 => with = {})
    BY <2>1, FS_CardinalityType, FS_EmptySet
  <2>3. QED
    BY <2>1, <2>2 DEF with
<1>3. QED
  BY <1>2 DEF TopNCoverage

LEMMA TopNSilence ==
  ASSUME IInv, ~lost, SeenAtAll, SameMarker, NEW c \in Columns, NEW mode \in {"interval", "first_last"},
         Silent(TopNShows(mode, c), TopNCoverage(mode, c)),
         mode = "first_last" => {Start, Finish} # {Nothing}
  PROVE  Quiet(c)
<1> USE DEF IInv
<1>1. Len(rows) \in Nat \ {0} /\ DOMAIN rows = 1 .. Len(rows)
  BY DEF TypeOK, SeenAtAll
<1>2. /\ ~TopNShows(mode, c)
      /\ \A s \in Statuses \ {"ok", "no_activity"} : TopNCoverage(mode, c)[s] = 0
  <2>1. TopNShows(mode, c) \in BOOLEAN
    BY DEF TopNShows
  <2>2. TopNCoverage(mode, c) \in [Statuses -> Nat]
    BY RanksFinite
  <2>3. QED
    BY <2>1, <2>2, SilentMeans
<1>3. ASSUME NEW p \in Intervals(mode)
      PROVE  Rank(p, c) = "ok" /\ ~(rows[p[2]].value[c] > rows[p[1]].value[c])
  <2>1. \A s \in Statuses \ {"ok", "no_activity"} : Rank(p, c) # s
    BY <1>2, RanksFinite
  <2>2. Rank(p, c) \in Statuses \ {"no_activity"}
    BY DEF Rank, TopNStatus, CounterStatus, Statuses
  <2>3. QED
    BY <1>2, <2>1, <2>2 DEF TopNShows
<1>4. CASE Len(rows) = 1
  BY <1>4 DEF Quiet
<1>5. CASE Len(rows) > 1 /\ mode = "first_last"
  <2>1. <<1, Len(rows)>> \in Intervals(mode)
    <3> DEFINE p == <<1, Len(rows)>>
    <3>1. Intervals(mode) = {q \in {p} : {rows[q[1]], rows[q[2]]} # {Nothing}}
      BY <1>1, <1>5 DEF Intervals
    <3>2. p[1] = 1 /\ p[2] = Len(rows)
      OBVIOUS
    <3>3. {rows[1], rows[Len(rows)]} # {Nothing}
      BY <1>5 DEF Start, Finish
    <3> HIDE DEF p
    <3>4. QED
      BY <3>1, <3>2, <3>3 DEF p
  <2>2. Rank(<<1, Len(rows)>>, c) = "ok" /\ ~(rows[Len(rows)].value[c] > rows[1].value[c])
    BY <1>3, <2>1
  <2>3. rows[1] # Nothing /\ rows[Len(rows)] # Nothing
    BY <2>2 DEF Rank, TopNStatus
  <2>4. 1 \in Seen /\ Len(rows) \in Seen /\ 1 < Len(rows)
    BY <1>1, <1>5, <2>3 DEF Seen, Numbers
  <2>5. QED
    BY <2>2, <2>4, RankStill DEF Quiet
<1>6. CASE Len(rows) > 1 /\ mode = "interval"
  <2>1. ASSUME NEW i \in 2 .. Len(rows), {rows[i - 1], rows[i]} # {Nothing}
        PROVE  /\ Rank(<<i - 1, i>>, c) = "ok" /\ ~(rows[i].value[c] > rows[i - 1].value[c])
               /\ rows[i - 1] # Nothing /\ rows[i] # Nothing
    <3>1. <<i - 1, i>> \in Intervals(mode)
      <4> DEFINE p == <<i - 1, i>>
                 pairs == {<<j - 1, j>> : j \in 2 .. Len(rows)}
      <4>1. Intervals(mode) = {q \in pairs : {rows[q[1]], rows[q[2]]} # {Nothing}}
        BY <1>1, <1>6 DEF Intervals
      <4>2. p[1] = i - 1 /\ p[2] = i /\ p \in pairs
        OBVIOUS
      <4> HIDE DEF p, pairs
      <4>3. p \in Intervals(mode)
        BY <2>1, <4>1, <4>2
      <4>4. QED
        BY <4>3 DEF p
    <3>2. Rank(<<i - 1, i>>, c) = "ok" /\ ~(rows[i].value[c] > rows[i - 1].value[c])
      BY <1>3, <3>1
    <3>3. QED
      BY <3>2 DEF Rank, TopNStatus
  <2>2. \A i \in Pairs : rows[i - 1] # Nothing /\ rows[i] # Nothing
    <3> SUFFICES ASSUME NEW i \in Pairs PROVE rows[i - 1] # Nothing /\ rows[i] # Nothing
      OBVIOUS
    <3>1. i \in Numbers /\ i > 1 /\ {rows[i - 1], rows[i]} # {Nothing}
      BY DEF Pairs
    <3>2. i \in 2 .. Len(rows)
      BY <1>1, <3>1 DEF Numbers
    <3>3. QED
      BY <2>1, <3>1, <3>2
  <2>3. Seen = Numbers /\ Numbers = 1 .. Len(rows)
    BY <2>2, SeenThroughout
  <2>4. ASSUME NEW i \in 2 .. Len(rows) PROVE truth[i - 1][c] = truth[i][c]
    <3>1. i \in Seen /\ i - 1 \in Seen /\ i - 1 < i
      BY <1>1, <2>3
    <3>2. {rows[i - 1], rows[i]} # {Nothing}
      BY <3>1 DEF Seen
    <3>3. QED
      BY <2>1, <3>1, <3>2, RankStill
  <2>5. QED
    BY <1>1, <2>4, StillThroughout
<1>7. QED
  BY <1>1, <1>4, <1>5, <1>6

(* An item that is empty and silent means that nothing happened            *)
(* (build_metric_item), whatever was missing in between.                   *)
THEOREM SilenceTrue == ItemSpec => []SilenceIsQuiet
<1>1. IInv /\ DrawnInv => SilenceIsQuiet
  <2> SUFFICES ASSUME IInv, DrawnInv, ~lost, SeenAtAll
               PROVE  /\ transform = "delta" /\ Silent(ChartShows, ChartCoverage)
                           => \A c \in Columns \ optional : Quiet(c)
                      /\ Silent(Shown, TableCoverage) /\ {Start, Finish} # {Nothing}
                           => \A c \in Columns \ optional : Quiet(c)
                      /\ SameMarker => \A c \in Columns :
                           /\ Silent(TopNShows("interval", c), TopNCoverage("interval", c))
                                => Quiet(c)
                           /\ Silent(TopNShows("first_last", c), TopNCoverage("first_last", c))
                                /\ {Start, Finish} # {Nothing} => Quiet(c)
    BY DEF SilenceIsQuiet
  <2>1. transform = "delta" /\ Silent(ChartShows, ChartCoverage)
          => \A c \in Columns \ optional : Quiet(c)
    BY ChartSilence
  <2>2. Silent(Shown, TableCoverage) /\ {Start, Finish} # {Nothing}
          => \A c \in Columns \ optional : Quiet(c)
    BY TableSilence
  <2>3. ASSUME SameMarker, NEW c \in Columns
        PROVE  /\ Silent(TopNShows("interval", c), TopNCoverage("interval", c)) => Quiet(c)
               /\ Silent(TopNShows("first_last", c), TopNCoverage("first_last", c))
                    /\ {Start, Finish} # {Nothing} => Quiet(c)
    BY <2>3, TopNSilence
  <2>4. QED
    BY <2>1, <2>2, <2>3
<1>2. Init => DrawnInv
  BY InitDrawn
<1>3. IInv /\ DrawnInv /\ [Next]_vars => DrawnInv'
  BY NextDrawn
<1>4. QED
  BY <1>1, <1>2, <1>3, Samples, Invariance, PTL DEF Spec
=============================================================================

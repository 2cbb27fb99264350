-------------------------- MODULE ServerLog_proofs --------------------------
(***************************************************************************)
(* The server log: the discovery of its directory (LogDirectory), and the  *)
(* items of its section and the value budget of their rows (LogItems).     *)
(*                                                                         *)
(* Discovery, for every directory whose files are written in the order of  *)
(* time, every size of a probe, every budget and every change of the       *)
(* offset.  First what is read of a file, as a function of its lines: the  *)
(* records of a file that grows are those it had and the new one           *)
(* (GrowthRight).  Then the order of the files and the bounds of the       *)
(* window, which hold every record of the window (WindowRight), and the    *)
(* invariant: while files are verified that would be left out, the newest  *)
(* date is an exact one, and what would be left out on a date that nothing *)
(* proves is still to be verified.                                         *)
(*                                                                         *)
(* The items, for every plan, every log of the messages told apart, every  *)
(* row, bucket, point and pool limit and every budget.  First what the     *)
(* operators of the items return, item by item: grouping, ranking within a *)
(* bucket, the charts.  Whatever it is given to look at, an item returns   *)
(* rows that refer to two texts at most and shows something of what it has *)
(* (CollectRight), and it takes of the log what its clauses recall         *)
(* (WholeLog).  Then what the budget keeps of the rows (RetainedRight),    *)
(* and last the invariant: what is recorded of each item agrees with what  *)
(* it made of the window.                                                  *)
(***************************************************************************)
EXTENDS LogDirectory, LogItems, Folding

-----------------------------------------------------------------------------
(* Discovery: what is read of a file.                                      *)

DiskFile == [lines : Seq(Line), torn : BOOLEAN]
Sound(f) == f \in DiskFile /\ (f.torn => f.lines # <<>>)

(* A state of reading: the dates of its records begin lines of the file.   *)
Dates(f) == {f.lines[i].date : i \in DOMAIN f.lines}
Complete(D) == [date : D, end : Nat]
Reads(D) == [odd : BOOLEAN, start : D \cup {-1}, recs : Seq(Complete(D))]

(* What a file is made of.                                                 *)
LEMMA LineTypes ==
  ASSUME NEW f, Sound(f)
  PROVE  /\ Len(f.lines) \in Nat /\ f.lines \in Seq(Line)
         /\ Whole(f) \in Nat /\ Whole(f) <= Len(f.lines)
         /\ \A i \in 1..Len(f.lines) :
              f.lines[i] \in Line /\ f.lines[i].date \in Dates(f) /\ f.lines[i].date \in Nat
                /\ f.lines[i].odd \in BOOLEAN
         /\ Dates(f) \subseteq Nat
<1>1. f.lines \in Seq(Line) /\ f.torn \in BOOLEAN
  BY DEF Sound, DiskFile
<1>2. \A i \in 1..Len(f.lines) : f.lines[i] \in Line
  BY <1>1
<1>3. \A line \in Line : line.date \in Nat /\ line.odd \in BOOLEAN
  BY Zenon DEF Line
<1>4. f.torn => Len(f.lines) # 0
  BY <1>1 DEF Sound
<1>5. DOMAIN f.lines = 1..Len(f.lines) /\ Len(f.lines) \in Nat
  BY <1>1
<1>6. Whole(f) \in Nat /\ Whole(f) <= Len(f.lines)
  BY <1>4, <1>5 DEF Whole
<1>7. QED
  BY <1>1, <1>2, <1>3, <1>5, <1>6 DEF Dates

(* A line read leads to a state of reading.                                *)
LEMMA NextLineType ==
  ASSUME NEW D, NEW acc \in Reads(D), NEW line, line.date \in D, line.odd \in BOOLEAN, NEW k \in Nat
  PROVE  NextLine(acc, line, k) \in Reads(D)
<1> DEFINE open == IF acc.odd THEN acc.start ELSE line.date
           odd == acc.odd # line.odd
           recs == IF ~odd /\ open # -1 THEN Append(acc.recs, [date |-> open, end |-> k]) ELSE acc.recs
<1>1. acc.start \in D \cup {-1} /\ acc.recs \in Seq(Complete(D))
  BY Zenon DEF Reads
<1>2. open \in D \cup {-1}
  BY <1>1
<1>3. odd \in BOOLEAN
  OBVIOUS
<1>4. recs \in Seq(Complete(D))
  <2>1. open # -1 => [date |-> open, end |-> k] \in Complete(D)
    BY <1>2 DEF Complete
  <2> HIDE DEF open, odd
  <2>2. QED
    BY <1>1, <2>1
<1>5. NextLine(acc, line, k) = [odd |-> odd, start |-> open, recs |-> recs]
  BY Zenon DEF NextLine
<1> HIDE DEF open, odd, recs
<1>6. [odd |-> odd, start |-> open, recs |-> recs] \in Reads(D)
  BY <1>2, <1>3, <1>4, Zenon DEF Reads
<1>7. QED
  BY <1>5, <1>6

(* So does the start of a chunk.                                           *)
LEMMA FirstStateType ==
  ASSUME NEW f, NEW offset \in Nat
  PROVE  FirstState(f, offset) \in Reads(Dates(f))
<1>1. <<>> \in Seq(Complete(Dates(f))) /\ -1 \in Dates(f) \cup {-1}
  OBVIOUS
<1>2. (offset > 0 /\ offset < Whole(f) /\ f.lines[offset + 1].odd) \in BOOLEAN
  OBVIOUS
<1>3. QED
  BY <1>1, <1>2, Zenon DEF FirstState, Reads

(* complete_records line by line.                                          *)
LEMMA ReadingRight ==
  ASSUME NEW f, Sound(f), NEW offset \in Nat
  PROVE  /\ Reading(f, offset) \in [0..Whole(f) -> Reads(Dates(f))]
         /\ Reading(f, offset)[0] = FirstState(f, offset)
         /\ \A i \in 1..Whole(f) : Reading(f, offset)[i] =
              IF i <= Before(offset) THEN FirstState(f, offset)
              ELSE NextLine(Reading(f, offset)[i - 1], f.lines[i], i)
<1> DEFINE V == Reads(Dates(f))
           n == Whole(f)
           first == FirstState(f, offset)
           step == [i \in 1..n |-> [acc \in V |-> IF i <= Before(offset) THEN first
                                                  ELSE NextLine(acc, f.lines[i], i)]]
<1>1. n \in Nat /\ first \in V /\ Before(offset) \in Nat
  BY LineTypes, FirstStateType DEF Before
<1>2. \A i \in 1..n, acc \in V :
        step[i][acc] = IF i <= Before(offset) THEN first ELSE NextLine(acc, f.lines[i], i)
  OBVIOUS
<1>3. ASSUME NEW i \in 1..n, NEW acc \in V PROVE step[i][acc] \in V
  <2>1. i \in Nat /\ f.lines[i].date \in Dates(f) /\ f.lines[i].odd \in BOOLEAN
    BY LineTypes
  <2>2. NextLine(acc, f.lines[i], i) \in V
    BY <2>1, NextLineType
  <2> HIDE DEF V, n, first, step
  <2>3. QED
    BY <1>1, <1>2, <2>2
<1>4. PICK g \in [0..n -> V] : g[0] = first /\ \A i \in 1..n : g[i] = step[i][g[i - 1]]
  <2>1. \A i \in 1..n, acc \in V : step[i][acc] \in V
    BY <1>3
  <2> HIDE DEF V, n, first, step
  <2>2. n \in Nat /\ first \in V
    BY <1>1
  <2>3. PICK g : Counting(g, n, V, first, step)
    BY <2>1, <2>2, CountExists
  <2>4. QED
    BY <2>3 DEF Counting
<1>5. \A i \in 1..n : g[i] = IF i <= Before(offset) THEN first ELSE NextLine(g[i - 1], f.lines[i], i)
  <2>1. \A i \in 1..n : g[i - 1] \in V
    BY <1>1
  <2> HIDE DEF V, n, first, step
  <2>2. QED
    BY <1>2, <1>4, <2>1
<1>6. g = [i \in 0..n |-> IF i <= Before(offset) THEN first ELSE NextLine(g[i - 1], f.lines[i], i)]
  <2> HIDE DEF V, n, first, step
  <2>1. \A i \in 0..n : g[i] = IF i <= Before(offset) THEN first ELSE NextLine(g[i - 1], f.lines[i], i)
    BY <1>1, <1>4, <1>5
  <2>2. QED
    BY <2>1
<1>7. PICK h : /\ h = [i \in 0..n |-> IF i <= Before(offset) THEN first
                                      ELSE NextLine(h[i - 1], f.lines[i], i)]
               /\ Reading(f, offset) = h
  BY <1>6 DEF Reading
<1>8. h[0] = first /\ \A i \in 1..n :
        h[i] = IF i <= Before(offset) THEN first ELSE NextLine(h[i - 1], f.lines[i], i)
  <2> HIDE DEF V, n, first, step
  <2>1. \A i \in 0..n : h[i] = IF i <= Before(offset) THEN first ELSE NextLine(h[i - 1], f.lines[i], i)
    BY <1>7
  <2>2. QED
    BY <1>1, <2>1
<1>9. h \in [0..n -> V]
  <2> DEFINE S == {i \in Nat : i \in 0..n => h[i] \in V}
  <2>1. 0 \in S
    BY <1>1, <1>8
  <2>2. ASSUME NEW i \in Nat, i \in S PROVE i + 1 \in S
    <3>1. SUFFICES ASSUME i + 1 \in 0..n PROVE h[i + 1] \in V
      OBVIOUS
    <3>2. i \in 0..n /\ i + 1 \in 1..n /\ (i + 1) - 1 = i /\ h[i] \in V
      BY <1>1, <2>2, <3>1
    <3>3. step[i + 1][h[i]] \in V
      BY <1>3, <3>2
    <3>4. h[i + 1] = step[i + 1][h[i]]
      <4> HIDE DEF V, n, first, step
      <4>1. QED
        BY <1>2, <1>8, <3>2
    <3>5. QED
      BY <3>3, <3>4
  <2>3. Nat \subseteq S
    <3> HIDE DEF S
    <3>1. QED
      BY <2>1, <2>2, SetInduction
  <2>4. \A i \in 0..n : h[i] \in V
    <3> HIDE DEF V, n, first, step
    <3>1. QED
      BY <1>1, <2>3
  <2>5. \E w : h = [i \in 0..n |-> w[i]]
    <3> DEFINE w == [i \in 0..n |-> IF i <= Before(offset) THEN first ELSE NextLine(h[i - 1], f.lines[i], i)]
    <3>1. h = [i \in 0..n |-> w[i]]
      <4> HIDE DEF V, n, first, step
      <4>1. QED
        BY <1>7
    <3>2. QED
      BY <3>1
  <2> HIDE DEF V, n, first, step
  <2>6. QED
    BY <2>4, <2>5
<1>10. QED
  BY <1>7, <1>8, <1>9

(* The complete records of a chunk.                                        *)
LEMMA RecordsRight ==
  ASSUME NEW f, Sound(f), NEW offset \in Nat
  PROVE  /\ CompleteRecords(f, offset).recs \in Seq(Complete(Dates(f)))
         /\ CompleteRecords(f, offset).odd \in BOOLEAN
<1>1. CompleteRecords(f, offset) \in Reads(Dates(f))
  BY LineTypes, ReadingRight DEF CompleteRecords
<1>2. QED
  BY <1>1, Zenon DEF Reads

(* The date of the last record that has one.                               *)
LEMMA LastDateRight ==
  ASSUME NEW recs \in Seq(Complete(Nat))
  PROVE  /\ LastDate(recs) \in Nat
         /\ LastDate(recs) # 0 => \E i \in DOMAIN recs : recs[i].date = LastDate(recs)
         /\ \A i \in DOMAIN recs : recs[i].date # 0 =>
              /\ LastDate(recs) # 0
              /\ \E j \in DOMAIN recs : j >= i /\ recs[j].date = LastDate(recs)
<1> DEFINE dated == {i \in DOMAIN recs : recs[i].date # 0}
<1>1. DOMAIN recs = 1..Len(recs) /\ Len(recs) \in Nat
  OBVIOUS
<1>2. \A i \in DOMAIN recs : recs[i].date \in Nat
  <2>1. \A i \in DOMAIN recs : recs[i] \in Complete(Nat)
    OBVIOUS
  <2>2. \A r \in Complete(Nat) : r.date \in Nat
    BY DEF Complete
  <2>3. QED
    BY <2>1, <2>2
<1>3. CASE dated = {}
  <2>1. LastDate(recs) = 0
    BY <1>3 DEF LastDate
  <2>2. QED
    BY <1>3, <2>1
<1>4. CASE dated # {}
  <2> DEFINE m == Max(dated)
  <2>1. LastDate(recs) = recs[m].date
    BY <1>4, Zenon DEF LastDate
  <2>2. m \in dated /\ \A y \in dated : m >= y
    <3>1. dated \in SUBSET (1..Len(recs))
      BY <1>1
    <3> HIDE DEF dated
    <3>2. QED
      BY <1>1, <1>4, <3>1, MaxOfSet
  <2> HIDE DEF m
  <2>3. QED
    BY <1>2, <2>1, <2>2
<1>5. QED
  BY <1>3, <1>4

(* The probe's chunks are numbers of lines.                                *)
LEMMA ChunkRight ==
  /\ \A k \in 0..MaxProbe : Chunk[k] \in Nat /\ Chunk[k] >= k + 1
  /\ \E k \in 0..MaxProbe : Chunk[k] >= MaxProbe
<1> DEFINE step == [k \in 1..MaxProbe |-> [v \in Nat |-> 2 * v]]
<1>1. MaxProbe \in Nat \ {0} /\ TailProbe \in Nat \ {0}
  BY LogDirectoryAssumption
<1>2. PICK g : Counting(g, MaxProbe, Nat, TailProbe, step)
  <2>1. \A k \in 1..MaxProbe, v \in Nat : step[k][v] \in Nat
    OBVIOUS
  <2> HIDE DEF step
  <2>2. QED
    BY <1>1, <2>1, CountExists
<1>3. \A k \in 1..MaxProbe : g[k] = 2 * g[k - 1]
  <2>1. \A k \in 1..MaxProbe : g[k] = step[k][g[k - 1]] /\ g[k - 1] \in Nat
    <3> HIDE DEF step
    <3>1. QED
      BY <1>1, <1>2 DEF Counting
  <2>2. QED
    BY <2>1
<1>4. g = [k \in 0..MaxProbe |-> IF k = 0 THEN TailProbe ELSE 2 * g[k - 1]]
  BY <1>1, <1>2, <1>3 DEF Counting
<1>5. Chunk = [k \in 0..MaxProbe |-> IF k = 0 THEN TailProbe ELSE 2 * Chunk[k - 1]]
  BY <1>4 DEF Chunk
<1> DEFINE S == {k \in Nat : k <= MaxProbe => Chunk[k] \in Nat /\ Chunk[k] >= k + 1}
<1>6. 0 \in S
  BY <1>1, <1>5
<1>7. ASSUME NEW k \in Nat, k \in S PROVE k + 1 \in S
  <2>1. SUFFICES ASSUME k + 1 <= MaxProbe
                 PROVE  Chunk[k + 1] \in Nat /\ Chunk[k + 1] >= k + 2
    OBVIOUS
  <2>2. k + 1 \in 0..MaxProbe /\ k + 1 # 0 /\ (k + 1) - 1 = k
    BY <1>1, <2>1
  <2>3. Chunk[k + 1] = 2 * Chunk[k]
    BY <1>5, <2>2
  <2>4. Chunk[k] \in Nat /\ Chunk[k] >= k + 1
    BY <1>1, <1>7, <2>1
  <2>5. QED
    BY <2>3, <2>4
<1>8. Nat \subseteq S
  <2> HIDE DEF S
  <2>1. QED
    BY <1>6, <1>7, SetInduction
<1>9. \A k \in 0..MaxProbe : Chunk[k] \in Nat /\ Chunk[k] >= k + 1
  BY <1>1, <1>8
<1>10. QED
  BY <1>1, <1>9

(* A file is probed at a chunk of some size.                               *)
LEMMA TailSizeRight ==
  ASSUME NEW f
  PROVE  TailSize(f) \in Nat
<1> DEFINE T == {k \in 0..MaxProbe : Conclusive(f, Chunk[k]) \/ Chunk[k] >= MaxProbe}
<1>1. T # {} /\ T \in SUBSET Nat /\ T \subseteq 0..MaxProbe
  BY ChunkRight
<1> HIDE DEF T
<1>2. Min(T) \in 0..MaxProbe
  BY <1>1, MinRight
<1>3. TailSize(f) = Chunk[Min(T)]
  BY DEF TailSize, T
<1>4. QED
  BY <1>2, <1>3, ChunkRight

(* What the probe knows of a file.                                         *)
FileRec == [name : Names, size : Nat, last : Nat, determined : BOOLEAN,
            exact : BOOLEAN, trusted : BOOLEAN, layout : BOOLEAN]

(* A tail has a date or none.                                              *)
LEMMA ParseTailRight ==
  ASSUME NEW f, Sound(f), NEW offset \in Nat
  PROVE  ParseTail(f, offset).last \in Nat
<1>1. CompleteRecords(f, offset).recs \in Seq(Complete(Dates(f))) /\ Dates(f) \subseteq Nat
  BY RecordsRight, LineTypes
<1>2. CompleteRecords(f, offset).recs \in Seq(Complete(Nat))
  <2>1. Complete(Dates(f)) \subseteq Complete(Nat)
    BY <1>1 DEF Complete
  <2>2. QED
    BY <1>1, <2>1
<1>3. ParseTail(f, offset).last = LastDate(CompleteRecords(f, offset).recs)
  BY DEF ParseTail
<1>4. QED
  BY <1>2, <1>3, LastDateRight

(* The probe of a file: an exact date is its last one, and a date that is  *)
(* determined without being exact is there.                                *)
LEMMA ProbeFileRight ==
  ASSUME NEW n \in Names, NEW f, Sound(f)
  PROVE  /\ ProbeFile(n, f) \in FileRec
         /\ ProbeFile(n, f).name = n /\ ProbeFile(n, f).size = Len(f.lines)
         /\ ProbeFile(n, f).exact => ProbeFile(n, f).last = TrueLast(f)
         /\ ProbeFile(n, f).determined /\ ~ProbeFile(n, f).exact => ProbeFile(n, f).last # 0
<1> DEFINE size == TailSize(f)
           skip == Skipped(f, size)
           parsed == ParseTail(f, skip)
           tail == ProbeTail(f, size)
<1>1. size \in Nat /\ Len(f.lines) \in Nat
  BY TailSizeRight, LineTypes
<1>2. skip \in Nat
  BY <1>1 DEF Skipped
<1>3. parsed.last \in Nat
  BY <1>2, ParseTailRight
<1>4. parsed.trusted \in BOOLEAN
  BY Zenon DEF ParseTail
<1> HIDE DEF parsed
<1>5. /\ tail.last \in Nat /\ tail.determined \in BOOLEAN /\ tail.exact \in BOOLEAN
      /\ tail.trusted \in BOOLEAN
      /\ tail.exact => skip = 0 /\ tail.last = parsed.last
      /\ tail.determined /\ ~tail.exact => tail.last # 0
  <2>1. CASE Conclusive(f, size)
    <3>1. tail = [last |-> parsed.last, determined |-> TRUE, exact |-> skip = 0,
                  trusted |-> skip = 0 \/ parsed.trusted]
      BY <2>1, Zenon DEF ProbeTail, parsed
    <3>2. skip = 0 \/ parsed.last # 0
      BY <2>1, Zenon DEF Conclusive, parsed
    <3> HIDE DEF tail, skip
    <3>3. (skip = 0) \in BOOLEAN /\ (skip = 0 \/ parsed.trusted) \in BOOLEAN
      OBVIOUS
    <3>4. /\ tail.last = parsed.last /\ tail.determined /\ tail.determined \in BOOLEAN
          /\ tail.exact = (skip = 0) /\ tail.trusted = (skip = 0 \/ parsed.trusted)
      BY <3>1, Zenon
    <3>5. QED
      BY <1>3, <3>2, <3>3, <3>4, Zenon
  <2>2. CASE ~ Conclusive(f, size)
    <3>1. tail = [last |-> 0, determined |-> FALSE, exact |-> FALSE, trusted |-> FALSE]
      BY <2>2, Zenon DEF ProbeTail
    <3> HIDE DEF tail, skip
    <3>2. tail.last = 0 /\ ~tail.determined /\ ~tail.exact /\ ~tail.trusted
          /\ tail.determined \in BOOLEAN /\ tail.exact \in BOOLEAN /\ tail.trusted \in BOOLEAN
      BY <3>1, Zenon
    <3>3. QED
      BY <3>2
  <2>3. QED
    BY <2>1, <2>2
<1>6. ProbeFile(n, f) = [name |-> n, size |-> Len(f.lines), last |-> tail.last,
                         determined |-> tail.determined, exact |-> tail.exact,
                         trusted |-> tail.trusted, layout |-> Layout(f)]
  BY Zenon DEF ProbeFile
<1>7. Layout(f) \in BOOLEAN
  BY Zenon DEF Layout
<1>8. skip = 0 => parsed.last = TrueLast(f)
  BY Zenon DEF parsed, ParseTail, TrueLast, TrueRecords
<1> HIDE DEF tail, skip, size
<1> DEFINE p == ProbeFile(n, f)
<1> HIDE DEF p
<1>9. /\ p.name = n /\ p.size = Len(f.lines) /\ p.last = tail.last
      /\ p.determined = tail.determined /\ p.exact = tail.exact
  BY <1>6 DEF p
<1>10. p \in FileRec
  <2>1. /\ n \in Names /\ Len(f.lines) \in Nat /\ tail.last \in Nat /\ tail.determined \in BOOLEAN
        /\ tail.exact \in BOOLEAN /\ tail.trusted \in BOOLEAN /\ Layout(f) \in BOOLEAN
    BY <1>1, <1>5, <1>7
  <2>2. p = [name |-> n, size |-> Len(f.lines), last |-> tail.last,
             determined |-> tail.determined, exact |-> tail.exact,
             trusted |-> tail.trusted, layout |-> Layout(f)]
    BY <1>6 DEF p
  <2>3. QED
    BY <2>1, <2>2, Zenon DEF FileRec
<1>11. QED
  <2>1. p.exact => p.last = TrueLast(f)
    BY <1>5, <1>8, <1>9, Zenon
  <2>2. p.determined /\ ~p.exact => p.last # 0
    BY <1>5, <1>9, Zenon
  <2>3. QED
    BY <1>9, <1>10, <2>1, <2>2 DEF p

(* A record of a file has at most this date.                               *)
Bounded(f, d) == \A i \in DOMAIN TrueRecords(f) : TrueRecords(f)[i].date <= d

(* The records of a file have dates of its lines.                          *)
LEMMA TrueTypes ==
  ASSUME NEW f, Sound(f)
  PROVE  /\ TrueRecords(f) \in Seq(Complete(Nat)) /\ TrueRecords(f) \in Seq(Complete(Dates(f)))
         /\ TrueLast(f) \in Nat
         /\ \A i \in DOMAIN TrueRecords(f) :
              TrueRecords(f)[i].date \in Nat /\ TrueRecords(f)[i].date \in Dates(f)
<1>1. TrueRecords(f) \in Seq(Complete(Dates(f))) /\ Dates(f) \subseteq Nat
  BY RecordsRight, LineTypes DEF TrueRecords
<1>2. TrueRecords(f) \in Seq(Complete(Nat))
  <2>1. Complete(Dates(f)) \subseteq Complete(Nat)
    BY <1>1 DEF Complete
  <2>2. QED
    BY <1>1, <2>1
<1>3. \A i \in DOMAIN TrueRecords(f) : TrueRecords(f)[i] \in Complete(Dates(f))
  BY <1>1
<1>4. \A r \in Complete(Dates(f)) : r.date \in Dates(f)
  BY DEF Complete
<1>5. QED
  BY <1>1, <1>2, <1>3, <1>4, LastDateRight DEF TrueLast

(* No file has no records.                                                 *)
LEMMA NoFileSound == Sound(NoFile) /\ TrueRecords(NoFile) = <<>>
<1>1. Sound(NoFile)
  BY DEF Sound, NoFile, DiskFile
<1>2. Whole(NoFile) = 0
  BY DEF Whole, NoFile
<1>3. CompleteRecords(NoFile, 0) = FirstState(NoFile, 0)
  BY <1>1, <1>2, ReadingRight DEF CompleteRecords
<1>4. QED
  BY <1>1, <1>3 DEF TrueRecords, FirstState

(* The files of the directory are written in the order of time.            *)
LEMMA ChronologyRight ==
  ASSUME NEW f \in Contents \cup {NoFile}
  PROVE  Sound(f) /\ Bounded(f, TrueLast(f))
<1>1. CASE f = NoFile
  <2>1. DOMAIN TrueRecords(f) = {}
    BY <1>1, NoFileSound
  <2>2. QED
    BY <1>1, <2>1, NoFileSound DEF Bounded
<1>2. CASE f \in Contents
  <2>1. Sound(f)
    BY <1>2, LogDirectoryAssumption DEF Sound, DiskFile
  <2> DEFINE recs == TrueRecords(f)
  <2>2. recs \in Seq(Complete(Nat)) /\ \A i \in DOMAIN recs : recs[i].date \in Nat
    BY <2>1, TrueTypes
  <2>3. TrueLast(f) = LastDate(recs)
    BY DEF TrueLast
  <2>4. \A i, j \in DOMAIN recs : (i < j /\ recs[j].date # 0) => recs[i].date <= recs[j].date
    BY <1>2, ChronologyAssumption
  <2>5. ASSUME NEW i \in DOMAIN recs PROVE recs[i].date <= TrueLast(f)
    <3> HIDE DEF recs
    <3>1. LastDate(recs) \in Nat
      BY <2>2, LastDateRight
    <3>2. CASE recs[i].date = 0
      BY <2>3, <3>1, <3>2
    <3>3. CASE recs[i].date # 0
      <4>1. PICK j \in DOMAIN recs : j >= i /\ recs[j].date = LastDate(recs)
        BY <2>2, <3>3, LastDateRight
      <4>2. LastDate(recs) # 0
        BY <2>2, <3>3, LastDateRight
      <4>3. i \in Nat /\ j \in Nat
        BY <2>2
      <4>4. CASE i = j
        BY <2>2, <2>3, <4>1, <4>4
      <4>5. CASE i < j
        BY <2>3, <2>4, <4>1, <4>2, <4>5
      <4>6. QED
        BY <4>1, <4>3, <4>4, <4>5
    <3>4. QED
      BY <3>2, <3>3
  <2>6. QED
    BY <2>1, <2>5 DEF Bounded
<1>3. QED
  BY <1>1, <1>2

-----------------------------------------------------------------------------
(* The disk changes while files are verified.                              *)

(* max() of finitely many numbers is one of them.                          *)
LEMMA MaxFinite ==
  ASSUME NEW S \in SUBSET Nat, IsFiniteSet(S), S # {}
  PROVE  Max(S) \in S /\ \A x \in S : Max(S) >= x
<1> DEFINE key == [x \in S |-> <<x, 0>>]
<1>1. key \in [S -> Int \X Int] /\ \A x \in S : key[x][1] = x /\ key[x][2] = 0
  OBVIOUS
<1> HIDE DEF key
<1>2. PICK m \in S : \A x \in S : NotAfter(key[x], key[m])
  BY <1>1, LastKey
<1>3. \A x \in S : m >= x
  BY <1>1, <1>2 DEF NotAfter
<1>4. QED
  BY <1>3 DEF Max

(* The date of a new record is later than any on the disk.                 *)
LEMMA NewDateRight ==
  ASSUME \A n \in Names : Sound(disk[n])
  PROVE  NewDate \in Nat \ {0} /\ \A n \in Names : \A d \in Dates(disk[n]) : d < NewDate
<1> DEFINE lines == [n \in Names |-> ToSet(disk[n].lines)]
           all == UNION {lines[n] : n \in Names}
           date == [l \in all |-> l.date]
           S == {0} \cup {date[l] : l \in all}
<1>1. \A n \in Names : /\ IsFiniteSet(lines[n]) /\ lines[n] \subseteq Line
                       /\ \A i \in DOMAIN disk[n].lines : disk[n].lines[i] \in lines[n]
  <2>1. ASSUME NEW n \in Names
        PROVE  /\ IsFiniteSet(lines[n]) /\ lines[n] \subseteq Line
               /\ \A i \in DOMAIN disk[n].lines : disk[n].lines[i] \in lines[n]
    <3> DEFINE q == disk[n].lines
    <3>1. q \in Seq(Line) /\ Len(q) \in Nat /\ DOMAIN q = 1..Len(q) /\ \A i \in DOMAIN q : q[i] \in Line
      BY LineTypes
    <3>2. lines[n] = {q[i] : i \in 1..Len(q)}
      BY <3>1 DEF ToSet
    <3> HIDE DEF q, lines
    <3>3. IsFiniteSet(1..Len(q))
      BY <3>1, FS_Interval
    <3>4. IsFiniteSet({q[i] : i \in 1..Len(q)})
      BY <3>3, ImageFinite
    <3>5. IsFiniteSet(lines[n]) /\ lines[n] \subseteq Line /\ \A i \in DOMAIN q : q[i] \in lines[n]
      BY <3>1, <3>2, <3>4
    <3>6. QED
      BY <3>5 DEF q
  <2>2. QED
    BY <2>1
<1>2. IsFiniteSet(all) /\ all \subseteq Line
  <2> HIDE DEF lines
  <2>1. IsFiniteSet(Names)
    BY LogDirectoryAssumption
  <2>2. IsFiniteSet({lines[n] : n \in Names})
    BY <2>1, ImageFinite
  <2>3. IsFiniteSet(UNION {lines[n] : n \in Names})
    BY <1>1, <2>2, FS_UNION
  <2>4. QED
    BY <1>1, <2>3
<1>3. S \in SUBSET Nat /\ IsFiniteSet(S) /\ 0 \in S /\ \A l \in all : l.date \in S
  <2>1. \A l \in all : l.date \in Nat
    BY <1>2 DEF Line
  <2> HIDE DEF all
  <2>2. \A l \in all : date[l] = l.date
    OBVIOUS
  <2> HIDE DEF date
  <2>3. IsFiniteSet({date[l] : l \in all})
    BY <1>2, ImageFinite
  <2>4. IsFiniteSet(S)
    BY <2>3, FS_Union, FS_Singleton
  <2>5. QED
    BY <2>1, <2>2, <2>4
<1>4. NewDate = 1 + Max(S)
  <2>1. {lines[n] : n \in Names} = {ToSet(disk[n].lines) : n \in Names}
    OBVIOUS
  <2> HIDE DEF lines
  <2>2. {line.date : line \in UNION {ToSet(disk[n].lines) : n \in Names}} = {date[l] : l \in all}
    BY <2>1
  <2>3. QED
    BY <2>2 DEF NewDate
<1> HIDE DEF S, all, lines, date
<1>5. Max(S) \in S /\ \A x \in S : Max(S) >= x
  BY <1>3, MaxFinite
<1>6. \A n \in Names : Dates(disk[n]) \subseteq S
  BY <1>1, <1>3 DEF Dates, all
<1>7. Max(S) \in Nat
  BY <1>3, <1>5
<1>8. \A x \in S : x \in Nat /\ x < 1 + Max(S)
  BY <1>3, <1>5, <1>7
<1>9. QED
  BY <1>4, <1>6, <1>7, <1>8

(* A record is written to a file.                                          *)
Grown(f, d) == [f EXCEPT !.lines = Append(@, [date |-> d, odd |-> FALSE])]

(* One field of a file changes.                                            *)
LEMMA ChangeField ==
  ASSUME NEW A, NEW B, NEW f \in [lines : A, torn : B], NEW x
  PROVE  [f EXCEPT !.lines = x] = [lines |-> x, torn |-> f.torn] /\ f.torn \in B /\ f.lines \in A
OBVIOUS

(* It is read after the others.                                            *)
LEMMA GrowthRight ==
  ASSUME NEW f, Sound(f), ~f.torn, ~CompleteRecords(f, 0).odd, NEW d \in Nat \ {0}
  PROVE  Sound(Grown(f, d)) /\ TrueLast(Grown(f, d)) = d
<1> DEFINE g == Grown(f, d)
           n == Len(f.lines)
           line == [date |-> d, odd |-> FALSE]
<1>1. f.lines \in Seq(Line) /\ n \in Nat
  BY LineTypes
<1>2. line \in Line /\ line.date = d /\ ~line.odd
  BY DEF Line
<1> HIDE DEF line
<1>3. g = [lines |-> Append(f.lines, line), torn |-> f.torn]
  <2>1. f \in [lines : Seq(Line), torn : BOOLEAN]
    BY DEF Sound, DiskFile
  <2>2. g = [f EXCEPT !.lines = Append(f.lines, line)]
    BY Zenon DEF Grown, line
  <2> HIDE DEF g
  <2>3. QED
    BY <2>1, <2>2, ChangeField
<1> HIDE DEF g
<1>4. /\ g.lines \in Seq(Line) /\ Len(g.lines) = n + 1 /\ ~g.torn
      /\ g.lines[n + 1] = line /\ \A i \in 1..n : g.lines[i] = f.lines[i]
  BY <1>1, <1>2, <1>3
<1>5. Sound(g)
  <2>1. g \in DiskFile
    <3>1. Append(f.lines, line) \in Seq(Line) /\ f.torn \in BOOLEAN
      BY <1>1, <1>2 DEF Sound, DiskFile
    <3>2. QED
      BY <1>3, <3>1, Zenon DEF DiskFile
  <2>2. QED
    BY <1>4, <2>1 DEF Sound
<1>6. Whole(f) = n /\ Whole(g) = n + 1 /\ Before(0) = 0
  BY <1>1, <1>4 DEF Whole, Before
<1>7. FirstState(f, 0) = FirstState(g, 0)
  BY DEF FirstState
<1> DEFINE rf == Reading(f, 0)
           rg == Reading(g, 0)
<1>8. rf[0] = rg[0] /\ rg[0] = FirstState(g, 0)
  BY <1>5, <1>7, ReadingRight
<1>9. \A i \in 1..n : rf[i] = NextLine(rf[i - 1], f.lines[i], i)
  <2>1. \A i \in 1..n : rf[i] = IF i <= 0 THEN FirstState(f, 0) ELSE NextLine(rf[i - 1], f.lines[i], i)
    <3>1. \A i \in 1..Whole(f) :
            rf[i] = IF i <= Before(0) THEN FirstState(f, 0) ELSE NextLine(rf[i - 1], f.lines[i], i)
      BY ReadingRight
    <3> HIDE DEF rf, n
    <3>2. QED
      BY <1>6, <3>1
  <2>2. QED
    BY <1>1, <2>1
<1>10. \A i \in 1..(n + 1) : rg[i] = NextLine(rg[i - 1], g.lines[i], i)
  <2>1. \A i \in 1..(n + 1) :
          rg[i] = IF i <= 0 THEN FirstState(g, 0) ELSE NextLine(rg[i - 1], g.lines[i], i)
    <3>1. \A i \in 1..Whole(g) :
            rg[i] = IF i <= Before(0) THEN FirstState(g, 0) ELSE NextLine(rg[i - 1], g.lines[i], i)
      BY <1>5, ReadingRight
    <3> HIDE DEF rg, n
    <3>2. QED
      BY <1>6, <3>1
  <2>2. QED
    BY <1>1, <2>1
<1> HIDE DEF rf, rg, n
<1> DEFINE S == {i \in Nat : i <= n => rf[i] = rg[i]}
<1>11. 0 \in S
  BY <1>8
<1>12. ASSUME NEW i \in Nat, i \in S PROVE i + 1 \in S
  <2>1. SUFFICES ASSUME i + 1 <= n PROVE rf[i + 1] = rg[i + 1]
    OBVIOUS
  <2>2. i + 1 \in 1..n /\ i + 1 \in 1..(n + 1) /\ (i + 1) - 1 = i /\ rf[i] = rg[i]
    BY <1>1, <1>12, <2>1
  <2>3. QED
    BY <1>4, <1>9, <1>10, <2>2
<1>13. Nat \subseteq S
  <2> HIDE DEF S
  <2>1. QED
    BY <1>11, <1>12, SetInduction
<1>14. rf[n] = rg[n]
  BY <1>1, <1>13
<1>15. rg[n + 1] = NextLine(rf[n], line, n + 1)
  <2>1. n + 1 \in 1..(n + 1) /\ (n + 1) - 1 = n
    BY <1>1
  <2>2. QED
    BY <1>4, <1>10, <1>14, <2>1
<1>16. CompleteRecords(f, 0) = rf[n] /\ CompleteRecords(g, 0) = rg[n + 1]
  BY <1>6 DEF CompleteRecords, rf, rg
<1> DEFINE old == TrueRecords(f)
           new == [date |-> d, end |-> n + 1]
<1>17. TrueRecords(g) = Append(old, new)
  <2>1. ~rf[n].odd /\ rf[n].recs = old
    BY <1>16 DEF TrueRecords
  <2>2. d # -1
    OBVIOUS
  <2>3. NextLine(rf[n], line, n + 1).recs = Append(rf[n].recs, new)
    <3>1. line.odd = FALSE /\ rf[n].odd = FALSE
      BY <1>2, <1>16, RecordsRight, Zenon DEF line
    <3> DEFINE open == IF rf[n].odd THEN rf[n].start ELSE line.date
               odd == rf[n].odd # line.odd
    <3>2. open = d /\ odd = FALSE
      BY <1>2, <3>1, Zenon
    <3>3. NextLine(rf[n], line, n + 1).recs =
            IF ~odd /\ open # -1 THEN Append(rf[n].recs, [date |-> open, end |-> n + 1]) ELSE rf[n].recs
      BY DEF NextLine
    <3> HIDE DEF odd, open
    <3>4. QED
      BY <2>2, <3>2, <3>3
  <2>4. QED
    BY <1>15, <1>16, <2>1, <2>3 DEF TrueRecords
<1>18. old \in Seq(Complete(Nat)) /\ new \in Complete(Nat) /\ new.date = d
  <2>1. old \in Seq(Complete(Nat))
    BY TrueTypes
  <2>2. n + 1 \in Nat /\ d \in Nat
    BY <1>1
  <2>3. new \in Complete(Nat) /\ new.date = d
    BY <2>2 DEF Complete
  <2>4. QED
    BY <2>1, <2>3
<1> HIDE DEF old, new
<1> DEFINE both == Append(old, new)
<1>19. /\ both \in Seq(Complete(Nat)) /\ DOMAIN both = 1..(Len(old) + 1) /\ Len(old) \in Nat
       /\ both[Len(old) + 1] = new
  BY <1>18
<1> HIDE DEF both
<1>20. LastDate(both) = d
  <2>1. Len(old) + 1 \in DOMAIN both /\ both[Len(old) + 1].date # 0
    BY <1>18, <1>19
  <2>2. PICK j \in DOMAIN both : j >= Len(old) + 1 /\ both[j].date = LastDate(both)
    BY <1>19, <2>1, LastDateRight
  <2>3. j = Len(old) + 1
    BY <1>19, <2>2
  <2>4. QED
    BY <1>18, <1>19, <2>2, <2>3
<1>21. QED
  BY <1>5, <1>17, <1>20 DEF TrueLast, g, both

-----------------------------------------------------------------------------
(* The newest file and the order of the dates.                             *)

ClockTypes == shift \in Int /\ clock \in {"zone", "fixed", "unknown"}
FileSet == files \in SUBSET FileRec /\ IsFiniteSet(files)
UniqueNames == \A f, g \in files : f.name = g.name => f = g

(* The fields of a probed file.                                            *)
LEMMA FileFields ==
  \A f \in FileRec : /\ f.name \in Names /\ f.name \in Nat /\ f.size \in Nat /\ f.last \in Nat
                     /\ f.determined \in BOOLEAN /\ f.exact \in BOOLEAN /\ f.trusted \in BOOLEAN
<1>1. Names \subseteq Nat
  BY LogDirectoryAssumption
<1>2. \A f \in FileRec : /\ f.name \in Names /\ f.size \in Nat /\ f.last \in Nat
                         /\ f.determined \in BOOLEAN /\ f.exact \in BOOLEAN /\ f.trusted \in BOOLEAN
  BY Zenon DEF FileRec
<1>3. QED
  BY <1>1, <1>2

(* While the clock is known, files are in the order of their dates.        *)
LEMMA KeyRight ==
  ASSUME ClockTypes, NEW f \in FileRec
  PROVE  Wall(f.last) \in Int /\ OrderKey(f) \in Int /\ (TimesKnown => OrderKey(f) = f.last)
<1>1. f.last \in Nat
  BY FileFields
<1>2. QED
  BY <1>1 DEF ClockTypes, OrderKey, Wall, Offset, TimesKnown

(* The files with a date are some of the files.                            *)
LEMMA DatedFinite ==
  ASSUME FileSet
  PROVE  DatedFiles \in SUBSET FileRec /\ IsFiniteSet(DatedFiles) /\ DatedFiles \subseteq files
BY FS_Subset DEF FileSet, DatedFiles

(* One of the files with a date is the newest.                             *)
LEMMA NewestExists ==
  ASSUME ClockTypes, FileSet, UniqueNames, DatedFiles # {}
  PROVE  NewestFile \in DatedFiles /\ IsNewest(NewestFile)
<1> DEFINE S == DatedFiles
           key == [f \in S |-> <<OrderKey(f), f.name>>]
<1>1. S \in SUBSET FileRec /\ IsFiniteSet(S) /\ S \subseteq files
  BY DatedFinite
<1>2. \A f \in S : OrderKey(f) \in Int /\ f.name \in Int
  BY <1>1, KeyRight, FileFields
<1> HIDE DEF S
<1>3. /\ key \in [S -> Int \X Int]
      /\ \A f \in S : key[f][1] = OrderKey(f) /\ key[f][2] = f.name
  BY <1>2
<1> HIDE DEF key
<1>4. PICK m \in S : \A f \in S : NotAfter(key[f], key[m])
  BY <1>1, <1>3, LastKey DEF S
<1>5. \A f \in S \ {m} : f.name # m.name
  BY <1>1 DEF UniqueNames
<1>6. \A f \in S \ {m} : Newer(m, f)
  BY <1>2, <1>3, <1>4, <1>5 DEF NotAfter, Newer
<1>7. IsNewest(m)
  BY <1>6 DEF S, IsNewest
<1>8. QED
  BY <1>4, <1>7 DEF NewestFile, S, IsNewest

(* sorted() of files, newest first.                                        *)
LEMMA ByDateRight ==
  ASSUME ClockTypes, NEW S \in SUBSET FileRec, IsFiniteSet(S)
  PROVE  /\ ByDate(S) \in Seq(S) /\ Len(ByDate(S)) = Cardinality(S)
         /\ IsInjective(ByDate(S))
         /\ \A f \in S : \E i \in DOMAIN ByDate(S) : ByDate(S)[i] = f
<1> DEFINE key == [f \in S |-> <<-OrderKey(f), -f.name>>]
<1>1. \A f \in S : OrderKey(f) \in Int /\ f.name \in Int
  BY KeyRight, FileFields
<1>2. key \in [S -> Int \X Int] /\ ByDate(S) = Sorted(S, key)
  BY <1>1 DEF ByDate
<1> HIDE DEF key
<1>3. Cardinality(S) \in Nat
  BY FS_CardinalityType
<1>4. ByDate(S) \in [1..Cardinality(S) -> S] /\ IsInjective(ByDate(S))
  BY <1>2, SortedRight DEF Ordered
<1>5. \A f \in S : \E i \in 1..Cardinality(S) : ByDate(S)[i] = f
  BY <1>2, SortedAll
<1>6. QED
  BY <1>3, <1>4, <1>5

(* The bounds of the scan hold every record of the window, across a change *)
(* of the offset.                                                          *)
LEMMA WindowRight ==
  ASSUME ClockTypes, TimesKnown, NEW a \in Nat, NEW d \in Nat, a - Depth <= d, d <= a
  PROVE  WindowBounds(a).from <= Wall(d) /\ Wall(d) <= WindowBounds(a).to
<1> DEFINE naive == Wall(a) - Depth
           local == IF clock = "zone" THEN Wall(a - Depth) ELSE naive
           wider == IF clock = "zone" THEN Apart(OffsetOfWall(local), Offset(a)) ELSE 0
<1>1. Depth \in Nat \ {0} /\ Change \in Nat \ {0} /\ shift \in Int
  BY LogDirectoryAssumption DEF ClockTypes
<1>2. naive \in Int /\ local \in Int /\ wider \in Int
  BY <1>1 DEF Wall, Offset, OffsetOfWall, Apart
<1>3. Min({local, naive}) = IF local <= naive THEN local ELSE naive
  <2> HIDE DEF local, naive
  <2>1. QED
    BY <1>2 DEF Min
<1>4. /\ WindowBounds(a).from = Min({local, naive}) - wider
      /\ WindowBounds(a).to = Wall(a) + wider
  BY DEF WindowBounds
<1>5. /\ Min({local, naive}) - wider <= Wall(d) /\ Wall(d) <= Wall(a) + wider
  <2>1. CASE clock = "zone"
    BY <1>1, <1>3, <2>1 DEF Wall, Offset, OffsetOfWall, Apart
  <2>2. CASE clock # "zone"
    BY <1>1, <1>3, <2>2 DEF TimesKnown, Wall, Offset
  <2>3. QED
    BY <2>1, <2>2
<1>6. QED
  BY <1>4, <1>5

-----------------------------------------------------------------------------
(* The invariant.                                                          *)

Incomplete == "discovery_incomplete" \in reasons

\* The disk is the one that was probed, but for a file that is gone or has grown.
DiskInv == /\ disk \in [Names -> DiskFile] /\ probed \in [Names -> DiskFile]
           /\ \A n \in Names : /\ Sound(disk[n]) /\ Sound(probed[n])
                               /\ Bounded(probed[n], TrueLast(probed[n]))
                               /\ disk[n] # NoFile => Bounded(probed[n], TrueLast(disk[n]))

\* What is known of a probed file; an exact date is its last one, and after all it held.
Known(f) == /\ f.size = Len(probed[f.name].lines)
            /\ f.name \in verified => f.exact
            /\ f.determined /\ ~f.exact => f.last # 0
            /\ f.exact => /\ f.last = TrueLast(probed[f.name]) \/ f.last = TrueLast(disk[f.name])
                          /\ Bounded(probed[f.name], f.last)
FilesInv == FileSet /\ UniqueNames /\ \A f \in files : Known(f)

\* Without a reason every file is there.
Probed == pc \in {"undetermined", "newest", "anchor", "excluded"}
ListedInv == Probed /\ reasons = {} /\ unreadable = {} /\ ~truncated =>
                \A n \in Names : probed[n] # NoFile => \E f \in files : f.name = n

StageInv == /\ pc = "probe" => files = {} /\ verified = {} /\ probed = disk
            /\ pc = "anchor" => Incomplete
            /\ pc # "done" => found = NoWindow
            /\ Probed => todo \in Seq(FileRec)

\* While files are verified that would be left out: the newest date is an exact one, and what
\* would be left out on a date that nothing proves is still to be verified.
Beaten == \A g \in DatedFiles : ~g.exact => \E e \in DatedFiles : e.exact /\ Newer(e, g)
Listed == \A f \in DatedFiles :
            ~f.exact /\ ~f.trusted /\ Wall(f.last) < WindowBounds(tested).from =>
                \E i \in 1..Len(todo) : todo[i] = f
Waiting == /\ \A i \in 1..Len(todo) : todo[i] \in files /\ ~todo[i].exact
           /\ \A i, j \in 1..Len(todo) : todo[i] = todo[j] => i = j
ExcludedInv == pc = "excluded" => Waiting /\ (Incomplete \/ (Beaten /\ Listed))

DirectoryInv == /\ ClockTypes /\ DiskInv /\ FilesInv /\ ListedInv /\ StageInv /\ ExcludedInv
                /\ AnchorReal /\ NothingHidden

(* Before discovery, and however the disk and the probes are.              *)
LEMMA DirectoryInitInv == DirectoryInit => DirectoryInv
<1> SUFFICES ASSUME DirectoryInit PROVE DirectoryInv
  OBVIOUS
<1>1. ClockTypes
  BY LogDirectoryAssumption DEF DirectoryInit, ClockTypes
<1>2. \A n \in Names : disk[n] \in Contents \cup {NoFile}
  BY DEF DirectoryInit
<1>3. DiskInv
  <2>1. \A n \in Names : Sound(disk[n]) /\ Bounded(disk[n], TrueLast(disk[n]))
    BY <1>2, ChronologyRight
  <2>2. probed = disk /\ disk \in [Names -> Contents \cup {NoFile}]
    BY DEF DirectoryInit
  <2>3. disk \in [Names -> DiskFile]
    BY <2>1, <2>2 DEF Sound
  <2>4. QED
    BY <2>1, <2>2, <2>3 DEF DiskInv
<1>4. FilesInv
  BY FS_EmptySet DEF DirectoryInit, FilesInv, FileSet, UniqueNames
<1>5. ListedInv /\ StageInv /\ ExcludedInv
  BY DEF DirectoryInit, ListedInv, StageInv, ExcludedInv, Probed
<1>6. ~Resolved
  BY DEF DirectoryInit, NoWindow, Resolved
<1>7. QED
  BY <1>1, <1>3, <1>4, <1>5, <1>6 DEF DirectoryInv, AnchorReal, NothingHidden

(* Discovery ends without a window.                                        *)
LEMMA EndsInv ==
  ASSUME DirectoryInv, NEW status, status # "resolved", pc # "done", Ends(status)
  PROVE  DirectoryInv'
<1>1. found = NoWindow /\ found'.status = status /\ pc' = "done"
  BY DEF DirectoryInv, StageInv, Ends, NoWindow
<1>2. ClockTypes' /\ DiskInv'
  BY DEF DirectoryInv, Ends, ClockTypes, DiskInv
<1>3. FilesInv'
  BY DEF DirectoryInv, Ends, FilesInv, FileSet, UniqueNames, Known
<1>4. ListedInv' /\ StageInv' /\ ExcludedInv'
  BY <1>1 DEF ListedInv, StageInv, ExcludedInv, Probed
<1>5. ~Resolved'
  BY <1>1 DEF Resolved
<1>6. AnchorReal' /\ NothingHidden'
  BY <1>5 DEF AnchorReal, NothingHidden
<1>7. QED
  BY <1>2, <1>3, <1>4, <1>6 DEF DirectoryInv

(* A file is removed or grows; what was probed of it stays behind it.      *)
LEMMA DiskStepInv ==
  ASSUME DirectoryInv, Disk
  PROVE  DirectoryInv'
<1>1. /\ pc \in {"undetermined", "newest", "excluded"} /\ disk = probed
      /\ shift' = shift /\ clock' = clock /\ pc' = pc /\ discovery' = discovery
  BY DEF Disk
<1>2. /\ files' = files /\ unreadable' = unreadable /\ truncated' = truncated /\ todo' = todo
      /\ verified' = verified /\ reasons' = reasons /\ found' = found /\ probed' = probed
      /\ tested' = tested
  BY <1>1 DEF discovery
<1>3. PICK n \in Names : Vanish(n) \/ Grow(n)
  BY DEF Disk
<1>4. /\ disk \in [Names -> DiskFile] /\ \A m \in Names : Sound(disk[m])
      /\ \A m \in Names : Bounded(probed[m], TrueLast(probed[m]))
  BY DEF DirectoryInv, DiskInv
<1>5. /\ disk' \in [Names -> DiskFile] /\ \A m \in Names \ {n} : disk'[m] = disk[m]
      /\ Sound(disk'[n])
      /\ disk'[n] # NoFile => Bounded(probed[n], TrueLast(disk'[n]))
  <2>1. CASE Vanish(n)
    <3>1. disk' = [disk EXCEPT ![n] = NoFile]
      BY <2>1 DEF Vanish
    <3>2. Sound(NoFile) /\ NoFile \in DiskFile
      BY NoFileSound DEF Sound
    <3>3. QED
      BY <1>4, <3>1, <3>2
  <2>2. CASE Grow(n)
    <3> DEFINE g == Grown(disk[n], NewDate)
    <3>1. ~disk[n].torn /\ ~CompleteRecords(disk[n], 0).odd /\ disk' = [disk EXCEPT ![n] = g]
      BY <2>2 DEF Grow, Grown
    <3>2. NewDate \in Nat \ {0} /\ \A d \in Dates(disk[n]) : d < NewDate
      BY <1>4, NewDateRight
    <3>3. Sound(g) /\ TrueLast(g) = NewDate
      BY <1>4, <3>1, <3>2, GrowthRight
    <3>4. Bounded(probed[n], NewDate)
      <4>1. \A i \in DOMAIN TrueRecords(disk[n]) :
              /\ TrueRecords(disk[n])[i].date \in Nat
              /\ TrueRecords(disk[n])[i].date \in Dates(disk[n])
        BY <1>4, TrueTypes
      <4>2. \A i \in DOMAIN TrueRecords(disk[n]) : TrueRecords(disk[n])[i].date <= NewDate
        BY <3>2, <4>1
      <4>3. QED
        BY <1>1, <4>2 DEF Bounded
    <3>5. g \in DiskFile
      BY <3>3 DEF Sound
    <3> HIDE DEF g
    <3>6. QED
      BY <1>4, <3>1, <3>3, <3>4, <3>5
  <2>3. QED
    BY <1>3, <2>1, <2>2
<1>6. DiskInv'
  <2>1. \A m \in Names : disk'[m] # NoFile => Bounded(probed[m], TrueLast(disk'[m]))
    BY <1>1, <1>4, <1>5
  <2>2. \A m \in Names : Sound(disk'[m])
    BY <1>4, <1>5
  <2>3. QED
    BY <1>2, <1>5, <2>1, <2>2 DEF DirectoryInv, DiskInv
<1>7. FilesInv'
  <2>1. ASSUME NEW f \in files PROVE Known(f)'
    BY <1>1, <1>2 DEF DirectoryInv, FilesInv, Known
  <2>2. QED
    BY <1>2, <2>1 DEF DirectoryInv, FilesInv, FileSet, UniqueNames
<1>8. ClockTypes' /\ ListedInv' /\ StageInv'
  BY <1>1, <1>2 DEF DirectoryInv, ClockTypes, ListedInv, StageInv, Probed
<1>9. ExcludedInv'
  BY <1>1, <1>2 DEF DirectoryInv, ExcludedInv, Waiting, Beaten, Listed, Incomplete, DatedFiles,
        Newer, OrderKey, Wall, Offset, WindowBounds, OffsetOfWall
<1>10. found' = NoWindow
  BY <1>1, <1>2 DEF DirectoryInv, StageInv
<1>11. AnchorReal' /\ NothingHidden'
  BY <1>10 DEF NoWindow, Resolved, AnchorReal, NothingHidden
<1>12. QED
  BY <1>6, <1>7, <1>8, <1>9, <1>11 DEF DirectoryInv

(* The members of a finite set, one after the other.                       *)
LEMMA SetToSeqRight ==
  ASSUME NEW S, IsFiniteSet(S)
  PROVE  SetToSeq(S) \in Seq(S) /\ Len(SetToSeq(S)) = Cardinality(S)
<1> DEFINE key == [x \in S |-> <<0, 0>>]
<1>1. key \in [S -> Int \X Int] /\ Cardinality(S) \in Nat
  BY FS_CardinalityType
<1> HIDE DEF key
<1>2. Sorted(S, key) \in [1..Cardinality(S) -> S] /\ IsInjective(Sorted(S, key))
  BY <1>1, SortedRight DEF Ordered
<1>3. \E s \in [1..Cardinality(S) -> S] : IsInjective(s)
  BY <1>2
<1>4. SetToSeq(S) \in [1..Cardinality(S) -> S]
  BY <1>3 DEF SetToSeq
<1>5. QED
  BY <1>1, <1>4

(* The probe of the directory.                                             *)
LEMMA ProbeStepInv ==
  ASSUME DirectoryInv, Probe
  PROVE  DirectoryInv'
<1> DEFINE entries == {n \in Names : disk[n] # NoFile}
           over == Cardinality(entries) > MaxFiles
<1>1. PICK P \in kSubset(IF over THEN MaxFiles ELSE Cardinality(entries), entries), U \in SUBSET entries :
         /\ files' = {ProbeFile(n, disk[n]) : n \in P \ U}
         /\ unreadable' = P \intersect U
         /\ truncated' = over
  BY DEF Probe
<1>2. /\ pc = "probe" /\ pc' = "undetermined" /\ probed' = disk /\ disk' = disk /\ shift' = shift
      /\ clock' = clock /\ verified' = verified /\ reasons' = reasons /\ found' = found
  BY DEF Probe
<1>3. verified = {} /\ probed = disk /\ found = NoWindow
  BY <1>2 DEF DirectoryInv, StageInv
<1>4. /\ disk \in [Names -> DiskFile] /\ \A n \in Names : Sound(disk[n])
      /\ \A n \in Names : Bounded(disk[n], TrueLast(disk[n]))
  BY <1>3 DEF DirectoryInv, DiskInv
<1>5. IsFiniteSet(entries) /\ entries \subseteq Names /\ P \subseteq entries /\ IsFiniteSet(P)
      /\ (~over => P = entries)
  <2>1. IsFiniteSet(entries)
    BY LogDirectoryAssumption, FS_Subset
  <2>2. P \in SUBSET entries
        /\ Cardinality(P) = IF over THEN MaxFiles ELSE Cardinality(entries)
    <3> HIDE DEF entries, over
    <3>1. QED
      BY <1>1 DEF kSubset
  <2>3. QED
    <3> HIDE DEF over
    <3>1. IsFiniteSet(P) /\ (Cardinality(entries) = Cardinality(P) => entries = P)
      BY <2>1, <2>2, FS_Subset
    <3>2. QED
      BY <2>1, <2>2, <3>1
<1> DEFINE probe == [n \in Names |-> ProbeFile(n, disk[n])]
<1>6. \A n \in Names : /\ probe[n] \in FileRec /\ probe[n].name = n
                       /\ probe[n].size = Len(disk[n].lines)
                       /\ probe[n].exact => probe[n].last = TrueLast(disk[n])
                       /\ probe[n].determined /\ ~probe[n].exact => probe[n].last # 0
  BY <1>4, ProbeFileRight
<1>7. files' = {probe[n] : n \in P \ U}
  BY <1>1, <1>5
<1> HIDE DEF probe
<1>8. IsFiniteSet(P \ U) /\ P \ U \subseteq Names
  BY <1>5, FS_Subset
<1>9. FileSet'
  <2>1. files' \subseteq FileRec
    BY <1>6, <1>7, <1>8
  <2>2. IsFiniteSet(files')
    BY <1>7, <1>8, ImageFinite
  <2>3. QED
    BY <2>1, <2>2 DEF FileSet
<1>10. UniqueNames'
  BY <1>6, <1>7, <1>8 DEF UniqueNames
<1>11. FilesInv'
  <2>1. ASSUME NEW f \in files' PROVE Known(f)'
    <3>1. PICK n \in Names : f = probe[n]
      BY <1>7, <1>8
    <3>2. f.name = n /\ f.name \notin verified'
      BY <1>2, <1>3, <1>6, <3>1
    <3>3. QED
      BY <1>2, <1>4, <1>6, <3>1, <3>2 DEF Known
  <2>2. QED
    BY <1>9, <1>10, <2>1 DEF FilesInv
<1>12. DiskInv' /\ ClockTypes'
  BY <1>2, <1>4 DEF DirectoryInv, DiskInv, ClockTypes
<1>13. ListedInv'
  <2>1. ASSUME ~truncated', unreadable' = {}, NEW n \in Names, disk[n] # NoFile
        PROVE  \E f \in files' : f.name = n
    <3>1. n \in P \ U
      BY <1>1, <1>5, <2>1
    <3>2. QED
      BY <1>6, <1>7, <3>1
  <2>2. QED
    BY <1>2, <2>1 DEF ListedInv
<1>14. StageInv'
  <2> DEFINE S == {f \in files' : ~f.determined /\ f.size > 0}
  <2>1. IsFiniteSet(S) /\ S \subseteq FileRec
    BY <1>9, FS_Subset DEF FileSet
  <2>2. todo' = SetToSeq(S)
    BY DEF Probe
  <2> HIDE DEF S
  <2>3. SetToSeq(S) \in Seq(S)
    BY <2>1, SetToSeqRight
  <2>4. Seq(S) \subseteq Seq(FileRec)
    BY <2>1
  <2>5. todo' \in Seq(FileRec)
    BY <2>2, <2>3, <2>4
  <2>6. QED
    BY <1>2, <1>3, <2>5 DEF StageInv
<1>15. ExcludedInv'
  BY <1>2 DEF ExcludedInv
<1>16. AnchorReal' /\ NothingHidden'
  BY <1>2, <1>3 DEF NoWindow, Resolved, AnchorReal, NothingHidden
<1>17. QED
  BY <1>11, <1>12, <1>13, <1>14, <1>15, <1>16 DEF DirectoryInv

(* An exact date is the last one on the disk, after all that was probed.   *)
LEMMA ExactRight ==
  ASSUME DirectoryInv, NEW g \in files, disk[g.name] # NoFile
  PROVE  /\ Exact(g) \in FileRec /\ Exact(g).name = g.name /\ Exact(g).size = g.size
         /\ Exact(g).last = TrueLast(disk[g.name]) /\ Exact(g).exact /\ Exact(g).determined
         /\ Bounded(probed[g.name], Exact(g).last)
<1>1. g \in FileRec /\ g.name \in Names
  BY FileFields DEF DirectoryInv, FilesInv, FileSet
<1>2. TrueLast(disk[g.name]) \in Nat /\ Bounded(probed[g.name], TrueLast(disk[g.name]))
  BY <1>1, TrueTypes DEF DirectoryInv, DiskInv
<1> DEFINE d == TrueLast(disk[g.name])
<1>3. Exact(g) = [g EXCEPT !.last = d, !.determined = TRUE, !.exact = TRUE, !.trusted = TRUE]
  BY DEF Exact
<1> HIDE DEF d
<1>4. d \in Nat
  BY <1>2 DEF d
<1>5. /\ Exact(g) \in FileRec /\ Exact(g).name = g.name /\ Exact(g).size = g.size
      /\ Exact(g).last = d /\ Exact(g).exact = TRUE /\ Exact(g).determined = TRUE
  BY <1>1, <1>3, <1>4 DEF FileRec
<1>6. QED
  BY <1>2, <1>5 DEF d

(* A file is verified: its date is exact, or the file is left out and a    *)
(* reason says so.                                                         *)
LEMMA VerifyInv ==
  ASSUME DirectoryInv, NEW f, Verify(f), Verification, Probed
  PROVE  /\ FilesInv' /\ DiskInv' /\ ClockTypes' /\ found' = NoWindow
         /\ reasons \subseteq reasons'
         /\ reasons' = {} => \A g \in files : \E h \in files' : h.name = g.name
         /\ \A h \in files' : h.name # f.name => h \in files
         /\ \A h \in files' : h.name = f.name => h.exact
         /\ \A g \in files : g.name # f.name => g \in files'
<1>1. /\ disk' = disk /\ shift' = shift /\ clock' = clock /\ unreadable' = unreadable
      /\ truncated' = truncated /\ found' = found /\ probed' = probed
      /\ verified' = verified \cup {f.name}
  BY DEF Verification, Verify
<1>2. FileSet /\ UniqueNames /\ \A g \in files : Known(g)
  BY DEF DirectoryInv, FilesInv
<1>3. DiskInv' /\ ClockTypes' /\ found' = NoWindow
  BY <1>1 DEF DirectoryInv, DiskInv, ClockTypes, StageInv, Probed
<1>4. ASSUME NEW g, Known(g), g.name # f.name PROVE Known(g)'
  BY <1>1, <1>4 DEF Known
<1>5. CASE disk[f.name] # NoFile /\ files' = {IF g.name = f.name THEN Exact(g) ELSE g : g \in files}
           /\ UNCHANGED reasons
  <2> DEFINE new == [g \in files |-> IF g.name = f.name THEN Exact(g) ELSE g]
  <2>1. files' = {new[g] : g \in files}
    BY <1>5
  <2>2. ASSUME NEW g \in files
        PROVE  /\ new[g] \in FileRec /\ new[g].name = g.name
               /\ g.name # f.name => new[g] = g
               /\ g.name = f.name => new[g] = Exact(g) /\ new[g].exact
    <3>1. CASE g.name = f.name
      <4>1. disk[g.name] # NoFile
        BY <1>5, <3>1
      <4>2. Exact(g) \in FileRec /\ Exact(g).name = g.name /\ Exact(g).exact
        BY <4>1, ExactRight
      <4>3. QED
        BY <3>1, <4>2
    <3>2. CASE g.name # f.name
      BY <1>2, <3>2 DEF FileSet
    <3>3. QED
      BY <3>1, <3>2
  <2> HIDE DEF new
  <2>3. FileSet'
    <3>1. IsFiniteSet({new[g] : g \in files})
      BY <1>2, ImageFinite DEF FileSet
    <3>2. QED
      BY <2>1, <2>2, <3>1 DEF FileSet
  <2>4. UniqueNames'
    BY <1>2, <2>1, <2>2 DEF UniqueNames
  <2>5. ASSUME NEW h \in files' PROVE Known(h)'
    <3>1. PICK g \in files : h = new[g]
      BY <2>1
    <3>2. CASE g.name # f.name
      BY <1>2, <1>4, <2>2, <3>1, <3>2
    <3>3. CASE g.name = f.name
      <4>1. disk[g.name] # NoFile /\ h = Exact(g)
        BY <1>5, <2>2, <3>1, <3>3
      <4>2. /\ h.name = g.name /\ h.size = g.size /\ h.exact /\ h.last = TrueLast(disk[g.name])
            /\ Bounded(probed[g.name], h.last)
        BY <4>1, ExactRight
      <4>3. g.size = Len(probed[g.name].lines)
        BY <1>2 DEF Known
      <4>4. QED
        BY <1>1, <4>2, <4>3 DEF Known
    <3>4. QED
      BY <3>2, <3>3
  <2>6. QED
    BY <1>3, <1>5, <2>1, <2>2, <2>3, <2>4, <2>5 DEF FilesInv
<1>6. CASE files' = {g \in files : g.name # f.name} /\ reasons' = reasons \cup {"files_unreadable"}
  <2>1. FileSet' /\ UniqueNames'
    BY <1>2, <1>6, FS_Subset DEF FileSet, UniqueNames
  <2>2. \A h \in files' : Known(h)'
    BY <1>2, <1>4, <1>6
  <2>3. QED
    BY <1>3, <1>6, <2>1, <2>2 DEF FilesInv
<1>7. QED
  BY <1>5, <1>6 DEF Verify

(* The files still to be verified, when the first one is done.             *)
LEMMA RestRight ==
  ASSUME NEW S, NEW s \in Seq(S), s # <<>>
  PROVE  /\ SubSeq(s, 2, Len(s)) \in Seq(S) /\ Len(SubSeq(s, 2, Len(s))) = Len(s) - 1
         /\ Len(s) \in Nat \ {0} /\ s[1] \in S
         /\ \A i \in 1..(Len(s) - 1) : SubSeq(s, 2, Len(s))[i] = s[i + 1]
<1> DEFINE n == Len(s)
<1>1. n \in Nat /\ n # 0 /\ s \in [1..n -> S]
  OBVIOUS
<1>2. SubSeq(s, 2, n) = [i \in 1..(n - 1) |-> s[i + 1]]
  BY <1>1 DEF SubSeq
<1> DEFINE rest == [i \in 1..(n - 1) |-> s[i + 1]]
<1> HIDE DEF n
<1>3. n - 1 \in Nat /\ \A i \in 1..(n - 1) : i + 1 \in 1..n /\ rest[i] = s[i + 1]
  BY <1>1
<1>4. rest \in [1..(n - 1) -> S]
  BY <1>1, <1>3
<1> HIDE DEF rest
<1>5. rest \in Seq(S) /\ Len(rest) = n - 1
  BY <1>3, <1>4
<1>6. SubSeq(s, 2, n) = rest
  BY <1>2 DEF rest
<1>7. QED
  BY <1>1, <1>3, <1>5, <1>6 DEF n

(* Over the budget nothing is read, and a reason says so.                  *)
LEMMA UnverifiedInv ==
  ASSUME DirectoryInv, NEW f, Unverified(f), Verification, Probed
  PROVE  /\ FilesInv' /\ DiskInv' /\ ClockTypes' /\ found' = NoWindow
         /\ Incomplete' /\ files' = files
<1>1. /\ disk' = disk /\ shift' = shift /\ clock' = clock /\ found' = found /\ probed' = probed
      /\ verified' = verified /\ files' = files
      /\ reasons' = reasons \cup {"discovery_incomplete"}
  BY DEF Verification, Unverified
<1>2. QED
  BY <1>1 DEF DirectoryInv, FilesInv, FileSet, UniqueNames, Known, DiskInv, ClockTypes, StageInv,
        Probed, Incomplete

(* Verification drops no file without a reason.                            *)
LEMMA VerifyListed ==
  ASSUME DirectoryInv, NEW f, Verify(f) \/ Unverified(f), Verification, Probed
  PROVE  ListedInv'
<1>1. SUFFICES ASSUME reasons' = {}, unreadable = {}, ~truncated, NEW n \in Names, probed[n] # NoFile
               PROVE  \E g \in files' : g.name = n
  BY DEF ListedInv, Verification
<1>2. CASE Verify(f)
  <2>1. reasons = {} /\ \A g \in files : \E h \in files' : h.name = g.name
    BY <1>1, <1>2, VerifyInv
  <2>2. \E g \in files : g.name = n
    BY <1>1, <2>1 DEF DirectoryInv, ListedInv
  <2>3. QED
    BY <2>1, <2>2
<1>3. CASE Unverified(f)
  BY <1>1, <1>3 DEF Unverified
<1>4. QED
  BY <1>2, <1>3

(* The files without a date, and then the newest one.                      *)
LEMMA VerifyStepInv ==
  ASSUME DirectoryInv, VerifyUndetermined \/ VerifyNewest
  PROVE  DirectoryInv'
<1>1. PICK f : /\ (Verify(f) \/ Unverified(f)) /\ Verification
               /\ pc \in {"undetermined", "newest"} /\ pc' \in {"undetermined", "newest", "anchor"}
               /\ pc' = "anchor" => Unverified(f)
               /\ todo' = todo \/ (todo # <<>> /\ todo' = SubSeq(todo, 2, Len(todo)))
  <2>1. CASE VerifyUndetermined
    <3>1. /\ Verify(todo[1]) \/ Unverified(todo[1])
          /\ Verification /\ pc = "undetermined" /\ pc' = pc
          /\ todo # <<>> /\ todo' = SubSeq(todo, 2, Len(todo))
      BY <2>1 DEF VerifyUndetermined
    <3>2. QED
      BY <3>1
  <2>2. CASE VerifyNewest
    <3>1. PICK f \in DatedFiles : \/ Verify(f) /\ pc' = pc
                                  \/ Unverified(f) /\ pc' = "anchor"
      BY <2>2 DEF VerifyNewest
    <3>2. pc = "newest" /\ todo' = todo /\ Verification
      BY <2>2 DEF VerifyNewest
    <3>3. QED
      BY <3>1, <3>2
  <2>3. QED
    BY <2>1, <2>2
<1>2. Probed
  BY <1>1 DEF Probed
<1>3. FilesInv' /\ DiskInv' /\ ClockTypes' /\ found' = NoWindow /\ (Unverified(f) => Incomplete')
  BY <1>1, <1>2, VerifyInv, UnverifiedInv
<1>4. ListedInv'
  BY <1>1, <1>2, VerifyListed
<1>5. todo' \in Seq(FileRec)
  <2>1. todo \in Seq(FileRec)
    BY <1>2 DEF DirectoryInv, StageInv
  <2>2. QED
    BY <1>1, <2>1, RestRight
<1>6. StageInv' /\ ExcludedInv'
  BY <1>1, <1>3, <1>5 DEF StageInv, ExcludedInv
<1>7. AnchorReal' /\ NothingHidden'
  BY <1>3 DEF NoWindow, Resolved, AnchorReal, NothingHidden
<1>8. QED
  BY <1>3, <1>4, <1>6, <1>7 DEF DirectoryInv

(* The files without a date are done.                                      *)
LEMMA UndeterminedDoneInv ==
  ASSUME DirectoryInv, UndeterminedDone
  PROVE  DirectoryInv'
<1>1. /\ pc = "undetermined" /\ pc' = "newest"
      /\ UNCHANGED <<disk, shift, clock, unreadable, truncated, found, probed,
                     files, todo, verified, reasons, tested>>
  BY DEF UndeterminedDone, Verification
<1>2. ClockTypes' /\ DiskInv' /\ FilesInv'
  BY <1>1 DEF DirectoryInv, ClockTypes, DiskInv, FilesInv, FileSet, UniqueNames, Known
<1>3. ListedInv' /\ StageInv' /\ ExcludedInv'
  BY <1>1 DEF DirectoryInv, ListedInv, StageInv, ExcludedInv, Probed
<1>4. found' = NoWindow
  BY <1>3, <1>1 DEF StageInv
<1>5. AnchorReal' /\ NothingHidden'
  BY <1>4 DEF NoWindow, Resolved, AnchorReal, NothingHidden
<1>6. QED
  BY <1>2, <1>3, <1>5 DEF DirectoryInv

(* The newest file is verified, or discovery says that it is not complete; *)
(* what would be left out is listed.                                       *)
LEMMA NewestDoneInv ==
  ASSUME DirectoryInv, NewestDone
  PROVE  DirectoryInv'
<1>1. /\ pc' = "excluded"
      /\ UNCHANGED <<disk, shift, clock, unreadable, truncated, found, probed,
                     files, verified, reasons>>
  BY DEF NewestDone, Verification
<1>2. pc \in {"newest", "anchor"}
      /\ (pc = "newest" => \A f \in DatedFiles : IsNewest(f) => f.name \in verified)
  BY DEF NewestDone
<1>3. ClockTypes /\ FilesInv /\ FileSet /\ UniqueNames
  BY DEF DirectoryInv, FilesInv
<1>4. ClockTypes' /\ DiskInv' /\ FilesInv'
  BY <1>1 DEF DirectoryInv, ClockTypes, DiskInv, FilesInv, FileSet, UniqueNames, Known
<1>5. ListedInv'
  BY <1>1, <1>2 DEF DirectoryInv, ListedInv, Probed
<1>6. found' = NoWindow
  BY <1>1, <1>2 DEF DirectoryInv, StageInv
<1>7. DatedFiles' = DatedFiles
  BY <1>1 DEF DatedFiles
<1>8. CASE DatedFiles = {}
  <2>1. todo' = <<>>
    BY <1>8 DEF NewestDone
  <2>2. todo' \in Seq(FileRec) /\ 1..Len(todo') = {}
    BY <2>1
  <2>3. StageInv'
    BY <1>1, <1>6, <2>2 DEF StageInv
  <2>4. ExcludedInv'
    BY <1>7, <1>8, <2>2 DEF ExcludedInv, Waiting, Beaten, Listed
  <2>5. QED
    BY <1>4, <1>5, <1>6, <2>3, <2>4
        DEF DirectoryInv, NoWindow, Resolved, AnchorReal, NothingHidden
<1>9. CASE DatedFiles # {}
  <2> DEFINE m == NewestFile
             X == Excluded(m)
  <2>1. m \in DatedFiles /\ IsNewest(m)
    BY <1>3, <1>9, NewestExists
  <2>2. tested' = m.last /\ todo' = ByDate(X)
    BY <1>9 DEF NewestDone
  <2>3. X \subseteq DatedFiles /\ X \subseteq files /\ X \in SUBSET FileRec /\ IsFiniteSet(X)
    <3>1. DatedFiles \in SUBSET FileRec /\ IsFiniteSet(DatedFiles) /\ DatedFiles \subseteq files
      BY <1>3, DatedFinite
    <3>2. X \subseteq DatedFiles
      BY DEF Excluded
    <3> HIDE DEF X
    <3>3. QED
      BY <3>1, <3>2, FS_Subset
  <2>4. /\ \A f \in X : ~f.exact
        /\ \A f \in DatedFiles \ {m} :
             ~f.exact /\ ~f.trusted /\ Wall(f.last) < WindowBounds(m.last).from => f \in X
    BY DEF Excluded
  <2> HIDE DEF m, X
  <2>5. /\ ByDate(X) \in Seq(X) /\ IsInjective(ByDate(X))
        /\ \A f \in X : \E i \in DOMAIN ByDate(X) : ByDate(X)[i] = f
    BY <1>3, <2>3, ByDateRight
  <2>6. todo' \in Seq(FileRec) /\ DOMAIN todo' = 1..Len(todo')
    <3>1. Seq(X) \subseteq Seq(FileRec)
      BY <2>3
    <3>2. QED
      BY <2>2, <2>5, <3>1
  <2>7. StageInv'
    BY <1>1, <1>6, <2>6 DEF StageInv
  <2>8. Waiting'
    <3>1. \A i \in 1..Len(todo') : todo'[i] \in X
      BY <2>2, <2>5
    <3>2. \A i, j \in 1..Len(todo') : todo'[i] = todo'[j] => i = j
      BY <2>2, <2>5, <2>6 DEF IsInjective
    <3>3. QED
      BY <1>1, <2>3, <2>4, <3>1, <3>2 DEF Waiting
  <2>9. m.exact \/ Incomplete
    <3>1. CASE pc = "newest"
      <4>1. m.name \in verified /\ m \in files
        BY <1>2, <2>1, <3>1 DEF DatedFiles
      <4>2. QED
        BY <1>3, <4>1 DEF FilesInv, Known
    <3>2. CASE pc = "anchor"
      BY <3>2 DEF DirectoryInv, StageInv
    <3>3. QED
      BY <1>2, <3>1, <3>2
  <2>10. m.exact => Beaten
    BY <2>1 DEF Beaten, IsNewest
  <2>11. Beaten' <=> Beaten
    BY <1>1, <1>7 DEF Beaten, Newer, OrderKey, Wall, Offset
  <2>12. m.exact => Listed'
    <3>1. SUFFICES ASSUME m.exact, NEW f \in DatedFiles, ~f.exact, ~f.trusted,
                          (Wall(f.last) < WindowBounds(m.last).from)
                   PROVE  \E i \in 1..Len(todo') : todo'[i] = f
      BY <1>1, <1>7, <2>2 DEF Listed, Wall, Offset, WindowBounds, OffsetOfWall
    <3>2. f \in X
      BY <2>4, <3>1
    <3>3. QED
      BY <2>2, <2>5, <2>6, <3>2
  <2>13. ExcludedInv'
    BY <1>1, <2>8, <2>9, <2>10, <2>11, <2>12 DEF ExcludedInv, Incomplete
  <2>14. QED
    BY <1>4, <1>5, <1>6, <2>7, <2>13
        DEF DirectoryInv, NoWindow, Resolved, AnchorReal, NothingHidden
<1>10. QED
  BY <1>8, <1>9

(* A file that would be left out is verified.                              *)
LEMMA VerifyExcludedInv ==
  ASSUME DirectoryInv, VerifyExcluded
  PROVE  DirectoryInv'
<1> DEFINE f == todo[1]
<1>1. /\ pc = "excluded" /\ pc' = "excluded" /\ todo # <<>> /\ tested' = tested /\ Verification
      /\ \/ Verify(f) /\ todo' = SubSeq(todo, 2, Len(todo))
         \/ Unverified(f) /\ todo' = <<>>
  BY DEF VerifyExcluded
<1>2. Probed /\ UniqueNames /\ FilesInv
  BY <1>1 DEF Probed, DirectoryInv, FilesInv
<1>3. /\ todo \in Seq(FileRec)
      /\ \A i \in 1..Len(todo) : todo[i] \in files /\ ~todo[i].exact
      /\ \A i, j \in 1..Len(todo) : todo[i] = todo[j] => i = j
      /\ Incomplete \/ (Beaten /\ Listed)
  BY <1>1, <1>2 DEF DirectoryInv, StageInv, ExcludedInv, Waiting
<1>4. /\ Len(todo) \in Nat \ {0} /\ f \in files /\ ~f.exact
      /\ SubSeq(todo, 2, Len(todo)) \in Seq(FileRec)
      /\ Len(SubSeq(todo, 2, Len(todo))) = Len(todo) - 1
      /\ \A i \in 1..(Len(todo) - 1) : SubSeq(todo, 2, Len(todo))[i] = todo[i + 1]
  BY <1>1, <1>3, RestRight
<1>5. FilesInv' /\ DiskInv' /\ ClockTypes' /\ found' = NoWindow
  BY <1>1, <1>2, VerifyInv, UnverifiedInv
<1>6. ListedInv'
  BY <1>1, <1>2, VerifyListed
<1>7. todo' \in Seq(FileRec)
  <2> HIDE DEF f
  <2>1. <<>> \in Seq(FileRec)
    OBVIOUS
  <2>2. QED
    BY <1>1, <1>4, <2>1
<1>8. StageInv'
  BY <1>1, <1>5, <1>7 DEF StageInv
<1>9. ExcludedInv'
  <2>1. CASE Unverified(f) /\ todo' = <<>>
    <3>1. Incomplete' /\ 1..Len(todo') = {}
      BY <1>1, <1>2, <2>1, UnverifiedInv
    <3>2. QED
      BY <3>1 DEF ExcludedInv, Waiting
  <2>2. CASE Verify(f) /\ todo' = SubSeq(todo, 2, Len(todo))
    <3> HIDE DEF f
    <3>1. /\ reasons \subseteq reasons'
          /\ \A h \in files' : h.name # f.name => h \in files
          /\ \A h \in files' : h.name = f.name => h.exact
          /\ \A g \in files : g.name # f.name => g \in files'
      BY <1>1, <1>2, <2>2, VerifyInv
    <3>2. \A g \in files : g # f => g.name # f.name
      BY <1>2, <1>4 DEF UniqueNames
    <3>3. /\ Len(todo') = Len(todo) - 1
          /\ \A i \in 1..Len(todo') : /\ todo'[i] = todo[i + 1] /\ i + 1 \in 1..Len(todo)
                                      /\ todo'[i] # f
      BY <1>3, <1>4, <2>2 DEF f
    <3>4. Waiting'
      <4>1. \A i \in 1..Len(todo') : todo'[i] \in files' /\ ~todo'[i].exact
        BY <1>3, <3>1, <3>2, <3>3
      <4>2. \A i, j \in 1..Len(todo') : todo'[i] = todo'[j] => i = j
        BY <1>3, <1>4, <3>3
      <4>3. QED
        BY <4>1, <4>2 DEF Waiting
    <3>5. Incomplete => Incomplete'
      BY <3>1 DEF Incomplete
    <3>6. shift' = shift /\ clock' = clock
      BY <1>1 DEF Verification
    <3>7. \A g, h : Newer(g, h)' <=> Newer(g, h)
      BY <3>6 DEF Newer, OrderKey, Wall, Offset
    <3>8. \A h \in DatedFiles' : ~h.exact => h \in DatedFiles /\ h # f
      BY <3>1 DEF DatedFiles
    <3>9. Beaten => Beaten'
      <4>1. SUFFICES ASSUME Beaten, NEW g \in DatedFiles', ~g.exact
                     PROVE  \E e \in DatedFiles' : e.exact /\ Newer(e, g)'
        BY DEF Beaten
      <4>2. PICK e \in DatedFiles : e.exact /\ Newer(e, g)
        BY <3>8, <4>1 DEF Beaten
      <4>3. e \in files' /\ e.last # 0
        BY <1>4, <3>1, <3>2, <4>2 DEF DatedFiles
      <4>4. e \in DatedFiles'
        BY <4>3 DEF DatedFiles
      <4>5. QED
        BY <3>7, <4>2, <4>4
    <3>10. Listed => Listed'
      <4>1. \A d : Wall(d)' = Wall(d)
        BY <3>6 DEF Wall, Offset
      <4>2. (WindowBounds(tested).from)' = WindowBounds(tested).from
        BY <1>1, <3>6 DEF Wall, Offset, WindowBounds, OffsetOfWall
      <4>3. SUFFICES ASSUME Listed, NEW g \in DatedFiles', ~g.exact, ~g.trusted,
                            (Wall(g.last) < WindowBounds(tested).from)
                     PROVE  \E i \in 1..Len(todo') : todo'[i] = g
        BY <4>1, <4>2 DEF Listed
      <4>4. PICK i \in 1..Len(todo) : todo[i] = g
        BY <3>8, <4>3 DEF Listed
      <4>5. i # 1 /\ g # f
        BY <3>8, <4>3, <4>4 DEF f
      <4>6. i - 1 \in 1..Len(todo') /\ (i - 1) + 1 = i
        BY <1>4, <3>3, <4>5
      <4>7. QED
        BY <3>3, <4>4, <4>6
    <3>11. QED
      BY <1>3, <3>4, <3>5, <3>9, <3>10 DEF ExcludedInv
  <2>3. QED
    BY <1>1, <2>1, <2>2
<1>10. QED
  BY <1>5, <1>6, <1>8, <1>9 DEF DirectoryInv, NoWindow, Resolved, AnchorReal, NothingHidden

(* The window ends at the newest file; while discovery does not say that   *)
(* it is incomplete its date is an exact one.                              *)
LEMMA NewestExact ==
  ASSUME DirectoryInv, pc = "excluded", DatedFiles # {}, ~Incomplete
  PROVE  NewestFile.exact
<1>1. ClockTypes /\ FileSet /\ UniqueNames /\ Beaten
  BY DEF DirectoryInv, FilesInv, ExcludedInv
<1>2. NewestFile \in DatedFiles /\ IsNewest(NewestFile)
  BY <1>1, NewestExists
<1> DEFINE m == NewestFile
<1> HIDE DEF m
<1>3. SUFFICES ASSUME ~m.exact PROVE FALSE
  BY DEF m
<1>4. PICK e \in DatedFiles : e.exact /\ Newer(e, m)
  BY <1>1, <1>2, <1>3 DEF Beaten, m
<1>5. Newer(m, e)
  BY <1>2, <1>3, <1>4 DEF IsNewest, m
<1>6. e \in FileRec /\ m \in FileRec
  BY <1>1, <1>2, DatedFinite DEF m
<1>7. OrderKey(e) \in Int /\ OrderKey(m) \in Int /\ e.name \in Nat /\ m.name \in Nat
  BY <1>1, <1>6, KeyRight, FileFields
<1>8. QED
  BY <1>4, <1>5, <1>7 DEF Newer

(* No date is later than the newest one.                                   *)
LEMMA NewestLast ==
  ASSUME ClockTypes, FilesInv, TimesKnown, NEW f \in DatedFiles
  PROVE  f.last <= NewestFile.last
<1>1. FileSet /\ UniqueNames
  BY DEF FilesInv
<1>2. NewestFile \in DatedFiles /\ IsNewest(NewestFile)
  BY <1>1, NewestExists
<1> DEFINE m == NewestFile
<1> HIDE DEF m
<1>3. f \in FileRec /\ m \in FileRec
  BY <1>1, <1>2, DatedFinite DEF m
<1>4. f.last \in Nat /\ m.last \in Nat /\ OrderKey(f) = f.last /\ OrderKey(m) = m.last
  BY <1>3, KeyRight, FileFields
<1>5. CASE f = m
  BY <1>4, <1>5 DEF m
<1>6. CASE f # m
  <2>1. Newer(m, f)
    BY <1>2, <1>6 DEF IsNewest, m
  <2>2. QED
    BY <1>4, <2>1 DEF Newer, m
<1>7. QED
  BY <1>5, <1>6

(* The records of a file without lines.                                    *)
LEMMA NoLines ==
  ASSUME NEW f, Sound(f), Len(f.lines) = 0
  PROVE  DOMAIN TrueRecords(f) = {}
<1>1. f.lines = <<>> /\ ~f.torn
  <2>1. f.lines \in Seq(Line)
    BY LineTypes
  <2>2. f.lines = <<>>
    BY <2>1
  <2>3. QED
    BY <2>2 DEF Sound
<1>2. Whole(f) = 0
  BY <1>1 DEF Whole
<1>3. CompleteRecords(f, 0) = FirstState(f, 0)
  BY <1>2, ReadingRight DEF CompleteRecords
<1>4. TrueRecords(f) = <<>>
  BY <1>3 DEF TrueRecords, FirstState
<1>5. QED
  BY <1>4

(* The window begins at some time.                                         *)
LEMMA BoundsType ==
  ASSUME ClockTypes, NEW a \in Nat
  PROVE  WindowBounds(a).from \in Int
<1> DEFINE naive == Wall(a) - Depth
           local == IF clock = "zone" THEN Wall(a - Depth) ELSE naive
           wider == IF clock = "zone" THEN Apart(OffsetOfWall(local), Offset(a)) ELSE 0
<1>1. naive \in Int /\ local \in Int /\ wider \in Int
  BY LogDirectoryAssumption DEF ClockTypes, Wall, Offset, OffsetOfWall, Apart
<1>2. WindowBounds(a).from = Min({local, naive}) - wider
  BY DEF WindowBounds
<1> HIDE DEF local, naive, wider
<1>3. Min({local, naive}) = IF local <= naive THEN local ELSE naive
  BY <1>1 DEF Min
<1>4. QED
  BY <1>1, <1>2, <1>3

(* A file that holds a record of the window is inside it, however little   *)
(* was proved of its date: unless its tail misled discovery, or the window *)
(* moved on after the files to leave out were chosen.                      *)
LEMMA InsideRight ==
  ASSUME DirectoryInv, pc = "excluded", todo = <<>>, ~Incomplete, TimesKnown, Undetermined = {},
         NEW n \in Names, NEW f \in files, f.name = n,
         ~Misled(f), f.exact \/ f.trusted \/ NewestFile.last = tested,
         NEW i \in DOMAIN TrueRecords(probed[n]), TrueRecords(probed[n])[i].date # 0,
         NewestFile.last - Depth <= TrueRecords(probed[n])[i].date,
         DatedFiles # {}
  PROVE  f \in Inside(WindowBounds(NewestFile.last).from)
<1> DEFINE a == NewestFile.last
           d == TrueRecords(probed[n])[i].date
<1>1. ClockTypes /\ FilesInv /\ FileSet /\ UniqueNames /\ Known(f) /\ f \in FileRec
  BY DEF DirectoryInv, FilesInv, FileSet
<1>2. Sound(probed[n]) /\ Bounded(probed[n], TrueLast(probed[n]))
  BY DEF DirectoryInv, DiskInv
<1>3. f.last \in Nat /\ f.size \in Nat /\ d \in Nat
  BY <1>1, <1>2, FileFields, TrueTypes
<1>4. a \in Nat
  BY <1>1, NewestExists, DatedFinite, FileFields
<1>5. f.determined
  <2>1. Len(probed[n].lines) # 0
    BY <1>2, NoLines
  <2>2. f.size > 0
    BY <1>1, <1>3, <2>1 DEF Known
  <2>3. QED
    BY <2>2 DEF Undetermined
<1>6. CASE f.exact \/ f.trusted
  <2>1. d <= f.last
    <3>1. Bounded(probed[n], f.last)
      BY <1>1, <1>2, <1>6 DEF Known, Misled
    <3>2. QED
      BY <3>1 DEF Bounded
  <2>2. f.last # 0
    BY <1>3, <2>1
  <2>3. f \in DatedFiles
    BY <2>2 DEF DatedFiles
  <2>4. f.last <= a
    BY <1>1, <2>3, NewestLast
  <2>5. a - Depth <= f.last
    <3>1. Depth \in Nat
      BY LogDirectoryAssumption
    <3> HIDE DEF a, d
    <3>2. a - Depth <= d
      BY DEF a, d
    <3>3. QED
      BY <1>3, <1>4, <2>1, <3>1, <3>2
  <2>6. WindowBounds(a).from <= Wall(f.last)
    <3> HIDE DEF a, d
    <3>1. QED
      BY <1>1, <1>3, <1>4, <2>4, <2>5, WindowRight
  <2>7. WindowBounds(a).from \in Int /\ Wall(f.last) \in Int
    <3> HIDE DEF a
    <3>1. QED
      BY <1>1, <1>4, KeyRight, BoundsType
  <2>8. QED
    BY <2>3, <2>6, <2>7 DEF Inside
<1>7. CASE ~f.exact /\ ~f.trusted
  <2>1. f \in DatedFiles /\ a = tested
    BY <1>1, <1>5, <1>7 DEF Known, DatedFiles
  <2>2. Listed
    BY DEF DirectoryInv, ExcludedInv
  <2>3. 1..Len(todo) = {}
    OBVIOUS
  <2>4. ~ (Wall(f.last) < WindowBounds(a).from)
    BY <1>7, <2>1, <2>2, <2>3 DEF Listed
  <2>5. WindowBounds(a).from \in Int /\ Wall(f.last) \in Int
    <3> HIDE DEF a
    <3>1. QED
      BY <1>1, <1>4, KeyRight, BoundsType
  <2>6. QED
    BY <2>1, <2>4, <2>5 DEF Inside
<1>8. QED
  BY <1>6, <1>7

(* The window is resolved.                                                 *)
LEMMA ResolveInv ==
  ASSUME DirectoryInv, Resolve
  PROVE  DirectoryInv'
<1> DEFINE m == NewestFile
           bounds == WindowBounds(m.last)
           inside == Inside(bounds.from)
           all == SetToSeq(Undetermined) \o ByDate(inside)
           over == Len(all) > MaxCandidates
<1>1. /\ pc = "excluded" /\ todo = <<>> /\ pc' = "done" /\ DatedFiles # {}
      /\ UNCHANGED <<disk, shift, clock, files, unreadable, truncated, todo, verified, probed, tested>>
  BY DEF Resolve
<1>2. found' = [status |-> "resolved", anchor |-> m.last, from |-> bounds.from, to |-> bounds.to,
                cands |-> [i \in 1..Min({MaxCandidates, Len(all)}) |-> all[i].name]]
  BY DEF Resolve
<1>3. reasons' = reasons \cup (IF Undetermined # {} THEN {"discovery_incomplete"} ELSE {})
                         \cup (IF unreadable # {} THEN {"files_unreadable"} ELSE {})
                         \cup (IF truncated \/ over THEN {"candidate_limit_hit"} ELSE {})
  BY DEF Resolve
<1> HIDE DEF over, all
<1>4. /\ found'.anchor = m.last /\ found'.from = bounds.from /\ found'.to = bounds.to
      /\ found'.cands = [i \in 1..Min({MaxCandidates, Len(all)}) |-> all[i].name]
  BY <1>2
<1>5. ClockTypes /\ FilesInv /\ FileSet /\ UniqueNames
  BY DEF DirectoryInv, FilesInv
<1>6. ClockTypes' /\ DiskInv' /\ FilesInv'
  BY <1>1 DEF DirectoryInv, ClockTypes, DiskInv, FilesInv, FileSet, UniqueNames, Known
<1>7. ListedInv' /\ StageInv' /\ ExcludedInv'
  BY <1>1 DEF ListedInv, StageInv, ExcludedInv, Probed
<1>8. m \in DatedFiles /\ m \in FileRec /\ m \in files /\ m.last \in Nat /\ m.name \in Names
  BY <1>1, <1>5, NewestExists, DatedFinite, FileFields
<1> HIDE DEF m
<1>9. AnchorReal'
  <2>1. SUFFICES ASSUME "discovery_incomplete" \notin reasons'
                 PROVE  \E n \in Names : \E f \in {probed[n], disk[n]} : TrueLast(f) = m.last
    BY <1>1, <1>4 DEF AnchorReal
  <2>2. ~Incomplete
    BY <1>3, <2>1 DEF Incomplete
  <2>3. m.exact
    BY <1>1, <2>2, NewestExact DEF m
  <2>4. QED
    BY <1>5, <1>8, <2>3 DEF FilesInv, Known
<1>10. NothingHidden'
  <2>1. SUFFICES ASSUME reasons' = {}, TimesKnown, NEW n \in Names,
                        \A f \in files : f.name = n => ~Misled(f) /\ ~Overtaken(f)',
                        NEW r \in WindowRecords(n)'
                 PROVE  Found(n, r)'
    <3>1. TimesKnown' <=> TimesKnown
      BY <1>1 DEF TimesKnown
    <3>2. \A f : Misled(f)' <=> Misled(f)
      BY <1>1 DEF Misled
    <3>3. QED
      BY <1>1, <3>1, <3>2 DEF NothingHidden
  <2>2. ~Incomplete /\ reasons = {} /\ Undetermined = {} /\ unreadable = {} /\ ~truncated /\ ~over
    BY <1>3, <2>1 DEF Incomplete
  <2>3. PICK i \in DOMAIN TrueRecords(probed[n]) : r = TrueRecords(probed[n])[i]
    BY <1>1, <2>1 DEF WindowRecords, ToSet
  <2>4. r.date # 0 /\ m.last - Depth <= r.date /\ r.date <= m.last
    BY <1>4, <2>1 DEF WindowRecords
  <2>5. Sound(probed[n])
    BY DEF DirectoryInv, DiskInv
  <2>6. r.date \in Nat
    BY <2>3, <2>5, TrueTypes
  <2>7. found'.from <= Wall(r.date)' /\ Wall(r.date)' <= found'.to
    <3>1. bounds.from <= Wall(r.date) /\ Wall(r.date) <= bounds.to
      BY <1>5, <1>8, <2>1, <2>4, <2>6, WindowRight
    <3>2. Wall(r.date)' = Wall(r.date)
      BY <1>1 DEF Wall, Offset
    <3>3. QED
      BY <1>4, <3>1, <3>2
  <2>8. n \in ToSet(found'.cands)
    <3>1. probed[n] # NoFile
      <4>1. DOMAIN TrueRecords(NoFile) = {}
        BY NoFileSound
      <4>2. QED
        BY <2>3, <4>1
    <3>2. PICK f \in files : f.name = n
      BY <1>1, <2>2, <3>1 DEF DirectoryInv, ListedInv, Probed
    <3>3. ~Misled(f) /\ (f.exact \/ f.trusted \/ m.last = tested)
      BY <1>1, <1>4, <2>1, <3>2 DEF Overtaken
    <3>4. f \in inside
      <4> HIDE DEF inside, bounds
      <4>1. f \in Inside(WindowBounds(NewestFile.last).from)
        BY <1>1, <2>1, <2>2, <2>3, <2>4, <3>2, <3>3, InsideRight DEF m
      <4>2. QED
        BY <4>1 DEF inside, bounds, m
    <3>5. inside \in SUBSET FileRec /\ IsFiniteSet(inside)
      <4>1. DatedFiles \in SUBSET FileRec /\ IsFiniteSet(DatedFiles)
        BY <1>5, DatedFinite
      <4>2. inside \subseteq DatedFiles
        BY DEF Inside
      <4> HIDE DEF inside
      <4>3. QED
        BY <4>1, <4>2, FS_Subset
    <3> DEFINE cand == ByDate(inside)
    <3> HIDE DEF inside, bounds
    <3>6. cand \in Seq(inside) /\ \E j \in DOMAIN cand : cand[j] = f
      BY <1>5, <3>4, <3>5, ByDateRight
    <3> HIDE DEF cand
    <3>7. all = cand
      <4>1. SetToSeq({}) = <<>>
        <5>1. SetToSeq({}) \in Seq({}) /\ Len(SetToSeq({})) = 0
          BY FS_EmptySet, SetToSeqRight
        <5>2. QED
          BY <5>1
      <4>2. <<>> \o cand = cand
        BY <3>6
      <4>3. QED
        BY <2>2, <4>1, <4>2 DEF all, cand
    <3>8. Len(all) \in Nat /\ Len(all) <= MaxCandidates /\ MaxCandidates \in Nat
      <4>1. MaxCandidates \in Nat /\ Len(all) \in Nat
        BY <3>6, <3>7, LogDirectoryAssumption
      <4>2. QED
        BY <2>2, <4>1 DEF over
    <3>9. Min({MaxCandidates, Len(all)}) = Len(all)
      <4> DEFINE k == Len(all)
      <4> HIDE DEF k
      <4>1. k \in Nat /\ MaxCandidates \in Nat /\ k <= MaxCandidates
        BY <3>8 DEF k
      <4>2. QED
        BY <4>1 DEF Min, k
    <3>10. PICK j \in 1..Len(all) : all[j] = f
      BY <3>6, <3>7
    <3>11. found'.cands[j] = n /\ j \in DOMAIN found'.cands
      BY <1>4, <3>2, <3>9, <3>10
    <3>12. QED
      BY <3>11 DEF ToSet
  <2>9. QED
    BY <2>7, <2>8 DEF Found
<1>11. QED
  BY <1>6, <1>7, <1>9, <1>10 DEF DirectoryInv

(* Every step of discovery keeps the invariant.                            *)
LEMMA DirectoryStepInv == DirectoryInv /\ [DirectoryNext]_directory => DirectoryInv'
<1> SUFFICES ASSUME DirectoryInv, [DirectoryNext]_directory PROVE DirectoryInv'
  OBVIOUS
<1>1. CASE Disk
  BY <1>1, DiskStepInv
<1>2. CASE ProbeFails
  BY <1>2, EndsInv DEF ProbeFails
<1>3. CASE Fails
  BY <1>3, EndsInv DEF Fails
<1>4. CASE Probe
  BY <1>4, ProbeStepInv
<1>5. CASE VerifyUndetermined \/ VerifyNewest
  BY <1>5, VerifyStepInv
<1>6. CASE UndeterminedDone
  BY <1>6, UndeterminedDoneInv
<1>7. CASE NewestDone
  BY <1>7, NewestDoneInv
<1>8. CASE VerifyExcluded
  BY <1>8, VerifyExcludedInv
<1>9. CASE NoDate
  BY <1>9, EndsInv DEF NoDate
<1>10. CASE NoLayout
  BY <1>10, EndsInv DEF NoLayout
<1>11. CASE Resolve
  BY <1>11, ResolveInv
<1>12. CASE UNCHANGED directory
  <2>1. /\ disk' = disk /\ shift' = shift /\ clock' = clock /\ pc' = pc /\ files' = files
        /\ unreadable' = unreadable /\ truncated' = truncated /\ todo' = todo
        /\ verified' = verified /\ reasons' = reasons /\ found' = found /\ probed' = probed
        /\ tested' = tested
    BY <1>12 DEF directory, discovery
  <2>2. ClockTypes' /\ DiskInv' /\ ListedInv' /\ StageInv'
    <3>1. ClockTypes' /\ StageInv'
      BY <2>1 DEF DirectoryInv, ClockTypes, StageInv, Probed, Incomplete
    <3>2. DiskInv'
      BY <2>1 DEF DirectoryInv, DiskInv
    <3>3. ListedInv'
      BY <2>1 DEF DirectoryInv, ListedInv, Probed
    <3>4. QED
      BY <3>1, <3>2, <3>3
  <2>3. FilesInv'
    BY <2>1 DEF DirectoryInv, FilesInv, FileSet, UniqueNames, Known
  <2>4. ExcludedInv'
    BY <2>1 DEF DirectoryInv, ExcludedInv, Waiting, Beaten, Listed, Incomplete, DatedFiles,
          Newer, OrderKey, Wall, Offset, WindowBounds, OffsetOfWall
  <2>5. AnchorReal'
    BY <2>1 DEF DirectoryInv, AnchorReal, Resolved
  <2>6. NothingHidden'
    BY <2>1 DEF DirectoryInv, NothingHidden, Resolved, TimesKnown, Misled, Overtaken,
          WindowRecords, Found, Wall, Offset
  <2>7. QED
    BY <2>2, <2>3, <2>4, <2>5, <2>6 DEF DirectoryInv
<1>13. QED
  BY <1>1, <1>2, <1>3, <1>4, <1>5, <1>6, <1>7, <1>8, <1>9, <1>10, <1>11, <1>12 DEF DirectoryNext

(* The invariant of discovery (logscan/directory.py): what is known of each *)
(* file, what is still to be verified, and why the newest date is exact.   *)
THEOREM DirectorySpecInv == DirectorySpec => []DirectoryInv
BY DirectoryInitInv, DirectoryStepInv, PTL DEF DirectorySpec

(* The end of the window is the date of a record that a file really holds, *)
(* never a date inside a message, unless discovery says it is incomplete.  *)
THEOREM WindowAnchored == DirectorySpec => []AnchorReal
<1>1. DirectoryInv => AnchorReal
  BY DEF DirectoryInv
<1>2. QED
  BY <1>1, DirectorySpecInv, PTL

(* Discovery that reports nothing has lost no record of the window, however*)
(* the files lie and grow and whatever the change of the offset.           *)
THEOREM DiscoveryComplete == DirectorySpec => []NothingHidden
<1>1. DirectoryInv => NothingHidden
  BY DEF DirectoryInv
<1>2. QED
  BY <1>1, DirectorySpecInv, PTL

-----------------------------------------------------------------------------
(* Rows, and tables of them.                                               *)

(* The records of a log, and the texts they refer to.                      *)
Series == UNION Logs
Events(R) ==
  /\ R \subseteq Series /\ IsFiniteSet(R)
  /\ \A r \in R : r.kind \in DOMAIN Messages /\ r.n \in Nat \ {0} /\ r.t \in Nat
OneQuery(R) == \A a, b \in R : Query(a) = Query(b)
Texts == {<<"query", Messages[k].query>> : k \in DOMAIN Messages}
           \cup {<<"message", k>> : k \in DOMAIN Messages} \cup ({"plan"} \X Nat)

(* A row refers to the queries of its records and to one text more at most. *)
IsRow(row) ==
  /\ IsFiniteSet(row.refs) /\ Cardinality(row.refs) <= 2
  /\ QueryRefs(row.of) \subseteq row.refs
Row == {row \in [n : Nat, refs : SUBSET Texts, of : SUBSET Series] : IsRow(row)}

(* The result of an item that has something to show shows something.       *)
MadeRight(made) ==
  /\ made.series \in Nat /\ made.events \in Nat /\ made.lost \in Nat /\ made.shown \in Seq(Row)
  /\ made.shown = <<>> => made.series = 0 /\ made.events = 0

LEMMA EventsInNat ==
  ASSUME NEW R, Events(R)
  PROVE  EventsIn(R) \in Nat
<1> DEFINE f == [r \in R |-> r.n]
<1>1. f \in [R -> Nat] /\ IsFiniteSet(R)
  BY DEF Events
<1>2. EventsIn(R) = Sum(f)
  BY DEF EventsIn, SumFunction, SumFunctionOnSet, Sum, FoldFunction
<1> HIDE DEF f
<1>3. QED
  BY <1>1, <1>2, SumZero

LEMMA EventsOfNat ==
  ASSUME NEW rows \in Seq(Row)
  PROVE  EventsOf(rows) \in Nat /\ (rows = <<>> => EventsOf(rows) = 0)
<1> DEFINE D == DOMAIN rows
           f == [i \in D |-> rows[i].n]
<1>1. D = 1..Len(rows) /\ Len(rows) \in Nat /\ IsFiniteSet(D)
  BY FS_Interval
<1>2. f \in [D -> Nat]
  BY DEF Row
<1>3. EventsOf(rows) = Sum(f)
  BY DEF EventsOf, SumFunction, SumFunctionOnSet, Sum, FoldFunction
<1> HIDE DEF f
<1>4. Sum(f) \in Nat
  BY <1>1, <1>2, SumZero
<1>5. rows = <<>> => Sum(f) = 0
  <2>1. PICK H : Adding(H, D, f) /\ Sum(f) = H[D]
    BY <1>1, <1>2, SumAdds
  <2>2. rows = <<>> => D = {}
    BY <1>1
  <2>3. QED
    BY <2>1, <2>2 DEF Adding
<1>6. QED
  BY <1>3, <1>4, <1>5

LEMMA ResultRight ==
  ASSUME NEW rows \in Seq(Row), NEW shown \in Seq(Row), shown = <<>> => rows = <<>>, NEW counts
  PROVE  MadeRight(Result(rows, shown, counts)) /\ Result(rows, shown, counts).shown = shown
<1>1. EventsOf(rows) \in Nat /\ (rows = <<>> => EventsOf(rows) = 0)
  BY EventsOfNat
<1>2. Len(rows) \in Nat /\ (rows = <<>> => Len(rows) = 0)
  OBVIOUS
<1>3. QED
  BY <1>1, <1>2 DEF Result, MadeRight

(* The first rows of a sequence.                                           *)
LEMMA UptoRight ==
  ASSUME NEW S, NEW s \in Seq(S), NEW n \in Nat \ {0}
  PROVE  /\ Upto(s, n) \in Seq(S) /\ (Upto(s, n) = <<>> => s = <<>>)
         /\ DOMAIN Upto(s, n) \subseteq DOMAIN s
         /\ \A i \in DOMAIN Upto(s, n) : Upto(s, n)[i] = s[i]
<1>1. Len(s) \in Nat /\ (Len(s) = 0 => s = <<>>)
  OBVIOUS
<1>2. PICK m \in 0..Len(s) : m = (IF Len(s) < n THEN Len(s) ELSE n)
  BY <1>1
<1>3. Upto(s, n) = SubSeq(s, 1, m)
  BY <1>2 DEF Upto
<1>4. /\ SubSeq(s, 1, m) \in Seq(S) /\ Len(SubSeq(s, 1, m)) = m
      /\ \A i \in 1..m : SubSeq(s, 1, m)[i] = s[i]
  BY <1>1, <1>2
<1>5. m = 0 => s = <<>>
  BY <1>1, <1>2
<1>6. QED
  BY <1>1, <1>3, <1>4, <1>5

LEMMA TableRight ==
  ASSUME NEW rows \in Seq(Row), NEW counts
  PROVE  MadeRight(Table(rows, counts))
<1>1. RowLimit \in Nat \ {0}
  BY LogItemsAssumption
<1>2. Upto(rows, RowLimit) \in Seq(Row) /\ (Upto(rows, RowLimit) = <<>> => rows = <<>>)
  BY <1>1, UptoRight
<1>3. QED
  BY <1>2, ResultRight DEF Table

(* The queries of records with one query are one text at most.             *)
LEMMA QueryRefsRight ==
  ASSUME NEW R, Events(R), OneQuery(R)
  PROVE  /\ QueryRefs(R) \in SUBSET Texts /\ IsFiniteSet(QueryRefs(R))
         /\ Cardinality(QueryRefs(R)) \in {0, 1}
<1>1. QueryRefs(R) \in SUBSET Texts
  BY DEF QueryRefs, Texts, Query, Events
<1>2. QueryRefs(R) = {} \/ \E t : QueryRefs(R) = {t}
  <2>1. SUFFICES ASSUME QueryRefs(R) # {} PROVE \E t : QueryRefs(R) = {t}
    OBVIOUS
  <2>2. PICK r \in R : Query(r) # "none"
    BY <2>1 DEF QueryRefs
  <2>3. QueryRefs(R) = {<<"query", Query(r)>>}
    BY <2>2 DEF QueryRefs, OneQuery
  <2>4. QED
    BY <2>3
<1>3. QED
  BY <1>1, <1>2, FS_EmptySet, FS_Singleton

LEMMA RowOfRight ==
  ASSUME NEW R, Events(R), OneQuery(R)
  PROVE  RowOf(R) \in Row /\ Cardinality(RowOf(R).refs) <= 1
<1>1. EventsIn(R) \in Nat
  BY EventsInNat
<1>2. /\ QueryRefs(R) \in SUBSET Texts /\ IsFiniteSet(QueryRefs(R))
      /\ Cardinality(QueryRefs(R)) \in {0, 1}
  BY QueryRefsRight
<1>3. R \in SUBSET Series
  BY DEF Events
<1>4. QED
  BY <1>1, <1>2, <1>3 DEF RowOf, Row, IsRow

LEMMA WithRefRight ==
  ASSUME NEW row \in Row, Cardinality(row.refs) <= 1, NEW ref \in Texts
  PROVE  WithRef(row, ref) \in Row
<1>1. IsFiniteSet(row.refs) /\ QueryRefs(row.of) \subseteq row.refs /\ Cardinality(row.refs) \in Nat
  BY FS_CardinalityType DEF Row, IsRow
<1>2. IsFiniteSet(row.refs \cup {ref}) /\ Cardinality(row.refs \cup {ref}) <= 2
  <2>1. /\ IsFiniteSet(row.refs \cup {ref})
        /\ Cardinality(row.refs \cup {ref}) \in {Cardinality(row.refs), Cardinality(row.refs) + 1}
    BY <1>1, FS_AddElement
  <2>2. QED
    BY <1>1, <2>1
<1>3. row.n \in Nat /\ row.refs \in SUBSET Texts /\ row.of \in SUBSET Series
  BY DEF Row
<1>4. QED
  BY <1>1, <1>2, <1>3 DEF WithRef, Row, IsRow

LEMMA SinglyRight ==
  ASSUME NEW W, Events(W), NEW n \in Nat, NEW order \in [1..n -> W]
  PROVE  Singly(order) \in Seq(Row) /\ Len(Singly(order)) = n
<1>1. ASSUME NEW i \in 1..n PROVE RowOf({order[i]}) \in Row
  <2>1. order[i] \in W
    OBVIOUS
  <2>2. Events({order[i]}) /\ OneQuery({order[i]})
    BY <2>1, FS_Singleton DEF Events, OneQuery
  <2>3. QED
    BY <2>2, RowOfRight
<1>2. Singly(order) = [i \in 1..n |-> RowOf({order[i]})]
  BY DEF Singly
<1>3. QED
  BY <1>1, <1>2

LEMMA SortedSeries ==
  ASSUME NEW W, Events(W), NEW key \in [W -> Int \X Int]
  PROVE  Singly(Sorted(W, key)) \in Seq(Row)
<1>1. Cardinality(W) \in Nat /\ IsFiniteSet(W)
  BY FS_CardinalityType DEF Events
<1>2. Sorted(W, key) \in [1..Cardinality(W) -> W]
  BY <1>1, SortedRight
<1>3. QED
  BY <1>1, <1>2, SinglyRight

LEMMA NewestRight == ASSUME NEW W, Events(W) PROVE Newest(W) \in Seq(Row)
<1> DEFINE key == [r \in W |-> <<-r.t, 0>>]
<1>1. key \in [W -> Int \X Int]
  BY DEF Events
<1>2. Newest(W) = Singly(Sorted(W, key))
  BY DEF Newest
<1> HIDE DEF key
<1>3. QED
  BY <1>1, <1>2, SortedSeries

LEMMA RankedRight ==
  ASSUME NEW W, Events(W), NEW rank, \A r \in W : rank[r] \in Int
  PROVE  Ranked(W, rank) \in Seq(Row)
<1> DEFINE key == [r \in W |-> <<-rank[r], -r.t>>]
<1>1. key \in [W -> Int \X Int]
  BY DEF Events
<1>2. Ranked(W, rank) = Singly(Sorted(W, key))
  BY DEF Ranked
<1> HIDE DEF key
<1>3. QED
  BY <1>1, <1>2, SortedSeries

(* Groups of records with one query each.                                  *)
Grouping(G) == IsFiniteSet(G) /\ \A A \in G : A # {} /\ Events(A) /\ OneQuery(A)

(* min() of the times of a group.                                          *)
LEMMA FirstTimeNat ==
  ASSUME NEW A, Events(A), A # {}
  PROVE  FirstTime(A) \in Nat
<1>1. {r.t : r \in A} \in SUBSET Nat /\ {r.t : r \in A} # {}
  BY DEF Events
<1>2. QED
  BY <1>1, MinRight DEF FirstTime

LEMMA MostFrequentRight ==
  ASSUME NEW G, Grouping(G)
  PROVE  MostFrequent(G) \in Seq(Row) /\ Len(MostFrequent(G)) = Cardinality(G)
<1> DEFINE key == [A \in G |-> <<-EventsIn(A), FirstTime(A)>>]
           order == Sorted(G, key)
<1>1. Cardinality(G) \in Nat /\ IsFiniteSet(G)
  BY FS_CardinalityType DEF Grouping
<1>2. key \in [G -> Int \X Int]
  <2>1. ASSUME NEW A \in G PROVE EventsIn(A) \in Nat /\ FirstTime(A) \in Nat
    BY EventsInNat, FirstTimeNat DEF Grouping
  <2>2. QED
    BY <2>1
<1>3. MostFrequent(G) = [i \in DOMAIN order |-> RowOf(order[i])]
  BY DEF MostFrequent
<1>4. order \in [1..Cardinality(G) -> G]
  <2> HIDE DEF key
  <2>1. QED
    BY <1>1, <1>2, SortedRight
<1> HIDE DEF order
<1>5. ASSUME NEW i \in 1..Cardinality(G) PROVE RowOf(order[i]) \in Row
  <2>1. order[i] \in G
    BY <1>4
  <2>2. QED
    BY <2>1, RowOfRight DEF Grouping
<1>6. MostFrequent(G) = [i \in 1..Cardinality(G) |-> RowOf(order[i])]
  BY <1>3, <1>4
<1>7. QED
  BY <1>1, <1>5, <1>6

-----------------------------------------------------------------------------
(* Groups.                                                                 *)

(* Records of one group have the same value of by.                         *)
Classes(R, by) == {{b \in R : by[b] = by[a]} : a \in R}

LEMMA ClassesRight ==
  ASSUME NEW R, Events(R), NEW by, \A a, b \in R : by[a] = by[b] => Query(a) = Query(b)
  PROVE  Grouping(Classes(R, by))
<1> DEFINE f == [a \in R |-> {b \in R : by[b] = by[a]}]
<1>1. IsFiniteSet(Classes(R, by))
  <2>1. Classes(R, by) = {f[a] : a \in R}
    BY DEF Classes
  <2>2. IsFiniteSet(R)
    BY DEF Events
  <2> HIDE DEF f
  <2>3. QED
    BY <2>1, <2>2, ImageFinite
<1>2. ASSUME NEW a \in R PROVE f[a] # {} /\ Events(f[a]) /\ OneQuery(f[a])
  <2>1. a \in f[a] /\ f[a] \subseteq R
    OBVIOUS
  <2>2. OneQuery(f[a])
    BY DEF OneQuery
  <2> HIDE DEF f
  <2>3. Events(f[a])
    BY <2>1, FS_Subset DEF Events
  <2>4. QED
    BY <2>1, <2>2, <2>3
<1>3. \A A \in Classes(R, by) : \E a \in R : A = f[a]
  BY DEF Classes
<1> HIDE DEF f
<1>4. QED
  BY <1>1, <1>2, <1>3 DEF Grouping

LEMMA SomeEvents ==
  ASSUME NEW W, Events(W), NEW R \in SUBSET W
  PROVE  Events(R)
BY FS_Subset DEF Events

LEMMA ByKindRight == ASSUME NEW R, Events(R) PROVE Grouping(ByKind(R))
<1> DEFINE by == [r \in R |-> r.kind]
<1>1. ByKind(R) = Classes(R, by)
  BY DEF ByKind, Groups, Classes
<1>2. \A a, b \in R : by[a] = by[b] => Query(a) = Query(b)
  BY DEF Query
<1> HIDE DEF by
<1>3. QED
  BY <1>1, <1>2, ClassesRight

LEMMA ByBucketAndKindRight == ASSUME NEW R, Events(R) PROVE Grouping(ByBucketAndKind(R))
<1> DEFINE by == [r \in R |-> <<Bucket(r), r.kind>>]
<1>1. ByBucketAndKind(R) = Classes(R, by)
  BY DEF ByBucketAndKind, Groups, Classes
<1>2. \A a, b \in R : by[a] = by[b] => Query(a) = Query(b)
  BY DEF Query
<1> HIDE DEF by
<1>3. QED
  BY <1>1, <1>2, ClassesRight

LEMMA ByQueryAndDatabaseRight == ASSUME NEW R, Events(R) PROVE Grouping(ByQueryAndDatabase(R))
<1> DEFINE by == [r \in R |-> <<Query(r), Messages[r.kind].db>>]
<1>1. ByQueryAndDatabase(R) = Classes(R, by)
  BY DEF ByQueryAndDatabase, Groups, Classes
<1>2. \A a, b \in R : by[a] = by[b] => Query(a) = Query(b)
  OBVIOUS
<1> HIDE DEF by
<1>3. QED
  BY <1>1, <1>2, ClassesRight

(* What some phrases and states say of the kind of a message.              *)
Telltale(k, m) ==
  /\ m.state \in {"28000", "28P01"} \/ "password authentication failed" \in m.says => k = "password"
  /\ "still waiting for" \in m.says => m.sev = "LOG" /\ m.state = "00000"
  /\ "plan" \in m.says => "duration" \in m.says
  /\ "failed too many times" \in m.says => k = "gaveUp"
  /\ "invalid resource manager ID" \in m.says => k = "rmgr"
  /\ "postmaster.pid" \in m.says => k = "pidFile"

LEMMA TelltaleRight == ASSUME NEW k \in DOMAIN Messages PROVE Telltale(k, Messages[k])
<1>1. CASE k = "syntax"
  <2>1. Messages[k] = Message("ERROR", "42601", {}, "q1", "a")
    BY <1>1 DEF Messages
  <2>2. Telltale(k, Message("ERROR", "42601", {}, "q1", "a"))
    BY <1>1 DEF Telltale, Message
  <2>3. QED
    BY <2>1, <2>2
<1>2. CASE k = "warned"
  <2>1. Messages[k] = Message("WARNING", "01000", {}, "none", "a")
    BY <1>2 DEF Messages
  <2>2. Telltale(k, Message("WARNING", "01000", {}, "none", "a"))
    BY <1>2 DEF Telltale, Message
  <2>3. QED
    BY <2>1, <2>2
<1>3. CASE k = "deadlock"
  <2>1. Messages[k] = Message("ERROR", "40P01", {}, "q1", "a")
    BY <1>3 DEF Messages
  <2>2. Telltale(k, Message("ERROR", "40P01", {}, "q1", "a"))
    BY <1>3 DEF Telltale, Message
  <2>3. QED
    BY <2>1, <2>2
<1>4. CASE k = "waited"
  <2>1. Messages[k] = Message("LOG", "00000", {"still waiting for"}, "q2", "a")
    BY <1>4 DEF Messages
  <2>2. Telltale(k, Message("LOG", "00000", {"still waiting for"}, "q2", "a"))
    BY <1>4 DEF Telltale, Message
  <2>3. QED
    BY <2>1, <2>2
<1>5. CASE k = "password"
  <2>1. Messages[k] = Message("FATAL", "28P01", {"password authentication failed"}, "none", "a")
    BY <1>5 DEF Messages
  <2>2. Telltale(k, Message("FATAL", "28P01", {"password authentication failed"}, "none", "a"))
    BY <1>5 DEF Telltale, Message
  <2>3. QED
    BY <2>1, <2>2
<1>6. CASE k = "archive"
  <2>1. Messages[k] = Message("LOG", "00000", {"archive command failed"}, "none", "none")
    BY <1>6 DEF Messages
  <2>2. Telltale(k, Message("LOG", "00000", {"archive command failed"}, "none", "none"))
    BY <1>6 DEF Telltale, Message
  <2>3. QED
    BY <2>1, <2>2
<1>7. CASE k = "gaveUp"
  <2>1. Messages[k] = Message("WARNING", "01000", {"failed too many times"}, "none", "none")
    BY <1>7 DEF Messages
  <2>2. Telltale(k, Message("WARNING", "01000", {"failed too many times"}, "none", "none"))
    BY <1>7 DEF Telltale, Message
  <2>3. QED
    BY <2>1, <2>2
<1>8. CASE k = "standby"
  <2>1. Messages[k] = Message("LOG", "08P01", {"EOF on standby connection"}, "none", "none")
    BY <1>8 DEF Messages
  <2>2. Telltale(k, Message("LOG", "08P01", {"EOF on standby connection"}, "none", "none"))
    BY <1>8 DEF Telltale, Message
  <2>3. QED
    BY <2>1, <2>2
<1>9. CASE k = "checkpt"
  <2>1. Messages[k] = Message("LOG", "00000", {"checkpoint complete"}, "none", "none")
    BY <1>9 DEF Messages
  <2>2. Telltale(k, Message("LOG", "00000", {"checkpoint complete"}, "none", "none"))
    BY <1>9 DEF Telltale, Message
  <2>3. QED
    BY <2>1, <2>2
<1>10. CASE k = "vacuum"
  <2>1. Messages[k] = Message("LOG", "00000", {"automatic vacuum", "over a threshold"}, "none", "none")
    BY <1>10 DEF Messages
  <2>2. Telltale(k, Message("LOG", "00000", {"automatic vacuum", "over a threshold"}, "none", "none"))
    BY <1>10 DEF Telltale, Message
  <2>3. QED
    BY <2>1, <2>2
<1>11. CASE k = "quick"
  <2>1. Messages[k] = Message("LOG", "00000", {"automatic vacuum"}, "none", "none")
    BY <1>11 DEF Messages
  <2>2. Telltale(k, Message("LOG", "00000", {"automatic vacuum"}, "none", "none"))
    BY <1>11 DEF Telltale, Message
  <2>3. QED
    BY <2>1, <2>2
<1>12. CASE k = "vacuumCut"
  <2>1. Messages[k] = Message("ERROR", "57014", {"user request"}, "q2", "a")
    BY <1>12 DEF Messages
  <2>2. Telltale(k, Message("ERROR", "57014", {"user request"}, "q2", "a"))
    BY <1>12 DEF Telltale, Message
  <2>3. QED
    BY <2>1, <2>2
<1>13. CASE k = "crash"
  <2>1. Messages[k] = Message("LOG", "00000", {"terminated by signal"}, "none", "none")
    BY <1>13 DEF Messages
  <2>2. Telltale(k, Message("LOG", "00000", {"terminated by signal"}, "none", "none"))
    BY <1>13 DEF Telltale, Message
  <2>3. QED
    BY <2>1, <2>2
<1>14. CASE k = "xid"
  <2>1. Messages[k] = Message("WARNING", "01000", {"must be vacuumed within"}, "none", "a")
    BY <1>14 DEF Messages
  <2>2. Telltale(k, Message("WARNING", "01000", {"must be vacuumed within"}, "none", "a"))
    BY <1>14 DEF Telltale, Message
  <2>3. QED
    BY <2>1, <2>2
<1>15. CASE k = "full"
  <2>1. Messages[k] = Message("ERROR", "53100", {"no space left on device"}, "q1", "a")
    BY <1>15 DEF Messages
  <2>2. Telltale(k, Message("ERROR", "53100", {"no space left on device"}, "q1", "a"))
    BY <1>15 DEF Telltale, Message
  <2>3. QED
    BY <2>1, <2>2
<1>16. CASE k = "noSpace"
  <2>1. Messages[k] = Message("LOG", "00000", {"no space left on device"}, "none", "none")
    BY <1>16 DEF Messages
  <2>2. Telltale(k, Message("LOG", "00000", {"no space left on device"}, "none", "none"))
    BY <1>16 DEF Telltale, Message
  <2>3. QED
    BY <2>1, <2>2
<1>17. CASE k = "rmgr"
  <2>1. Messages[k] = Message("LOG", "00000", {"invalid resource manager ID"}, "none", "none")
    BY <1>17 DEF Messages
  <2>2. Telltale(k, Message("LOG", "00000", {"invalid resource manager ID"}, "none", "none"))
    BY <1>17 DEF Telltale, Message
  <2>3. QED
    BY <2>1, <2>2
<1>18. CASE k = "pidFile"
  <2>1. Messages[k] = Message("FATAL", "F0001", {"postmaster.pid"}, "none", "none")
    BY <1>18 DEF Messages
  <2>2. Telltale(k, Message("FATAL", "F0001", {"postmaster.pid"}, "none", "none"))
    BY <1>18 DEF Telltale, Message
  <2>3. QED
    BY <2>1, <2>2
<1>19. CASE k = "cancel"
  <2>1. Messages[k] = Message("ERROR", "57014", {"statement timeout"}, "q1", "a")
    BY <1>19 DEF Messages
  <2>2. Telltale(k, Message("ERROR", "57014", {"statement timeout"}, "q1", "a"))
    BY <1>19 DEF Telltale, Message
  <2>3. QED
    BY <2>1, <2>2
<1>20. CASE k = "slow"
  <2>1. Messages[k] = Message("LOG", "00000", {"duration"}, "q1", "a")
    BY <1>20 DEF Messages
  <2>2. Telltale(k, Message("LOG", "00000", {"duration"}, "q1", "a"))
    BY <1>20 DEF Telltale, Message
  <2>3. QED
    BY <2>1, <2>2
<1>21. CASE k = "slowB"
  <2>1. Messages[k] = Message("LOG", "00000", {"duration"}, "q1", "b")
    BY <1>21 DEF Messages
  <2>2. Telltale(k, Message("LOG", "00000", {"duration"}, "q1", "b"))
    BY <1>21 DEF Telltale, Message
  <2>3. QED
    BY <2>1, <2>2
<1>22. CASE k = "slowNoDb"
  <2>1. Messages[k] = Message("LOG", "00000", {"duration"}, "q1", "none")
    BY <1>22 DEF Messages
  <2>2. Telltale(k, Message("LOG", "00000", {"duration"}, "q1", "none"))
    BY <1>22 DEF Telltale, Message
  <2>3. QED
    BY <2>1, <2>2
<1>23. CASE k = "plan"
  <2>1. Messages[k] = Message("LOG", "00000", {"duration", "plan"}, "q2", "a")
    BY <1>23 DEF Messages
  <2>2. Telltale(k, Message("LOG", "00000", {"duration", "plan"}, "q2", "a"))
    BY <1>23 DEF Telltale, Message
  <2>3. QED
    BY <2>1, <2>2
<1>24. CASE k = "slowPlan"
  <2>1. Messages[k] = Message("LOG", "00000", {"duration", "plan", "long"}, "q1", "a")
    BY <1>24 DEF Messages
  <2>2. Telltale(k, Message("LOG", "00000", {"duration", "plan", "long"}, "q1", "a"))
    BY <1>24 DEF Telltale, Message
  <2>3. QED
    BY <2>1, <2>2
<1>25. CASE k = "ready"
  <2>1. Messages[k] = Message("LOG", "00000", {"ready to accept"}, "none", "none")
    BY <1>25 DEF Messages
  <2>2. Telltale(k, Message("LOG", "00000", {"ready to accept"}, "none", "none"))
    BY <1>25 DEF Telltale, Message
  <2>3. QED
    BY <2>1, <2>2
<1>26. k \in {"syntax", "warned", "deadlock", "waited", "archive", "gaveUp", "standby", "checkpt"}
         \/ k \in {"vacuum", "quick", "vacuumCut", "crash", "xid", "full", "noSpace", "rmgr"}
         \/ k \in {"pidFile", "cancel", "slow", "slowB", "slowNoDb", "plan", "slowPlan", "ready", "password"}
  BY DEF Messages
<1>27. QED
  BY <1>1, <1>2, <1>3, <1>4, <1>5, <1>6, <1>7, <1>8, <1>9, <1>10, <1>11, <1>12, <1>13, <1>14,
     <1>15, <1>16, <1>17, <1>18, <1>19, <1>20, <1>21, <1>22, <1>23, <1>24, <1>25, <1>26

LEMMA ByStateAndDatabaseRight ==
  ASSUME NEW W, Events(W)
  PROVE  Grouping(ByStateAndDatabase(Refusals(W)))
<1> DEFINE R == Refusals(W)
           by == [r \in R |-> <<State(r), Messages[r.kind].db>>]
<1>1. Events(R)
  BY SomeEvents DEF Refusals
<1>2. ASSUME NEW r \in R PROVE r.kind = "password"
  <2>1. r.kind \in DOMAIN Messages
    BY <1>1 DEF Events
  <2>2. State(r) \in {"28000", "28P01"} \/ "password authentication failed" \in Messages[r.kind].says
    BY DEF Refusals, Says, Facts
  <2>3. QED
    BY <2>1, <2>2, TelltaleRight DEF Telltale, State
<1>3. ByStateAndDatabase(R) = Classes(R, by)
  BY DEF ByStateAndDatabase, Groups, Classes
<1>4. \A a, b \in R : by[a] = by[b] => Query(a) = Query(b)
  BY <1>2 DEF Query
<1> HIDE DEF by, R
<1>5. Grouping(ByStateAndDatabase(R))
  BY <1>1, <1>3, <1>4, ClassesRight
<1>6. QED
  BY <1>5 DEF R


(* Groups without a database that join another one have its query.         *)
LEMMA JoinedRight ==
  ASSUME NEW G, Grouping(G), NEW B \in G, NEW J \in SUBSET G,
         \A A \in J : QueryOf(A) = QueryOf(B)
  PROVE  B \cup UNION J # {} /\ Events(B \cup UNION J) /\ OneQuery(B \cup UNION J)
<1>1. \A A \in G : A # {} /\ Events(A) /\ OneQuery(A)
  BY DEF Grouping
<1>2. IsFiniteSet(J) /\ \A A \in J : IsFiniteSet(A)
  <2>1. IsFiniteSet(G)
    BY DEF Grouping
  <2>2. QED
    BY <1>1, <2>1, FS_Subset DEF Events
<1>3. IsFiniteSet(B \cup UNION J)
  <2>1. IsFiniteSet(UNION J)
    BY <1>2, FS_UNION
  <2>2. IsFiniteSet(B)
    BY <1>1 DEF Events
  <2>3. QED
    BY <2>1, <2>2, FS_Union
<1>4. \A A \in G : \A a \in A : Query(a) = QueryOf(A)
  <2>1. SUFFICES ASSUME NEW A \in G, NEW a \in A PROVE Query(a) = QueryOf(A)
    OBVIOUS
  <2>2. PICK c \in A : c = CHOOSE r \in A : TRUE
    OBVIOUS
  <2>3. QueryOf(A) = Query(c)
    BY <2>2 DEF QueryOf
  <2>4. OneQuery(A)
    BY <1>1
  <2>5. QED
    BY <2>3, <2>4 DEF OneQuery
<1>5. \A a \in B \cup UNION J : Query(a) = QueryOf(B)
  BY <1>4
<1>6. OneQuery(B \cup UNION J)
  BY <1>5 DEF OneQuery
<1>7. Events(B \cup UNION J)
  BY <1>1, <1>3 DEF Events
<1>8. QED
  BY <1>1, <1>6, <1>7

LEMMA AttachedRight == ASSUME NEW G, Grouping(G) PROVE Grouping(AttachDatabaseless(G))
<1> DEFINE named(A) == {B \in G : QueryOf(B) = QueryOf(A) /\ DatabaseOf(B) # "none"}
           joins == {A \in G : DatabaseOf(A) = "none" /\ Cardinality(named(A)) = 1}
           J(B) == {A \in joins : named(A) = {B}}
           f == [B \in G |-> B \union UNION J(B)]
<1>1. AttachDatabaseless(G) = {f[B] : B \in G \ joins}
  BY DEF AttachDatabaseless
<1>2. IsFiniteSet(G \ joins)
  BY FS_Subset DEF Grouping
<1>3. ASSUME NEW B \in G PROVE f[B] # {} /\ Events(f[B]) /\ OneQuery(f[B])
  <2>1. J(B) \in SUBSET G
    OBVIOUS
  <2>2. \A A \in J(B) : QueryOf(A) = QueryOf(B)
    <3>1. SUFFICES ASSUME NEW A \in J(B) PROVE QueryOf(A) = QueryOf(B)
      OBVIOUS
    <3>2. B \in named(A)
      OBVIOUS
    <3>3. QED
      BY <3>2
  <2>3. f[B] = B \cup UNION J(B)
    OBVIOUS
  <2> HIDE DEF f, J
  <2>4. QED
    BY <2>1, <2>2, <2>3, JoinedRight
<1> HIDE DEF f, joins
<1>4. IsFiniteSet({f[B] : B \in G \ joins})
  BY <1>2, ImageFinite
<1>5. QED
  BY <1>1, <1>3, <1>4 DEF Grouping

-----------------------------------------------------------------------------
(* Charts.                                                                 *)

(* A point of a chart has one row, of records with one query.              *)
Point == {p \in [rank : Nat, row : Row] :
            /\ p.row.of # {} /\ Events(p.row.of) /\ Cardinality(p.row.refs) <= 1}

LEMMA LastRankFirstRight ==
  ASSUME NEW n \in Nat, NEW points, DOMAIN points = 1..n,
         \A i \in 1..n : points[i].rank \in Nat /\ points[i].row \in Row
  PROVE  LastRankFirst(points) \in Seq(Row) /\ Len(LastRankFirst(points)) = n
<1> DEFINE key == [i \in DOMAIN points |-> <<-points[i].rank, i>>]
           order == Sorted(DOMAIN points, key)
<1>1. key \in [1..n -> Int \X Int]
  OBVIOUS
<1>2. LastRankFirst(points) = [i \in DOMAIN order |-> points[order[i]].row]
  BY DEF LastRankFirst
<1>3. IsFiniteSet(1..n) /\ Cardinality(1..n) = n
  BY FS_Interval
<1> HIDE DEF key
<1>4. order \in [1..n -> 1..n]
  BY <1>1, <1>3, SortedRight
<1> HIDE DEF order
<1>5. \A i \in 1..n : points[order[i]].row \in Row
  BY <1>4
<1>6. LastRankFirst(points) = [i \in 1..n |-> points[order[i]].row]
  BY <1>2, <1>4
<1>7. QED
  BY <1>5, <1>6

LEMMA InternedRight ==
  ASSUME NEW n \in Nat, NEW points \in [1..n -> Point]
  PROVE  /\ DOMAIN Interned(points).points = 1..n
         /\ \A i \in 1..n : /\ Interned(points).points[i].rank \in Nat
                            /\ Interned(points).points[i].row \in Row
         /\ Interned(points).lost \in Nat
<1> DEFINE text(i) == (CHOOSE r \in points[i].row.of : TRUE).kind
           kept == {i \in DOMAIN points :
                      \E j \in 1..i : /\ text(j) = text(i)
                                      /\ Cardinality({text(k) : k \in 1..j}) <= PoolLimit}
           with(i) == WithRef(points[i].row, <<"message", text(i)>>)
<1>1. Interned(points).points =
        [i \in 1..n |-> IF i \in kept THEN [rank |-> points[i].rank, row |-> with(i)]
                        ELSE points[i]]
  BY DEF Interned
<1>2. ASSUME NEW i \in 1..n PROVE with(i) \in Row
  <2>1. points[i] \in Point
    OBVIOUS
  <2>2. PICK r \in points[i].row.of : r = CHOOSE x \in points[i].row.of : TRUE
    BY <2>1 DEF Point
  <2>3. text(i) \in DOMAIN Messages
    BY <2>1, <2>2 DEF Point, Events
  <2> HIDE DEF text
  <2>4. <<"message", text(i)>> \in Texts
    BY <2>3 DEF Texts
  <2>5. points[i].row \in Row /\ Cardinality(points[i].row.refs) <= 1
    BY <2>1 DEF Point
  <2>6. QED
    BY <2>4, <2>5, WithRefRight
<1>5. Interned(points).lost = Cardinality(DOMAIN points \ kept)
  BY DEF Interned
<1>6. Cardinality(DOMAIN points \ kept) \in Nat
  <2>1. IsFiniteSet(1..n) /\ DOMAIN points = 1..n
    BY FS_Interval
  <2> HIDE DEF kept
  <2>2. QED
    BY <2>1, FS_Subset, FS_CardinalityType
<1> HIDE DEF kept, with
<1>3. \A i \in 1..n : points[i].rank \in Nat /\ points[i].row \in Row
  BY DEF Point
<1>4. QED
  BY <1>1, <1>2, <1>3, <1>5, <1>6

(* Every group is a point; the first group of a bucket has rank 1.         *)
BucketGroups(G, A) == {B \in G : BucketOf(B) = BucketOf(A)}
HeavyFirst(G) == Sorted(G, [B \in G |-> <<-EventsIn(B), -FirstTime(B)>>])

LEMMA HeavyFirstRight ==
  ASSUME NEW G, Grouping(G), NEW A \in G
  PROVE  /\ HeavyFirst(G) \in [1..Cardinality(G) -> G] /\ IsInjective(HeavyFirst(G))
         /\ \E i \in 1..Cardinality(G) : HeavyFirst(G)[i] = A
<1> DEFINE key == [B \in G |-> <<-EventsIn(B), -FirstTime(B)>>]
<1>1. key \in [G -> Int \X Int]
  <2>1. ASSUME NEW B \in G PROVE EventsIn(B) \in Nat /\ FirstTime(B) \in Nat
    BY EventsInNat, FirstTimeNat DEF Grouping
  <2>2. QED
    BY <2>1
<1>2. IsFiniteSet(G)
  BY DEF Grouping
<1>3. HeavyFirst(G) = Sorted(G, key)
  BY DEF HeavyFirst
<1> HIDE DEF key
<1>4. QED
  BY <1>1, <1>2, <1>3, SortedRight, SortedAll DEF Ordered

LEMMA RankInRight ==
  ASSUME NEW G, Grouping(G), NEW A \in G
  PROVE  RankIn(G, A) \in Nat /\ \E B \in G : RankIn(G, B) = 1
<1> DEFINE bucket == BucketGroups(G, A)
           order == HeavyFirst(bucket)
           m == Cardinality(bucket)
<1>1. A \in bucket /\ bucket \subseteq G /\ Grouping(bucket)
  BY FS_Subset DEF BucketGroups, Grouping
<1>2. \A B \in bucket : BucketGroups(G, B) = bucket
  BY DEF BucketGroups
<1>3. \A B \in bucket : RankIn(G, B) = CHOOSE i \in DOMAIN order : order[i] = B
  <2>1. SUFFICES ASSUME NEW B \in bucket PROVE RankIn(G, B) = CHOOSE i \in DOMAIN order : order[i] = B
    OBVIOUS
  <2>2. RankIn(G, B) = CHOOSE i \in DOMAIN HeavyFirst(BucketGroups(G, B)) : HeavyFirst(BucketGroups(G, B))[i] = B
    BY DEF RankIn, HeavyFirst, BucketGroups
  <2>3. QED
    BY <1>2, <2>1, <2>2
<1>4. order \in [1..m -> bucket] /\ IsInjective(order) /\ \E i \in 1..m : order[i] = A
  BY <1>1, HeavyFirstRight
<1>5. m \in Nat
  BY <1>1, FS_CardinalityType DEF Grouping
<1> HIDE DEF order, bucket, m
<1>6. RankIn(G, A) \in 1..m
  BY <1>1, <1>3, <1>4
<1>7. 1 \in 1..m /\ order[1] \in bucket
  BY <1>4, <1>5
<1>8. RankIn(G, order[1]) = 1
  <2>1. RankIn(G, order[1]) = CHOOSE i \in DOMAIN order : order[i] = order[1]
    BY <1>3, <1>7
  <2>2. DOMAIN order = 1..m
    BY <1>4
  <2>3. \A i \in DOMAIN order : order[i] = order[1] <=> i = 1
    BY <1>4, <1>7, <2>2 DEF IsInjective
  <2>4. QED
    BY <1>7, <2>1, <2>2, <2>3
<1>9. QED
  BY <1>1, <1>5, <1>6, <1>7, <1>8

(* Each active bucket has its first group among the points.                *)
RankedPoints(G, rank) == {[rank |-> rank[A], row |-> RowOf(A)] : A \in G}

LEMMA FairlyRight ==
  ASSUME NEW G, Grouping(G), NEW points, NEW rank, points = RankedPoints(G, rank),
         \A A \in G : rank[A] \in Nat, G # {} => \E A \in G : rank[A] = 1
  PROVE  \E n \in Nat : Fairly(points) \in [1..n -> Point] /\ (n = 0 => G = {})
<1> DEFINE kept == {p \in points : p.rank <= PerBucket}
           key == [p \in kept |-> <<p.rank, BucketOf(p.row.of)>>]
<1>1. ASSUME NEW A \in G PROVE [rank |-> rank[A], row |-> RowOf(A)] \in Point
  <2>1. RowOf(A) \in Row /\ Cardinality(RowOf(A).refs) <= 1 /\ RowOf(A).of = A
    BY RowOfRight DEF Grouping, RowOf
  <2>2. A # {} /\ Events(A)
    BY DEF Grouping
  <2>3. QED
    BY <2>1, <2>2 DEF Point
<1>2. points \subseteq Point
  BY <1>1 DEF RankedPoints
<1>3. IsFiniteSet(kept)
  <2> DEFINE f == [A \in G |-> [rank |-> rank[A], row |-> RowOf(A)]]
  <2>1. points = {f[A] : A \in G}
    BY DEF RankedPoints
  <2>2. IsFiniteSet(G)
    BY DEF Grouping
  <2> HIDE DEF f
  <2>3. IsFiniteSet(points)
    BY <2>1, <2>2, ImageFinite
  <2>4. QED
    BY <2>3, FS_Subset
<1>4. key \in [kept -> Int \X Int]
  <2>1. ASSUME NEW p \in kept PROVE p.rank \in Int /\ BucketOf(p.row.of) \in Int
    <3>1. p \in Point
      BY <1>2
    <3>2. PICK r \in p.row.of : r = CHOOSE x \in p.row.of : TRUE
      BY <3>1 DEF Point
    <3>3. r.t \in Nat
      BY <3>1, <3>2 DEF Point, Events
    <3>4. QED
      BY <3>1, <3>2, <3>3 DEF Point, BucketOf, Bucket
  <2>2. QED
    BY <2>1
<1>5. G # {} => kept # {}
  <2>1. SUFFICES ASSUME G # {} PROVE kept # {}
    OBVIOUS
  <2>2. PICK A \in G : rank[A] = 1
    BY <2>1
  <2>3. PerBucket \in Nat \ {0}
    BY LogItemsAssumption
  <2>4. [rank |-> rank[A], row |-> RowOf(A)] \in kept
    BY <2>2, <2>3 DEF RankedPoints
  <2>5. QED
    BY <2>4
<1>6. Fairly(points) = Sorted(kept, key)
  BY DEF Fairly
<1>7. kept \subseteq Point
  BY <1>2
<1> HIDE DEF kept, key
<1>8. Cardinality(kept) \in Nat /\ (Cardinality(kept) = 0 => kept = {})
  BY <1>3, FS_CardinalityType, FS_EmptySet
<1>9. Fairly(points) \in [1..Cardinality(kept) -> kept]
  BY <1>3, <1>4, <1>6, SortedRight
<1>10. QED
  BY <1>5, <1>7, <1>8, <1>9

LEMMA TerminationChartRight ==
  ASSUME NEW G, Grouping(G), NEW n \in Nat, NEW points \in [1..n -> Point], n = 0 => G = {}
  PROVE  MadeRight(TerminationChart(G, Interned(points)))
<1> DEFINE pooled == Interned(points)
           shown == LastRankFirst(pooled.points)
           all == MostFrequent(G)
           made == Result(all, shown, {"series", "events"})
<1>1. shown \in Seq(Row) /\ Len(shown) = n
  <2>1. /\ DOMAIN pooled.points = 1..n
        /\ \A i \in 1..n : pooled.points[i].rank \in Nat /\ pooled.points[i].row \in Row
    BY InternedRight
  <2> HIDE DEF pooled
  <2>2. QED
    BY <2>1, LastRankFirstRight
<1>2. all \in Seq(Row) /\ Len(all) = Cardinality(G)
  BY MostFrequentRight
<1>3. TerminationChart(G, pooled) = [made EXCEPT !.lost = pooled.lost]
  BY DEF TerminationChart
<1>9. pooled.lost \in Nat
  BY InternedRight
<1> HIDE DEF pooled, shown, all
<1>4. shown = <<>> => all = <<>>
  <2>1. shown = <<>> => n = 0
    BY <1>1
  <2>2. G = {} => Cardinality(G) = 0
    BY FS_EmptySet
  <2>3. QED
    BY <1>2, <2>1, <2>2
<1>5. MadeRight(made) /\ made.shown = shown
  BY <1>1, <1>2, <1>4, ResultRight
<1>6. [made EXCEPT !.lost = pooled.lost].series = made.series
      /\ [made EXCEPT !.lost = pooled.lost].events = made.events
      /\ [made EXCEPT !.lost = pooled.lost].shown = made.shown
      /\ [made EXCEPT !.lost = pooled.lost].lost = pooled.lost
  BY DEF Result
<1> HIDE DEF made
<1>7. MadeRight([made EXCEPT !.lost = pooled.lost])
  BY <1>5, <1>6, <1>9 DEF MadeRight
<1>8. QED
  BY <1>3, <1>7 DEF pooled

LEMMA TerminationsRight ==
  ASSUME NEW G, Grouping(G)
  PROVE  MadeRight(Terminations(G))
<1> DEFINE rank == [A \in G |-> RankIn(G, A)]
           points == RankedPoints(G, rank)
<1>1. Terminations(G) = TerminationChart(G, Interned(Upto(Fairly(points), PointLimit)))
  <2>1. points = {[rank |-> RankIn(G, A), row |-> RowOf(A)] : A \in G}
    BY DEF RankedPoints
  <2> HIDE DEF points
  <2>2. QED
    BY <2>1 DEF Terminations
<1>2. (\A A \in G : rank[A] \in Nat) /\ (G # {} => \E A \in G : rank[A] = 1)
  BY RankInRight
<1>3. PICK n \in Nat : Fairly(points) \in [1..n -> Point] /\ (n = 0 => G = {})
  <2> HIDE DEF rank
  <2>1. QED
    BY <1>2, FairlyRight
<1> HIDE DEF points
<1> DEFINE first == Upto(Fairly(points), PointLimit)
<1>4. /\ first \in Seq(Point) /\ (first = <<>> => Fairly(points) = <<>>)
  <2>1. PointLimit \in Nat \ {0}
    BY LogItemsAssumption
  <2>2. Fairly(points) \in Seq(Point)
    BY <1>3
  <2>3. QED
    BY <2>1, <2>2, UptoRight
<1>5. first = <<>> => G = {}
  BY <1>3, <1>4
<1> HIDE DEF first
<1>6. Len(first) \in Nat /\ first \in [1..Len(first) -> Point] /\ (Len(first) = 0 => G = {})
  BY <1>4, <1>5
<1>7. MadeRight(TerminationChart(G, Interned(first)))
  BY <1>6, TerminationChartRight
<1>8. QED
  BY <1>1, <1>7 DEF first

(* The slowest executions, and one of each bucket at least.                *)
LEMMA PlanPointsRight ==
  ASSUME NEW n \in Nat, NEW s \in [1..n -> Series], \A i \in 1..n : Events({s[i]})
  PROVE  \E m \in Nat : /\ DOMAIN PlanPoints(s) = 1..m /\ (m = 0 => n = 0)
                         /\ \A i \in 1..m : /\ PlanPoints(s)[i].rank \in Nat
                                             /\ PlanPoints(s)[i].row \in Row
<1> DEFINE kept == {i \in DOMAIN s : RankAmong(s, i) <= PerBucket}
           key == [i \in kept |-> <<Bucket(s[i]), i>>]
           shown == Sorted(kept, key)
<1>1. ASSUME NEW i \in 1..n PROVE RankAmong(s, i) \in Nat
  <2>1. IsFiniteSet(1..i)
    BY FS_Interval
  <2>2. QED
    BY <2>1, FS_Subset, FS_CardinalityType DEF RankAmong
<1>2. IsFiniteSet(kept) /\ kept \subseteq 1..n
  BY FS_Interval, FS_Subset
<1>3. \A i \in 1..n : s[i].t \in Nat
  BY DEF Events
<1>4. key \in [kept -> Int \X Int]
  BY <1>2, <1>3 DEF Bucket
<1>5. n # 0 => 1 \in kept
  <2>1. SUFFICES ASSUME n # 0 PROVE 1 \in kept
    OBVIOUS
  <2>2. RankAmong(s, 1) <= 1
    <3>1. {j \in 1..1 : Bucket(s[j]) = Bucket(s[1])} \subseteq {1}
      OBVIOUS
    <3>2. IsFiniteSet({1}) /\ Cardinality({1}) = 1
      BY FS_Singleton
    <3>3. Cardinality({j \in 1..1 : Bucket(s[j]) = Bucket(s[1])}) <= Cardinality({1})
      BY <3>1, <3>2, FS_Subset
    <3>4. QED
      BY <3>2, <3>3 DEF RankAmong
  <2>3. PerBucket \in Nat \ {0} /\ RankAmong(s, 1) \in Nat /\ 1 \in DOMAIN s
    BY <1>1, <2>1, LogItemsAssumption
  <2>4. QED
    BY <2>2, <2>3
<1>6. PlanPoints(s) = [k \in DOMAIN shown |-> PlanPoint(s[shown[k]], RankAmong(s, shown[k]))]
  BY DEF PlanPoints
<1> HIDE DEF kept, key
<1>7. shown \in [1..Cardinality(kept) -> kept]
  BY <1>2, <1>4, SortedRight
<1>8. Cardinality(kept) \in Nat /\ (Cardinality(kept) = 0 => kept = {})
  BY <1>2, FS_CardinalityType, FS_EmptySet
<1> HIDE DEF shown
<1>9. ASSUME NEW k \in 1..Cardinality(kept)
      PROVE  PlanPoints(s)[k].rank \in Nat /\ PlanPoints(s)[k].row \in Row
  <2>1. PICK i \in 1..n : i = shown[k]
    BY <1>2, <1>7
  <2>2. PlanPoints(s)[k] = PlanPoint(s[i], RankAmong(s, i))
    BY <1>6, <1>7, <2>1
  <2>3. RowOf({s[i]}) \in Row /\ Cardinality(RowOf({s[i]}).refs) <= 1
    <3>1. Events({s[i]}) /\ OneQuery({s[i]})
      BY DEF OneQuery
    <3>2. QED
      BY <3>1, RowOfRight
  <2>4. <<"plan", s[i].t>> \in Texts
    BY <1>3 DEF Texts
  <2>5. WithRef(RowOf({s[i]}), <<"plan", s[i].t>>) \in Row
    BY <2>3, <2>4, WithRefRight
  <2>6. QED
    BY <1>1, <2>2, <2>5 DEF PlanPoint
<1>10. DOMAIN PlanPoints(s) = 1..Cardinality(kept) /\ (Cardinality(kept) = 0 => n = 0)
  BY <1>5, <1>6, <1>7, <1>8
<1>11. QED
  BY <1>8, <1>9, <1>10

LEMMA PlanChartRight ==
  ASSUME NEW W, Events(W), NEW n \in Nat, NEW order \in [1..n -> W]
  PROVE  MadeRight(PlanChart(order))
<1> DEFINE s == Upto(order, PointLimit)
           shown == LastRankFirst(PlanPoints(s))
<1>1. Singly(order) \in Seq(Row) /\ Len(Singly(order)) = n
  BY SinglyRight
<1>2. /\ s \in Seq(W) /\ (s = <<>> => order = <<>>)
  <2>1. PointLimit \in Nat \ {0}
    BY LogItemsAssumption
  <2>2. order \in Seq(W)
    OBVIOUS
  <2>3. QED
    BY <2>1, <2>2, UptoRight
<1>3. PlanChart(order) = Result(Singly(order), shown, {"series"})
  BY DEF PlanChart
<1> HIDE DEF s
<1> DEFINE k == Len(s)
<1>4. /\ k \in Nat /\ s \in [1..k -> Series] /\ (k = 0 => n = 0)
      /\ \A i \in 1..k : Events({s[i]})
  <2>1. k \in Nat /\ s \in [1..k -> W] /\ (k = 0 => s = <<>>)
    BY <1>2
  <2>2. ASSUME NEW i \in 1..k PROVE Events({s[i]})
    BY <2>1, FS_Singleton DEF Events
  <2>3. QED
    BY <1>2, <2>1, <2>2 DEF Events
<1> HIDE DEF k
<1>5. PICK m \in Nat : /\ DOMAIN PlanPoints(s) = 1..m /\ (m = 0 => k = 0)
                       /\ \A i \in 1..m : /\ PlanPoints(s)[i].rank \in Nat
                                           /\ PlanPoints(s)[i].row \in Row
  BY <1>4, PlanPointsRight
<1>6. shown \in Seq(Row) /\ Len(shown) = m
  BY <1>5, LastRankFirstRight
<1> HIDE DEF shown
<1>7. shown = <<>> => Singly(order) = <<>>
  BY <1>1, <1>4, <1>5, <1>6
<1>8. QED
  BY <1>1, <1>3, <1>6, <1>7, ResultRight

LEMMA SlowestRight ==
  ASSUME NEW R, Events(R)
  PROVE  MadeRight(PlanChart(Slowest(R)))
<1> DEFINE slow == [r \in R |-> IF Says(r, {"long"}) THEN 2 ELSE 1]
           key == [r \in R |-> <<-slow[r], r.t>>]
<1>1. key \in [R -> Int \X Int]
  BY DEF Events
<1>2. Slowest(R) = Sorted(R, key)
  <2>1. key = [r \in R |-> <<-(IF Says(r, {"long"}) THEN 2 ELSE 1), r.t>>]
    OBVIOUS
  <2> HIDE DEF key
  <2>2. QED
    BY <2>1 DEF Slowest
<1>3. IsFiniteSet(R) /\ Cardinality(R) \in Nat
  BY FS_CardinalityType DEF Events
<1> HIDE DEF key
<1>4. Slowest(R) \in [1..Cardinality(R) -> R]
  BY <1>1, <1>2, <1>3, SortedRight
<1>5. QED
  BY <1>3, <1>4, PlanChartRight

-----------------------------------------------------------------------------
(* The items.                                                              *)

LEMMA NewestTable ==
  ASSUME NEW W, Events(W), NEW R \in SUBSET W, NEW counts
  PROVE  MadeRight(Table(Newest(R), counts))
BY SomeEvents, NewestRight, TableRight

LEMMA RankedTable ==
  ASSUME NEW W, Events(W), NEW R \in SUBSET W, NEW rank, \A r \in R : rank[r] \in Int, NEW counts
  PROVE  MadeRight(Table(Ranked(R, rank), counts))
BY SomeEvents, RankedRight, TableRight

LEMMA FrequentTable ==
  ASSUME NEW G, Grouping(G), NEW counts
  PROVE  MadeRight(Table(MostFrequent(G), counts))
BY MostFrequentRight, TableRight

LEMMA ByCountRight ==
  ASSUME NEW W, Events(W), NEW R \in SUBSET W, NEW counts
  PROVE  MadeRight(Table(ByCount(R), counts))
<1> DEFINE rank == [r \in R |-> r.n]
<1>1. \A r \in R : rank[r] \in Int
  BY DEF Events
<1>2. ByCount(R) = Ranked(R, rank)
  BY DEF ByCount
<1> HIDE DEF rank
<1>3. QED
  BY <1>1, <1>2, RankedTable

LEMMA FailedFirstRight ==
  ASSUME NEW W, Events(W), NEW R \in SUBSET W, NEW counts
  PROVE  MadeRight(Table(FailedFirst(R), counts))
<1> DEFINE rank == [r \in R |-> IF Failed(r) THEN 2 ELSE 1]
<1>1. \A r \in R : rank[r] \in Int
  OBVIOUS
<1>2. FailedFirst(R) = Ranked(R, rank)
  BY DEF FailedFirst
<1> HIDE DEF rank
<1>3. QED
  BY <1>1, <1>2, RankedTable

LEMMA WorstFirstRight ==
  ASSUME NEW W, Events(W), NEW R \in SUBSET W, NEW counts
  PROVE  MadeRight(Table(WorstFirst(R), counts))
<1> DEFINE severity(r) == IF Sev(r, {"FATAL", "PANIC"}) THEN 2 ELSE IF Sev(r, {"ERROR"}) THEN 1 ELSE 0
           rank == [r \in R |-> severity(r) * 10 + r.n]
<1>1. \A r \in R : rank[r] \in Int
  <2>1. SUFFICES ASSUME NEW r \in R PROVE rank[r] \in Int
    OBVIOUS
  <2>2. severity(r) \in {0, 1, 2} /\ r.n \in Nat
    BY DEF Events
  <2> HIDE DEF severity
  <2>3. QED
    BY <2>2
<1>2. WorstFirst(R) = Ranked(R, rank)
  BY DEF WorstFirst
<1> HIDE DEF rank
<1>3. QED
  BY <1>1, <1>2, RankedTable

(* Whatever an item is given to look at, the counts beside what it shows   *)
(* are numbers, its rows are rows, and it shows something of what it has.  *)
LEMMA CollectRight ==
  ASSUME NEW item, NEW W, Events(W)
  PROVE  MadeRight(Collect(item, W))
<1>1. /\ MadeRight(ArchiverFailures(W)) /\ MadeRight(AutovacuumRuns(W)) /\ MadeRight(Checkpoints(W))
      /\ MadeRight(CrashRecovery(W)) /\ MadeRight(LockWaits(W)) /\ MadeRight(Wraparound(W))
      /\ MadeRight(ServerLifecycle(W))
  <2>1. \A phrases : Having(W, phrases) \in SUBSET W
    BY DEF Having
  <2>2. QED
    BY <2>1, NewestTable DEF ArchiverFailures, AutovacuumRuns, Checkpoints, CrashRecovery, LockWaits,
                             Wraparound, ServerLifecycle
<1>2. MadeRight(DeadlockEvents(W)) /\ MadeRight(ErrorChronology(W))
  <2>1. \A s : WithState(W, s) \in SUBSET W /\ WithSev(W, s) \in SUBSET W
    BY DEF WithState, WithSev
  <2>2. QED
    BY <2>1, NewestTable DEF DeadlockEvents, ErrorChronology
<1>3. /\ MadeRight(ReplicationEvents(W)) /\ MadeRight(SystemIncidents(W))
      /\ MadeRight(MaintenanceEvents(W))
  <2>1. \A phrases : Having(W, phrases) \in SUBSET W
    BY DEF Having
  <2>2. Incidents(W) \in SUBSET W /\ Heavy(Maintenance(W)) \in SUBSET W
    BY DEF Incidents, Heavy, Maintenance
  <2>3. QED
    BY <2>1, <2>2, ByCountRight, WorstFirstRight, FailedFirstRight
       DEF ReplicationEvents, SystemIncidents, MaintenanceEvents
<1>4. MadeRight(AuthenticationFailures(W))
  BY ByStateAndDatabaseRight, FrequentTable DEF AuthenticationFailures
<1>5. MadeRight(TopErrors(W)) /\ MadeRight(TopWarnings(W))
  <2>1. \A s : WithSev(W, s) \in SUBSET W
    BY DEF WithSev
  <2>2. \A s : Grouping(ByKind(WithSev(W, s)))
    BY <2>1, SomeEvents, ByKindRight
  <2>3. QED
    BY <2>2, FrequentTable DEF TopErrors, TopWarnings
<1>6. MadeRight(QueryResources(W))
  <2>1. Events(Durations(W))
    BY SomeEvents DEF Durations
  <2>2. Grouping(AttachDatabaseless(ByQueryAndDatabase(Durations(W))))
    BY <2>1, ByQueryAndDatabaseRight, AttachedRight
  <2>3. QED
    BY <2>2, FrequentTable DEF QueryResources
<1>7. MadeRight(QueryTerminations(W))
  <2>1. Events(WithState(W, {"57014", "55P03", "57P01"}))
    BY SomeEvents DEF WithState
  <2>2. QED
    BY <2>1, ByBucketAndKindRight, TerminationsRight DEF QueryTerminations
<1>8. MadeRight(AutoExplainPlans(W))
  <2>1. Events(Having(W, {"plan"}))
    BY SomeEvents DEF Having
  <2>2. QED
    BY <2>1, SlowestRight DEF AutoExplainPlans
<1>9. QED
  BY <1>1, <1>2, <1>3, <1>4, <1>5, <1>6, <1>7, <1>8 DEF Collect

-----------------------------------------------------------------------------
(* Recall.                                                                 *)

(* An item has a clause for what it takes for its own.                     *)
LEMMA InRecall ==
  ASSUME NEW i \in DOMAIN plan, NEW r \in log, NEW c \in ItemRecall[plan[i]], c \subseteq Facts(r)
  PROVE  r \in Recalled
BY DEF Recalled, ClausesFor

Understood == \A r \in log : r.kind \in DOMAIN Messages /\ r.kind \notin NoClause

LEMMA OneOfRecalled ==
  ASSUME NEW i \in DOMAIN plan, NEW what, NEW values, OneOf(what, values) \subseteq ItemRecall[plan[i]],
         NEW r \in log, NEW v \in values, <<what, v>> \in Facts(r)
  PROVE  r \in Recalled
<1>1. {<<what, v>>} \in OneOf(what, values)
  BY DEF OneOf
<1>2. {<<what, v>>} \in ItemRecall[plan[i]] /\ {<<what, v>>} \subseteq Facts(r)
  BY <1>1
<1>3. QED
  BY <1>2, InRecall

LEMMA HavingRecalled ==
  ASSUME NEW i \in DOMAIN plan, NEW phrases,
         \A r \in log, p \in phrases : <<"says", p>> \in Facts(r) =>
            \E c \in ItemRecall[plan[i]] : c \subseteq Facts(r)
  PROVE  Having(Recalled, phrases) = Having(log, phrases)
BY InRecall DEF Having, Says, Recalled

LEMMA StateRecalled ==
  ASSUME NEW i \in DOMAIN plan, NEW states, OneOf("state", states) \subseteq ItemRecall[plan[i]]
  PROVE  /\ \A r \in log : State(r) \in states => r \in Recalled
         /\ WithState(Recalled, states) = WithState(log, states)
<1>1. ASSUME NEW r \in log, State(r) \in states PROVE r \in Recalled
  <2>1. <<"state", State(r)>> \in Facts(r)
    BY DEF Facts, State
  <2>2. QED
    BY <1>1, <2>1, OneOfRecalled
<1>2. QED
  BY <1>1 DEF WithState, Recalled

LEMMA SevRecalled ==
  ASSUME NEW i \in DOMAIN plan, NEW sevs, OneOf("sev", sevs) \subseteq ItemRecall[plan[i]]
  PROVE  WithSev(Recalled, sevs) = WithSev(log, sevs)
<1>1. ASSUME NEW r \in log, Sev(r, sevs) PROVE r \in Recalled
  BY <1>1, OneOfRecalled DEF Sev
<1>2. QED
  BY <1>1 DEF WithSev, Recalled

(* Clauses of one phrase.                                                  *)
LEMMA PhraseRecalled ==
  ASSUME NEW i \in DOMAIN plan, NEW phrases, OneOf("says", phrases) \subseteq ItemRecall[plan[i]]
  PROVE  /\ \A r \in log : Says(r, phrases) => r \in Recalled
         /\ Having(Recalled, phrases) = Having(log, phrases)
<1>1. ASSUME NEW r \in log, Says(r, phrases) PROVE r \in Recalled
  BY <1>1, OneOfRecalled DEF Says
<1>2. QED
  BY <1>1 DEF Having, Recalled

(* What a message says is a fact of it, where it can be read.              *)
LEMMA SaysFact ==
  ASSUME NEW r, NEW p, <<"says", p>> \in Facts(r)
  PROVE  english /\ p \in Messages[r.kind].says
BY DEF Facts

LEMMA WholeLog ==
  ASSUME NEW i \in DOMAIN plan, plan[i] \in DOMAIN ItemRecall, Understood
  PROVE  Collect(plan[i], Recalled) = Collect(plan[i], log)
<1> DEFINE item == plan[i]
<1>1. CASE item = "archiver_failures"
  <2>0. ItemRecall[item] = OneOf("says", {"archive command failed"})
    BY <1>1 DEF ItemRecall
  <2>1. Having(Recalled, {"archive command failed"}) = Having(log, {"archive command failed"})
    BY <2>0, PhraseRecalled
  <2>2. QED
    BY <1>1, <2>1 DEF Collect, ArchiverFailures
<1>2. CASE item = "authentication_failures"
  <2>0. ItemRecall[item] = OneOf("says", {"password authentication failed"}) \cup OneOf("state", {"28000", "28P01"})
    BY <1>2 DEF ItemRecall
  <2>1. /\ \A r \in log : Says(r, {"password authentication failed"}) => r \in Recalled
        /\ \A r \in log : State(r) \in {"28000", "28P01"} => r \in Recalled
    BY <2>0, PhraseRecalled, StateRecalled
  <2>2. Refusals(Recalled) = Refusals(log)
    BY <2>1 DEF Refusals, Recalled
  <2>3. QED
    BY <1>2, <2>2 DEF Collect, AuthenticationFailures
<1>3. CASE item = "auto_explain_plans"
  <2>0. ItemRecall[item] = {{<<"says", "duration">>, <<"says", "plan">>}}
    BY <1>3 DEF ItemRecall
  <2>1. ASSUME NEW r \in log, <<"says", "plan">> \in Facts(r)
        PROVE  {<<"says", "duration">>, <<"says", "plan">>} \subseteq Facts(r)
    <3>1. english /\ "plan" \in Messages[r.kind].says /\ r.kind \in DOMAIN Messages
      BY <2>1, SaysFact DEF Understood
    <3>2. "duration" \in Messages[r.kind].says
      BY <3>1, TelltaleRight DEF Telltale
    <3>3. QED
      BY <2>1, <3>1, <3>2 DEF Facts
  <2>2. \A r \in log, p \in {"plan"} : <<"says", p>> \in Facts(r) =>
            \E c \in ItemRecall[plan[i]] : c \subseteq Facts(r)
    BY <2>0, <2>1
  <2>3. Having(Recalled, {"plan"}) = Having(log, {"plan"})
    <3> DEFINE P == {"plan"}
    <3>1. \A r \in log, p \in P : <<"says", p>> \in Facts(r) =>
            \E c \in ItemRecall[plan[i]] : c \subseteq Facts(r)
      BY <2>2
    <3> HIDE DEF P
    <3>2. Having(Recalled, P) = Having(log, P)
      BY <3>1, HavingRecalled
    <3>3. QED
      BY <3>2 DEF P
  <2>4. QED
    BY <1>3, <2>3 DEF Collect, AutoExplainPlans
<1>4. CASE item = "autovacuum_runs"
  <2>0. ItemRecall[item] = OneOf("says", {"automatic vacuum"})
    BY <1>4 DEF ItemRecall
  <2>1. Having(Recalled, {"automatic vacuum"}) = Having(log, {"automatic vacuum"})
    BY <2>0, PhraseRecalled
  <2>2. QED
    BY <1>4, <2>1 DEF Collect, AutovacuumRuns
<1>5. CASE item = "checkpoints"
  <2>0. ItemRecall[item] = OneOf("says", {"checkpoint complete"})
    BY <1>5 DEF ItemRecall
  <2>1. Having(Recalled, {"checkpoint complete"}) = Having(log, {"checkpoint complete"})
    BY <2>0, PhraseRecalled
  <2>2. QED
    BY <1>5, <2>1 DEF Collect, Checkpoints
<1>6. CASE item = "crash_recovery_events"
  <2>0. ItemRecall[item] = OneOf("says", {"terminated by signal"})
    BY <1>6 DEF ItemRecall
  <2>1. Having(Recalled, {"terminated by signal"}) = Having(log, {"terminated by signal"})
    BY <2>0, PhraseRecalled
  <2>2. QED
    BY <1>6, <2>1 DEF Collect, CrashRecovery
<1>7. CASE item = "deadlock_events"
  <2>0. ItemRecall[item] = OneOf("state", {"40P01"})
    BY <1>7 DEF ItemRecall
  <2>1. WithState(Recalled, {"40P01"}) = WithState(log, {"40P01"})
    BY <2>0, StateRecalled
  <2>2. QED
    BY <1>7, <2>1 DEF Collect, DeadlockEvents
<1>8. CASE item = "error_chronology"
  <2>0. ItemRecall[item] = OneOf("sev", Errors)
    BY <1>8 DEF ItemRecall
  <2>1. WithSev(Recalled, Errors) = WithSev(log, Errors)
    BY <2>0, SevRecalled
  <2>2. QED
    BY <1>8, <2>1 DEF Collect, ErrorChronology
<1>9. CASE item = "lock_waits"
  <2>0. ItemRecall[item] = {{<<"sev", "LOG">>, <<"state", "00000">>, <<"says", "still waiting for">>}}
    BY <1>9 DEF ItemRecall
  <2>1. ASSUME NEW r \in log, <<"says", "still waiting for">> \in Facts(r)
        PROVE  {<<"sev", "LOG">>, <<"state", "00000">>, <<"says", "still waiting for">>} \subseteq Facts(r)
    <3>1. english /\ "still waiting for" \in Messages[r.kind].says /\ r.kind \in DOMAIN Messages
      BY <2>1, SaysFact DEF Understood
    <3>2. Messages[r.kind].sev = "LOG" /\ Messages[r.kind].state = "00000"
      BY <3>1, TelltaleRight DEF Telltale
    <3>3. QED
      BY <2>1, <3>1, <3>2 DEF Facts
  <2>2. \A r \in log, p \in {"still waiting for"} : <<"says", p>> \in Facts(r) =>
            \E c \in ItemRecall[plan[i]] : c \subseteq Facts(r)
    BY <2>0, <2>1
  <2>3. Having(Recalled, {"still waiting for"}) = Having(log, {"still waiting for"})
    <3> DEFINE P == {"still waiting for"}
    <3>1. \A r \in log, p \in P : <<"says", p>> \in Facts(r) =>
            \E c \in ItemRecall[plan[i]] : c \subseteq Facts(r)
      BY <2>2
    <3> HIDE DEF P
    <3>2. Having(Recalled, P) = Having(log, P)
      BY <3>1, HavingRecalled
    <3>3. QED
      BY <3>2 DEF P
  <2>4. QED
    BY <1>9, <2>3 DEF Collect, LockWaits
<1>10. CASE item = "maintenance_events"
  <2>0. ItemRecall[item] = OneOf("says", {"automatic vacuum"}) \cup OneOf("tag", {"VACUUM"})
    BY <1>10 DEF ItemRecall
  <2>1. \A r \in log : Says(r, {"automatic vacuum"}) => r \in Recalled
    BY <2>0, PhraseRecalled
  <2>2. \A r \in log : <<"tag", "VACUUM">> \in Facts(r) => r \in Recalled
    <3>1. OneOf("tag", {"VACUUM"}) \subseteq ItemRecall[item]
      BY <2>0
    <3>2. QED
      BY <3>1, OneOfRecalled
  <2>3. Maintenance(Recalled) = Maintenance(log)
    BY <2>1, <2>2 DEF Maintenance, Recalled
  <2>4. QED
    BY <1>10, <2>3 DEF Collect, MaintenanceEvents
<1>11. CASE item = "query_resource_events"
  <2>0. ItemRecall[item] = OneOf("says", {"duration"})
    BY <1>11 DEF ItemRecall
  <2>1. Having(Recalled, {"duration"}) = Having(log, {"duration"})
    BY <2>0, PhraseRecalled
  <2>2. Durations(Recalled) = Durations(log)
    BY <2>1 DEF Having, Durations
  <2>3. QED
    BY <1>11, <2>2 DEF Collect, QueryResources
<1>12. CASE item = "query_termination_events"
  <2>0. ItemRecall[item] = OneOf("state", {"57014", "55P03", "57P01"})
    BY <1>12 DEF ItemRecall
  <2>1. WithState(Recalled, {"57014", "55P03", "57P01"}) = WithState(log, {"57014", "55P03", "57P01"})
    BY <2>0, StateRecalled
  <2>2. QED
    BY <1>12, <2>1 DEF Collect, QueryTerminations
<1>13. CASE item = "replication_events"
  <2> DEFINE Q == {"archive command failed", "EOF on standby connection"}
             P == {"archive command failed", "failed too many times", "EOF on standby connection"}
  <2>0. ItemRecall[item] = OneOf("says", {"archive command failed", "EOF on standby connection"})
    BY <1>13 DEF ItemRecall
  <2>1. Having(Recalled, Q) = Having(log, Q)
    BY <2>0, PhraseRecalled
  <2>2. \A r \in log : Says(r, P) => Says(r, Q)
    <3>1. \A r \in log : <<"says", "failed too many times">> \notin Facts(r)
      BY SaysFact, TelltaleRight DEF Telltale, Understood, NoClause
    <3>2. QED
      BY <3>1 DEF Says
  <2>3. \A W \in SUBSET log : Having(W, P) = Having(W, Q)
    <3>1. \A r \in log : Says(r, Q) => Says(r, P)
      BY DEF Says
    <3> HIDE DEF P, Q
    <3>2. QED
      BY <2>2, <3>1 DEF Having
  <2>4. Having(Recalled, P) = Having(log, P)
    <3>1. Recalled \in SUBSET log
      BY DEF Recalled
    <3> HIDE DEF P, Q
    <3>2. QED
      BY <2>1, <2>3, <3>1
  <2>5. QED
    BY <1>13, <2>4 DEF Collect, ReplicationEvents
<1>14. CASE item = "server_lifecycle"
  <2> DEFINE Q == {"ready to accept", "terminated by signal"}
             P == {"ready to accept", "terminated by signal", "postmaster.pid"}
  <2>0. ItemRecall[item] = OneOf("says", {"ready to accept", "terminated by signal"})
    BY <1>14 DEF ItemRecall
  <2>1. Having(Recalled, Q) = Having(log, Q)
    BY <2>0, PhraseRecalled
  <2>2. \A r \in log : Says(r, P) => Says(r, Q)
    <3>1. \A r \in log : <<"says", "postmaster.pid">> \notin Facts(r)
      BY SaysFact, TelltaleRight DEF Telltale, Understood, NoClause
    <3>2. QED
      BY <3>1 DEF Says
  <2>3. \A W \in SUBSET log : Having(W, P) = Having(W, Q)
    <3>1. \A r \in log : Says(r, Q) => Says(r, P)
      BY DEF Says
    <3> HIDE DEF P, Q
    <3>2. QED
      BY <2>2, <3>1 DEF Having
  <2>4. Having(Recalled, P) = Having(log, P)
    <3>1. Recalled \in SUBSET log
      BY DEF Recalled
    <3> HIDE DEF P, Q
    <3>2. QED
      BY <2>1, <2>3, <3>1
  <2>5. QED
    BY <1>14, <2>4 DEF Collect, ServerLifecycle
<1>15. CASE item = "system_incidents"
  <2>0. ItemRecall[item] = OneOf("state", {"53100", "53200", "58030"}) \cup OneOf("says", {"no space left on device"})
    BY <1>15 DEF ItemRecall
  <2>1. /\ \A r \in log : Says(r, {"no space left on device"}) => r \in Recalled
        /\ \A r \in log : State(r) \in {"53100", "53200", "58030"} => r \in Recalled
    BY <2>0, PhraseRecalled, StateRecalled
  <2>2. \A r \in log : <<"says", "invalid resource manager ID">> \notin Facts(r)
    BY SaysFact, TelltaleRight DEF Telltale, Understood, NoClause
  <2>3. \A r \in log : Says(r, {"no space left on device", "invalid resource manager ID"})
                        => Says(r, {"no space left on device"})
    BY <2>2 DEF Says
  <2>4. Incidents(Recalled) = Incidents(log)
    BY <2>1, <2>3 DEF Incidents, Recalled
  <2>5. QED
    BY <1>15, <2>4 DEF Collect, SystemIncidents
<1>16. CASE item = "top_errors"
  <2>0. ItemRecall[item] = OneOf("sev", Errors)
    BY <1>16 DEF ItemRecall
  <2>1. WithSev(Recalled, Errors) = WithSev(log, Errors)
    BY <2>0, SevRecalled
  <2>2. QED
    BY <1>16, <2>1 DEF Collect, TopErrors
<1>17. CASE item = "top_warnings"
  <2>0. ItemRecall[item] = OneOf("sev", {"WARNING"})
    BY <1>17 DEF ItemRecall
  <2>1. WithSev(Recalled, {"WARNING"}) = WithSev(log, {"WARNING"})
    BY <2>0, SevRecalled
  <2>2. QED
    BY <1>17, <2>1 DEF Collect, TopWarnings
<1>18. CASE item = "wraparound_pressure"
  <2>0. ItemRecall[item] = OneOf("says", {"must be vacuumed within"})
    BY <1>18 DEF ItemRecall
  <2>1. Having(Recalled, {"must be vacuumed within"}) = Having(log, {"must be vacuumed within"})
    BY <2>0, PhraseRecalled
  <2>2. QED
    BY <1>18, <2>1 DEF Collect, Wraparound
<1>19. item \in {"archiver_failures", "authentication_failures", "auto_explain_plans", "autovacuum_runs",
                 "checkpoints", "crash_recovery_events", "deadlock_events", "error_chronology",
                 "lock_waits", "maintenance_events", "query_resource_events",
                 "query_termination_events", "replication_events", "server_lifecycle",
                 "system_incidents", "top_errors", "top_warnings", "wraparound_pressure"}
  BY DEF ItemRecall
<1>20. QED
  BY <1>1, <1>2, <1>3, <1>4, <1>5, <1>6, <1>7, <1>8, <1>9, <1>10, <1>11, <1>12, <1>13, <1>14,
     <1>15, <1>16, <1>17, <1>18, <1>19

-----------------------------------------------------------------------------
(* The budget.                                                             *)

Kept == [rows : Seq(Row), used : Nat, refs : SUBSET Texts, cut : BOOLEAN]
Start == [rows |-> <<>>, used |-> used, refs |-> refs, cut |-> FALSE]

(* Either nothing more is kept, or the row is with what it refers to.      *)
Full(kept) == kept.cut \/ (kept.rows # <<>> /\ kept.used >= limit)

LEMMA AdmitStep ==
  ASSUME NEW kept \in Kept, NEW row \in Row
  PROVE  /\ Full(kept) => LET a == Admit(kept, row) IN
              /\ a \in Kept /\ a.cut
              /\ a.rows = kept.rows /\ a.used = kept.used /\ a.refs = kept.refs
         /\ ~Full(kept) => \E c \in {0, 1, 2} :
              Admit(kept, row) = [rows |-> Append(kept.rows, row), used |-> kept.used + 1 + c,
                                  refs |-> kept.refs \cup row.refs, cut |-> FALSE]
<1> DEFINE new == {ref \in row.refs : ref \notin kept.refs}
<1>1. Cardinality(new) \in {0, 1, 2}
  <2>1. IsFiniteSet(row.refs) /\ Cardinality(row.refs) <= 2
    BY DEF Row, IsRow
  <2>2. Cardinality(new) <= Cardinality(row.refs) /\ IsFiniteSet(new)
    BY <2>1, FS_Subset
  <2>3. Cardinality(new) \in Nat /\ Cardinality(row.refs) \in Nat
    BY <2>1, <2>2, FS_CardinalityType
  <2>4. QED
    BY <2>1, <2>2, <2>3
<1>2. kept.refs \cup new = kept.refs \cup row.refs
  OBVIOUS
<1>3. Full(kept) => Admit(kept, row) = [kept EXCEPT !.cut = TRUE]
  BY DEF Admit, Full
<1>4. LET a == [kept EXCEPT !.cut = TRUE] IN
        /\ a \in Kept /\ a.cut
        /\ a.rows = kept.rows /\ a.used = kept.used /\ a.refs = kept.refs
  BY DEF Kept
<1>5. ~Full(kept) =>
        Admit(kept, row) = [rows |-> Append(kept.rows, row), used |-> kept.used + 1 + Cardinality(new),
                            refs |-> kept.refs \cup new, cut |-> FALSE]
  BY DEF Admit, Full
<1> HIDE DEF new
<1>6. QED
  BY <1>1, <1>2, <1>3, <1>4, <1>5

LEMMA AdmitKept ==
  ASSUME NEW kept \in Kept, NEW row \in Row
  PROVE  Admit(kept, row) \in Kept
<1>1. row.refs \in SUBSET Texts /\ Append(kept.rows, row) \in Seq(Row)
  BY DEF Row, Kept
<1>2. CASE Full(kept)
  BY <1>2, AdmitStep
<1>3. CASE ~Full(kept)
  <2>1. PICK c \in {0, 1, 2} :
          Admit(kept, row) = [rows |-> Append(kept.rows, row), used |-> kept.used + 1 + c,
                              refs |-> kept.refs \cup row.refs, cut |-> FALSE]
    BY <1>3, AdmitStep
  <2>2. kept.used + 1 + c \in Nat /\ kept.refs \cup row.refs \in SUBSET Texts
    BY <1>1 DEF Kept
  <2> DEFINE q == Append(kept.rows, row)
             u == kept.used + 1 + c
             f == kept.refs \cup row.refs
  <2>3. q \in Seq(Row) /\ u \in Nat /\ f \in SUBSET Texts
    BY <1>1, <2>2
  <2>4. Admit(kept, row) = [rows |-> q, used |-> u, refs |-> f, cut |-> FALSE]
    BY <2>1
  <2> HIDE DEF q, u, f
  <2>5. [rows |-> q, used |-> u, refs |-> f, cut |-> FALSE] \in Kept
    BY <2>3, Zenon DEF Kept
  <2>6. QED
    BY <2>4, <2>5
<1>4. QED
  BY <1>2, <1>3

(* retain_log_item row by row: h[m] is what is kept of the first m rows.   *)
LEMMA AdmitFold ==
  ASSUME used \in Nat, refs \in SUBSET Texts, NEW seq \in Seq(Row)
  PROVE  \E h \in [0..Len(seq) -> Kept] :
           /\ h[0] = Start /\ h[Len(seq)] = Retained(seq)
           /\ \A m \in 1..Len(seq) : h[m] = Admit(h[m - 1], seq[m])
<1> DEFINE D == DOMAIN seq
           V == Kept
           pick == [s \in SUBSET D |-> Max(s)]
           step == [d \in D |-> [v \in V |-> Admit(v, seq[d])]]
<1>0. Start \in Kept
  <2>1. <<>> \in Seq(Row)
    OBVIOUS
  <2>2. QED
    BY <2>1, Zenon DEF Start, Kept
<1>1. IsFiniteSet(D) /\ D = 1..Len(seq) /\ Len(seq) \in Nat /\ Start \in V
  BY <1>0, FS_Interval
<1>2. \A s \in SUBSET D : s # {} => pick[s] = Max(s) /\ pick[s] \in s
  BY <1>1, MaxMember
<1>3. \A d \in D, v \in V : step[d][v] = Admit(v, seq[d])
  OBVIOUS
<1>4. ASSUME NEW d \in D, NEW v \in V PROVE step[d][v] \in V
  <2>1. seq[d] \in Row /\ step[d][v] = Admit(v, seq[d])
    BY <1>3
  <2>2. QED
    BY <2>1, AdmitKept
<1>5. PICK G \in [SUBSET D -> V] : \A s \in SUBSET D :
            G[s] = IF s = {} THEN Start ELSE step[pick[s]][G[s \ {pick[s]}]]
  <2> HIDE DEF D, V, pick, step
  <2>1. \A s \in SUBSET D : s # {} => pick[s] \in s
    BY <1>2
  <2>2. ASSUME NEW base \in V PROVE \E G : Iterates(G, D, V, base, pick, step)
    <3>1. IsFiniteSet(D)
      BY <1>1
    <3>2. \A d \in D, v \in V : step[d][v] \in V
      BY <1>4
    <3>3. QED
      BY <2>1, <3>1, <3>2, IterExists
  <2>3. PICK G : Iterates(G, D, V, Start, pick, step)
    BY <1>1, <2>2
  <2>4. QED
    BY <2>3 DEF Iterates
<1>6. \A s \in SUBSET D : s # {} => G[s] = Admit(G[s \ {Max(s)}], seq[Max(s)])
  <2> SUFFICES ASSUME NEW s \in SUBSET D, s # {}
               PROVE  G[s] = Admit(G[s \ {Max(s)}], seq[Max(s)])
    OBVIOUS
  <2>1. Max(s) \in D /\ s \ {Max(s)} \in SUBSET D
    BY <1>2
  <2>2. G[s] = step[Max(s)][G[s \ {Max(s)}]]
    BY <1>2, <1>5
  <2>3. G[s \ {Max(s)}] \in V
    BY <2>1
  <2> HIDE DEF D, V, pick, step
  <2>4. QED
    BY <1>3, <2>1, <2>2, <2>3
<1>7. G[{}] = Start
  BY <1>5
<1>8. G = [s \in SUBSET D |-> IF s = {} THEN Start ELSE Admit(G[s \ {Max(s)}], seq[Max(s)])]
  <2> HIDE DEF step, pick, V
  <2>1. \A s \in SUBSET D : G[s] = IF s = {} THEN Start ELSE Admit(G[s \ {Max(s)}], seq[Max(s)])
    BY <1>6, <1>7
  <2>2. QED
    BY <2>1
<1>9. PICK H : /\ H = [s \in SUBSET D |-> IF s = {} THEN Start ELSE Admit(H[s \ {Max(s)}], seq[Max(s)])]
               /\ Retained(seq) = H[D]
  <2> HIDE DEF Admit
  <2>1. QED
    BY <1>8 DEF Start, Retained, FoldLeft, MapThenFoldSet
<1> DEFINE h == [m \in 0..Len(seq) |-> H[1..m]]
<1>10. \A m \in 0..Len(seq) : 1..m \in SUBSET D
  BY <1>1
<1>11. h[0] = Start /\ h[Len(seq)] = Retained(seq)
  <2>1. 1..0 = {}
    OBVIOUS
  <2>2. QED
    BY <1>1, <1>9, <1>10, <2>1
<1>12. ASSUME NEW m \in 1..Len(seq) PROVE h[m] = Admit(h[m - 1], seq[m])
  <2>1. 1..m # {} /\ Max(1..m) = m /\ (1..m) \ {m} = 1..(m - 1) /\ m - 1 \in 0..Len(seq)
    BY <1>1, MaxOfInterval
  <2>2. h[m] = H[1..m] /\ h[m - 1] = H[1..(m - 1)]
    BY <2>1
  <2>3. H[1..m] = Admit(H[(1..m) \ {Max(1..m)}], seq[Max(1..m)])
    <3>1. \A s \in SUBSET D : s # {} => H[s] = Admit(H[s \ {Max(s)}], seq[Max(s)])
      BY <1>9
    <3> DEFINE s == 1..m
    <3>2. s \in SUBSET D /\ s # {}
      BY <1>10, <2>1
    <3> HIDE DEF D, s
    <3>3. H[s] = Admit(H[s \ {Max(s)}], seq[Max(s)])
      BY <3>1, <3>2
    <3>4. QED
      BY <3>3 DEF s
  <2>4. QED
    BY <2>1, <2>2, <2>3
<1>13. h \in [0..Len(seq) -> V]
  <2> DEFINE S == {m \in Nat : m \in 0..Len(seq) => h[m] \in V}
  <2>1. 0 \in S
    BY <1>1, <1>11
  <2>2. ASSUME NEW m \in Nat, m \in S PROVE m + 1 \in S
    <3>1. SUFFICES ASSUME m + 1 \in 0..Len(seq) PROVE h[m + 1] \in V
      OBVIOUS
    <3>2. h[m] \in V /\ m + 1 \in 1..Len(seq) /\ (m + 1) - 1 = m
      BY <1>1, <2>2, <3>1
    <3>3. seq[m + 1] \in Row /\ h[m + 1] = Admit(h[m], seq[m + 1])
      <4> HIDE DEF h
      <4>1. QED
        BY <1>12, <3>2
    <3>4. QED
      BY <3>2, <3>3, AdmitKept
  <2>3. Nat \subseteq S
    <3> HIDE DEF S
    <3>1. QED
      BY <2>1, <2>2, SetInduction
  <2>4. \A m \in 0..Len(seq) : h[m] \in V
    <3> HIDE DEF h, V
    <3>1. QED
      BY <1>1, <2>3
  <2>5. QED
    BY <2>4
<1>14. QED
  <2> HIDE DEF h
  <2>1. QED
    BY <1>11, <1>12, <1>13

(* What is kept of the first m rows.                                       *)
Fit(k, s, m) ==
  /\ Len(k.rows) <= m /\ (m > 0 => k.rows # <<>>)
  /\ ~k.cut => Len(k.rows) = m /\ \A i \in 1..m : k.rows[i] = s[i]
  /\ k.cut => k.used >= limit
  /\ refs \subseteq k.refs /\ \A i \in DOMAIN k.rows : k.rows[i].refs \subseteq k.refs
  /\ k.used <= limit + 2 /\ (k.rows = <<>> => k.used < limit)

LEMMA FitStep ==
  ASSUME limit \in Nat, NEW s \in Seq(Row), NEW k \in Kept, NEW m \in 0..(Len(s) - 1), Fit(k, s, m)
  PROVE  Fit(Admit(k, s[m + 1]), s, m + 1)
<1>1. m \in Nat /\ m + 1 \in 1..Len(s) /\ s[m + 1] \in Row /\ Len(k.rows) \in Nat /\ k.used \in Nat
  BY DEF Kept
<1>2. CASE Full(k)
  <2> DEFINE a == Admit(k, s[m + 1])
  <2>1. a \in Kept /\ a.cut /\ a.rows = k.rows /\ a.used = k.used /\ a.refs = k.refs
    BY <1>1, <1>2, AdmitStep
  <2>2. k.used >= limit /\ k.rows # <<>>
    BY <1>1, <1>2 DEF Full, Fit
  <2> HIDE DEF a
  <2>3. Fit(a, s, m + 1)
    BY <1>1, <2>1, <2>2 DEF Fit
  <2>4. QED
    BY <2>3 DEF a
<1>3. CASE ~Full(k)
  <2>1. PICK c \in {0, 1, 2} :
          Admit(k, s[m + 1]) = [rows |-> Append(k.rows, s[m + 1]), used |-> k.used + 1 + c,
                                refs |-> k.refs \cup s[m + 1].refs, cut |-> FALSE]
    BY <1>1, <1>3, AdmitStep
  <2> DEFINE q == Append(k.rows, s[m + 1])
             a == [rows |-> q, used |-> k.used + 1 + c, refs |-> k.refs \cup s[m + 1].refs, cut |-> FALSE]
  <2>2. ~k.cut /\ k.used < limit
    BY <1>1, <1>3 DEF Full, Fit
  <2>3. k.rows \in Seq(Row) /\ Len(k.rows) = m /\ \A i \in 1..m : k.rows[i] = s[i]
    BY <2>2 DEF Fit, Kept
  <2>4. /\ Len(q) = m + 1 /\ DOMAIN q = 1..(m + 1) /\ q # <<>>
        /\ \A i \in 1..(m + 1) : q[i] = s[i]
    <3>1. k.rows \in Seq(Row) /\ s[m + 1] \in Row
      BY <1>1, <2>3
    <3>2. q \in Seq(Row) /\ Len(q) = Len(k.rows) + 1 /\ q[Len(k.rows) + 1] = s[m + 1]
          /\ \A i \in 1..Len(k.rows) : q[i] = k.rows[i]
      BY <3>1
    <3> HIDE DEF q
    <3>3. Len(q) = m + 1 /\ DOMAIN q = 1..(m + 1) /\ q # <<>>
      BY <1>1, <2>3, <3>2
    <3>4. \A i \in 1..(m + 1) : i \in 1..m \/ i = m + 1
      BY <1>1
    <3>5. QED
      BY <2>3, <3>2, <3>3, <3>4
  <2>5. \A i \in DOMAIN q : q[i].refs \subseteq k.refs \cup s[m + 1].refs
    <3>1. SUFFICES ASSUME NEW i \in 1..(m + 1) PROVE q[i].refs \subseteq k.refs \cup s[m + 1].refs
      BY <2>4
    <3>2. CASE i = m + 1
      BY <2>4, <3>2
    <3>3. CASE i # m + 1
      <4>1. i \in 1..m /\ q[i] = k.rows[i] /\ i \in DOMAIN k.rows
        BY <1>1, <2>3, <2>4, <3>3
      <4>2. QED
        BY <4>1 DEF Fit
    <3>4. QED
      BY <3>2, <3>3
  <2> HIDE DEF q
  <2>6. Fit(a, s, m + 1)
    BY <1>1, <2>2, <2>4, <2>5 DEF Fit
  <2>7. QED
    BY <2>1, <2>6 DEF q
<1>4. QED
  BY <1>2, <1>3

(* What retain_log_item keeps of the rows of an item.                      *)
LEMMA RetainedRight ==
  ASSUME limit \in Nat, used \in Nat, used < limit, refs \in SUBSET Texts, NEW s \in Seq(Row)
  PROVE  Retained(s) \in Kept /\ Fit(Retained(s), s, Len(s))
<1>1. PICK h \in [0..Len(s) -> Kept] :
        /\ h[0] = Start /\ h[Len(s)] = Retained(s)
        /\ \A m \in 1..Len(s) : h[m] = Admit(h[m - 1], s[m])
  BY AdmitFold
<1> DEFINE S == {m \in Nat : m \in 0..Len(s) => Fit(h[m], s, m)}
<1>2. 0 \in S
  <2>1. Fit(Start, s, 0)
    BY DEF Fit, Start
  <2>2. QED
    BY <1>1, <2>1
<1>3. ASSUME NEW m \in Nat, m \in S PROVE m + 1 \in S
  <2>1. SUFFICES ASSUME m + 1 \in 0..Len(s) PROVE Fit(h[m + 1], s, m + 1)
    OBVIOUS
  <2>2. m \in 0..(Len(s) - 1) /\ m \in 0..Len(s) /\ m + 1 \in 1..Len(s) /\ (m + 1) - 1 = m
    BY <2>1
  <2>3. h[m] \in Kept /\ Fit(h[m], s, m) /\ h[m + 1] = Admit(h[m], s[m + 1])
    BY <1>1, <1>3, <2>2
  <2>4. QED
    BY <2>2, <2>3, FitStep
<1>4. Nat \subseteq S
  <2> HIDE DEF S
  <2>1. QED
    BY <1>2, <1>3, SetInduction
<1>5. Len(s) \in Nat /\ Len(s) \in 0..Len(s)
  OBVIOUS
<1>6. QED
  BY <1>1, <1>4, <1>5

-----------------------------------------------------------------------------
(* The invariant.                                                          *)

Statuses == {"none", "ok", "empty", "skipped", "unsupported", "unavailable", "error"}
Item == [status : Statuses, rows : Seq(Row), omittedSeries : Int, displayed : Int,
         omittedEvents : Int, partial : BOOLEAN, lost : Nat]

(* What is recorded of an item that looked agrees with what it made.       *)
Judged(item, made, complete, full, texts) ==
  /\ Adds(item, made)
  /\ item.rows # made.shown => item.partial /\ full
  /\ \A row \in Range(item.rows) : QueryRefs(row.of) \subseteq texts
  /\ item.status = "empty" => complete /\ made.shown = <<>>
JudgedItem(i) == Looked(i) => Judged(report[i], Made(i), whole, hit, refs)
SkippedItem(i) == report[i].status = "skipped" => hit \/ ~whole

PhaseInv ==
  /\ english \in BOOLEAN /\ log \in Logs /\ plan \in Plans /\ limit \in Limits
  /\ marker \in {"none", "collected", "skipped", "unavailable", "error"}
  /\ window \subseteq Recalled /\ whole \in BOOLEAN
  /\ whole => marker = "collected" /\ window = Recalled
  /\ marker = "none" => report = <<>>

BudgetInv ==
  /\ used \in Nat /\ hit \in BOOLEAN /\ refs \in SUBSET Texts
  /\ used <= limit + 2 /\ (~hit => used < limit)
  /\ \A ref \in refs : ref[1] = "query"

ItemsInv ==
  /\ PhaseInv /\ BudgetInv
  /\ report \in Seq(Item) /\ Len(report) <= Len(plan)
  /\ \A i \in Recorded : JudgedItem(i) /\ SkippedItem(i)

LEMMA PhaseFacts ==
  ASSUME PhaseInv
  PROVE  /\ Events(log) /\ Events(window) /\ limit \in Nat \ {0}
         /\ plan \in Seq(DOMAIN ItemRecall)
         /\ IsFiniteSet(log)
<1>1. Events(log)
  BY LogItemsAssumption DEF PhaseInv, Events, Series
<1>2. window \in SUBSET log
  BY DEF PhaseInv, Recalled
<1>3. QED
  BY <1>1, <1>2, SomeEvents, LogItemsAssumption DEF PhaseInv, Events

(* What an item makes depends on the language, the plan and the window.    *)
LEMMA CollectSame ==
  ASSUME UNCHANGED <<english, plan, window>>, NEW i
  PROVE  Made(i)' = Made(i)
<1>1. \A r : Facts(r)' = Facts(r)
  BY DEF Facts
<1>2. \A r, s : Says(r, s)' = Says(r, s) /\ Sev(r, s)' = Sev(r, s)
  BY <1>1 DEF Says, Sev
<1>3. \A W, s : Having(W, s)' = Having(W, s) /\ WithSev(W, s)' = WithSev(W, s)
  BY <1>2 DEF Having, WithSev
<1>4. \A W : Incidents(W)' = Incidents(W) /\ Refusals(W)' = Refusals(W) /\ Durations(W)' = Durations(W)
  BY <1>2 DEF Incidents, Refusals, Durations
<1>5. \A W : Heavy(Maintenance(W))' = Heavy(Maintenance(W))
  BY <1>1, <1>2 DEF Heavy, Maintenance, Failed
<1>6. \A R : WorstFirst(R)' = WorstFirst(R) /\ FailedFirst(R)' = FailedFirst(R) /\ Slowest(R)' = Slowest(R)
  BY <1>2 DEF WorstFirst, FailedFirst, Slowest, Failed
<1>7. QED
  BY <1>1, <1>2, <1>3, <1>4, <1>5, <1>6
     DEF Made, Collect, ArchiverFailures, AuthenticationFailures, AutoExplainPlans, AutovacuumRuns,
         Checkpoints, CrashRecovery, DeadlockEvents, ErrorChronology, LockWaits, MaintenanceEvents,
         QueryResources, QueryTerminations, ReplicationEvents, ServerLifecycle, SystemIncidents,
         TopErrors, TopWarnings, Wraparound

(* A row that is kept has the queries it refers to in the catalog.         *)
LEMMA RefsKept ==
  ASSUME NEW rows \in Seq(Row), NEW f, \A i \in DOMAIN rows : rows[i].refs \subseteq f
  PROVE  \A row \in Range(rows) : QueryRefs(row.of) \subseteq {ref \in f : ref[1] = "query"}
<1>1. SUFFICES ASSUME NEW i \in DOMAIN rows
               PROVE  QueryRefs(rows[i].of) \subseteq {ref \in f : ref[1] = "query"}
  BY DEF Range
<1>2. QueryRefs(rows[i].of) \subseteq rows[i].refs
  BY DEF Row, IsRow
<1>3. \A ref \in QueryRefs(rows[i].of) : ref[1] = "query"
  BY DEF QueryRefs
<1>4. QED
  BY <1>2, <1>3

LEMMA Left ==
  ASSUME NEW a \in Nat, NEW b \in Nat, NEW c \in Nat
  PROVE  (a - b) + (b - c) \in Int /\ c + ((a - b) + (b - c)) = a
OBVIOUS

LEMMA MarkedRight ==
  ASSUME limit \in Nat, NEW made, MadeRight(made), NEW kept \in Kept,
         Fit(kept, made.shown, Len(made.shown))
  PROVE  /\ MarkPartial(made, kept) \in Item /\ MarkPartial(made, kept).status = "ok"
         /\ Judged(MarkPartial(made, kept), made, whole, kept.used >= limit,
                   {ref \in kept.refs : ref[1] = "query"})
<1> DEFINE item == MarkPartial(made, kept)
<1>1. made.shown \in Seq(Row) /\ made.series \in Nat /\ made.events \in Nat /\ made.lost \in Nat
  BY DEF MadeRight
<1>2. kept.rows \in Seq(Row)
  BY DEF Kept
<1>3. EventsOf(made.shown) \in Nat /\ EventsOf(kept.rows) \in Nat
  BY <1>1, <1>2, EventsOfNat
<1>4. Len(made.shown) \in Nat /\ Len(kept.rows) \in Nat
  BY <1>1, <1>2
<1>5. kept.rows # made.shown => kept.used >= limit
  <2>1. SUFFICES ASSUME ~kept.cut PROVE kept.rows = made.shown
    BY DEF Fit
  <2>2. Len(kept.rows) = Len(made.shown) /\ \A i \in 1..Len(made.shown) : kept.rows[i] = made.shown[i]
    BY <2>1 DEF Fit
  <2>3. QED
    BY <1>1, <1>2, <2>2
<1>12. item.partial = (kept.rows # made.shown)
  BY DEF MarkPartial
<1>6. /\ item.status = "ok" /\ item.rows = kept.rows /\ item.displayed = EventsOf(kept.rows)
      /\ item.omittedSeries = (made.series - Len(made.shown)) + (Len(made.shown) - Len(kept.rows))
      /\ item.omittedEvents = (made.events - EventsOf(made.shown))
                                 + (EventsOf(made.shown) - EventsOf(kept.rows))
  BY DEF MarkPartial
<1>7. \A row \in Range(kept.rows) : QueryRefs(row.of) \subseteq {ref \in kept.refs : ref[1] = "query"}
  BY <1>2, RefsKept DEF Fit
<1>8. item \in Item
  <2> DEFINE oS == (made.series - Len(made.shown)) + (Len(made.shown) - Len(kept.rows))
             oE == (made.events - EventsOf(made.shown)) + (EventsOf(made.shown) - EventsOf(kept.rows))
             d == EventsOf(kept.rows)
             c == kept.rows # made.shown
  <2>1. oS \in Int /\ oE \in Int /\ d \in Int
    <3>1. oS \in Int
      <4>1. made.series \in Nat /\ Len(made.shown) \in Nat /\ Len(kept.rows) \in Nat
        BY <1>1, <1>4
      <4>2. QED
        BY <4>1, Left, Zenon
    <3>2. oE \in Int
      BY <1>1, <1>3, Left, Zenon
    <3>3. d \in Int
      BY <1>3
    <3>4. QED
      BY <3>1, <3>2, <3>3
  <2>5. c \in BOOLEAN
    OBVIOUS
  <2>2. item = [status |-> "ok", rows |-> kept.rows, partial |-> c, lost |-> made.lost,
                omittedSeries |-> oS, displayed |-> d, omittedEvents |-> oE]
    BY DEF MarkPartial
  <2>3. "ok" \in Statuses
    BY DEF Statuses
  <2> HIDE DEF oS, oE, d, c, item
  <2>4. QED
    BY <1>1, <1>2, <2>1, <2>2, <2>3, <2>5, Zenon DEF Item
<1>9. Adds(item, made)
  <2> HIDE DEF item
  <2>1. Len(item.rows) + item.omittedSeries = made.series
    <3>1. Len(item.rows) = Len(kept.rows)
      BY <1>6
    <3>2. QED
      <4>1. made.series \in Nat /\ Len(made.shown) \in Nat /\ Len(kept.rows) \in Nat
        BY <1>1, <1>4
      <4>2. Len(kept.rows) + ((made.series - Len(made.shown)) + (Len(made.shown) - Len(kept.rows))) = made.series
        BY <4>1, Left, Zenon
      <4>3. QED
        BY <1>6, <3>1, <4>2, Zenon
  <2>2. item.displayed = EventsOf(item.rows) /\ item.displayed + item.omittedEvents = made.events
    BY <1>1, <1>3, <1>6
  <2>3. QED
    BY <2>1, <2>2 DEF Adds
<1> HIDE DEF item
<1>10. Judged(item, made, whole, kept.used >= limit, {ref \in kept.refs : ref[1] = "query"})
  BY <1>5, <1>6, <1>7, <1>9, <1>12 DEF Judged
<1>11. QED
  BY <1>6, <1>8, <1>10 DEF item

LEMMA NothingShown ==
  ASSUME NEW made, MadeRight(made), made.shown = <<>>, NEW s \in {"ok", "empty"}, s = "empty" => whole,
         NEW full, NEW texts
  PROVE  Judged([NoItem EXCEPT !.status = s], made, whole, full, texts)
<1> DEFINE item == [NoItem EXCEPT !.status = s]
<1>1. item.status = s /\ item.rows = <<>> /\ item.omittedSeries = 0 /\ item.displayed = 0
      /\ item.omittedEvents = 0
  BY DEF NoItem
<1>2. made.series = 0 /\ made.events = 0
  BY DEF MadeRight
<1>3. EventsOf(<<>>) = 0
  <2>1. <<>> \in Seq(Row)
    OBVIOUS
  <2>2. QED
    BY <2>1, EventsOfNat
<1> HIDE DEF item
<1>4. Adds(item, made)
  BY <1>1, <1>2, <1>3 DEF Adds
<1>5. QED
  BY <1>1, <1>4 DEF Judged, Range, item

LEMMA NoItemRight ==
  ASSUME NEW s \in Statuses
  PROVE  [NoItem EXCEPT !.status = s] \in Item /\ [NoItem EXCEPT !.status = s].status = s
<1>1. NoItem \in Item
  <2>1. <<>> \in Seq(Row) /\ 0 \in Nat /\ 0 \in Int /\ "none" \in Statuses
    BY DEF Statuses
  <2>2. QED
    BY <2>1, Zenon DEF NoItem, Item
<1>2. QED
  BY <1>1 DEF Item

LEMMA ItemsInit == Init => ItemsInv
<1>1. SUFFICES ASSUME Init PROVE ItemsInv
  OBVIOUS
<1>2. limit \in Nat \ {0} /\ plan \in Seq(DOMAIN ItemRecall)
  BY <1>1, LogItemsAssumption DEF Init
<1>3. PhaseInv
  BY <1>1 DEF Init, PhaseInv
<1>4. BudgetInv
  <2>1. used = 0 /\ refs = {} /\ hit \in BOOLEAN
    BY <1>1 DEF Init
  <2>2. 0 < limit /\ 0 <= limit + 2
    BY <1>2
  <2>3. QED
    BY <2>1, <2>2 DEF BudgetInv
<1>5. report = <<>> /\ report \in Seq(Item) /\ Len(report) <= Len(plan) /\ DOMAIN report = {}
  BY <1>1, <1>2 DEF Init
<1>6. QED
  BY <1>3, <1>4, <1>5 DEF ItemsInv, Recorded

(* Before the phase nothing is recorded.                                   *)
LEMMA PhaseStep == ItemsInv /\ (Phase \/ NoPhase) => ItemsInv'
<1>1. SUFFICES ASSUME ItemsInv, Phase \/ NoPhase PROVE ItemsInv'
  OBVIOUS
<1>2. report = <<>> /\ report' = report /\ ~whole
  BY <1>1 DEF ItemsInv, PhaseInv, Phase, NoPhase
<1>3. UNCHANGED <<english, log, plan, limit, used, hit, refs>>
  BY <1>1 DEF Phase, NoPhase, input
<1>4. Recalled' = Recalled
  BY <1>3 DEF Recalled, ClausesFor, Facts
<1>5. PhaseInv'
  <2>1. CASE Phase
    BY <1>1, <1>2, <1>3, <1>4, <2>1 DEF ItemsInv, PhaseInv, Phase
  <2>2. CASE NoPhase
    BY <1>1, <1>2, <1>3, <1>4, <2>2 DEF ItemsInv, PhaseInv, NoPhase
  <2>3. QED
    BY <1>1, <2>1, <2>2
<1>6. BudgetInv'
  BY <1>1, <1>3 DEF ItemsInv, BudgetInv
<1>7. QED
  BY <1>1, <1>2, <1>3, <1>5, <1>6 DEF ItemsInv, Recorded

(* One more item is recorded, and what is said of the others stays true.   *)
LEMMA RecordStep ==
  ASSUME ItemsInv, Turn, UNCHANGED <<input, marker, window, whole>>, NEW item \in Item, Record(item),
         hit => hit', refs \subseteq refs', BudgetInv',
         item.status = "skipped" => hit' \/ ~whole,
         item.status \in {"ok", "empty"} /\ marker = "collected" =>
            Judged(item, Collect(Current, window), whole, hit', refs')
  PROVE  ItemsInv'
<1>1. UNCHANGED <<english, log, plan, limit, marker, window, whole>>
  BY DEF input
<1>2. Recalled' = Recalled
  BY <1>1 DEF Recalled, ClausesFor, Facts
<1> DEFINE n == Len(report)
<1>3. report \in Seq(Item) /\ n \in Nat /\ marker # "none" /\ n < Len(plan) /\ Len(plan) \in Nat
  BY PhaseFacts DEF ItemsInv, Turn
<1>4. /\ report' \in Seq(Item) /\ Len(report') = n + 1 /\ DOMAIN report' = 1..(n + 1)
      /\ report'[n + 1] = item /\ \A i \in 1..n : report'[i] = report[i]
  BY <1>3 DEF Record
<1>5. PhaseInv'
  BY <1>1, <1>2, <1>3 DEF ItemsInv, PhaseInv
<1>6. Len(report') <= Len(plan')
  BY <1>1, <1>3, <1>4
<1>7. ASSUME NEW i \in 1..(n + 1) PROVE JudgedItem(i)' /\ SkippedItem(i)'
  <2>1. Made(i)' = Made(i)
    BY <1>1, CollectSame
  <2>2. CASE i = n + 1
    <3>1. report'[i] = item /\ Made(i) = Collect(Current, window)
      BY <1>4, <2>2 DEF Made, Current
    <3>2. SkippedItem(i)'
      BY <1>1, <3>1 DEF SkippedItem
    <3>3. SUFFICES ASSUME Looked(i)' PROVE Judged(report'[i], Made(i)', whole', hit', refs')
      BY <3>2 DEF JudgedItem
    <3>4. item.status \in {"ok", "empty"} /\ marker = "collected"
      BY <1>1, <3>1, <3>3 DEF Looked
    <3>5. Judged(item, Made(i), whole, hit', refs')
      BY <3>1, <3>4
    <3>6. QED
      BY <1>1, <2>1, <3>1, <3>5
  <2>3. CASE i # n + 1
    <3>1. i \in Recorded /\ report'[i] = report[i]
      BY <1>3, <1>4, <2>3 DEF Recorded
    <3>2. JudgedItem(i) /\ SkippedItem(i)
      BY <3>1 DEF ItemsInv
    <3>3. SkippedItem(i)'
      BY <1>1, <3>1, <3>2 DEF SkippedItem
    <3>4. SUFFICES ASSUME Looked(i)' PROVE Judged(report'[i], Made(i)', whole', hit', refs')
      BY <3>3 DEF JudgedItem
    <3>5. Judged(report[i], Made(i), whole, hit, refs)
      BY <1>1, <3>1, <3>2, <3>4 DEF Looked, JudgedItem
    <3>6. Judged(report[i], Made(i), whole, hit', refs')
      BY <3>5 DEF Judged
    <3>7. QED
      BY <1>1, <2>1, <3>1, <3>6
  <2>4. QED
    BY <2>2, <2>3
<1>8. QED
  BY <1>4, <1>5, <1>6, <1>7 DEF ItemsInv, Recorded

LEMMA SkipStep == ItemsInv /\ SkipItem => ItemsInv'
<1>1. SUFFICES ASSUME ItemsInv, SkipItem PROVE ItemsInv'
  OBVIOUS
<1> DEFINE item == [NoItem EXCEPT !.status = "skipped"]
<1>2. item \in Item /\ item.status = "skipped"
  BY NoItemRight DEF Statuses
<1>3. Turn /\ hit /\ Record(item) /\ UNCHANGED <<input, marker, window, whole, used, hit, refs>>
  BY <1>1 DEF SkipItem
<1>4. BudgetInv'
  BY <1>1, <1>3 DEF ItemsInv, BudgetInv, input
<1> HIDE DEF item
<1>5. QED
  BY <1>1, <1>2, <1>3, <1>4, RecordStep

LEMMA EarlyStep == ItemsInv /\ EarlyItem => ItemsInv'
<1>1. SUFFICES ASSUME ItemsInv, EarlyItem PROVE ItemsInv'
  OBVIOUS
<1> DEFINE s == EarlyStatus(Current)
           item == [NoItem EXCEPT !.status = s]
<1>2. Turn /\ Record(item) /\ s # "none" /\ UNCHANGED <<input, marker, window, whole, used, hit, refs>>
  BY <1>1 DEF EarlyItem
<1>3. s \in {"unsupported", "skipped", "unavailable", "error"} /\ (s = "skipped" => marker = "skipped")
  BY <1>1, <1>2 DEF EarlyStatus, ItemsInv, PhaseInv, Turn
<1>4. s = "skipped" => ~whole
  BY <1>1, <1>3 DEF ItemsInv, PhaseInv
<1> HIDE DEF s
<1>5. item \in Item /\ item.status = s
  BY <1>3, NoItemRight DEF Statuses
<1>6. BudgetInv'
  BY <1>1, <1>2 DEF ItemsInv, BudgetInv, input
<1> HIDE DEF item
<1>7. QED
  BY <1>1, <1>2, <1>3, <1>4, <1>5, <1>6, RecordStep

LEMMA ExecuteStep == ItemsInv /\ ExecuteItem => ItemsInv'
<1>1. SUFFICES ASSUME ItemsInv, ExecuteItem PROVE ItemsInv'
  OBVIOUS
<1> DEFINE made == Collect(Current, window)
           kept == Retained(made.shown)
           texts == {ref \in kept.refs : ref[1] = "query"}
           item == IF made.shown = <<>> THEN [NoItem EXCEPT !.status = NoRowsStatus(Current)]
                   ELSE MarkPartial(made, kept)
<1>2. /\ Turn /\ ~hit /\ Record(item) /\ used' = kept.used /\ hit' = (kept.used >= limit)
      /\ refs' = texts /\ UNCHANGED <<input, marker, window, whole>>
  BY <1>1 DEF ExecuteItem, Retain, Charge
<1>3. MadeRight(made) /\ limit \in Nat
  BY <1>1, PhaseFacts, CollectRight DEF ItemsInv
<1>4. made.shown \in Seq(Row) /\ used \in Nat /\ used < limit /\ refs \in SUBSET Texts
  BY <1>1, <1>2, <1>3 DEF ItemsInv, BudgetInv, MadeRight
<1>5. kept \in Kept /\ Fit(kept, made.shown, Len(made.shown))
  BY <1>3, <1>4, RetainedRight
<1>6. PICK s \in {"ok", "empty"} : s = NoRowsStatus(Current) /\ (s = "empty" => whole)
  BY DEF NoRowsStatus
<1>7. \A ref \in refs : ref[1] = "query"
  BY <1>1 DEF ItemsInv, BudgetInv
<1> HIDE DEF made, kept
<1>8. refs \subseteq texts /\ texts \in SUBSET Texts
  BY <1>5, <1>7 DEF Fit, Kept
<1>9. /\ item \in Item /\ item.status \in {"ok", "empty"}
      /\ Judged(item, made, whole, kept.used >= limit, texts)
  <2>1. CASE made.shown = <<>>
    <3>1. item = [NoItem EXCEPT !.status = s]
      BY <1>6, <2>1
    <3>2. Judged([NoItem EXCEPT !.status = s], made, whole, kept.used >= limit, texts)
      BY <1>3, <1>6, <2>1, NothingShown
    <3>3. [NoItem EXCEPT !.status = s] \in Item /\ [NoItem EXCEPT !.status = s].status = s
      BY NoItemRight DEF Statuses
    <3>4. QED
      BY <3>1, <3>2, <3>3
  <2>2. CASE made.shown # <<>>
    <3>1. item = MarkPartial(made, kept)
      BY <2>2
    <3>2. QED
      BY <1>3, <1>5, <3>1, MarkedRight
  <2>3. QED
    BY <2>1, <2>2
<1>10. BudgetInv'
  <2>1. kept.used \in Nat /\ kept.used <= limit + 2 /\ limit' = limit
    BY <1>2, <1>5 DEF Kept, Fit, input
  <2>2. used' \in Nat /\ used' <= limit' + 2
    BY <1>2, <2>1
  <2>6. ~hit' => ~(kept.used >= limit)
    BY <1>2, Zenon
  <2>7. ~hit' => used' < limit'
    BY <1>2, <1>3, <2>1, <2>6
  <2>3. hit' \in BOOLEAN
    BY <1>2
  <2>4. refs' \in SUBSET Texts /\ \A ref \in refs' : ref[1] = "query"
    BY <1>2, <1>8
  <2>5. QED
    BY <2>2, <2>3, <2>4, <2>7 DEF BudgetInv
<1> HIDE DEF item, texts
<1>11. Judged(item, made, whole, hit', refs')
  BY <1>2, <1>9
<1>12. QED
  BY <1>1, <1>2, <1>8, <1>9, <1>10, <1>11, RecordStep DEF made

LEMMA ItemsStutter == ItemsInv /\ UNCHANGED vars => ItemsInv'
<1>1. SUFFICES ASSUME ItemsInv, UNCHANGED vars PROVE ItemsInv'
  OBVIOUS
<1>2. UNCHANGED <<english, log, plan, limit, marker, window, whole, report, used, hit, refs>>
  BY <1>1 DEF vars, input
<1>3. Recalled' = Recalled
  BY <1>2 DEF Recalled, ClausesFor, Facts
<1>4. PhaseInv' /\ BudgetInv'
  BY <1>1, <1>2, <1>3 DEF ItemsInv, PhaseInv, BudgetInv
<1>5. ASSUME NEW i \in Recorded PROVE JudgedItem(i)' /\ SkippedItem(i)'
  <2>1. Made(i)' = Made(i)
    BY <1>2, CollectSame
  <2>2. JudgedItem(i) /\ SkippedItem(i)
    BY <1>1 DEF ItemsInv
  <2>3. QED
    BY <1>2, <2>1, <2>2 DEF JudgedItem, SkippedItem, Looked
<1>6. QED
  BY <1>1, <1>2, <1>4, <1>5 DEF ItemsInv, Recorded

(* Every step of the phase and of the items of the plan keeps it.          *)
THEOREM ItemsInvariance == Spec => []ItemsInv
<1>1. Init => ItemsInv
  BY ItemsInit
<1>2. ItemsInv /\ [Next]_vars => ItemsInv'
  BY PhaseStep, SkipStep, EarlyStep, ExecuteStep, ItemsStutter DEF Next
<1>3. QED
  BY <1>1, <1>2, PTL DEF Spec

(* Whatever a row limit, a bucket, a point limit and the budget left out,  *)
(* the counts _mark_item_partial leaves beside the rows of an item tell    *)
(* how many of the events of the window that are its own are not shown.    *)
THEOREM Counted == Spec => []CountsAddUp
<1>1. ItemsInv => CountsAddUp
  BY DEF ItemsInv, CountsAddUp, JudgedItem, Judged
<1>2. QED
  BY <1>1, ItemsInvariance, PTL

(* A row retain_log_item left out is marked in its item and the coverage   *)
(* no longer claims to be complete; a kept row has the queries it refers   *)
(* to in the catalog, and the budget is exceeded by the row that crosses   *)
(* it at most.                                                             *)
THEOREM BudgetTold == Spec => []BudgetSaysSo
<1>1. ItemsInv => BudgetSaysSo
  <2>1. SUFFICES ASSUME ItemsInv, NEW i \in Recorded
                 PROVE  /\ Looked(i) => /\ report[i].rows # Made(i).shown => report[i].partial /\ ~RankingComplete
                                        /\ \A row \in Range(report[i].rows) : QueryRefs(row.of) \subseteq refs
                                        /\ report[i].rows # <<>> => used <= limit + 2
                        /\ report[i].status = "skipped" => ~RankingComplete
    BY DEF BudgetSaysSo
  <2>2. JudgedItem(i) /\ SkippedItem(i) /\ used <= limit + 2
    BY <2>1 DEF ItemsInv, BudgetInv
  <2>3. QED
    BY <2>2 DEF JudgedItem, SkippedItem, Judged, RankingComplete
<1>2. QED
  BY <1>1, ItemsInvariance, PTL

(* An item is "empty" only if nothing it reports on was written, and a     *)
(* complete report shows of the log what the item would show of every      *)
(* record of it (clauses_for_items), but for the messages without a clause. *)
THEOREM EmptyTold == Spec => []EmptyIsTrue
<1>1. ItemsInv => EmptyIsTrue
  <2>1. SUFFICES ASSUME ItemsInv, NEW i \in Recorded, Looked(i), \A r \in log : r.kind \notin NoClause
                 PROVE  Tells(i, Made(i), Collect(plan[i], log))
    BY DEF EmptyIsTrue
  <2>2. JudgedItem(i) /\ PhaseInv
    BY <2>1 DEF ItemsInv
  <2>3. Understood /\ i \in DOMAIN plan /\ plan[i] \in DOMAIN ItemRecall
    <3>1. Understood
      BY <2>1, <2>2, PhaseFacts DEF Events, Understood
    <3>2. plan \in Seq(DOMAIN ItemRecall) /\ Len(report) <= Len(plan) /\ report \in Seq(Item)
      BY <2>1, <2>2, PhaseFacts DEF ItemsInv
    <3>3. i \in 1..Len(plan)
      BY <2>1, <3>2 DEF Recorded
    <3>4. QED
      BY <3>1, <3>2, <3>3
  <2>4. whole => Made(i) = Collect(plan[i], log)
    BY <2>2, <2>3, WholeLog DEF PhaseInv, Made
  <2>5. report[i].status = "empty" => whole /\ Made(i).shown = <<>>
    BY <2>1, <2>2 DEF JudgedItem, Judged
  <2>6. QED
    BY <2>4, <2>5 DEF Tells
<1>2. QED
  BY <1>1, ItemsInvariance, PTL

=============================================================================

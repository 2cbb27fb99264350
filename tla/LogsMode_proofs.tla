-------------------------- MODULE LogsMode_proofs --------------------------
(***************************************************************************)
(* The logs mode: the scan of the window (LogScan) and the run around it   *)
(* (LogsRun), for every number of files, records and steps of the server   *)
(* and for every limit.                                                    *)
(*                                                                         *)
(* The scan.  Its invariant says where every record is that was asked for: *)
(* in a committed run, in a run of the open file, ahead of the position,   *)
(* or gone with a file, and then a reason is noted before the file is      *)
(* passed.  The window adds that merging neither counts an occurrence      *)
(* twice nor loses one.  For the script on the host a second invariant     *)
(* compares what the frames say so far with what has been done.            *)
(*                                                                         *)
(* The run.  Its invariant is the timetable of the phases and the account  *)
(* of the files of the report.                                             *)
(***************************************************************************)
EXTENDS LogScan, LogsRun, Folding

-----------------------------------------------------------------------------
(* The folds of MergeSeries (the induction they rest on is Folding's).     *)

(* The fold of a sequence, step by step.                                   *)
RunRecord == [kind : Kinds \cup {"none"}, last : Nat, recs : SUBSET Nat, count : Nat]

(* MergeInto makes a sequence of runs out of one and a run.                *)
LEMMA MergeIntoType ==
  ASSUME NEW out \in Seq(RunRecord), NEW s \in RunRecord
  PROVE  MergeInto(out, s) \in Seq(RunRecord)
<1>1. CASE out # <<>> /\ CanMerge(Last(out), s)
  <2>1. Len(out) \in DOMAIN out /\ out[Len(out)] \in RunRecord
    BY <1>1
  <2>2. ASSUME NEW r \in RunRecord PROVE Merged(r, s) \in RunRecord
    <3>1. r.recs \cup s.recs \in SUBSET Nat /\ r.count + s.count \in Nat
      BY DEF RunRecord
    <3>2. [r EXCEPT !.recs = r.recs \cup s.recs] \in RunRecord
      BY <3>1 DEF RunRecord
    <3>3. QED
      BY <3>1, <3>2 DEF Merged, RunRecord
  <2>3. MergeInto(out, s) = [out EXCEPT ![Len(out)] = Merged(out[Len(out)], s)]
    BY <1>1 DEF MergeInto
  <2>4. QED
    BY <2>1, <2>2, <2>3
<1>2. CASE ~(out # <<>> /\ CanMerge(Last(out), s))
  BY <1>2 DEF MergeInto
<1>3. QED
  BY <1>1, <1>2

(* The fold of MergeSeries, step by step: h[m] is what the first m runs    *)
(* make.                                                                   *)
LEMMA MergeFold ==
  ASSUME NEW seq \in Seq(RunRecord)
  PROVE  \E h \in [0..Len(seq) -> Seq(RunRecord)] :
           /\ h[0] = <<>> /\ h[Len(seq)] = MergeSeries(seq)
           /\ \A m \in 1..Len(seq) : h[m] = MergeInto(h[m - 1], seq[m])
<1> DEFINE D == DOMAIN seq
           V == Seq(RunRecord)
           pick == [s \in SUBSET D |-> Max(s)]
           step == [d \in D |-> [v \in V |-> MergeInto(v, seq[d])]]
<1>1. IsFiniteSet(D) /\ D = 1..Len(seq) /\ Len(seq) \in Nat /\ <<>> \in V
  BY FS_Interval
<1>2. \A s \in SUBSET D : s # {} => pick[s] = Max(s) /\ pick[s] \in s
  BY <1>1, MaxMember
<1>3. \A d \in D, v \in V : step[d][v] = MergeInto(v, seq[d])
  OBVIOUS
<1>4. ASSUME NEW d \in D, NEW v \in V PROVE step[d][v] \in V
  <2>1. seq[d] \in RunRecord /\ step[d][v] = MergeInto(v, seq[d])
    BY <1>3
  <2>2. QED
    BY <2>1, MergeIntoType
<1>5. PICK G \in [SUBSET D -> V] : \A s \in SUBSET D :
            G[s] = IF s = {} THEN <<>> ELSE step[pick[s]][G[s \ {pick[s]}]]
  <2> HIDE DEF D, V, pick, step
  <2>1. \A s \in SUBSET D : s # {} => pick[s] \in s
    BY <1>2
  <2>2. ASSUME NEW base \in V PROVE \E G : Iterates(G, D, V, base, pick, step)
    <3>1. IsFiniteSet(D)
      BY <1>1
    <3>2. \A d \in D, v \in V : step[d][v] \in V
      BY <1>4
    <3>3. QED
      BY <2>1, <3>1, <3>2, IterExists
  <2>3. QED
    BY <1>1, <2>2 DEF Iterates
<1>6. \A s \in SUBSET D : s # {} => G[s] = MergeInto(G[s \ {Max(s)}], seq[Max(s)])
  <2> SUFFICES ASSUME NEW s \in SUBSET D, s # {}
               PROVE  G[s] = MergeInto(G[s \ {Max(s)}], seq[Max(s)])
    OBVIOUS
  <2>1. Max(s) \in D /\ s \ {Max(s)} \in SUBSET D
    BY <1>2
  <2>2. G[s] = step[Max(s)][G[s \ {Max(s)}]]
    BY <1>2, <1>5
  <2>3. G[s \ {Max(s)}] \in V
    BY <2>1
  <2> HIDE DEF D, V, pick, step
  <2>4. QED
    BY <1>3, <2>1, <2>2, <2>3
<1>7. G[{}] = <<>>
  BY <1>5
<1>8. G = [s \in SUBSET D |-> IF s = {} THEN <<>> ELSE MergeInto(G[s \ {Max(s)}], seq[Max(s)])]
  <2> HIDE DEF step, pick, V
  <2>1. \A s \in SUBSET D : G[s] = IF s = {} THEN <<>> ELSE MergeInto(G[s \ {Max(s)}], seq[Max(s)])
    BY <1>6, <1>7
  <2>2. QED
    BY <2>1
<1>9. PICK H : /\ H = [s \in SUBSET D |-> IF s = {} THEN <<>> ELSE MergeInto(H[s \ {Max(s)}], seq[Max(s)])]
               /\ MergeSeries(seq) = H[D]
  <2> HIDE DEF MergeInto
  <2>1. QED
    BY <1>8 DEF MergeSeries, FoldLeft, MapThenFoldSet
<1> DEFINE h == [m \in 0..Len(seq) |-> H[1..m]]
<1>10. \A m \in 0..Len(seq) : 1..m \in SUBSET D
  BY <1>1
<1>11. h[0] = <<>> /\ h[Len(seq)] = MergeSeries(seq)
  <2>1. 1..0 = {}
    OBVIOUS
  <2>2. QED
    BY <1>1, <1>9, <1>10, <2>1
<1>12. ASSUME NEW m \in 1..Len(seq) PROVE h[m] = MergeInto(h[m - 1], seq[m])
  <2>1. 1..m # {} /\ Max(1..m) = m /\ (1..m) \ {m} = 1..(m - 1) /\ m - 1 \in 0..Len(seq)
    BY <1>1, MaxOfInterval
  <2>2. h[m] = H[1..m] /\ h[m - 1] = H[1..(m - 1)]
    BY <2>1
  <2>3. H[1..m] = MergeInto(H[(1..m) \ {Max(1..m)}], seq[Max(1..m)])
    <3>1. \A s \in SUBSET D : s # {} => H[s] = MergeInto(H[s \ {Max(s)}], seq[Max(s)])
      BY <1>9
    <3> DEFINE s == 1..m
    <3>2. s \in SUBSET D /\ s # {}
      BY <1>10, <2>1
    <3> HIDE DEF D, s
    <3>3. H[s] = MergeInto(H[s \ {Max(s)}], seq[Max(s)])
      BY <3>1, <3>2
    <3>4. QED
      BY <3>3 DEF s
  <2>4. QED
    BY <2>1, <2>2, <2>3
<1>13. h \in [0..Len(seq) -> V]
  <2> DEFINE S == {m \in Nat : m \in 0..Len(seq) => h[m] \in V}
  <2>1. 0 \in S
    BY <1>1, <1>11
  <2>2. ASSUME NEW m \in Nat, m \in S PROVE m + 1 \in S
    <3>1. SUFFICES ASSUME m + 1 \in 0..Len(seq) PROVE h[m + 1] \in V
      OBVIOUS
    <3>2. h[m] \in V /\ m + 1 \in 1..Len(seq) /\ (m + 1) - 1 = m
      BY <1>1, <2>2, <3>1
    <3>3. seq[m + 1] \in RunRecord /\ h[m + 1] = MergeInto(h[m], seq[m + 1])
      <4> HIDE DEF h
      <4>1. QED
        BY <1>12, <3>2
    <3>4. QED
      BY <3>2, <3>3, MergeIntoType
  <2>3. Nat \subseteq S
    <3> HIDE DEF S
    <3>1. QED
      BY <2>1, <2>2, SetInduction
  <2>4. \A m \in 0..Len(seq) : h[m] \in V
    <3> HIDE DEF h, V
    <3>1. QED
      BY <1>1, <2>3
  <2>5. QED
    BY <2>4
<1>14. QED
  <2> HIDE DEF h
  <2>1. QED
    BY <1>11, <1>12, <1>13

(* A run says how many records it holds, one if their times are kept.      *)
Sound(u) ==
  /\ IsFiniteSet(u.recs) /\ u.count = Cardinality(u.recs)
  /\ u.kind \in Preserved => u.count <= 1

(* A sequence of runs of which no two hold a record in common.             *)
Separate(seq) ==
  /\ seq \in Seq(RunRecord)
  /\ \A m \in DOMAIN seq : Sound(seq[m]) /\ seq[m].count > 0
  /\ \A m, n \in DOMAIN seq : m # n => seq[m].recs \cap seq[n].recs = {}

(* out holds the records of the first m runs of seq, and each of its runs  *)
(* those of runs of its own fingerprint.                                   *)
Merges(out, seq, m) ==
  /\ Separate(out)
  /\ \A p \in DOMAIN out : \A t \in out[p].recs :
       \E i \in 1..m : t \in seq[i].recs /\ PrintOf[seq[i].kind] = PrintOf[out[p].kind]
  /\ \A i \in 1..m : \A t \in seq[i].recs : \E p \in DOMAIN out : t \in out[p].recs

(* One step of merge_client_series: what the runs say so far is kept by    *)
(* the next run, merged into the last of the window or put after it.       *)
LEMMA MergeStep ==
  ASSUME NEW seq, Separate(seq), NEW m \in Nat, m + 1 \in DOMAIN seq, NEW out, Merges(out, seq, m)
  PROVE  Merges(MergeInto(out, seq[m + 1]), seq, m + 1)
<1> DEFINE s == seq[m + 1]
           res == MergeInto(out, s)
<1>1. /\ out \in Seq(RunRecord) /\ s \in RunRecord /\ res \in Seq(RunRecord)
      /\ seq \in Seq(RunRecord) /\ m + 1 \in 1..Len(seq)
  BY MergeIntoType DEF Separate, Merges
<1>2. \A p \in DOMAIN out : out[p].recs \cap s.recs = {}
  <2> SUFFICES ASSUME NEW p \in DOMAIN out, NEW t \in out[p].recs, t \in s.recs PROVE FALSE
    OBVIOUS
  <2>1. PICK i \in 1..m : t \in seq[i].recs
    BY DEF Merges
  <2>2. i # m + 1 /\ i \in DOMAIN seq
    BY <1>1, <2>1
  <2>3. QED
    BY <2>1, <2>2 DEF Separate
<1>3. Sound(s) /\ s.count > 0 /\ s.count \in Nat
  BY <1>1 DEF Separate, RunRecord
<1>4. CASE out # <<>> /\ CanMerge(Last(out), s)
  <2> DEFINE n == Len(out)
             h == out[n]
             w == Merged(h, s)
  <2>1. n \in DOMAIN out /\ h \in RunRecord /\ Last(out) = h
    BY <1>1, <1>4 DEF Last
  <2>2. /\ w.kind = h.kind /\ w.recs = h.recs \cup s.recs /\ w.count = h.count + s.count
    BY <2>1 DEF Merged, RunRecord
  <2>3. /\ res = [out EXCEPT ![n] = w]
        /\ DOMAIN res = DOMAIN out /\ res[n] = w
        /\ \A p \in DOMAIN out : p # n => res[p] = out[p]
    BY <1>1, <1>4, <2>1 DEF MergeInto
  <2>4. /\ PrintOf[h.kind] = PrintOf[s.kind] /\ h.kind \notin Preserved
    BY <1>4, <2>1 DEF CanMerge
  <2>5. Sound(h) /\ h.count > 0 /\ h.count \in Nat
    BY <2>1 DEF Merges, Separate, RunRecord
  <2>6. Sound(w) /\ w.count > 0
    <3>1. IsFiniteSet(h.recs) /\ IsFiniteSet(s.recs) /\ h.recs \cap s.recs = {}
      BY <1>2, <1>3, <2>1, <2>5 DEF Sound
    <3>2. Cardinality(h.recs \cap s.recs) = 0
      BY <3>1, FS_EmptySet
    <3>3. /\ IsFiniteSet(h.recs \cup s.recs)
          /\ Cardinality(h.recs \cup s.recs)
               = Cardinality(h.recs) + Cardinality(s.recs) - Cardinality(h.recs \cap s.recs)
      BY <3>1, FS_Union
    <3>4. QED
      BY <1>3, <2>2, <2>4, <2>5, <3>2, <3>3 DEF Sound
  <2> HIDE DEF res, w, h, n, s
  <2>7. Separate(res)
    <3>1. \A p \in DOMAIN res : Sound(res[p]) /\ res[p].count > 0
      BY <2>3, <2>6 DEF Merges, Separate
    <3>2. \A p \in DOMAIN out : p # n => out[p].recs \cap w.recs = {}
      BY <1>2, <2>1, <2>2 DEF Merges, Separate, h
    <3>3. \A p, q \in DOMAIN res : p # q => res[p].recs \cap res[q].recs = {}
      BY <2>3, <3>2 DEF Merges, Separate
    <3>4. QED
      BY <1>1, <3>1, <3>3 DEF Separate
  <2>8. ASSUME NEW p \in DOMAIN res, NEW t \in res[p].recs
        PROVE  \E i \in 1..(m + 1) : t \in seq[i].recs /\ PrintOf[seq[i].kind] = PrintOf[res[p].kind]
    <3>1. CASE p = n /\ t \in s.recs
      BY <2>2, <2>3, <2>4, <3>1 DEF s
    <3>2. CASE t \in out[p].recs
      <4>1. PICK i \in 1..m : t \in seq[i].recs /\ PrintOf[seq[i].kind] = PrintOf[out[p].kind]
        BY <2>3, <3>2 DEF Merges
      <4>2. res[p].kind = out[p].kind
        BY <2>2, <2>3 DEF h
      <4>3. QED
        BY <4>1, <4>2
    <3>3. QED
      BY <2>2, <2>3, <2>8, <3>1, <3>2 DEF h
  <2>9. ASSUME NEW i \in 1..(m + 1), NEW t \in seq[i].recs
        PROVE  \E p \in DOMAIN res : t \in res[p].recs
    <3>1. CASE i = m + 1
      BY <2>1, <2>2, <2>3, <2>9, <3>1 DEF s
    <3>2. CASE i # m + 1
      <4>1. i \in 1..m
        BY <3>2
      <4>2. PICK p \in DOMAIN out : t \in out[p].recs
        BY <2>9, <4>1 DEF Merges
      <4>3. QED
        BY <2>2, <2>3, <4>2 DEF h
    <3>3. QED
      BY <3>1, <3>2
  <2>10. QED
    BY <2>7, <2>8, <2>9 DEF Merges, res, s
<1>5. CASE ~(out # <<>> /\ CanMerge(Last(out), s))
  <2> DEFINE n == Len(out) + 1
  <2>1. /\ res = Append(out, s) /\ DOMAIN res = DOMAIN out \cup {n} /\ n \notin DOMAIN out
        /\ res[n] = s /\ \A p \in DOMAIN out : res[p] = out[p]
    BY <1>1, <1>5 DEF MergeInto
  <2> HIDE DEF res, n, s
  <2>2. Separate(res)
    <3>1. \A p \in DOMAIN res : Sound(res[p]) /\ res[p].count > 0
      BY <1>3, <2>1 DEF Merges, Separate
    <3>2. \A p, q \in DOMAIN res : p # q => res[p].recs \cap res[q].recs = {}
      BY <1>2, <2>1 DEF Merges, Separate
    <3>3. QED
      BY <1>1, <3>1, <3>2 DEF Separate
  <2>3. ASSUME NEW p \in DOMAIN res, NEW t \in res[p].recs
        PROVE  \E i \in 1..(m + 1) : t \in seq[i].recs /\ PrintOf[seq[i].kind] = PrintOf[res[p].kind]
    <3>1. CASE p = n
      BY <2>1, <2>3, <3>1 DEF s
    <3>2. CASE p # n
      <4>1. PICK i \in 1..m : t \in seq[i].recs /\ PrintOf[seq[i].kind] = PrintOf[out[p].kind]
        BY <2>1, <2>3, <3>2 DEF Merges
      <4>2. QED
        BY <2>1, <3>2, <4>1
    <3>3. QED
      BY <3>1, <3>2
  <2>4. ASSUME NEW i \in 1..(m + 1), NEW t \in seq[i].recs
        PROVE  \E p \in DOMAIN res : t \in res[p].recs
    <3>1. CASE i = m + 1
      BY <2>1, <2>4, <3>1 DEF s
    <3>2. CASE i # m + 1
      <4>1. i \in 1..m
        BY <3>2
      <4>2. PICK p \in DOMAIN out : t \in out[p].recs
        BY <2>4, <4>1 DEF Merges
      <4>3. QED
        BY <2>1, <4>2
    <3>3. QED
      BY <3>1, <3>2
  <2>5. QED
    BY <2>2, <2>3, <2>4 DEF Merges, res, s
<1>6. QED
  BY <1>4, <1>5

(* What merge_client_series makes of runs that hold no record twice.       *)
LEMMA MergeKeeps ==
  ASSUME NEW seq, Separate(seq) PROVE Merges(MergeSeries(seq), seq, Len(seq))
<1>1. PICK h \in [0..Len(seq) -> Seq(RunRecord)] :
           /\ h[0] = <<>> /\ h[Len(seq)] = MergeSeries(seq)
           /\ \A m \in 1..Len(seq) : h[m] = MergeInto(h[m - 1], seq[m])
  BY MergeFold DEF Separate
<1> DEFINE S == {m \in Nat : m \in 0..Len(seq) => Merges(h[m], seq, m)}
<1>2. 0 \in S
  BY <1>1 DEF Merges, Separate
<1>3. ASSUME NEW m \in Nat, m \in S PROVE m + 1 \in S
  <2>1. SUFFICES ASSUME m + 1 \in 0..Len(seq) PROVE Merges(h[m + 1], seq, m + 1)
    OBVIOUS
  <2>2. m + 1 \in 1..Len(seq) /\ (m + 1) - 1 = m /\ Merges(h[m], seq, m) /\ m + 1 \in DOMAIN seq
    BY <1>3, <2>1 DEF Separate
  <2>3. h[m + 1] = MergeInto(h[m], seq[m + 1])
    BY <1>1, <2>2
  <2>4. QED
    BY <2>2, <2>3, MergeStep
<1>4. Len(seq) \in Nat
  BY DEF Separate
<1>5. Nat \subseteq S
  <2> HIDE DEF S
  <2>1. QED
    BY <1>2, <1>3, SetInduction
<1>6. QED
  BY <1>1, <1>4, <1>5

-----------------------------------------------------------------------------
(* The invariant of the scan, and what its operations do.                  *)

(* The types of what the scan handles.                                     *)
Record == [ts : Nat, kind : Kinds]
Reasons == {"candidate_limit", "time_limit", "scan_limit", "return_limit", "rotation_race",
            "unreadable"}

StatsRecord == [read : Nat, vanished : Nat, unreadable : Nat, dropped : Nat,
                reasons : SUBSET Reasons]

FileRecord == [ino : Inodes \cup {0}, src : Inodes \cup {0}, size : Nat, pos : Nat, torn : BOOLEAN]

(* The types while the scan goes on; there is no window yet.               *)
ScanTypeOK ==
  /\ names \in [Names -> Inodes \cup {0}]
  /\ content \in [Inodes -> Seq(Record)]
  /\ clock \in Nat /\ t0 \in Nat
  /\ pc \in {"list", "next", "read", "check"}
  /\ cands \in Seq(Names) /\ at \in Nat
  /\ file \in FileRecord
  /\ run \in RunRecord /\ staged \in Seq(RunRecord) /\ series \in Seq(RunRecord)
  /\ scanned \in Nat /\ stop \in BOOLEAN
  /\ stats \in StatsRecord
  /\ listed \in [Names -> Seq(Record)] /\ blind \subseteq Names
  /\ window = NoWindow

(* The log files: a name of its own for each inode, one time for each record. *)
LogsInv ==
  /\ \A m, n \in Names : names[m] = names[n] /\ names[m] # 0 => m = n
  /\ \A i \in Inodes : \A a, b \in DOMAIN content[i] : a < b => content[i][a].ts < content[i][b].ts
  /\ \A i, k \in Inodes : \A a \in DOMAIN content[i], b \in DOMAIN content[k] :
       content[i][a].ts = content[k][b].ts => i = k
  /\ \A i \in Inodes : \A a \in DOMAIN content[i] : content[i][a].ts <= clock

(* What was listed is past, and its times keep their kinds.                *)
ListedInv ==
  \A n \in Names : \A j \in DOMAIN listed[n] :
    /\ listed[n][j].ts <= clock
    /\ \A i \in Inodes : \A a \in DOMAIN content[i] :
         content[i][a].ts = listed[n][j].ts => content[i][a].kind = listed[n][j].kind

(* Every run: committed, of the open file, and the one being collected.    *)
Kept == ToSet(series) \cup ToSet(staged) \cup {run}

(* A time of a run is that of a record of its kind.                        *)
Faithful(u) ==
  \A t \in u.recs :
    /\ t <= clock
    /\ \A i \in Inodes : \A a \in DOMAIN content[i] : content[i][a].ts = t => content[i][a].kind = u.kind
    /\ \A n \in Names : \A j \in DOMAIN listed[n] : listed[n][j].ts = t => listed[n][j].kind = u.kind

(* The runs count right and are of their kind; only the last may be empty. *)
RunsInv ==
  /\ \A u \in Kept : Sound(u) /\ Faithful(u)
  /\ \A u \in ToSet(series) \cup ToSet(staged) : u.count > 0

(* No time is in two runs.                                                 *)
Strangers(U, V) == \A u \in U, v \in V : u.recs \cap v.recs = {}
Apart(U) == \A u, v \in U : u # v => u.recs \cap v.recs = {}

(* No occurrence is in two runs.                                           *)
ApartInv ==
  /\ Apart(ToSet(series)) /\ Apart(ToSet(staged))
  /\ Strangers(ToSet(series), ToSet(staged))
  /\ Strangers(ToSet(series) \cup ToSet(staged), {run})

(* A candidate whose file is still to be read.                             *)
Ahead(k) == /\ k \in DOMAIN cands
            /\ \/ k > at
               \/ k = at /\ (pc = "next" \/ (pc = "read" /\ file.src = 0))

(* What is still to be read is in no run.                                  *)
FreshInv ==
  /\ \A k \in DOMAIN cands : Ahead(k) /\ Exists(cands[k]) =>
       \A a \in DOMAIN content[names[cands[k]]] : \A u \in Kept :
         content[names[cands[k]]][a].ts \notin u.recs
  /\ pc = "read" /\ file.src # 0 =>
       \A a \in DOMAIN content[file.src] : a > file.pos => \A u \in Kept :
         content[file.src][a].ts \notin u.recs

(* Where the scan is, and what it has then.                                *)
PlaceInv ==
  /\ \A i, k \in DOMAIN cands : cands[i] = cands[k] => i = k
  /\ pc = "list" => /\ cands = <<>> /\ at = 0 /\ series = <<>> /\ staged = <<>> /\ run = NoRun
                    /\ stats.reasons = {} /\ ~stop /\ file = NoFile
  /\ pc = "next" => at \in 1..(Len(cands) + 1) /\ file = NoFile
  /\ pc \in {"read", "check"} => at \in DOMAIN cands /\ file.ino # 0
  /\ pc = "read" /\ file.src # 0 =>
        \A k \in DOMAIN cands : k > at => names[cands[k]] # file.src
  /\ pc = "read" /\ file.src = 0 => staged = <<>> /\ run = NoRun
  /\ pc = "check" => run = NoRun
  /\ stop => stats.reasons # {}

(* A time is in a run; the positions of a listed file that are asked for.  *)
Collects(S, t) == \E u \in ToSet(S) : t \in u.recs
Asked(n) == {j \in DOMAIN listed[n] : Requested(listed[n][j])}

(* Without a reason to miss anything, the candidates hold every asked      *)
(* record, and those that were passed are collected.                       *)
DoneInv ==
  pc # "list" /\ stats.reasons = {} =>
    /\ \A n \in Names : Asked(n) # {} => \E k \in DOMAIN cands : cands[k] = n
    /\ \A k \in DOMAIN cands : k < at /\ cands[k] \notin blind =>
         \A j \in Asked(cands[k]) : Collects(series, listed[cands[k]][j].ts)

(* A listed record is no longer where it was.                              *)
Gone(n, i, j) == ~(j \in DOMAIN content[i] /\ content[i][j] = listed[n][j])

(* Without a reason to miss anything, an asked record of the open file is  *)
(* in a run, is ahead of the position, or is gone from the inode.          *)
FileInv ==
  pc \in {"read", "check"} /\ stats.reasons = {} /\ cands[at] \notin blind =>
     \A j \in Asked(cands[at]) :
         /\ j <= file.size
         /\ \/ Gone(cands[at], file.ino, j)
            \/ Collects(series, listed[cands[at]][j].ts) \/ Collects(staged, listed[cands[at]][j].ts)
            \/ listed[cands[at]][j].ts \in run.recs
            \/ pc = "read" /\ file.src \in {0, file.ino} /\ j > file.pos
            \/ file.src \notin {0, file.ino} /\ names[cands[at]] # file.ino

(* The inductive invariant while the scan goes on, and with the window.    *)
ScanInv == /\ ScanTypeOK /\ LogsInv /\ ListedInv /\ RunsInv /\ ApartInv /\ FreshInv /\ PlaceInv
           /\ DoneInv /\ FileInv
IInv == /\ WindowTrue /\ CompleteMeansAll /\ (pc # "done" => ScanInv)

(* The members of the empty sequence, of one with one more, and of two     *)
(* together.                                                               *)
LEMMA ToSets ==
  /\ ToSet(<<>>) = {}
  /\ \A S : \A s \in Seq(S) : \A x : ToSet(Append(s, x)) = ToSet(s) \cup {x}
  /\ \A S : \A s, r \in Seq(S) : ToSet(s \o r) = ToSet(s) \cup ToSet(r)
  /\ \A S : \A s \in Seq(S) : ToSet(s) \subseteq S
<1>1. ToSet(<<>>) = {}
  BY DEF ToSet
<1>2. ASSUME NEW S, NEW s \in Seq(S), NEW x PROVE ToSet(Append(s, x)) = ToSet(s) \cup {x}
  <2>1. /\ DOMAIN Append(s, x) = DOMAIN s \cup {Len(s) + 1} /\ Append(s, x)[Len(s) + 1] = x
        /\ \A i \in DOMAIN s : Append(s, x)[i] = s[i]
    OBVIOUS
  <2>2. QED
    BY <2>1 DEF ToSet
<1>3. ASSUME NEW S, NEW s \in Seq(S), NEW r \in Seq(S) PROVE ToSet(s \o r) = ToSet(s) \cup ToSet(r)
  <2>1. /\ DOMAIN (s \o r) = 1..(Len(s) + Len(r)) /\ DOMAIN s = 1..Len(s) /\ DOMAIN r = 1..Len(r)
        /\ \A i \in DOMAIN s : (s \o r)[i] = s[i]
        /\ \A i \in DOMAIN r : (s \o r)[Len(s) + i] = r[i]
        /\ Len(s) \in Nat /\ Len(r) \in Nat
    OBVIOUS
  <2>2. \A i \in DOMAIN (s \o r) : i \in DOMAIN s \/ (i - Len(s) \in DOMAIN r /\ i = Len(s) + (i - Len(s)))
    BY <2>1
  <2>3. \A i \in DOMAIN (s \o r) : (s \o r)[i] \in ToSet(s) \cup ToSet(r)
    BY <2>1, <2>2 DEF ToSet
  <2>4. \A i \in DOMAIN s : s[i] \in ToSet(s \o r)
    BY <2>1 DEF ToSet
  <2>5. \A i \in DOMAIN r : r[i] \in ToSet(s \o r)
    <3>1. \A i \in DOMAIN r : Len(s) + i \in DOMAIN (s \o r)
      BY <2>1
    <3>2. QED
      BY <2>1, <3>1 DEF ToSet
  <2>6. QED
    BY <2>3, <2>4, <2>5 DEF ToSet
<1>4. ASSUME NEW S, NEW s \in Seq(S) PROVE ToSet(s) \subseteq S
  BY DEF ToSet
<1>5. QED
  BY <1>1, <1>2, <1>3, <1>4

(* Inodes are numbers but 0; names are inodes.                             *)
LEMMA InodesNat == Inodes \subseteq Nat \ {0} /\ Names \subseteq Inodes /\ Names \subseteq Nat \ {0}
<1>1. Cardinality(Names) \in Nat
  BY LogScanAssumption, FS_CardinalityType
<1>2. MaxServer \in Nat
  BY LogScanAssumption
<1>3. QED
  BY <1>1, <1>2, LogScanAssumption DEF Inodes

(* What a step of the server does to the files.                            *)
LEMMA ServerFacts ==
  ASSUME ScanTypeOK, Server
  PROVE  /\ clock' \in Nat /\ clock <= clock'
         /\ content' \in [Inodes -> Seq(Record)] /\ names' \in [Names -> Inodes \cup {0}]
         /\ \A i \in Inodes : \A a \in DOMAIN content'[i] :
              \/ a \in DOMAIN content[i] /\ content'[i][a] = content[i][a]
              \/ content'[i][a].ts = clock + 1 /\ clock' = clock + 1
         /\ \A n \in Names : names'[n] # 0 =>
              \/ names'[n] = names[n]
              \/ content[names'[n]] = <<>> /\ content'[names'[n]] = <<>> /\ names'[n] # file.src
<1> USE InodesNat
<1>1. PICK n \in Names : Append1(n) \/ Delete(n) \/ Create(n) \/ Truncate(n)
  BY DEF Server
<1>2. CASE Append1(n)
  <2> DEFINE i == names[n]
             r == [ts |-> clock + 1, kind |-> CHOOSE k \in Wanted : TRUE]
  <2>1. i \in Inodes /\ content[i] \in Seq(Record)
    BY <1>2 DEF Append1, Exists, ScanTypeOK
  <2>2. r \in Record
    BY LogScanAssumption DEF ScanTypeOK, Record
  <2>3. content' = [content EXCEPT ![i] = Append(content[i], r)] /\ clock' = clock + 1 /\ names' = names
    BY <1>2 DEF Append1
  <2>4. /\ Append(content[i], r) \in Seq(Record) /\ DOMAIN Append(content[i], r) = 1..(Len(content[i]) + 1)
        /\ \A a \in 1..Len(content[i]) : Append(content[i], r)[a] = content[i][a]
        /\ Append(content[i], r)[Len(content[i]) + 1] = r
        /\ DOMAIN content[i] = 1..Len(content[i]) /\ Len(content[i]) \in Nat
    BY <2>1, <2>2
  <2>5. r.ts = clock + 1
    OBVIOUS
  <2> HIDE DEF i, r
  <2>6. content' \in [Inodes -> Seq(Record)]
    BY <2>1, <2>3, <2>4 DEF ScanTypeOK
  <2>7. ASSUME NEW k \in Inodes, NEW a \in DOMAIN content'[k]
        PROVE  \/ a \in DOMAIN content[k] /\ content'[k][a] = content[k][a]
               \/ content'[k][a].ts = clock + 1
    <3>1. content \in [Inodes -> Seq(Record)]
      BY DEF ScanTypeOK
    <3>2. CASE k = i
      <4>1. content'[k] = Append(content[i], r)
        BY <2>1, <2>3, <3>1, <3>2
      <4>2. QED
        BY <2>4, <2>5, <2>7, <3>2, <4>1
    <3>3. CASE k # i
      BY <2>3, <2>7, <3>1, <3>3
    <3>4. QED
      BY <3>2, <3>3
  <2>8. clock' \in Nat /\ clock <= clock' /\ names' \in [Names -> Inodes \cup {0}]
    BY <2>3 DEF ScanTypeOK
  <2>9. QED
    BY <2>3, <2>6, <2>7, <2>8
<1>3. CASE Delete(n)
  BY <1>3 DEF Delete, ScanTypeOK
<1>4. CASE Create(n)
  BY <1>4 DEF Create, Free, ScanTypeOK
<1>5. CASE Truncate(n)
  BY <1>5 DEF Truncate, Exists, ScanTypeOK
<1>6. QED
  BY <1>1, <1>2, <1>3, <1>4, <1>5

(* PhysicalRle gives its run away, or the wire budget is spent.            *)
LEMMA FlushFacts ==
  ASSUME ScanTypeOK, NEW d \in Nat, Flush(d)
  PROVE  /\ staged' \in Seq(RunRecord) /\ stop' \in BOOLEAN
         /\ stats' \in StatsRecord
         /\ \/ run.count > 0 /\ ToSet(staged') = ToSet(staged) \cup {run}
            \/ staged' = staged /\ (run.count = 0 \/ stats'.reasons # {})
         /\ stats.reasons \subseteq stats'.reasons
         /\ stop' => stop \/ stats'.reasons # {}
<1>1. stats' = [stats EXCEPT !.dropped = @ + d,
                             !.reasons = IF Refused THEN @ \union {"return_limit"} ELSE @]
      /\ stop' = (stop \/ Refused)
  BY DEF Flush
<1>2. /\ stats' \in StatsRecord
      /\ stats'.reasons = IF Refused THEN stats.reasons \union {"return_limit"} ELSE stats.reasons
  <2> DEFINE R == IF Refused THEN stats.reasons \union {"return_limit"} ELSE stats.reasons
  <2>1. stats \in StatsRecord /\ R \in SUBSET Reasons
    BY DEF ScanTypeOK, StatsRecord, Reasons
  <2>2. stats' = [stats EXCEPT !.dropped = stats.dropped + d, !.reasons = R]
    BY <1>1, <2>1 DEF StatsRecord
  <2> HIDE DEF R
  <2>3. [stats EXCEPT !.dropped = stats.dropped + d] \in StatsRecord
    BY <2>1 DEF StatsRecord
  <2>4. QED
    BY <2>1, <2>2, <2>3 DEF StatsRecord, R
<1>3. CASE run.count > 0 /\ Fits
  <2>1. staged' = staged \o <<run>>
    BY <1>3 DEF Flush, Flushed
  <2>2. staged' \in Seq(RunRecord) /\ staged' = Append(staged, run)
    BY <2>1 DEF ScanTypeOK
  <2>3. ToSet(staged') = ToSet(staged) \cup {run}
    BY <2>2, ToSets DEF ScanTypeOK
  <2>4. QED
    BY <1>1, <1>2, <1>3, <2>2, <2>3 DEF ScanTypeOK, Refused
<1>4. CASE ~(run.count > 0 /\ Fits)
  <2>1. staged' = staged \o <<>>
    BY <1>4 DEF Flush, Flushed
  <2>2. staged' = staged
    BY <2>1 DEF ScanTypeOK
  <2>3. run.count = 0 \/ Refused
    BY <1>4 DEF Refused, ScanTypeOK, RunRecord
  <2>4. Refused \in BOOLEAN /\ stop' \in BOOLEAN /\ staged' \in Seq(RunRecord)
    BY <1>1, <2>2 DEF Refused, ScanTypeOK
  <2>5. stats.reasons \subseteq stats'.reasons /\ (Refused => stats'.reasons # {})
    BY <1>2
  <2>6. QED
    BY <1>1, <1>2, <2>2, <2>3, <2>4, <2>5
<1>5. QED
  BY <1>3, <1>4

(* What ReadRecord does with the record at the position.                   *)
LEMMA ReadFacts ==
  ASSUME ScanTypeOK, ReadRecord, NEW r, r = content[file.src][file.pos + 1]
  PROVE  /\ file.src \in Inodes /\ file.pos + 1 \in DOMAIN content[file.src] /\ r \in Record
         /\ file' \in FileRecord /\ file'.pos = file.pos + 1
         /\ file'.ino = file.ino /\ file'.src = file.src /\ file'.size = file.size
         /\ run' \in RunRecord /\ staged' \in Seq(RunRecord)
         /\ stats' \in StatsRecord /\ stats.reasons \subseteq stats'.reasons
         /\ stop' \in BOOLEAN /\ (stop' => stats'.reasons # {})
         /\ \/ ~Requested(r) /\ run' = run /\ staged' = staged
            \/ /\ Requested(r) /\ run.count > 0 /\ run.kind = r.kind /\ r.kind \notin Preserved
               /\ run'.kind = r.kind /\ run'.recs = run.recs \cup {r.ts} /\ run'.count = run.count + 1
               /\ staged' = staged
            \/ /\ Requested(r) /\ run'.kind = r.kind /\ run'.recs = {r.ts} /\ run'.count = 1
               /\ \/ run.count > 0 /\ ToSet(staged') = ToSet(staged) \cup {run}
                  \/ staged' = staged /\ (run.count = 0 \/ stats'.reasons # {})
<1>1. /\ file.src \in Inodes /\ file.pos + 1 \in DOMAIN content[file.src] /\ r \in Record
  <2>1. file.src \in Inodes /\ content[file.src] \in Seq(Record) /\ file.pos \in Nat
        /\ file.pos < Len(content[file.src])
    BY DEF ReadRecord, ScanTypeOK, FileRecord
  <2>2. QED
    BY <2>1
<1>2. /\ file' \in FileRecord /\ file'.pos = file.pos + 1
      /\ file'.ino = file.ino /\ file'.src = file.src /\ file'.size = file.size
  <2>1. file' = [file EXCEPT !.pos = file.pos + 1]
    BY DEF ReadRecord
  <2>2. file \in FileRecord /\ file.pos + 1 \in Nat
    BY DEF ScanTypeOK, FileRecord
  <2>3. QED
    BY <2>1, <2>2 DEF FileRecord
<1>3. CASE ~Requested(r)
  BY <1>1, <1>2, <1>3 DEF ReadRecord, ScanTypeOK
<1>4. ASSUME Requested(r), Feed(r, file.pos + 1), Joins(r.kind, file.pos + 1)
      PROVE  /\ run' \in RunRecord /\ run.count > 0 /\ run.kind = r.kind /\ r.kind \notin Preserved
             /\ run'.kind = r.kind /\ run'.recs = run.recs \cup {r.ts} /\ run'.count = run.count + 1
             /\ UNCHANGED <<staged, stop, stats>>
  <2>1. /\ run' = [run EXCEPT !.last = file.pos + 1, !.recs = @ \union {r.ts}, !.count = @ + 1]
        /\ UNCHANGED <<staged, stop, stats>>
    BY <1>4 DEF Feed
  <2>2. run \in RunRecord /\ file.pos + 1 \in Nat /\ r.ts \in Nat
    BY <1>1 DEF ScanTypeOK, FileRecord, Record
  <2>3. /\ run.count + 1 \in Nat /\ run.recs \union {r.ts} \in SUBSET Nat
    BY <2>2 DEF RunRecord
  <2>4. [run EXCEPT !.last = file.pos + 1] \in RunRecord
    BY <2>2 DEF RunRecord
  <2>5. [run EXCEPT !.last = file.pos + 1, !.recs = run.recs \union {r.ts}] \in RunRecord
    BY <2>2, <2>3, <2>4 DEF RunRecord
  <2>6. run' \in RunRecord
    BY <2>1, <2>3, <2>5 DEF RunRecord
  <2>7. run'.kind = run.kind /\ run'.recs = run.recs \cup {r.ts} /\ run'.count = run.count + 1
    BY <2>1, <2>2 DEF RunRecord
  <2>8. run.count > 0 /\ run.kind = r.kind /\ r.kind \notin Preserved
    BY <1>4 DEF Joins
  <2>9. QED
    BY <2>1, <2>6, <2>7, <2>8
<1>5. ASSUME Requested(r), Feed(r, file.pos + 1), ~Joins(r.kind, file.pos + 1)
      PROVE  /\ run' \in RunRecord /\ run'.kind = r.kind /\ run'.recs = {r.ts} /\ run'.count = 1
             /\ Flush(0)
  <2>1. /\ run' = [kind |-> r.kind, last |-> file.pos + 1, recs |-> {r.ts}, count |-> 1]
        /\ Flush(0)
    BY <1>5 DEF Feed
  <2>2. QED
    BY <1>1, <2>1 DEF RunRecord, Record, ScanTypeOK, FileRecord
<1>6. Requested(r) => Feed(r, file.pos + 1)
  BY DEF ReadRecord
<1>7. ~stop
  BY DEF ReadRecord
<1>8. ASSUME Requested(r), Joins(r.kind, file.pos + 1)
      PROVE  stop' \in BOOLEAN /\ stats' \in StatsRecord /\ staged' \in Seq(RunRecord)
             /\ stats.reasons \subseteq stats'.reasons /\ ~stop'
  BY <1>4, <1>6, <1>7, <1>8 DEF ScanTypeOK
<1>9. CASE Requested(r) /\ Joins(r.kind, file.pos + 1)
  BY <1>1, <1>2, <1>4, <1>6, <1>8, <1>9
<1>10. CASE Requested(r) /\ ~Joins(r.kind, file.pos + 1)
  BY <1>1, <1>2, <1>5, <1>6, <1>7, <1>10, FlushFacts
<1>11. QED
  BY <1>3, <1>9, <1>10

(* What EndRange does with the last run.                                   *)
LEMMA EndFacts ==
  ASSUME ScanTypeOK, PlaceInv, EndRange
  PROVE  /\ file' \in FileRecord /\ file'.ino = file.ino /\ file'.src = file.src
         /\ file'.size = file.size /\ file'.pos = file.pos
         /\ run' = NoRun /\ staged' \in Seq(RunRecord)
         /\ stats' \in StatsRecord /\ stats.reasons \subseteq stats'.reasons
         /\ stop' \in BOOLEAN /\ (stop' => stats'.reasons # {})
         /\ \/ run.count > 0 /\ ToSet(staged') = ToSet(staged) \cup {run}
            \/ staged' = staged /\ (run.count = 0 \/ stats'.reasons # {})
<1>0. /\ file' \in FileRecord /\ file'.ino = file.ino /\ file'.src = file.src
      /\ file'.size = file.size /\ file'.pos = file.pos
  BY DEF EndRange, ScanTypeOK, FileRecord
<1>1. CASE stop
  BY <1>0, <1>1 DEF EndRange, ScanTypeOK, PlaceInv
<1>2. CASE ~stop
  <2>1. \E d \in Nat : Flush(d)
    BY <1>2 DEF EndRange
  <2>2. run' = NoRun
    BY DEF EndRange
  <2>3. QED
    BY <1>0, <1>2, <2>1, <2>2, FlushFacts
<1>3. QED
  BY <1>1, <1>2 DEF ScanTypeOK

(* What nothing read, nothing open and nothing counted are.                *)
LEMMA Blank == NoRun \in RunRecord /\ NoFile \in FileRecord /\ NoStats \in StatsRecord
               /\ NoRun.recs = {} /\ NoRun.count = 0 /\ NoRun.kind = "none"
               /\ NoStats.reasons = {} /\ NoFile.ino = 0 /\ NoFile.src = 0
BY DEF NoRun, NoFile, NoStats, RunRecord, FileRecord, StatsRecord, Inodes

(* The limits of the scan are numbers.                                     *)
LEMMA Bounds == From \in Nat /\ InitialRecords \in Nat /\ ScanBudget \in Nat /\ CandidateCaps \subseteq Nat
BY LogScanAssumption

(* A function on 1..n is a sequence.                                       *)
LEMMA FunctionIsSeq == ASSUME NEW S, NEW n \in Nat, NEW s \in [1..n -> S]
               PROVE  s \in Seq(S) /\ Len(s) = n /\ DOMAIN s = 1..n
OBVIOUS

(* Skip counts a file that is not read.                                    *)
LEMMA SkipFacts ==
  ASSUME ScanTypeOK, NEW field \in {"vanished", "unreadable"}, NEW reason \in Reasons, Skip(field, reason)
  PROVE  stats' \in StatsRecord /\ stats'.reasons = stats.reasons \cup {reason}
<1> DEFINE R == stats.reasons \cup {reason}
           v == stats[field] + 1
<1>1. stats \in StatsRecord /\ R \in SUBSET Reasons /\ v \in Nat
  BY DEF ScanTypeOK, StatsRecord
<1>2. stats' = [stats EXCEPT ![field] = v, !.reasons = R]
  BY <1>1 DEF Skip, StatsRecord
<1> HIDE DEF R, v
<1>3. [stats EXCEPT ![field] = v] \in StatsRecord
  BY <1>1 DEF StatsRecord
<1>4. stats' \in StatsRecord /\ stats'.reasons = R
  BY <1>1, <1>2, <1>3 DEF StatsRecord
<1>5. QED
  BY <1>4 DEF R

(* A reason is added and nothing else.                                     *)
LEMMA AddReason ==
  ASSUME ScanTypeOK, NEW R \in SUBSET Reasons, stats' = [stats EXCEPT !.reasons = R]
  PROVE  stats' \in StatsRecord /\ stats'.reasons = R
BY DEF ScanTypeOK, StatsRecord

(* What the listing gives the scan.                                        *)
LEMMA ListFacts ==
  ASSUME ScanTypeOK, List
  PROVE  /\ cands' \in Seq(Names) /\ \A i, k \in DOMAIN cands' : cands'[i] = cands'[k] => i = k
         /\ stats' \in StatsRecord
         /\ stats'.reasons = {} => \A n \in Names : InWindow(n) => \E k \in DOMAIN cands' : cands'[k] = n
         /\ listed' \in [Names -> Seq(Record)]
         /\ \A n \in Names : listed'[n] = RecordsOf(n)
<1> DEFINE W == {n \in Names : InWindow(n)}
<1>1. PICK cap \in CandidateCaps, rows \in NewestFirst(W) :
        /\ cands' = SubSeq(rows, 1, IF Len(rows) > cap THEN cap ELSE Len(rows))
        /\ stats' = [stats EXCEPT !.reasons = IF Len(rows) > cap THEN {"candidate_limit"} ELSE {}]
  BY DEF List
<1>2. cap \in Nat
  BY Bounds
<1>3. Cardinality(W) \in Nat
  BY LogScanAssumption, FS_Subset, FS_CardinalityType
<1>4. /\ rows \in [1..Cardinality(W) -> W]
      /\ \A i, k \in DOMAIN rows : rows[i] = rows[k] => i = k
      /\ \A n \in W : \E k \in DOMAIN rows : rows[k] = n
  <2> HIDE DEF W
  <2>1. QED
    BY DEF NewestFirst, Enumerations, Bijection, Injection, Surjection, IsInjective
<1>5. rows \in Seq(Names) /\ Len(rows) = Cardinality(W) /\ DOMAIN rows = 1..Len(rows)
  <2>1. W \subseteq Names
    OBVIOUS
  <2> HIDE DEF W
  <2>2. rows \in Seq(W) /\ Len(rows) = Cardinality(W) /\ DOMAIN rows = 1..Cardinality(W)
    BY <1>3, <1>4, FunctionIsSeq
  <2>3. QED
    BY <2>1, <2>2
<1> DEFINE m == IF Len(rows) > cap THEN cap ELSE Len(rows)
<1>6. m \in 0..Len(rows) /\ cands' = SubSeq(rows, 1, m)
  BY <1>1, <1>2, <1>5
<1> HIDE DEF m, W
<1>7. cands' \in Seq(Names) /\ DOMAIN cands' = 1..m /\ \A i \in 1..m : cands'[i] = rows[i] /\ i \in DOMAIN rows
  BY <1>5, <1>6
<1>8. \A i, k \in DOMAIN cands' : cands'[i] = cands'[k] => i = k
  BY <1>4, <1>7
<1>9. stats' \in StatsRecord /\ (stats'.reasons = {} => m = Len(rows))
  <2> DEFINE R == IF Len(rows) > cap THEN {"candidate_limit"} ELSE {}
  <2>1. R \in SUBSET Reasons /\ stats' = [stats EXCEPT !.reasons = R]
    BY <1>1 DEF Reasons
  <2>2. stats' \in StatsRecord /\ stats'.reasons = R
    <3> HIDE DEF R
    <3>1. QED
      BY <2>1, AddReason
  <2>3. QED
    BY <2>2 DEF m
<1>10. stats'.reasons = {} => \A n \in Names : InWindow(n) => \E k \in DOMAIN cands' : cands'[k] = n
  BY <1>4, <1>5, <1>7, <1>9 DEF W
<1>11. listed' = [n \in Names |-> RecordsOf(n)]
  BY DEF List
<1>12. \A n \in Names : RecordsOf(n) \in Seq(Record)
  BY DEF RecordsOf, Exists, ScanTypeOK
<1>13. QED
  BY <1>7, <1>8, <1>9, <1>10, <1>11, <1>12

(* What opening a file does: the limits are hit, or it is read from pos.   *)
Budgeted == /\ pc' = pc /\ file' = file /\ stop' = TRUE /\ stats'.reasons # {}
Opened == /\ pc' = "read" /\ stop' = stop
          /\ file'.ino = names[cands[at]] /\ file'.src \in {0, names[cands[at]]}
          /\ file'.size = Len(content[names[cands[at]]])
          /\ stats'.reasons = {} => \A j \in 1..file'.pos : content[names[cands[at]]][j].ts < From

(* What opening a candidate does (_open_candidate and the script's FILE):  *)
(* the limits stop the scan, or the file is read from a position before    *)
(* which nothing was asked for.                                            *)
LEMMA OpenFacts ==
  ASSUME ScanTypeOK, LogsInv, PlaceInv, Open
  PROVE  /\ at \in DOMAIN cands /\ cands[at] \in Names /\ names[cands[at]] \in Inodes
         /\ file' \in FileRecord /\ stats' \in StatsRecord /\ stats.reasons \subseteq stats'.reasons
         /\ stop' \in BOOLEAN
         /\ Budgeted \/ Opened
<1> USE InodesNat
<1> DEFINE ino == names[cands[at]]
           size == Len(content[ino])
<1>1. pc = "next" /\ at \in DOMAIN cands /\ cands[at] \in Names /\ ino \in Inodes
      /\ content[ino] \in Seq(Record) /\ size \in Nat
  <2>1. pc = "next" /\ at \in DOMAIN cands
    BY DEF Open, Over, PlaceInv, ScanTypeOK
  <2>2. cands[at] \in Names
    BY <2>1 DEF ScanTypeOK
  <2>3. ino # 0
    BY DEF Open, Exists
  <2>4. ino \in Inodes /\ content[ino] \in Seq(Record)
    BY <2>2, <2>3 DEF ScanTypeOK
  <2>5. QED
    BY <2>1, <2>2, <2>4
<1>2. CASE scanned >= ScanBudget \/ wire - 1 <= 0
  <2> DEFINE R == stats.reasons \union {IF scanned >= ScanBudget THEN "scan_limit" ELSE "return_limit"}
  <2>1. stop' = TRUE /\ stats' = [stats EXCEPT !.reasons = R] /\ pc' = pc /\ file' = file
    BY <1>2 DEF Open
  <2>2. R \in SUBSET Reasons
    BY DEF ScanTypeOK, StatsRecord, Reasons
  <2>3. R # {} /\ stats.reasons \subseteq R
    OBVIOUS
  <2> HIDE DEF R
  <2>4. stats' \in StatsRecord /\ stats'.reasons = R
    BY <2>1, <2>2, AddReason
  <2>5. QED
    BY <1>1, <2>1, <2>3, <2>4 DEF Budgeted, ScanTypeOK
<1>3. CASE ~(scanned >= ScanBudget \/ wire - 1 <= 0)
  <2>1. PICK start \in Starts(content[ino]), torn \in BOOLEAN :
          /\ file' = [ino |-> ino, src |-> IF transport = "local" THEN ino ELSE 0,
                            size |-> size, pos |-> TailStart(start, size), torn |-> torn]
          /\ stats' = [stats EXCEPT !.reasons = IF TailStart(start, size) = start THEN @
                                                      ELSE @ \union {"scan_limit"}]
          /\ pc' = "read" /\ stop' = stop
    BY <1>3 DEF Open
  <2>2. start \in Nat /\ (start # 0 => start + 1 \in DOMAIN content[ino] /\ content[ino][start + 1].ts < From)
    BY <1>1 DEF Starts
  <2>3. TailStart(start, size) \in Nat
    BY <1>1, <2>2, Bounds DEF TailStart, ScanTypeOK
  <2> DEFINE R == IF TailStart(start, size) = start THEN stats.reasons ELSE stats.reasons \union {"scan_limit"}
  <2>4. stats' = [stats EXCEPT !.reasons = R] /\ R \in SUBSET Reasons /\ stats.reasons \subseteq R
    BY <2>1 DEF ScanTypeOK, StatsRecord, Reasons
  <2>5. R = {} => TailStart(start, size) = start
    OBVIOUS
  <2> HIDE DEF R
  <2>6. stats' \in StatsRecord /\ stats'.reasons = R
    BY <2>4, AddReason
  <2>7. file' \in FileRecord
    BY <1>1, <2>1, <2>3 DEF FileRecord
  <2>8. ASSUME stats'.reasons = {}, NEW j \in 1..file'.pos PROVE content[ino][j].ts < From
    <3>1. file'.pos = start
      BY <2>1, <2>5, <2>6, <2>8
    <3>2. j \in 1..start /\ start \in Nat /\ start # 0
      BY <2>2, <2>8, <3>1
    <3>3. start + 1 \in DOMAIN content[ino] /\ content[ino][start + 1].ts < From /\ j < start + 1
          /\ j \in DOMAIN content[ino]
      BY <1>1, <2>2, <3>2
    <3>4. content[ino][j].ts < content[ino][start + 1].ts
      BY <1>1, <3>3 DEF LogsInv
    <3>5. content[ino][j].ts \in Nat /\ content[ino][start + 1].ts \in Nat /\ From \in Nat
      <4>1. content[ino][j] \in Record /\ content[ino][start + 1] \in Record
        <5> HIDE DEF ino
        <5>1. QED
          BY <1>1, <3>3
      <4>2. QED
        BY <4>1, Bounds DEF Record
    <3>6. QED
      BY <3>3, <3>4, <3>5
  <2>9. file'.ino = ino /\ file'.src \in {0, ino} /\ file'.size = size
    BY <2>1
  <2>10. Opened
    BY <2>1, <2>8, <2>9 DEF Opened
  <2>11. QED
    BY <1>1, <2>1, <2>4, <2>6, <2>7, <2>10 DEF ScanTypeOK
<1>4. QED
  BY <1>2, <1>3

(* What the check of a file that was read does.                            *)
LEMMA CheckFacts ==
  ASSUME ScanTypeOK, Check
  PROVE  /\ series' \in Seq(RunRecord) /\ stats' \in StatsRecord /\ stats.reasons \subseteq stats'.reasons
         /\ ToSet(series) \subseteq ToSet(series') /\ ToSet(series') \subseteq ToSet(series) \cup ToSet(staged)
         /\ stats'.reasons = {} => Intact /\ ToSet(staged) \subseteq ToSet(series')
<1>1. CASE Intact
  <2>1. series' = series \o staged
    BY <1>1 DEF Check
  <2>2. ToSet(series') = ToSet(series) \cup ToSet(staged) /\ series' \in Seq(RunRecord)
    BY <2>1, ToSets DEF ScanTypeOK
  <2> DEFINE d == IF transport = "remote" /\ file.torn THEN stats.dropped + 1 ELSE stats.dropped
  <2>3. stats \in StatsRecord /\ d \in Nat /\ stats.read + 1 \in Nat
    BY DEF ScanTypeOK, StatsRecord
  <2>4. stats' = [stats EXCEPT !.read = stats.read + 1, !.dropped = d]
    BY <1>1, <2>3 DEF Check, StatsRecord
  <2> HIDE DEF d
  <2>5. [stats EXCEPT !.read = stats.read + 1] \in StatsRecord
    BY <2>3 DEF StatsRecord
  <2>6. stats' \in StatsRecord /\ stats'.reasons = stats.reasons
    BY <2>3, <2>4, <2>5 DEF StatsRecord
  <2>7. QED
    BY <1>1, <2>2, <2>6
<1>2. CASE ~Intact
  <2> DEFINE R == stats.reasons \union {"rotation_race"}
  <2>1. series' = series
    BY <1>2 DEF Check
  <2>2. stats \in StatsRecord /\ R \in SUBSET Reasons /\ stats.vanished + 1 \in Nat
    BY DEF ScanTypeOK, StatsRecord, Reasons
  <2>3. stats' = [stats EXCEPT !.vanished = stats.vanished + 1, !.reasons = R]
    BY <1>2, <2>2 DEF Check, StatsRecord
  <2>4. stats.reasons \subseteq R /\ R # {}
    OBVIOUS
  <2> HIDE DEF R
  <2>5. [stats EXCEPT !.vanished = stats.vanished + 1] \in StatsRecord
    BY <2>2 DEF StatsRecord
  <2>6. stats' \in StatsRecord /\ stats'.reasons = R
    BY <2>2, <2>3, <2>5 DEF StatsRecord
  <2>7. QED
    BY <2>1, <2>4, <2>6 DEF ScanTypeOK
<1>3. QED
  BY <1>1, <1>2

-----------------------------------------------------------------------------
(* Each conjunct of the invariant is kept by each step.                    *)

(* The steps after which the scan goes on.                                 *)
Moves == \/ Server \/ List \/ DeadlineHit \/ Vanished \/ Unreadable \/ Open \/ TailOpens
         \/ ReadError \/ ReadRecord \/ DeadlineInFile \/ EndRange \/ Check

(* Every step of the scan and of the server keeps the types.               *)
LEMMA TypeStep == ASSUME ScanInv, Moves PROVE ScanTypeOK'
<1> USE DEF server, read
<1>0. ScanTypeOK /\ LogsInv /\ PlaceInv
  BY DEF ScanInv
<1>1. CASE Server
  BY <1>0, <1>1, ServerFacts DEF Server, ScanTypeOK, FileRecord
<1>2. CASE List
  BY <1>0, <1>2, ListFacts DEF List, ScanTypeOK, FileRecord
<1>3. CASE DeadlineHit
  <2>1. stats.reasons \union {"time_limit"} \in SUBSET Reasons
    BY <1>0 DEF ScanTypeOK, StatsRecord, Reasons
  <2>2. stats' \in StatsRecord
    BY <1>0, <1>3, <2>1, AddReason DEF DeadlineHit
  <2>3. QED
    BY <1>0, <1>3, <2>2 DEF DeadlineHit, ScanTypeOK
<1>4. CASE Vanished
  <2>1. stats' \in StatsRecord
    BY <1>0, <1>4, SkipFacts DEF Vanished, Reasons
  <2>2. UNCHANGED <<names, content, clock, t0, cands, file, run, staged, series, scanned, stop, window,
                    listed, blind>> /\ at' = at + 1 /\ pc' = "next"
    BY <1>4 DEF Vanished, Skip, NextFile
  <2>3. QED
    BY <1>0, <2>1, <2>2 DEF ScanTypeOK
<1>5. CASE Unreadable
  <2>1. stats' \in StatsRecord
    BY <1>0, <1>5, SkipFacts DEF Unreadable, Reasons
  <2>2. UNCHANGED <<names, content, clock, t0, cands, file, run, staged, series, scanned, stop, window,
                    listed, blind>> /\ at' = at + 1 /\ pc' = "next"
    BY <1>5 DEF Unreadable, Skip, NextFile
  <2>3. QED
    BY <1>0, <2>1, <2>2 DEF ScanTypeOK
<1>6. CASE Open
  <2>1. /\ file' \in FileRecord /\ stats' \in StatsRecord /\ stop' \in BOOLEAN
        /\ cands[at] \in Names
        /\ Budgeted \/ Opened
    BY <1>0, <1>6, OpenFacts
  <2>2. run' = NoRun /\ staged' = <<>> /\ blind' \subseteq Names
    <3>1. blind' = blind \/ blind' = blind \union {cands[at]}
      BY <1>6 DEF Open
    <3>2. run' = NoRun /\ staged' = <<>>
      BY <1>6 DEF Open
    <3>3. QED
      BY <1>0, <2>1, <3>1, <3>2 DEF ScanTypeOK
  <2>3. pc' \in {"next", "read"}
    BY <1>6, <2>1 DEF Open, Budgeted, Opened
  <2>4. QED
    BY <1>0, <1>6, <2>1, <2>2, <2>3, Blank DEF Open, ScanTypeOK
<1>7. CASE TailOpens
  <2>1. cands[at] \in Names /\ names[cands[at]] \in Inodes
    BY <1>0, <1>7 DEF TailOpens, PlaceInv, ScanTypeOK, Exists
  <2>2. file' \in FileRecord
    BY <1>0, <1>7, <2>1 DEF TailOpens, ScanTypeOK, FileRecord
  <2>3. QED
    BY <1>0, <1>7, <2>2 DEF TailOpens, ScanTypeOK
<1>8. CASE ReadError
  <2>1. stats' \in StatsRecord
    BY <1>0, <1>8, SkipFacts DEF ReadError, Reasons
  <2>2. UNCHANGED <<names, content, clock, t0, cands, run, staged, series, scanned, stop, window,
                    listed, blind>> /\ at' = at + 1 /\ pc' = "next" /\ file' = NoFile
    BY <1>8 DEF ReadError, Skip, NextFile
  <2>3. QED
    BY <1>0, <2>1, <2>2, Blank DEF ScanTypeOK
<1>9. CASE ReadRecord
  <2> DEFINE r == content[file.src][file.pos + 1]
  <2>1. /\ file' \in FileRecord /\ run' \in RunRecord /\ staged' \in Seq(RunRecord)
        /\ stats' \in StatsRecord /\ stop' \in BOOLEAN
    BY <1>0, <1>9, ReadFacts
  <2>2. scanned' \in Nat
    BY <1>0, <1>9 DEF ReadRecord, ScanTypeOK
  <2>3. UNCHANGED <<names, content, clock, t0, cands, at, series, window, listed, blind, pc>>
    BY <1>9 DEF ReadRecord
  <2>4. QED
    BY <1>0, <2>1, <2>2, <2>3 DEF ScanTypeOK
<1>10. CASE DeadlineInFile
  <2>1. stats.reasons \union {"time_limit"} \in SUBSET Reasons
    BY <1>0 DEF ScanTypeOK, StatsRecord, Reasons
  <2>2. stats' \in StatsRecord
    BY <1>0, <1>10, <2>1, AddReason DEF DeadlineInFile
  <2>3. QED
    BY <1>0, <1>10, <2>2 DEF DeadlineInFile, ScanTypeOK
<1>11. CASE EndRange
  BY <1>0, <1>11, EndFacts, Blank DEF EndRange, ScanTypeOK
<1>12. CASE Check
  <2>1. blind' \subseteq Names
    <3>1. cands[at] \in Names
      BY <1>0, <1>12 DEF Check, PlaceInv, ScanTypeOK
    <3>2. QED
      BY <1>0, <1>12, <3>1 DEF Check, ScanTypeOK
  <2>2. QED
    BY <1>0, <1>12, <2>1, CheckFacts, Blank DEF Check, NextFile, ScanTypeOK
<1>13. QED
  BY <1>1, <1>2, <1>3, <1>4, <1>5, <1>6, <1>7, <1>8, <1>9, <1>10, <1>11, <1>12 DEF Moves

(* Only the server changes the log files.                                  *)
LEMMA Quiet == ASSUME Moves, ~Server PROVE server' = server
BY DEF Moves, server, List, DeadlineHit, Vanished, Unreadable, Open, TailOpens, ReadError,
       ReadRecord, DeadlineInFile, EndRange, Check, Skip

(* The server writes a time once, under one name, and in order: an inode   *)
(* that is given back is empty and nobody reads it.                        *)
LEMMA LogsStep == ASSUME ScanInv, Moves PROVE LogsInv'
<1>0. ScanTypeOK /\ LogsInv
  BY DEF ScanInv
<1>1. CASE ~Server
  BY <1>0, <1>1, Quiet DEF LogsInv, server
<1>2. CASE Server
  <2> USE InodesNat
  <2>0. content \in [Inodes -> Seq(Record)] /\ names \in [Names -> Inodes \cup {0}] /\ clock \in Nat
    BY <1>0 DEF ScanTypeOK
  <2>1. PICK n \in Names : Append1(n) \/ Delete(n) \/ Create(n) \/ Truncate(n)
    BY <1>2 DEF Server
  <2>2. CASE Delete(n) \/ Create(n)
    <3>1. content' = content /\ clock' = clock
      BY <2>2 DEF Delete, Create
    <3>2. \A k, m \in Names : names'[k] = names'[m] /\ names'[k] # 0 => k = m
      BY <1>0, <2>0, <2>2 DEF Delete, Create, Free, Exists, LogsInv
    <3>3. QED
      BY <1>0, <3>1, <3>2 DEF LogsInv
  <2>3. CASE Truncate(n)
    <3>1. names' = names /\ clock' = clock /\ names[n] \in Inodes
          /\ content' = [content EXCEPT ![names[n]] = <<>>]
      BY <2>0, <2>3 DEF Truncate, Exists
    <3>2. \A i \in Inodes : \A a \in DOMAIN content'[i] : a \in DOMAIN content[i] /\ content'[i] = content[i]
      BY <2>0, <3>1
    <3>3. QED
      <4>1. \A i \in Inodes : \A a \in DOMAIN content'[i] : content'[i][a] = content[i][a]
        BY <3>2
      <4>2. /\ \A i \in Inodes : \A a, b \in DOMAIN content'[i] : a < b => content'[i][a].ts < content'[i][b].ts
            /\ \A i \in Inodes : \A a \in DOMAIN content'[i] : content'[i][a].ts <= clock'
        BY <1>0, <3>1, <3>2, <4>1 DEF LogsInv
      <4>3. \A i, k \in Inodes : \A a \in DOMAIN content'[i], b \in DOMAIN content'[k] :
               content'[i][a].ts = content'[k][b].ts => i = k
        BY <1>0, <3>2, <4>1 DEF LogsInv
      <4>4. QED
        BY <1>0, <3>1, <4>2, <4>3 DEF LogsInv
  <2>4. CASE Append1(n)
    <3> DEFINE i == names[n]
               r == [ts |-> clock + 1, kind |-> CHOOSE k \in Wanted : TRUE]
    <3>1. i \in Inodes /\ content[i] \in Seq(Record) /\ r \in Record /\ r.ts = clock + 1
      <4>1. i \in Inodes
        BY <2>0, <2>4 DEF Append1, Exists
      <4>2. r \in Record
        BY <2>0, LogScanAssumption DEF Record
      <4>3. QED
        BY <2>0, <4>1, <4>2
    <3>2. content' = [content EXCEPT ![i] = Append(content[i], r)] /\ clock' = clock + 1 /\ names' = names
      BY <2>4 DEF Append1
    <3> HIDE DEF i, r
    <3>3. /\ DOMAIN content'[i] = 1..(Len(content[i]) + 1) /\ DOMAIN content[i] = 1..Len(content[i])
          /\ \A a \in DOMAIN content[i] : content'[i][a] = content[i][a]
          /\ content'[i][Len(content[i]) + 1] = r /\ Len(content[i]) \in Nat
      <4>1. content'[i] = Append(content[i], r)
        BY <2>0, <3>1, <3>2
      <4>2. QED
        BY <3>1, <4>1
    <3>4. \A k \in Inodes : k # i => content'[k] = content[k]
      BY <2>0, <3>2
    <3>5. \A k \in Inodes : \A a \in DOMAIN content[k] : content[k][a].ts \in Nat /\ content[k][a].ts <= clock
          /\ a \in Nat
      <4> SUFFICES ASSUME NEW k \in Inodes, NEW a \in DOMAIN content[k]
                   PROVE  content[k][a].ts \in Nat /\ content[k][a].ts <= clock /\ a \in Nat
        OBVIOUS
      <4>1. content[k][a] \in Record /\ a \in Nat
        BY <2>0
      <4>2. QED
        BY <1>0, <4>1 DEF LogsInv, Record
    <3>6. ASSUME NEW k \in Inodes, NEW a \in DOMAIN content'[k]
          PROVE  \/ a \in DOMAIN content[k] /\ content'[k][a] = content[k][a]
                 \/ k = i /\ a = Len(content[i]) + 1 /\ content'[k][a].ts = clock + 1
      <4>1. CASE k = i
        <5>1. a \in DOMAIN content'[i]
          BY <3>6, <4>1
        <5>2. a \in DOMAIN content[i] \/ a = Len(content[i]) + 1
          BY <3>3, <5>1
        <5>3. QED
          BY <3>1, <3>3, <4>1, <5>2
      <4>2. CASE k # i
        BY <3>4, <3>6, <4>2
      <4>3. QED
        BY <4>1, <4>2
    <3>7. \A k \in Inodes : \A a, b \in DOMAIN content'[k] : a < b => content'[k][a].ts < content'[k][b].ts
      <4> SUFFICES ASSUME NEW k \in Inodes, NEW a \in DOMAIN content'[k], NEW b \in DOMAIN content'[k], a < b
                   PROVE  content'[k][a].ts < content'[k][b].ts
        OBVIOUS
      <4>1. CASE k # i
        BY <1>0, <3>4, <4>1 DEF LogsInv
      <4>2. CASE k = i
        <5>1. a \in DOMAIN content[i] /\ content'[i][a] = content[i][a]
          BY <3>3, <4>2
        <5>2. CASE b \in DOMAIN content[i]
          BY <1>0, <3>1, <3>3, <4>2, <5>1, <5>2 DEF LogsInv
        <5>3. CASE b = Len(content[i]) + 1
          BY <2>0, <3>1, <3>3, <3>5, <4>2, <5>1, <5>3
        <5>4. QED
          BY <3>3, <4>2, <5>2, <5>3
      <4>3. QED
        BY <4>1, <4>2
    <3>8. \A j, k \in Inodes : \A a \in DOMAIN content'[j], b \in DOMAIN content'[k] :
             content'[j][a].ts = content'[k][b].ts => j = k
      <4> SUFFICES ASSUME NEW j \in Inodes, NEW k \in Inodes, NEW a \in DOMAIN content'[j],
                          NEW b \in DOMAIN content'[k], content'[j][a].ts = content'[k][b].ts, j # k
                   PROVE  FALSE
        OBVIOUS
      <4>1. \/ a \in DOMAIN content[j] /\ content'[j][a] = content[j][a]
            \/ j = i /\ content'[j][a].ts = clock + 1
        BY <3>6
      <4>2. \/ b \in DOMAIN content[k] /\ content'[k][b] = content[k][b]
            \/ k = i /\ content'[k][b].ts = clock + 1
        BY <3>6
      <4>3. QED
        BY <1>0, <2>0, <3>5, <4>1, <4>2 DEF LogsInv
    <3>9. \A k \in Inodes : \A a \in DOMAIN content'[k] : content'[k][a].ts <= clock'
      <4> SUFFICES ASSUME NEW k \in Inodes, NEW a \in DOMAIN content'[k] PROVE content'[k][a].ts <= clock'
        OBVIOUS
      <4>1. \/ a \in DOMAIN content[k] /\ content'[k][a] = content[k][a]
            \/ content'[k][a].ts = clock + 1
        BY <3>6
      <4>2. QED
        BY <2>0, <3>2, <3>5, <4>1
    <3>10. \A k, m \in Names : names'[k] = names'[m] /\ names'[k] # 0 => k = m
      BY <1>0, <3>2 DEF LogsInv
    <3>11. QED
      BY <3>7, <3>8, <3>9, <3>10 DEF LogsInv
  <2>5. QED
    BY <2>1, <2>2, <2>3, <2>4
<1>3. QED
  BY <1>1, <1>2

(* A record that a step of the server adds is later than every time known. *)
LEMMA ListedStep == ASSUME ScanInv, Moves PROVE ListedInv'
<1>0. ScanTypeOK /\ LogsInv /\ ListedInv
  BY DEF ScanInv
<1>1. CASE Server
  <2>1. listed' = listed /\ listed \in [Names -> Seq(Record)] /\ clock \in Nat
    BY <1>0, <1>1 DEF Server, ScanTypeOK
  <2>2. SUFFICES ASSUME NEW n \in Names, NEW j \in DOMAIN listed[n], NEW i \in Inodes, NEW a \in DOMAIN content'[i],
                        content'[i][a].ts = listed[n][j].ts
                 PROVE  content'[i][a].kind = listed[n][j].kind
    <3>1. \A n \in Names : \A j \in DOMAIN listed[n] : listed[n][j].ts <= clock'
      <4> SUFFICES ASSUME NEW n \in Names, NEW j \in DOMAIN listed[n] PROVE listed[n][j].ts <= clock'
        OBVIOUS
      <4>1. listed[n][j] \in Record
        BY <2>1
      <4>2. listed[n][j].ts \in Nat /\ listed[n][j].ts <= clock
        BY <1>0, <4>1 DEF ListedInv, Record
      <4>3. QED
        BY <1>0, <1>1, <2>1, <4>2, ServerFacts
    <3>2. QED
      BY <2>1, <3>1 DEF ListedInv
  <2>3. listed[n][j].ts <= clock /\ listed[n][j].ts \in Nat
    <3>1. listed[n][j] \in Record
      BY <2>1
    <3>2. QED
      BY <1>0, <3>1 DEF ListedInv, Record
  <2>4. a \in DOMAIN content[i] /\ content'[i][a] = content[i][a]
    BY <1>0, <1>1, <2>1, <2>2, <2>3, ServerFacts
  <2>5. QED
    BY <1>0, <2>2, <2>4 DEF ListedInv
<1>2. CASE List
  <2>1. server' = server
    BY <1>2 DEF List
  <2>2. SUFFICES ASSUME NEW n \in Names, NEW j \in DOMAIN listed'[n]
                 PROVE  /\ listed'[n][j].ts <= clock
                        /\ \A i \in Inodes : \A a \in DOMAIN content[i] :
                             content[i][a].ts = listed'[n][j].ts => content[i][a].kind = listed'[n][j].kind
    BY <2>1 DEF ListedInv, server
  <2>3. listed'[n] = RecordsOf(n)
    BY <1>0, <1>2, ListFacts
  <2>4. names[n] \in Inodes /\ listed'[n] = content[names[n]]
    BY <1>0, <2>2, <2>3 DEF RecordsOf, Exists, ScanTypeOK
  <2>5. content[names[n]] \in Seq(Record)
    BY <1>0, <2>4 DEF ScanTypeOK
  <2>6. ASSUME NEW i \in Inodes, NEW a \in DOMAIN content[i], content[i][a].ts = listed'[n][j].ts
        PROVE  content[i][a] = listed'[n][j]
    <3>1. i = names[n]
      BY <1>0, <2>2, <2>4, <2>6 DEF LogsInv
    <3>2. a \in Nat /\ j \in Nat /\ a \in DOMAIN content[names[n]] /\ j \in DOMAIN content[names[n]]
      BY <2>2, <2>4, <2>5, <2>6, <3>1
    <3>3. content[i][a] \in Record /\ content[i][j] \in Record
      BY <2>5, <3>1, <3>2
    <3>4. ~ (a < j) /\ ~ (j < a)
      BY <1>0, <2>4, <2>6, <3>1, <3>2, <3>3 DEF LogsInv, Record
    <3>5. a = j
      BY <3>2, <3>4
    <3>6. QED
      BY <2>4, <3>1, <3>5
  <2>7. QED
    BY <1>0, <2>2, <2>4, <2>6 DEF LogsInv
<1>3. CASE ~Server /\ ~List
  <2>1. listed' = listed
    BY <1>3 DEF Moves, DeadlineHit, Vanished, Unreadable, Open, TailOpens, ReadError,
                ReadRecord, DeadlineInFile, EndRange, Check, Skip
  <2>2. QED
    BY <1>0, <1>3, <2>1, Quiet DEF ListedInv, server
<1>4. QED
  BY <1>1, <1>2, <1>3

(* What a step does to the runs, reading a record apart.                   *)
SameRuns == UNCHANGED <<run, staged, series>>
Reset == run' = NoRun /\ staged' = <<>> /\ series' = series
Ended == /\ run' = NoRun /\ series' = series
         /\ \/ run.count > 0 /\ ToSet(staged') = ToSet(staged) \cup {run}
            \/ staged' = staged
Committed == /\ run' = run /\ staged' = <<>>
             /\ ToSet(series) \subseteq ToSet(series')
             /\ ToSet(series') \subseteq ToSet(series) \cup ToSet(staged)

(* Besides ReadRecord a step leaves the runs alone, drops them, flushes    *)
(* the last one or commits those of the open file.                         *)
LEMMA RunsCases ==
  ASSUME ScanInv, Moves, ~ReadRecord
  PROVE  SameRuns \/ Reset \/ Ended \/ Committed
<1>0. ScanTypeOK /\ PlaceInv
  BY DEF ScanInv
<1>1. CASE Server \/ List \/ DeadlineHit \/ Vanished \/ Unreadable \/ TailOpens \/ ReadError \/ DeadlineInFile
  BY <1>1 DEF SameRuns, Server, List, DeadlineHit, Vanished, Unreadable, TailOpens, ReadError, DeadlineInFile,
              Skip, read
<1>2. CASE Open
  BY <1>2 DEF Open, Reset
<1>3. CASE EndRange
  BY <1>0, <1>3, EndFacts DEF EndRange, Ended
<1>4. CASE Check
  BY <1>0, <1>4, CheckFacts DEF Check, Committed
<1>5. QED
  BY <1>1, <1>2, <1>3, <1>4 DEF Moves

(* A step that reads no record makes no new run.                           *)
LEMMA KeptStep ==
  ASSUME ScanInv, Moves, ~ReadRecord
  PROVE  /\ \A u \in Kept' : u \in Kept \/ u = NoRun
         /\ \A u \in ToSet(series') \cup ToSet(staged') : u \in ToSet(series) \cup ToSet(staged) \/ (u = run /\ u.count > 0)
<1>1. ToSet(<<>>) = {}
  BY ToSets
<1>2. SameRuns \/ Reset \/ Ended \/ Committed
  BY RunsCases
<1>3. CASE SameRuns
  BY <1>3 DEF SameRuns, Kept
<1>4. CASE Reset
  BY <1>1, <1>4 DEF Reset, Kept
<1>5. CASE Ended
  BY <1>5 DEF Ended, Kept
<1>6. CASE Committed
  BY <1>1, <1>6 DEF Committed, Kept
<1>7. QED
  BY <1>2, <1>3, <1>4, <1>5, <1>6

(* No run at all counts right.                                             *)
LEMMA SoundNoRun == Sound(NoRun) /\ NoRun.recs = {}
BY FS_EmptySet DEF Sound, NoRun

(* The runs that are kept are runs.                                        *)
LEMMA KeptType == ASSUME ScanTypeOK PROVE Kept \subseteq RunRecord
BY ToSets DEF Kept, ScanTypeOK

(* A record that joins a run.                                              *)
LEMMA SoundJoin ==
  ASSUME NEW u, Sound(u), NEW t, t \notin u.recs, NEW v,
         v.kind \notin Preserved, v.recs = u.recs \cup {t}, v.count = u.count + 1
  PROVE  Sound(v)
<1>1. IsFiniteSet(u.recs) /\ u.count = Cardinality(u.recs)
  BY DEF Sound
<1>2. IsFiniteSet(u.recs \cup {t}) /\ Cardinality(u.recs \cup {t}) = Cardinality(u.recs) + 1
  BY <1>1, FS_AddElement
<1>3. v.count = Cardinality(v.recs)
  BY <1>1, <1>2
<1>4. IsFiniteSet(v.recs)
  BY <1>2
<1>5. v.kind \in Preserved => v.count <= 1
  OBVIOUS
<1>6. QED
  BY <1>3, <1>4, <1>5 DEF Sound

(* A run of one record counts right.                                       *)
LEMMA SoundSingle ==
  ASSUME NEW v, NEW t, v.recs = {t}, v.count = 1
  PROVE  Sound(v)
<1>1. IsFiniteSet({t}) /\ Cardinality({t}) = 1
  BY FS_Singleton
<1>2. IsFiniteSet(v.recs) /\ v.count = Cardinality(v.recs)
  BY <1>1
<1>3. v.count <= 1
  OBVIOUS
<1>4. QED
  BY <1>2, <1>3 DEF Sound

(* The record at the position is new to every run.                         *)
LEMMA NewRecord ==
  ASSUME ScanInv, ReadRecord, NEW r, r = content[file.src][file.pos + 1]
  PROVE  /\ file.src \in Inodes /\ r \in Record /\ file.pos + 1 \in DOMAIN content[file.src]
         /\ \A u \in Kept : r.ts \notin u.recs
         /\ \A v : v.kind = r.kind /\ v.recs = {r.ts} => Faithful(v)
<1>0. ScanTypeOK /\ LogsInv /\ ListedInv /\ FreshInv
  BY DEF ScanInv
<1>1. file.src \in Inodes /\ r \in Record /\ file.pos + 1 \in DOMAIN content[file.src]
  BY <1>0, ReadFacts
<1>2. \A u \in Kept : r.ts \notin u.recs
  <2>1. pc = "read" /\ file.src # 0
    BY DEF ReadRecord
  <2>2. file.pos + 1 > file.pos
    BY <1>0 DEF ScanTypeOK, FileRecord
  <2>3. QED
    BY <1>0, <1>1, <2>1, <2>2 DEF FreshInv
<1>3. r.ts <= clock
  BY <1>0, <1>1 DEF LogsInv
<1>4. ASSUME NEW i \in Inodes, NEW a \in DOMAIN content[i], content[i][a].ts = r.ts
      PROVE  content[i][a].kind = r.kind
  <2>1. i = file.src
    BY <1>0, <1>1, <1>4 DEF LogsInv
  <2>2. content[i] \in Seq(Record)
    BY <1>0 DEF ScanTypeOK
  <2>3. a \in Nat /\ file.pos + 1 \in Nat /\ r.ts \in Nat
    BY <1>0, <1>1, <1>4, <2>2 DEF ScanTypeOK, FileRecord, Record
  <2>4. ~ (a < file.pos + 1) /\ ~ (file.pos + 1 < a)
    BY <1>0, <1>1, <1>4, <2>1, <2>3 DEF LogsInv
  <2>5. a = file.pos + 1
    BY <2>3, <2>4
  <2>6. QED
    BY <2>1, <2>5
<1>5. \A n \in Names : \A j \in DOMAIN listed[n] : listed[n][j].ts = r.ts => listed[n][j].kind = r.kind
  BY <1>0, <1>1 DEF ListedInv
<1>6. QED
  BY <1>1, <1>2, <1>3, <1>4, <1>5 DEF Faithful

(* PhysicalRle keeps every run at as many records as it counts, all of     *)
(* them of its kind.                                                       *)
LEMMA RunsStep == ASSUME ScanInv, Moves PROVE RunsInv'
<1>0. ScanTypeOK /\ LogsInv /\ ListedInv /\ RunsInv /\ FreshInv /\ PlaceInv
  BY DEF ScanInv
<1>1. CASE ~ReadRecord
  <2>1. \A u \in ToSet(series') \cup ToSet(staged') : u.count > 0
    BY <1>0, <1>1, KeptStep DEF RunsInv
  <2>2. \A u \in Kept' : Sound(u)
    BY <1>0, <1>1, KeptStep, SoundNoRun DEF RunsInv
  <2>3. \A u \in Kept' : Faithful(u)'
    <3>1. Faithful(NoRun)'
      BY SoundNoRun DEF Faithful
    <3>2. ASSUME NEW u \in Kept, ~List PROVE Faithful(u)'
      <4>0. listed' = listed
        BY <1>1, <3>2 DEF Moves, Server, DeadlineHit, Vanished, Unreadable, Open, TailOpens, ReadError,
                      DeadlineInFile, EndRange, Check, Skip
      <4>1. Faithful(u)
        BY <1>0, <3>2 DEF RunsInv
      <4>2. CASE ~Server
        BY <4>0, <4>1, <4>2, Quiet DEF Faithful, server
      <4>3. CASE Server
        <5>1. ASSUME NEW t \in u.recs
              PROVE  /\ t <= clock'
                     /\ \A i \in Inodes : \A a \in DOMAIN content'[i] : content'[i][a].ts = t => content'[i][a].kind = u.kind
          <6>1. t \in Nat /\ t <= clock /\ clock \in Nat
            BY <1>0, <3>2, <4>1, KeptType DEF Faithful, RunRecord, ScanTypeOK
          <6>2. clock' \in Nat /\ clock <= clock'
            BY <1>0, <4>3, ServerFacts
          <6>3. \A i \in Inodes : \A a \in DOMAIN content'[i] :
                   content'[i][a].ts = t => a \in DOMAIN content[i] /\ content'[i][a] = content[i][a]
            BY <1>0, <4>3, <6>1, ServerFacts
          <6>4. QED
            BY <4>1, <6>1, <6>2, <6>3 DEF Faithful
        <5>2. QED
          BY <4>0, <4>1, <5>1 DEF Faithful
      <4>4. QED
        BY <4>2, <4>3
    <3>3. ASSUME NEW u \in Kept, List PROVE u = NoRun
      BY <1>0, <3>3, ToSets DEF List, PlaceInv, Kept
    <3>4. QED
      BY <1>1, <3>1, <3>2, <3>3, KeptStep
  <2>4. QED
    BY <2>1, <2>2, <2>3 DEF RunsInv
<1>2. CASE ReadRecord
  <2> DEFINE r == content[file.src][file.pos + 1]
  <2>1. /\ file.src \in Inodes /\ r \in Record
        /\ \A u \in Kept : r.ts \notin u.recs
        /\ \A v : v.kind = r.kind /\ v.recs = {r.ts} => Faithful(v)
    BY <1>2, NewRecord
  <2>2. UNCHANGED <<names, content, clock, listed, series>>
    BY <1>2 DEF ReadRecord, server
  <2>3. \A u : Faithful(u) => Faithful(u)'
    BY <2>2 DEF Faithful
  <2>4. \/ run' = run /\ staged' = staged
        \/ /\ run.count > 0 /\ run.kind = r.kind /\ r.kind \notin Preserved
           /\ run'.kind = r.kind /\ run'.recs = run.recs \cup {r.ts} /\ run'.count = run.count + 1
           /\ staged' = staged
        \/ /\ run'.kind = r.kind /\ run'.recs = {r.ts} /\ run'.count = 1
           /\ \/ run.count > 0 /\ ToSet(staged') = ToSet(staged) \cup {run}
              \/ staged' = staged
    BY <1>0, <1>2, ReadFacts
  <2> HIDE DEF r
  <2>5. \A u \in Kept' : u \in Kept \/ u = run'
    BY <2>2, <2>4 DEF Kept
  <2>6. \A u \in ToSet(series') \cup ToSet(staged') : u.count > 0
    BY <1>0, <2>2, <2>4 DEF RunsInv
  <2>7. run \in Kept /\ Sound(run) /\ Faithful(run)
    BY <1>0 DEF Kept, RunsInv
  <2>8. Sound(run')
    BY <2>1, <2>4, <2>7, SoundJoin, SoundSingle
  <2>9. Faithful(run')
    <3>1. ASSUME run.kind = r.kind, run'.kind = r.kind, run'.recs = run.recs \cup {r.ts} PROVE Faithful(run')
      <4> DEFINE v == [kind |-> r.kind, recs |-> {r.ts}]
      <4>1. v.kind = r.kind /\ v.recs = {r.ts}
        OBVIOUS
      <4>2. Faithful(v)
        <5> HIDE DEF v
        <5>1. QED
          BY <2>1, <4>1
      <4> HIDE DEF v
      <4>3. QED
        BY <2>7, <3>1, <4>1, <4>2 DEF Faithful
    <3>2. QED
      BY <2>1, <2>4, <2>7, <3>1
  <2>10. QED
    BY <1>0, <2>3, <2>5, <2>6, <2>8, <2>9 DEF RunsInv
<1>3. QED
  BY <1>1, <1>2

(* No step puts an occurrence into two runs.                               *)
LEMMA ApartStep == ASSUME ScanInv, Moves PROVE ApartInv'
<1>0. ScanTypeOK /\ ApartInv
  BY DEF ScanInv
<1>1. CASE ~ReadRecord
  <2>1. ToSet(<<>>) = {} /\ NoRun.recs = {}
    BY ToSets, Blank
  <2>2. CASE SameRuns
    BY <1>0, <2>2 DEF SameRuns, ApartInv
  <2>3. CASE Reset
    BY <1>0, <2>1, <2>3 DEF Reset, ApartInv, Apart, Strangers
  <2>4. CASE Ended
    BY <1>0, <2>1, <2>4 DEF Ended, ApartInv, Apart, Strangers
  <2>5. CASE Committed
    BY <1>0, <2>1, <2>5 DEF Committed, ApartInv, Apart, Strangers
  <2>6. QED
    BY <1>1, <2>2, <2>3, <2>4, <2>5, RunsCases
<1>2. CASE ReadRecord
  <2> DEFINE r == content[file.src][file.pos + 1]
  <2>1. \A u \in Kept : r.ts \notin u.recs
    BY <1>2, NewRecord
  <2>2. series' = series
    BY <1>2 DEF ReadRecord
  <2>3. \/ run' = run /\ staged' = staged
        \/ run'.recs = run.recs \cup {r.ts} /\ staged' = staged
        \/ /\ run'.recs = {r.ts}
           /\ \/ ToSet(staged') = ToSet(staged) \cup {run}
              \/ staged' = staged
    BY <1>0, <1>2, ReadFacts
  <2> HIDE DEF r
  <2>4. QED
    BY <1>0, <2>1, <2>2, <2>3 DEF ApartInv, Apart, Strangers, Kept
<1>3. QED
  BY <1>1, <1>2

(* Files before their turn and the rest of the open file hold no record of *)
(* a run.                                                                  *)
LEMMA AheadStep ==
  ASSUME ScanInv, Moves, ~List, NEW k, Ahead(k)'
  PROVE  Ahead(k) /\ cands' = cands
<1>0. ScanTypeOK /\ PlaceInv
  BY DEF ScanInv
<1>1. cands' = cands
  BY DEF Moves, Server, DeadlineHit, Vanished, Unreadable, Open, TailOpens, ReadError, ReadRecord,
         DeadlineInFile, EndRange, Check, Skip
<1>2. k \in DOMAIN cands /\ k \in Nat /\ at \in Nat
  BY <1>0, <1>1 DEF Ahead, ScanTypeOK
<1>3. CASE Server \/ DeadlineHit \/ DeadlineInFile
  BY <1>1, <1>2, <1>3 DEF Server, DeadlineHit, DeadlineInFile, read, Ahead
<1>4. CASE Vanished \/ Unreadable \/ ReadError \/ Check
  <2>1. at' = at + 1 /\ pc' = "next"
    BY <1>4 DEF Vanished, Unreadable, ReadError, Check, NextFile
  <2>2. k > at' \/ k = at'
    BY DEF Ahead
  <2>3. k > at
    BY <1>2, <2>1, <2>2
  <2>4. QED
    BY <1>1, <1>2, <2>3 DEF Ahead
<1>5. CASE Open
  BY <1>1, <1>2, <1>5 DEF Open, Ahead
<1>6. CASE TailOpens \/ ReadRecord
  <2>1. pc = "read" /\ pc' = "read" /\ at' = at
    BY <1>6 DEF TailOpens, ReadRecord
  <2>2. k = at => file'.src = 0
    BY <1>2, <2>1 DEF Ahead
  <2>3. file'.src = 0 => file.src = 0
    BY <1>0, <1>6, ReadFacts DEF TailOpens
  <2>4. QED
    BY <1>1, <1>2, <2>1, <2>2, <2>3 DEF Ahead
<1>7. CASE EndRange
  BY <1>1, <1>2, <1>7 DEF EndRange, Ahead
<1>8. QED
  BY <1>3, <1>4, <1>5, <1>6, <1>7 DEF Moves

(* What is still to be read is in no run yet, whatever the server does to  *)
(* the names meanwhile.                                                    *)
LEMMA FreshStep == ASSUME ScanInv, Moves PROVE FreshInv'
<1>0. ScanTypeOK /\ LogsInv /\ RunsInv /\ FreshInv /\ PlaceInv
  BY DEF ScanInv
<1>1. \A u \in Kept : \A t \in u.recs : t \in Nat /\ t <= clock
  BY <1>0, KeptType DEF RunsInv, Faithful, RunRecord
<1>2. CASE List
  <2>1. \A u \in Kept' : u.recs = {}
    BY <1>0, <1>2, ToSets, Blank DEF List, PlaceInv, Kept
  <2>2. QED
    BY <2>1 DEF FreshInv
<1>3. CASE Server
  <2>1. UNCHANGED <<pc, cands, at, file, run, staged, series>> /\ Kept' = Kept /\ clock \in Nat
    BY <1>0, <1>3 DEF Server, read, Kept, ScanTypeOK
  <2>2. ASSUME NEW i \in Inodes, NEW a \in DOMAIN content'[i], NEW u \in Kept, content'[i][a].ts \in u.recs
        PROVE  a \in DOMAIN content[i] /\ content'[i][a] = content[i][a]
    BY <1>0, <1>1, <1>3, <2>1, <2>2, ServerFacts
  <2>3. ASSUME NEW k \in DOMAIN cands, Ahead(k), names'[cands[k]] # 0, NEW a \in DOMAIN content'[names'[cands[k]]],
               NEW u \in Kept
        PROVE  content'[names'[cands[k]]][a].ts \notin u.recs
    <3>1. cands[k] \in Names /\ names'[cands[k]] \in Inodes
      BY <1>0, <1>3, <2>3, ServerFacts DEF ScanTypeOK
    <3>2. names'[cands[k]] = names[cands[k]] \/ content'[names'[cands[k]]] = <<>>
      BY <1>0, <1>3, <2>3, <3>1, ServerFacts
    <3>3. names'[cands[k]] = names[cands[k]]
      BY <2>3, <3>2
    <3>4. QED
      BY <1>0, <2>2, <2>3, <3>1, <3>3 DEF FreshInv, Exists
  <2>4. ASSUME pc = "read", file.src # 0, NEW a \in DOMAIN content'[file.src], a > file.pos, NEW u \in Kept
        PROVE  content'[file.src][a].ts \notin u.recs
    <3>1. file.src \in Inodes
      BY <1>0, <2>4 DEF ScanTypeOK, FileRecord
    <3>2. QED
      BY <1>0, <2>2, <2>4, <3>1 DEF FreshInv
  <2>5. \A k : Ahead(k)' => Ahead(k)
    BY <2>1 DEF Ahead
  <2>6. QED
    BY <2>1, <2>3, <2>4, <2>5 DEF FreshInv, Exists
<1>4. CASE ~Server /\ ~List
  <2>1. names' = names /\ content' = content /\ cands' = cands
    BY <1>4, Quiet DEF server, Moves, DeadlineHit, Vanished, Unreadable, Open, TailOpens, ReadError,
           ReadRecord, DeadlineInFile, EndRange, Check, Skip
  <2>2. \A k : Ahead(k)' => Ahead(k)
    BY <1>4, AheadStep
  <2>3. CASE ~ReadRecord
    <3>1. \A u \in Kept' : u \in Kept \/ u.recs = {}
      BY <2>3, KeptStep, Blank
    <3>2. ASSUME pc' = "read", file'.src # 0, NEW a \in DOMAIN content[file'.src], a > file'.pos, NEW u \in Kept
          PROVE  content[file'.src][a].ts \notin u.recs
      <4>1. CASE DeadlineInFile
        BY <1>0, <3>2, <4>1 DEF DeadlineInFile, FreshInv
      <4>2. CASE Open
        <5>1. pc = "next" /\ at \in DOMAIN cands
          BY <1>0, <4>2, OpenFacts DEF Open
        <5>2. Opened
          BY <1>0, <3>2, <4>2, <5>1, OpenFacts DEF Budgeted
        <5>3. file'.src = names[cands[at]]
          BY <3>2, <5>2 DEF Opened
        <5>4. Ahead(at)
          BY <5>1 DEF Ahead
        <5>5. QED
          BY <1>0, <3>2, <5>1, <5>3, <5>4 DEF FreshInv, Exists
      <4>3. CASE TailOpens
        <5>1. pc = "read" /\ file.src = 0 /\ at \in DOMAIN cands
          BY <1>0, <4>3 DEF TailOpens, PlaceInv
        <5>2. file'.src = names[cands[at]] /\ Exists(cands[at])
          BY <1>0, <4>3 DEF TailOpens, ScanTypeOK, FileRecord
        <5>3. Ahead(at)
          BY <5>1 DEF Ahead
        <5>4. QED
          BY <1>0, <3>2, <5>1, <5>2, <5>3 DEF FreshInv
      <4>4. CASE DeadlineHit \/ Vanished \/ Unreadable \/ ReadError \/ EndRange \/ Check
        BY <3>2, <4>4 DEF DeadlineHit, Vanished, Unreadable, ReadError, EndRange, Check, NextFile
      <4>5. QED
        BY <1>4, <2>3, <4>1, <4>2, <4>3, <4>4 DEF Moves
    <3>3. QED
      BY <1>0, <2>1, <2>2, <3>1, <3>2 DEF FreshInv, Exists
  <2>4. CASE ReadRecord
    <3> DEFINE r == content[file.src][file.pos + 1]
    <3>1. file.src \in Inodes /\ r \in Record /\ file.pos + 1 \in DOMAIN content[file.src]
      BY <2>4, NewRecord
    <3>2. \A u \in Kept' : u \in Kept \/ u.recs \subseteq run.recs \cup {r.ts}
      <4>1. series' = series
        BY <2>4 DEF ReadRecord
      <4>2. \/ run' = run /\ staged' = staged
            \/ run'.recs = run.recs \cup {r.ts} /\ staged' = staged
            \/ /\ run'.recs = {r.ts}
               /\ \/ ToSet(staged') = ToSet(staged) \cup {run}
                  \/ staged' = staged
        BY <1>0, <2>4, ReadFacts
      <4> HIDE DEF r
      <4>3. QED
        BY <4>1, <4>2 DEF Kept
    <3>3. file'.src = file.src /\ file'.pos = file.pos + 1 /\ file.pos \in Nat
      BY <1>0, <2>4, ReadFacts DEF ScanTypeOK, FileRecord
    <3>4. pc = "read" /\ pc' = "read" /\ file.src # 0 /\ at' = at
      BY <2>4 DEF ReadRecord
    <3>5. run \in Kept
      BY DEF Kept
    <3>6. ASSUME NEW k \in DOMAIN cands, Ahead(k)', Exists(cands[k]), NEW a \in DOMAIN content[names[cands[k]]],
                 NEW u \in Kept'
          PROVE  content[names[cands[k]]][a].ts \notin u.recs
      <4>1. k > at
        BY <3>3, <3>4, <3>6 DEF Ahead
      <4>2. names[cands[k]] # file.src
        BY <1>0, <3>4, <3>6, <4>1 DEF PlaceInv
      <4>3. names[cands[k]] \in Inodes
        BY <1>0, <3>6 DEF ScanTypeOK, Exists
      <4>4. content[names[cands[k]]][a].ts # r.ts
        BY <1>0, <3>1, <3>6, <4>2, <4>3 DEF LogsInv
      <4>5. \A v \in Kept : content[names[cands[k]]][a].ts \notin v.recs
        BY <1>0, <2>2, <3>6 DEF FreshInv
      <4>6. QED
        BY <3>2, <3>5, <3>6, <4>4, <4>5
    <3>7. ASSUME NEW a \in DOMAIN content[file.src], a > file.pos + 1, NEW u \in Kept'
          PROVE  content[file.src][a].ts \notin u.recs
      <4>1. content[file.src] \in Seq(Record)
        BY <1>0, <3>1 DEF ScanTypeOK
      <4>2. a \in Nat /\ content[file.src][a] \in Record
        BY <3>7, <4>1
      <4>3. r.ts < content[file.src][a].ts
        BY <1>0, <3>1, <3>3, <3>7, <4>2 DEF LogsInv
      <4>4. content[file.src][a].ts # r.ts
        BY <3>1, <4>2, <4>3 DEF Record
      <4>5. \A v \in Kept : content[file.src][a].ts \notin v.recs
        BY <1>0, <3>3, <3>4, <3>7, <4>2 DEF FreshInv
      <4>6. QED
        BY <3>2, <3>5, <3>7, <4>4, <4>5
    <3>8. QED
      BY <2>1, <3>3, <3>6, <3>7 DEF FreshInv, Exists
  <2>5. QED
    BY <2>3, <2>4
<1>5. QED
  BY <1>2, <1>3, <1>4

(* A prefix is shorter and agrees at its positions.                        *)
LEMMA PrefixFacts ==
  ASSUME NEW s \in Seq(Record), NEW t \in Seq(Record), IsPrefix(s, t)
  PROVE  /\ Len(s) <= Len(t)
         /\ \A j \in DOMAIN s : j \in DOMAIN t /\ t[j] = s[j]
<1>1. Len(s) <= Len(t) /\ SubSeq(s, 1, Len(s)) = SubSeq(t, 1, Len(s))
  BY DEF IsPrefix
<1>2. ASSUME NEW j \in DOMAIN s PROVE j \in DOMAIN t /\ t[j] = s[j]
  <2>1. j \in 1..Len(s) /\ Len(s) \in Nat /\ Len(t) \in Nat /\ j \in 1..Len(t)
    BY <1>1
  <2>2. SubSeq(s, 1, Len(s))[j] = s[j] /\ SubSeq(t, 1, Len(s))[j] = t[j]
    BY <1>1, <2>1
  <2>3. QED
    BY <1>1, <2>1, <2>2
<1>3. QED
  BY <1>1, <1>2

(* The reasons for missing records are never taken back.                   *)
LEMMA ReasonsGrow ==
  ASSUME ScanInv, Moves, ~List
  PROVE  /\ stats.reasons \subseteq stats'.reasons
         /\ DeadlineHit \/ DeadlineInFile \/ Vanished \/ Unreadable \/ ReadError => stats'.reasons # {}
<1>0. ScanTypeOK /\ LogsInv /\ PlaceInv
  BY DEF ScanInv
<1>1. ASSUME Server PROVE stats.reasons \subseteq stats'.reasons
  BY <1>1 DEF Server, read
<1>2. ASSUME DeadlineHit \/ DeadlineInFile
      PROVE  stats.reasons \subseteq stats'.reasons /\ stats'.reasons # {}
  <2> DEFINE R == stats.reasons \union {"time_limit"}
  <2>1. stats' = [stats EXCEPT !.reasons = R] /\ R \in SUBSET Reasons
    BY <1>0, <1>2 DEF DeadlineHit, DeadlineInFile, ScanTypeOK, StatsRecord, Reasons
  <2>2. R # {} /\ stats.reasons \subseteq R
    OBVIOUS
  <2> HIDE DEF R
  <2>3. QED
    BY <1>0, <2>1, <2>2, AddReason
<1>3. ASSUME Vanished PROVE stats.reasons \subseteq stats'.reasons /\ stats'.reasons # {}
  BY <1>0, <1>3, SkipFacts DEF Vanished, Reasons
<1>4. ASSUME Unreadable PROVE stats.reasons \subseteq stats'.reasons /\ stats'.reasons # {}
  BY <1>0, <1>4, SkipFacts DEF Unreadable, Reasons
<1>5. ASSUME ReadError PROVE stats.reasons \subseteq stats'.reasons /\ stats'.reasons # {}
  BY <1>0, <1>5, SkipFacts DEF ReadError, Reasons
<1>6. ASSUME Open PROVE stats.reasons \subseteq stats'.reasons
  BY <1>0, <1>6, OpenFacts
<1>7. ASSUME TailOpens PROVE stats.reasons \subseteq stats'.reasons
  BY <1>7 DEF TailOpens
<1>8. ASSUME ReadRecord PROVE stats.reasons \subseteq stats'.reasons
  BY <1>0, <1>8, ReadFacts
<1>9. ASSUME EndRange PROVE stats.reasons \subseteq stats'.reasons
  BY <1>0, <1>9, EndFacts
<1>10. ASSUME Check PROVE stats.reasons \subseteq stats'.reasons
  BY <1>0, <1>10, CheckFacts
<1>11. QED
  BY <1>1, <1>2, <1>3, <1>4, <1>5, <1>6, <1>7, <1>8, <1>9, <1>10 DEF Moves

(* Each phase of the scan finds the file, the runs and the limits as the   *)
(* one before it leaves them.                                              *)
LEMMA PlaceStep == ASSUME ScanInv, Moves PROVE PlaceInv'
<1>0. ScanTypeOK /\ LogsInv /\ PlaceInv
  BY DEF ScanInv
<1>1. CASE List
  <2>1. pc = "list" /\ pc' = "next" /\ at' = 1 /\ file' = file /\ stop' = stop /\ ~stop /\ file = NoFile
    BY <1>0, <1>1 DEF List, PlaceInv
  <2>2. cands' \in Seq(Names) /\ \A i, k \in DOMAIN cands' : cands'[i] = cands'[k] => i = k
    BY <1>0, <1>1, ListFacts
  <2>3. 1 \in 1..(Len(cands') + 1)
    BY <2>2
  <2>4. QED
    BY <2>1, <2>2, <2>3 DEF PlaceInv
<1>2. CASE Server
  <2>1. UNCHANGED <<pc, cands, at, file, run, staged, stop, stats>> /\ pc # "list"
    BY <1>2 DEF Server, read
  <2>2. ASSUME pc = "read", file.src # 0, NEW k \in DOMAIN cands, k > at PROVE names'[cands[k]] # file.src
    <3>1. cands[k] \in Names
      BY <1>0, <2>2 DEF ScanTypeOK
    <3>2. QED
      BY <1>0, <1>2, <2>2, <3>1, ServerFacts DEF PlaceInv
  <2>3. QED
    BY <1>0, <2>1, <2>2 DEF PlaceInv
<1>3. CASE ~Server /\ ~List
  <2>0. names' = names /\ cands' = cands
    BY <1>3, Quiet DEF server, Moves, DeadlineHit, Vanished, Unreadable, Open, TailOpens, ReadError,
           ReadRecord, DeadlineInFile, EndRange, Check, Skip
  <2>1. stats.reasons \subseteq stats'.reasons
    BY <1>3, ReasonsGrow
  <2>2. cands \in Seq(Names) /\ at \in Nat
    BY <1>0 DEF ScanTypeOK
  <2>3. ASSUME NEW src, src # 0, NEW i \in DOMAIN cands, names[cands[i]] = src
        PROVE  \A k \in DOMAIN cands : k > i => names[cands[k]] # src
    <3> SUFFICES ASSUME NEW k \in DOMAIN cands, k > i, names[cands[k]] = src PROVE FALSE
      OBVIOUS
    <3>1. cands[i] = cands[k]
      BY <1>0, <2>2, <2>3 DEF LogsInv
    <3>2. i = k
      BY <1>0, <3>1 DEF PlaceInv
    <3>3. QED
      BY <2>2, <3>2
  <2>4. CASE DeadlineHit \/ DeadlineInFile
    <3>1. stats'.reasons # {}
      BY <1>3, <2>4, ReasonsGrow
    <3>2. UNCHANGED <<pc, at, file, run, staged>> /\ pc # "list"
      BY <2>4 DEF DeadlineHit, DeadlineInFile
    <3>3. QED
      BY <1>0, <2>0, <3>1, <3>2 DEF PlaceInv
  <2>5. CASE Vanished \/ Unreadable \/ ReadError \/ Check
    <3>1. at' = at + 1 /\ pc' = "next" /\ file' = NoFile /\ stop' = stop
      BY <1>0, <2>5 DEF Vanished, Unreadable, ReadError, Check, NextFile, PlaceInv, Skip
    <3>2. at \in DOMAIN cands
      BY <1>0, <2>2, <2>5 DEF Vanished, Unreadable, ReadError, Check, Over, PlaceInv
    <3>3. at' \in 1..(Len(cands) + 1)
      BY <2>2, <3>1, <3>2
    <3>4. QED
      BY <1>0, <2>0, <2>1, <3>1, <3>3 DEF PlaceInv
  <2>6. CASE Open
    <3>1. /\ at \in DOMAIN cands /\ names[cands[at]] \in Inodes /\ pc = "next" /\ at' = at
          /\ run' = NoRun /\ staged' = <<>>
          /\ Budgeted \/ Opened
      BY <1>0, <2>6, OpenFacts DEF Open
    <3>2. CASE Budgeted
      BY <1>0, <2>0, <3>1, <3>2 DEF PlaceInv, Budgeted
    <3>3. CASE Opened
      <4>1. file'.ino # 0
        BY <3>1, <3>3, InodesNat DEF Opened
      <4>2. file'.src # 0 => names[cands[at]] = file'.src
        BY <3>3 DEF Opened
      <4>3. file'.src # 0 => \A k \in DOMAIN cands : k > at => names[cands[k]] # file'.src
        BY <2>3, <3>1, <4>2
      <4>4. pc' = "read" /\ stop' = stop
        BY <3>3 DEF Opened
      <4>5. QED
        BY <1>0, <2>0, <2>1, <3>1, <4>1, <4>3, <4>4 DEF PlaceInv
    <3>4. QED
      BY <3>1, <3>2, <3>3
  <2>7. CASE TailOpens
    <3>1. pc = "read" /\ at \in DOMAIN cands /\ pc' = pc /\ at' = at /\ run' = run /\ staged' = staged
          /\ stop' = stop /\ stats' = stats
      BY <1>0, <2>7 DEF TailOpens, PlaceInv
    <3>2. file'.src = names[cands[at]] /\ file'.ino = file.ino
      BY <1>0, <2>7 DEF TailOpens, ScanTypeOK, FileRecord
    <3>3. file'.src # 0
      BY <2>7, <3>2 DEF TailOpens, Exists
    <3>4. \A k \in DOMAIN cands : k > at => names[cands[k]] # file'.src
      BY <2>3, <3>1, <3>2, <3>3
    <3>5. QED
      BY <1>0, <2>0, <3>1, <3>2, <3>3, <3>4 DEF PlaceInv
  <2>8. CASE ReadRecord
    <3>1. pc = "read" /\ pc' = "read" /\ at' = at /\ file.src # 0
      BY <2>8 DEF ReadRecord
    <3>2. file'.src = file.src /\ file'.ino = file.ino /\ (stop' => stats'.reasons # {})
      BY <1>0, <2>8, ReadFacts
    <3>3. QED
      BY <1>0, <2>0, <3>1, <3>2 DEF PlaceInv
  <2>9. CASE EndRange
    <3>1. pc = "read" /\ pc' = "check" /\ at' = at
      BY <2>9 DEF EndRange
    <3>2. run' = NoRun /\ file'.ino = file.ino /\ (stop' => stats'.reasons # {})
      BY <1>0, <2>9, EndFacts
    <3>3. QED
      BY <1>0, <2>0, <3>1, <3>2 DEF PlaceInv
  <2>10. QED
    BY <1>3, <2>4, <2>5, <2>6, <2>7, <2>8, <2>9 DEF Moves
<1>4. QED
  BY <1>1, <1>2, <1>3

(* What a step keeps of the collection: times collected, files listed.     *)
LEMMA Collected ==
  ASSUME ScanInv, Moves, NEW t, Collects(series, t)
  PROVE  Collects(series', t)
<1>0. ScanTypeOK
  BY DEF ScanInv
<1>1. CASE ReadRecord
  BY <1>1 DEF ReadRecord
<1>2. CASE ~ReadRecord
  BY <1>2, RunsCases DEF SameRuns, Reset, Ended, Committed, Collects
<1>3. QED
  BY <1>1, <1>2

(* After the listing its history stays, and the blind names only grow.     *)
LEMMA History ==
  ASSUME ScanInv, Moves, ~List
  PROVE  /\ UNCHANGED <<listed, t0, cands>> /\ blind \subseteq blind' /\ pc # "list"
         /\ \A n : Asked(n)' = Asked(n)
<1>1. UNCHANGED <<listed, t0, cands>> /\ blind \subseteq blind'
  BY DEF Moves, Server, DeadlineHit, Vanished, Unreadable, Open, TailOpens, ReadError, ReadRecord,
         DeadlineInFile, EndRange, Check, Skip
<1>2. pc # "list"
  BY DEF Moves, Server, DeadlineHit, Vanished, Unreadable, Open, TailOpens, ReadError, ReadRecord,
         DeadlineInFile, EndRange, Check
<1>3. QED
  BY <1>1, <1>2 DEF Asked, Requested

(* While nothing is known to be missing, every asked record of a file that *)
(* was passed is in a committed run.                                       *)
LEMMA DoneStep == ASSUME ScanInv, Moves PROVE DoneInv'
<1>0. ScanTypeOK /\ LogsInv /\ PlaceInv /\ DoneInv /\ FileInv
  BY DEF ScanInv
<1>1. CASE List
  <2>1. SUFFICES ASSUME stats'.reasons = {}
                 PROVE  \A n \in Names : Asked(n)' # {} => \E k \in DOMAIN cands' : cands'[k] = n
    <3>1. at' = 1
      BY <1>1 DEF List
    <3>2. cands' \in Seq(Names)
      BY <1>0, <1>1, ListFacts
    <3>3. \A k \in DOMAIN cands' : ~(k < at')
      BY <3>1, <3>2
    <3>4. QED
      BY <2>1, <3>3 DEF DoneInv
  <2>2. SUFFICES ASSUME NEW n \in Names, NEW j \in DOMAIN listed'[n], listed'[n][j].ts \in From..t0'
                 PROVE  InWindow(n)
    BY <1>0, <1>1, <2>1, ListFacts DEF Asked, Requested
  <2>3. listed'[n] = RecordsOf(n)
    BY <1>0, <1>1, ListFacts
  <2>4. Exists(n) /\ names[n] \in Inodes /\ listed'[n] = content[names[n]] /\ content[names[n]] \in Seq(Record)
    BY <1>0, <2>2, <2>3 DEF RecordsOf, Exists, ScanTypeOK
  <2> DEFINE s == content[names[n]]
  <2>5. j \in DOMAIN s /\ j \in 1..Len(s) /\ Len(s) \in Nat /\ Len(s) \in DOMAIN s /\ s # <<>>
        /\ s[j] \in Record /\ s[Len(s)] \in Record
    BY <2>2, <2>4
  <2>6. s[j].ts <= s[Len(s)].ts
    <3>1. CASE j = Len(s)
      BY <2>5, <3>1 DEF Record
    <3>2. CASE j < Len(s)
      BY <1>0, <2>4, <2>5, <3>2 DEF LogsInv, Record
    <3>3. QED
      BY <2>5, <3>1, <3>2
  <2>7. s[j].ts \in From..t0'
    BY <2>2, <2>4
  <2>8. s[Len(s)].ts >= From
    BY <2>5, <2>6, <2>7, Bounds DEF Record
  <2>9. LastTime(n) = s[Len(s)].ts
    BY <2>3, <2>4, <2>5 DEF LastTime, Last
  <2>10. QED
    BY <2>4, <2>8, <2>9 DEF InWindow
<1>2. CASE ~List /\ ~Check
  <2>1. stats.reasons \subseteq stats'.reasons /\ UNCHANGED <<listed, t0, cands>> /\ blind \subseteq blind' /\ pc # "list"
        /\ \A n : Asked(n)' = Asked(n)
    BY <1>2, History, ReasonsGrow
  <2>2. stats'.reasons = {} => at' = at
    <3>1. stats'.reasons = {} => ~ (DeadlineHit \/ DeadlineInFile \/ Vanished \/ Unreadable \/ ReadError)
      BY <1>2, ReasonsGrow
    <3>2. QED
      BY <1>2, <3>1 DEF Moves, Server, Open, TailOpens, ReadRecord, EndRange
  <2>3. \A t : Collects(series, t) => Collects(series', t)
    BY Collected
  <2>4. QED
    BY <1>0, <2>1, <2>2, <2>3 DEF DoneInv
<1>3. CASE Check
  <2>1. stats.reasons \subseteq stats'.reasons /\ UNCHANGED <<listed, t0, cands>> /\ blind \subseteq blind' /\ pc # "list"
        /\ \A n : Asked(n)' = Asked(n)
    <3>1. ~List
      BY <1>3 DEF Check, List
    <3>2. QED
      BY <3>1, History, ReasonsGrow
  <2>2. SUFFICES ASSUME stats'.reasons = {}
                 PROVE  \A k \in DOMAIN cands : k < at' /\ cands[k] \notin blind' =>
                           \A j \in Asked(cands[k]) : Collects(series', listed[cands[k]][j].ts)
    BY <1>0, <2>1 DEF DoneInv
  <2>3. at \in DOMAIN cands /\ at' = at + 1 /\ cands \in Seq(Names) /\ run = NoRun /\ file.ino # 0 /\ pc = "check"
    BY <1>0, <1>3 DEF Check, PlaceInv, NextFile, ScanTypeOK
  <2>4. stats.reasons = {} /\ Intact /\ ToSet(staged) \subseteq ToSet(series')
    BY <1>0, <1>3, <2>1, <2>2, CheckFacts
  <2>5. ASSUME NEW k \in DOMAIN cands, k < at, cands[k] \notin blind', NEW j \in Asked(cands[k])
        PROVE  Collects(series', listed[cands[k]][j].ts)
    BY <1>0, <2>1, <2>4, <2>5, Collected DEF DoneInv
  <2>6. ASSUME cands[at] \notin blind', NEW j \in Asked(cands[at])
        PROVE  Collects(series', listed[cands[at]][j].ts)
    <3>1. cands[at] \notin blind /\ ~Regrown
      BY <1>3, <2>6 DEF Check
    <3>2. /\ j <= file.size
          /\ \/ Gone(cands[at], file.ino, j)
             \/ Collects(series, listed[cands[at]][j].ts) \/ Collects(staged, listed[cands[at]][j].ts)
             \/ listed[cands[at]][j].ts \in run.recs
             \/ file.src \notin {0, file.ino} /\ names[cands[at]] # file.ino
      BY <1>0, <2>3, <2>4, <2>6, <3>1 DEF FileInv
    <3>3. cands[at] \in Names /\ listed[cands[at]] \in Seq(Record) /\ file.ino \in Inodes
          /\ content[file.ino] \in Seq(Record) /\ file.size \in Nat /\ j \in DOMAIN listed[cands[at]]
      <4>1. cands[at] \in Names /\ file.ino \in Inodes /\ file.size \in Nat
        BY <1>0, <2>3 DEF ScanTypeOK, FileRecord
      <4>2. QED
        BY <1>0, <2>6, <4>1 DEF ScanTypeOK, Asked
    <3>4. names[cands[at]] = file.ino /\ Len(content[file.ino]) >= file.size
      BY <2>4, <3>2, <3>3 DEF Intact
    <3>5. IsPrefix(listed[cands[at]], content[file.ino])
      BY <3>1, <3>4 DEF Regrown
    <3>6. ~Gone(cands[at], file.ino, j)
      BY <3>3, <3>5, PrefixFacts DEF Gone
    <3>7. Collects(series, listed[cands[at]][j].ts) \/ Collects(staged, listed[cands[at]][j].ts)
      BY <2>3, <3>2, <3>4, <3>6, Blank
    <3>8. Collects(staged, listed[cands[at]][j].ts) => Collects(series', listed[cands[at]][j].ts)
      BY <2>4 DEF Collects
    <3>9. QED
      BY <3>7, <3>8, Collected
  <2>7. \A k \in DOMAIN cands : k < at' => k < at \/ k = at
    BY <2>3
  <2>8. QED
    BY <2>5, <2>6, <2>7
<1>4. QED
  BY <1>1, <1>2, <1>3

(* While nothing is known to be missing, every asked record of the open    *)
(* file is in a run, is still ahead, or has left the inode.                *)
LEMMA FileStep == ASSUME ScanInv, Moves PROVE FileInv'
<1>0. ScanTypeOK /\ LogsInv /\ ListedInv /\ RunsInv /\ PlaceInv /\ FileInv
  BY DEF ScanInv
<1>1. CASE List \/ DeadlineHit \/ DeadlineInFile \/ Vanished \/ Unreadable \/ ReadError \/ Check
  <2>1. CASE List \/ Vanished \/ Unreadable \/ ReadError \/ Check
    BY <2>1 DEF List, Vanished, Unreadable, ReadError, Check, NextFile, FileInv
  <2>2. CASE ~List /\ (DeadlineHit \/ DeadlineInFile)
    BY <2>2, ReasonsGrow DEF FileInv
  <2>3. QED
    BY <1>1, <2>1, <2>2
<1>2. CASE ~ (List \/ DeadlineHit \/ DeadlineInFile \/ Vanished \/ Unreadable \/ ReadError \/ Check)
  <2>1. stats.reasons \subseteq stats'.reasons /\ UNCHANGED <<listed, t0, cands>> /\ blind \subseteq blind' /\ pc # "list"
        /\ \A n : Asked(n)' = Asked(n)
    BY <1>2, History, ReasonsGrow
  <2>2. at' = at
    BY <1>2 DEF Moves, Server, Open, TailOpens, ReadRecord, EndRange
  <2> DEFINE n == cands[at]
             Lost(i, m) == ~(m \in DOMAIN content'[i] /\ content'[i][m] = listed[n][m])
  <2>3. SUFFICES ASSUME pc' \in {"read", "check"}, stats'.reasons = {}, n \notin blind', NEW j \in Asked(n)
                 PROVE  /\ j <= file'.size
                        /\ \/ Lost(file'.ino, j)
                           \/ Collects(series', listed[n][j].ts) \/ Collects(staged', listed[n][j].ts)
                           \/ listed[n][j].ts \in run'.recs
                           \/ pc' = "read" /\ file'.src \in {0, file'.ino} /\ j > file'.pos
                           \/ file'.src \notin {0, file'.ino} /\ names'[n] # file'.ino
    BY <2>1, <2>2 DEF FileInv, Gone
  <2>4. stats.reasons = {} /\ n \notin blind
    BY <2>1, <2>3
  <2>5. pc \in {"read", "check"} =>
                  /\ j <= file.size
                  /\ \/ Gone(n, file.ino, j)
                     \/ Collects(series, listed[n][j].ts) \/ Collects(staged, listed[n][j].ts)
                     \/ listed[n][j].ts \in run.recs
                     \/ pc = "read" /\ file.src \in {0, file.ino} /\ j > file.pos
                     \/ file.src \notin {0, file.ino} /\ names[n] # file.ino
    BY <1>0, <2>3, <2>4 DEF FileInv
  <2>6. at \in DOMAIN cands /\ n \in Names /\ listed[n] \in Seq(Record) /\ j \in DOMAIN listed[n]
        /\ j \in Nat \ {0} /\ listed[n][j] \in Record /\ Requested(listed[n][j])
    <3>1. at \in DOMAIN cands
      <4>1. CASE pc \in {"read", "check"}
        BY <1>0, <4>1 DEF PlaceInv
      <4>2. CASE Open
        BY <1>0, <4>2, OpenFacts
      <4>3. QED
        BY <1>2, <2>3, <4>1, <4>2 DEF Moves, Server, TailOpens, ReadRecord, EndRange
    <3>2. n \in Names
      BY <1>0, <3>1 DEF ScanTypeOK
    <3>3. listed[n] \in Seq(Record) /\ j \in DOMAIN listed[n] /\ Requested(listed[n][j])
      BY <1>0, <2>3, <3>2 DEF ScanTypeOK, Asked
    <3>4. QED
      BY <3>1, <3>2, <3>3
  <2>7. CASE Server
    <3>1. UNCHANGED <<pc, at, file, run, staged, series>>
      BY <2>7 DEF Server, read
    <3>2. listed[n][j].ts \in Nat /\ listed[n][j].ts <= clock /\ clock \in Nat
      BY <1>0, <2>6 DEF ListedInv, ScanTypeOK, Record
    <3>3. file.ino \in Inodes
      BY <1>0, <2>3, <3>1 DEF ScanTypeOK, FileRecord, PlaceInv
    <3>4. Gone(n, file.ino, j) => Lost(file.ino, j)
      <4>1. SUFFICES ASSUME j \in DOMAIN content'[file.ino], content'[file.ino][j] = listed[n][j]
                     PROVE  j \in DOMAIN content[file.ino] /\ content[file.ino][j] = listed[n][j]
        BY <2>1 DEF Gone
      <4>2. QED
        BY <1>0, <2>7, <3>2, <3>3, <4>1, ServerFacts
    <3>5. names'[n] = file.ino => names[n] = file.ino \/ Lost(file.ino, j)
      <4>1. SUFFICES ASSUME names'[n] = file.ino, names[n] # file.ino PROVE Lost(file.ino, j)
        OBVIOUS
      <4>2. content'[file.ino] = <<>>
        BY <1>0, <2>6, <2>7, <3>3, <4>1, InodesNat, ServerFacts
      <4>3. QED
        BY <3>1, <4>2 DEF Gone
    <3>6. Lost(file'.ino, j) <=> Lost(file.ino, j)
      BY <3>1 DEF Gone
    <3>7. QED
      BY <2>3, <2>5, <3>1, <3>4, <3>5, <3>6
  <2>8. CASE Open
    <3>1. /\ names[n] \in Inodes /\ Opened /\ pc = "next"
          /\ content[names[n]] \in Seq(Record) /\ server' = server
      <4>1. names[n] \in Inodes /\ Opened /\ pc = "next"
        BY <1>0, <2>3, <2>8, OpenFacts DEF Budgeted, Open
      <4>2. QED
        BY <1>0, <2>8, <4>1 DEF Open, ScanTypeOK
    <3>2. IsPrefix(listed[n], RecordsOf(n))
      BY <2>3, <2>8 DEF Open
    <3>3. RecordsOf(n) = content[names[n]]
      BY <3>1, InodesNat DEF RecordsOf, Exists
    <3>4. /\ Len(listed[n]) <= Len(content[names[n]])
          /\ j \in DOMAIN content[names[n]] /\ content[names[n]][j] = listed[n][j]
      BY <2>6, <3>1, <3>2, <3>3, PrefixFacts
    <3>5. j <= file'.size
      BY <2>6, <3>1, <3>4 DEF Opened
    <3>6. j > file'.pos
      <4>1. SUFFICES ASSUME ~ (j > file'.pos) PROVE FALSE
        OBVIOUS
      <4>2. file'.pos \in Nat
        BY <1>0, <2>8, OpenFacts DEF FileRecord
      <4>3. j \in 1..file'.pos
        BY <2>6, <4>1, <4>2
      <4>4. listed[n][j].ts < From
        BY <2>3, <3>1, <3>4, <4>3 DEF Opened
      <4>5. QED
        BY <2>6, <4>4, Bounds DEF Requested, Record
    <3>7. pc' = "read" /\ file'.src \in {0, file'.ino}
      BY <3>1 DEF Opened
    <3>8. QED
      BY <3>5, <3>6, <3>7
  <2>9. CASE TailOpens
    <3>1. UNCHANGED <<pc, names, content, run, staged, series>> /\ pc = "read" /\ file.src = 0
      BY <2>9 DEF TailOpens, server
    <3>2. file'.src = names[n] /\ file'.ino = file.ino /\ file'.size = file.size /\ file'.pos = file.pos
      BY <1>0, <2>9 DEF TailOpens, ScanTypeOK, FileRecord
    <3>3. names[n] # 0
      BY <2>9 DEF TailOpens, Exists
    <3>4. Gone(n, file.ino, j) => Lost(file'.ino, j)
      BY <2>1, <3>1, <3>2 DEF Gone
    <3>5. QED
      BY <2>5, <3>1, <3>2, <3>3, <3>4
  <2>10. CASE ReadRecord
    <3> DEFINE r == content[file.src][file.pos + 1]
    <3>1. UNCHANGED <<names, content, series>> /\ pc = "read" /\ pc' = "read" /\ file.src # 0
      BY <2>10 DEF ReadRecord, server
    <3>2. /\ file'.pos = file.pos + 1 /\ file'.ino = file.ino /\ file'.src = file.src /\ file'.size = file.size
          /\ file.pos \in Nat
      BY <1>0, <2>10, ReadFacts DEF ScanTypeOK, FileRecord
    <3>3. Gone(n, file.ino, j) => Lost(file'.ino, j)
      BY <2>1, <3>1, <3>2 DEF Gone
    <3>4. \/ run' = run /\ staged' = staged /\ ~Requested(r)
          \/ run'.recs = run.recs \cup {r.ts} /\ staged' = staged
          \/ /\ run'.recs = {r.ts}
             /\ \/ ToSet(staged') = ToSet(staged) \cup {run}
                \/ staged' = staged /\ run.count = 0
      BY <1>0, <2>3, <2>10, ReadFacts
    <3>5. run.count = 0 => run.recs = {}
      BY <1>0, FS_EmptySet DEF RunsInv, Kept, Sound
    <3>6. Requested(r) => r.ts \in run'.recs
      BY <3>4
    <3>7. \A t : t \in run.recs => t \in run'.recs \/ Collects(staged', t)
      <4> HIDE DEF r
      <4>1. QED
        BY <3>4, <3>5 DEF Collects
    <3>8. \A t : Collects(staged, t) => Collects(staged', t)
      <4> HIDE DEF r
      <4>1. QED
        BY <3>4 DEF Collects
    <3>9. ASSUME j = file.pos + 1, file.src = file.ino, ~Gone(n, file.ino, j) PROVE listed[n][j].ts \in run'.recs
      BY <2>6, <3>6, <3>9 DEF Gone
    <3>10. j > file.pos => j > file.pos + 1 \/ j = file.pos + 1
      BY <2>6, <3>2
    <3>11. QED
      <4> HIDE DEF r
      <4>1. QED
        BY <2>5, <3>1, <3>2, <3>3, <3>7, <3>8, <3>9, <3>10
  <2>11. CASE EndRange
    <3>1. /\ UNCHANGED <<names, content, series>> /\ pc = "read" /\ pc' = "check"
          /\ file'.ino = file.ino /\ file'.src = file.src /\ file'.size = file.size
      BY <1>0, <2>11, EndFacts DEF EndRange, server
    <3>2. Gone(n, file.ino, j) => Lost(file'.ino, j)
      BY <2>1, <3>1 DEF Gone
    <3>3. \/ ToSet(staged') = ToSet(staged) \cup {run}
          \/ staged' = staged /\ run.count = 0
      BY <1>0, <2>3, <2>11, EndFacts
    <3>4. run.count = 0 => run.recs = {}
      BY <1>0, FS_EmptySet DEF RunsInv, Kept, Sound
    <3>5. \A t : t \in run.recs => Collects(staged', t)
      BY <3>3, <3>4 DEF Collects
    <3>6. \A t : Collects(staged, t) => Collects(staged', t)
      BY <3>3 DEF Collects
    <3>7. ~stop
      BY <1>0, <2>4 DEF PlaceInv
    <3>8. file.pos \in Nat /\ file.size \in Nat /\ content \in [Inodes -> Seq(Record)]
          /\ file.ino \in Inodes
      BY <1>0, <3>1 DEF ScanTypeOK, FileRecord, PlaceInv
    <3>9. ASSUME file.src \in {0, file.ino}, j > file.pos, j <= file.size PROVE Gone(n, file.ino, j)
      <4>1. file.src = file.ino /\ file.pos >= Len(content[file.ino])
        BY <2>6, <2>11, <3>7, <3>8, <3>9 DEF EndRange
      <4>2. j \notin DOMAIN content[file.ino]
        BY <2>6, <3>8, <3>9, <4>1
      <4>3. QED
        BY <4>2 DEF Gone
    <3>10. QED
      BY <2>5, <3>1, <3>2, <3>5, <3>6, <3>9
  <2>12. QED
    BY <1>2, <2>7, <2>8, <2>9, <2>10, <2>11 DEF Moves
<1>3. QED
  BY <1>1, <1>2

-----------------------------------------------------------------------------
(* The window.                                                             *)

(* The scan starts with the invariant: one inode per name, records in      *)
(* order of time.                                                          *)
LEMMA InitScan == ASSUME Init PROVE IInv
<1> USE InodesNat
<1>0. InitialRecords \in Nat /\ Cardinality(Names) \in Nat \ {0}
  <2>1. Cardinality(Names) \in Nat /\ Cardinality(Names) # 0
    BY LogScanAssumption, FS_CardinalityType, FS_EmptySet
  <2>2. QED
    BY <2>1, Bounds
<1>1. PICK cut \in [Names -> 0..InitialRecords], kinds \in [1..InitialRecords -> Kinds] :
         LET upto(n) == IF n = 0 THEN 0 ELSE cut[n]
         IN  /\ \A m, n \in Names : m <= n => upto(m) <= upto(n)
             /\ upto(Cardinality(Names)) = InitialRecords
             /\ names = [n \in Names |-> n]
             /\ content = [i \in Inodes |->
                  IF i \in Names
                  THEN [j \in 1..(cut[i] - upto(i - 1)) |->
                          [ts |-> upto(i - 1) + j, kind |-> kinds[upto(i - 1) + j]]]
                  ELSE <<>>]
  BY DEF Init
<1> DEFINE upto(n) == IF n = 0 THEN 0 ELSE cut[n]
           records(i) == [j \in 1..(cut[i] - upto(i - 1)) |->
                            [ts |-> upto(i - 1) + j, kind |-> kinds[upto(i - 1) + j]]]
<1>2. Names = 1..Cardinality(Names)
  BY LogScanAssumption
<1>3. \A m, n \in Names : m <= n => cut[m] <= cut[n]
  BY <1>1
<1>4. /\ \A n \in Names \cup {0} : upto(n) \in 0..InitialRecords
      /\ \A n \in Names : n - 1 \in Names \cup {0} /\ upto(n) = cut[n] /\ upto(n - 1) <= upto(n)
  <2>1. \A n \in Names \cup {0} : upto(n) \in 0..InitialRecords
    BY <1>0
  <2>2. ASSUME NEW n \in Names PROVE n - 1 \in Names \cup {0} /\ upto(n) = cut[n] /\ upto(n - 1) <= upto(n)
    <3>1. n \in Nat \ {0} /\ n \in 1..Cardinality(Names)
      BY <1>2
    <3>2. n - 1 \in Names \cup {0} /\ upto(n) = cut[n]
      BY <1>0, <1>2, <3>1
    <3>3. upto(n - 1) <= upto(n)
      BY <1>0, <1>3, <2>1, <3>1, <3>2
    <3>4. QED
      BY <3>2, <3>3
  <2>3. QED
    BY <2>1, <2>2
<1>5. \A m, n \in Names : m < n => upto(m) <= upto(n - 1)
  <2> SUFFICES ASSUME NEW m \in Names, NEW n \in Names, m < n PROVE upto(m) <= upto(n - 1)
    OBVIOUS
  <2>1. m \in Nat \ {0} /\ n \in Nat \ {0} /\ m <= n - 1 /\ n - 1 # 0
    OBVIOUS
  <2>2. n - 1 \in Names
    BY <1>4, <2>1
  <2>3. QED
    BY <1>3, <2>1, <2>2
<1>6. /\ names = [n \in Names |-> n] /\ content = [i \in Inodes |-> IF i \in Names THEN records(i) ELSE <<>>]
  BY <1>1
<1> HIDE DEF upto
<1>7. ASSUME NEW i \in Names
      PROVE  /\ records(i) \in Seq(Record) /\ DOMAIN records(i) = 1..(upto(i) - upto(i - 1))
             /\ \A j \in DOMAIN records(i) : /\ records(i)[j].ts = upto(i - 1) + j /\ j \in Nat
                                             /\ records(i)[j].ts \in 1..InitialRecords
                                             /\ records(i)[j].ts \in (upto(i - 1) + 1)..upto(i)
  <2>1. upto(i) \in Nat /\ upto(i - 1) \in Nat /\ upto(i - 1) <= upto(i) /\ upto(i) <= InitialRecords /\ upto(i) = cut[i]
    BY <1>0, <1>4
  <2>2. \A j \in 1..(upto(i) - upto(i - 1)) :
           upto(i - 1) + j \in 1..InitialRecords /\ j \in Nat /\ upto(i - 1) + j \in (upto(i - 1) + 1)..upto(i)
    BY <1>0, <2>1
  <2>3. \A j \in 1..(upto(i) - upto(i - 1)) :
           /\ [ts |-> upto(i - 1) + j, kind |-> kinds[upto(i - 1) + j]] \in Record
           /\ [ts |-> upto(i - 1) + j, kind |-> kinds[upto(i - 1) + j]].ts = upto(i - 1) + j
    BY <1>0, <2>1, <2>2 DEF Record
  <2>4. DOMAIN records(i) = 1..(upto(i) - upto(i - 1)) /\ upto(i) - upto(i - 1) \in Nat
    BY <2>1
  <2>5. records(i) \in [1..(upto(i) - upto(i - 1)) -> Record]
    BY <2>1, <2>3
  <2>6. records(i) \in Seq(Record)
    <3> HIDE DEF records
    <3>1. QED
      BY <2>4, <2>5, FunctionIsSeq
  <2>7. QED
    BY <2>1, <2>2, <2>3, <2>4, <2>6
<1> HIDE DEF records
<1>8. /\ names \in [Names -> Inodes \cup {0}] /\ content \in [Inodes -> Seq(Record)] /\ clock = InitialRecords
      /\ \A n \in Names : names[n] = n
      /\ \A i \in Inodes : \A a \in DOMAIN content[i] : i \in Names /\ content[i] = records(i)
  <2>1. \A i \in Inodes : content[i] \in Seq(Record)
    BY <1>6, <1>7
  <2>2. clock = InitialRecords
    BY DEF Init
  <2>3. QED
    BY <1>6, <2>1, <2>2
<1>9. LogsInv
  <2>1. \A m, n \in Names : names[m] = names[n] /\ names[m] # 0 => m = n
    BY <1>8
  <2>2. \A i \in Inodes : \A a, b \in DOMAIN content[i] : a < b => content[i][a].ts < content[i][b].ts
    <3> SUFFICES ASSUME NEW i \in Inodes, NEW a \in DOMAIN content[i], NEW b \in DOMAIN content[i], a < b
                 PROVE  content[i][a].ts < content[i][b].ts
      OBVIOUS
    <3>1. i \in Names /\ content[i] = records(i)
      BY <1>8
    <3>2. content[i][a].ts = upto(i - 1) + a /\ content[i][b].ts = upto(i - 1) + b /\ a \in Nat /\ b \in Nat
      BY <1>7, <3>1
    <3>3. upto(i - 1) \in Nat
      BY <1>0, <1>4, <3>1
    <3>4. QED
      BY <3>2, <3>3
  <2>3. \A i, k \in Inodes : \A a \in DOMAIN content[i], b \in DOMAIN content[k] :
           content[i][a].ts = content[k][b].ts => i = k
    <3> SUFFICES ASSUME NEW i \in Inodes, NEW k \in Inodes, NEW a \in DOMAIN content[i], NEW b \in DOMAIN content[k],
                        content[i][a].ts = content[k][b].ts, i # k
                 PROVE  FALSE
      OBVIOUS
    <3>1. /\ i \in Names /\ content[i] = records(i) /\ k \in Names /\ content[k] = records(k)
          /\ i \in Nat /\ k \in Nat
      BY <1>8
    <3>2. /\ content[i][a].ts \in (upto(i - 1) + 1)..upto(i)
          /\ content[k][b].ts \in (upto(k - 1) + 1)..upto(k)
      BY <1>7, <3>1
    <3>3. upto(i - 1) \in Nat /\ upto(i) \in Nat /\ upto(k - 1) \in Nat /\ upto(k) \in Nat
      BY <1>0, <1>4, <3>1
    <3>4. upto(i) <= upto(k - 1) \/ upto(k) <= upto(i - 1)
      BY <1>5, <3>1
    <3>5. QED
      BY <3>2, <3>3, <3>4
  <2>4. \A i \in Inodes : \A a \in DOMAIN content[i] : content[i][a].ts <= clock
    <3> SUFFICES ASSUME NEW i \in Inodes, NEW a \in DOMAIN content[i] PROVE content[i][a].ts <= clock
      OBVIOUS
    <3>1. content[i][a].ts \in 1..InitialRecords
      BY <1>7, <1>8
    <3>2. QED
      BY <1>0, <1>8, <3>1
  <2>5. QED
    BY <2>1, <2>2, <2>3, <2>4 DEF LogsInv
<1>10. /\ pc = "list" /\ t0 = 0 /\ cands = <<>> /\ at = 0
       /\ file = NoFile /\ run = NoRun /\ staged = <<>> /\ series = <<>>
       /\ scanned = 0 /\ stop = FALSE /\ stats = NoStats /\ window = NoWindow
       /\ listed = [n \in Names |-> <<>>] /\ blind = {}
  BY DEF Init
<1>11. ScanTypeOK
  <2>1. cands \in Seq(Names) /\ staged \in Seq(RunRecord) /\ series \in Seq(RunRecord) /\ run \in RunRecord
        /\ file \in FileRecord /\ stats \in StatsRecord
    BY <1>10, Blank
  <2>2. listed \in [Names -> Seq(Record)] /\ clock \in Nat /\ t0 \in Nat /\ at \in Nat /\ scanned \in Nat
    BY <1>0, <1>8, <1>10
  <2>3. QED
    BY <1>8, <1>10, <2>1, <2>2 DEF ScanTypeOK
<1>12. ListedInv
  BY <1>10 DEF ListedInv
<1>13. Kept = {NoRun} /\ ToSet(series) = {} /\ ToSet(staged) = {}
  BY <1>10, ToSets DEF Kept
<1>14. RunsInv /\ ApartInv
  BY <1>13, SoundNoRun DEF RunsInv, Faithful, ApartInv, Apart, Strangers
<1>15. FreshInv /\ PlaceInv /\ DoneInv /\ FileInv
  BY <1>10, <1>13, Blank DEF FreshInv, PlaceInv, DoneInv, FileInv
<1>16. WindowTrue /\ CompleteMeansAll
  BY <1>10 DEF WindowTrue, CompleteMeansAll, NoWindow
<1>17. QED
  BY <1>9, <1>11, <1>12, <1>14, <1>15, <1>16 DEF IInv, ScanInv

(* The series in the order of their times.                                 *)
LEMMA SortedFacts ==
  ASSUME ScanInv, NEW bad, bad \in SUBSET (1..Len(series)), NEW seq, seq \in Chronological(Parsed(bad))
  PROVE  /\ Separate(seq) /\ \A i \in DOMAIN seq : seq[i] \in ToSet(series)
         /\ bad = {} => \A u \in ToSet(series) : \E i \in 1..Len(seq) : seq[i] = u
<1>0. ScanTypeOK /\ RunsInv /\ ApartInv
  BY DEF ScanInv
<1> DEFINE S == Parsed(bad)
<1>1. Parsed(bad) = {series[i] : i \in (1..Len(series)) \ bad}
  BY DEF Parsed
<1>2. series \in Seq(RunRecord) /\ Len(series) \in Nat /\ DOMAIN series = 1..Len(series)
  BY <1>0 DEF ScanTypeOK
<1>3. IsFiniteSet(S)
  <2> DEFINE D == (1..Len(series)) \ bad
             f == [i \in D |-> series[i]]
  <2>1. IsFiniteSet(1..Len(series)) /\ D \in SUBSET (1..Len(series))
    BY <1>2, FS_Interval
  <2>2. IsFiniteSet(D)
    BY <2>1, FS_Subset
  <2>3. f \in [D -> S] /\ \A t \in S : \E i \in D : f[i] = t
    BY <1>1
  <2>4. f \in Surjection(D, S)
    <3> HIDE DEF D, f, S
    <3>1. QED
      BY <2>3 DEF Surjection
  <2> HIDE DEF D, f, S
  <2>5. QED
    BY <2>2, <2>4, FS_Surjection
<1>4. S \subseteq ToSet(series) /\ (bad = {} => S = ToSet(series))
  BY <1>1, <1>2 DEF ToSet
<1>5. ToSet(series) \subseteq RunRecord
  BY <1>2, ToSets
<1>6. Cardinality(S) \in Nat
  BY <1>3, FS_CardinalityType
<1> HIDE DEF S
<1>7. /\ seq \in [1..Cardinality(S) -> S]
      /\ \A i, k \in DOMAIN seq : seq[i] = seq[k] => i = k
      /\ \A u \in S : \E i \in DOMAIN seq : seq[i] = u
  BY DEF S, Chronological, Enumerations, Bijection, Injection, Surjection, IsInjective
<1>8. seq \in Seq(S) /\ Len(seq) = Cardinality(S) /\ DOMAIN seq = 1..Len(seq)
  BY <1>6, <1>7, FunctionIsSeq
<1>9. \A i \in DOMAIN seq : seq[i] \in ToSet(series)
  BY <1>4, <1>7
<1>10. seq \in Seq(RunRecord)
  BY <1>4, <1>5, <1>8
<1>11. \A i \in DOMAIN seq : Sound(seq[i]) /\ seq[i].count > 0
  BY <1>0, <1>9 DEF RunsInv, Kept
<1>12. \A i, k \in DOMAIN seq : i # k => seq[i].recs \cap seq[k].recs = {}
  BY <1>0, <1>7, <1>9 DEF ApartInv, Apart
<1>13. QED
  BY <1>4, <1>7, <1>8, <1>9, <1>10, <1>11, <1>12 DEF Separate

(* The window that is built from an account of the scan (_build_window)    *)
(* counts no occurrence twice, and is complete only when nothing was       *)
(* dropped on the way.                                                     *)
LEMMA WindowStep == ASSUME ScanInv, BuildWindow PROVE WindowTrue' /\ CompleteMeansAll'
<1>0. ScanTypeOK /\ RunsInv /\ PlaceInv /\ DoneInv
  BY DEF ScanInv
<1>1. PICK bad \in SUBSET (1..Len(series)) : \E seq \in Chronological(Parsed(bad)) :
         LET st == IF bad = {} THEN stats
                   ELSE [stats EXCEPT !.reasons = @ \union {"parse_errors"},
                                      !.dropped = @ + Cardinality(bad)]
         IN  /\ stats' = st
             /\ window' = IF stats.read = 0 THEN [NoWindow EXCEPT !.status = "unavailable"]
                          ELSE [status |-> "collected", complete |-> Complete(st),
                                records |-> ToSet(MergeSeries(seq))]
  BY DEF BuildWindow
<1>1b. PICK seq \in Chronological(Parsed(bad)) :
         LET st == IF bad = {} THEN stats
                   ELSE [stats EXCEPT !.reasons = @ \union {"parse_errors"},
                                      !.dropped = @ + Cardinality(bad)]
         IN  /\ stats' = st
             /\ window' = IF stats.read = 0 THEN [NoWindow EXCEPT !.status = "unavailable"]
                          ELSE [status |-> "collected", complete |-> Complete(st),
                                records |-> ToSet(MergeSeries(seq))]
  BY <1>1
<1> DEFINE st == IF bad = {} THEN stats
                 ELSE [stats EXCEPT !.reasons = @ \union {"parse_errors"},
                                    !.dropped = @ + Cardinality(bad)]
           M == MergeSeries(seq)
<1>2. UNCHANGED <<t0, listed, blind>>
  BY DEF BuildWindow
<1>3. window'.records = {} \/ window'.records = ToSet(M)
  BY <1>1b DEF NoWindow
<1>4. window'.complete => window'.records = ToSet(M) /\ Complete(st)
  BY <1>1b DEF NoWindow
<1>5. Separate(seq) /\ \A i \in DOMAIN seq : seq[i] \in ToSet(series)
  BY SortedFacts
<1>6. Merges(M, seq, Len(seq))
  BY <1>5, MergeKeeps
<1>7. DOMAIN seq = 1..Len(seq) /\ M \in Seq(RunRecord)
  BY <1>5, <1>6 DEF Separate, Merges
<1>8. \A n \in Names : Written(n)' = Written(n)
  BY <1>2 DEF Written, Requested
<1>9. \A n \in Names : \A r \in Written(n) : \E j \in DOMAIN listed[n] : r = listed[n][j] /\ j \in Asked(n)
  BY DEF Written, ToSet, Asked
<1> HIDE DEF M, st
<1>10. WindowTrue'
  <2>1. SUFFICES ASSUME window'.records = ToSet(M), NEW w \in ToSet(M)
                 PROVE  /\ w.count = Cardinality(w.recs)
                        /\ w.kind \in Preserved => w.count = 1
                        /\ \A v \in ToSet(M) : v # w => v.recs \cap w.recs = {}
                        /\ \A n \in Names : \A r \in Written(n) :
                             r.ts \in w.recs => PrintOf[r.kind] = PrintOf[w.kind]
    BY <1>2, <1>3, <1>8 DEF WindowTrue
  <2>2. PICK p \in DOMAIN M : w = M[p]
    BY <2>1 DEF ToSet
  <2>3. Sound(w) /\ w.count > 0 /\ w \in RunRecord
    BY <1>6, <1>7, <2>2 DEF Merges, Separate
  <2>4. w.count = Cardinality(w.recs)
    BY <2>3 DEF Sound
  <2>5. w.kind \in Preserved => w.count = 1
    BY <2>3 DEF Sound, RunRecord
  <2>6. \A v \in ToSet(M) : v # w => v.recs \cap w.recs = {}
    BY <1>6, <2>2 DEF Merges, Separate, ToSet
  <2>7. ASSUME NEW n \in Names, NEW r \in Written(n), r.ts \in w.recs PROVE PrintOf[r.kind] = PrintOf[w.kind]
    <3>1. PICK i \in 1..Len(seq) : r.ts \in seq[i].recs /\ PrintOf[seq[i].kind] = PrintOf[w.kind]
      BY <1>6, <2>2, <2>7 DEF Merges
    <3>2. Faithful(seq[i])
      BY <1>0, <1>5, <1>7 DEF RunsInv, Kept
    <3>3. r.kind = seq[i].kind
      BY <1>9, <2>7, <3>1, <3>2 DEF Faithful
    <3>4. QED
      BY <3>1, <3>3
  <2>8. QED
    BY <2>4, <2>5, <2>6, <2>7
<1>11. CompleteMeansAll'
  <2>1. SUFFICES ASSUME window'.complete, NEW n \in Names \ blind, NEW r \in Written(n)
                 PROVE  \E w \in window'.records : r.ts \in w.recs
    BY <1>2, <1>8 DEF CompleteMeansAll, Counted
  <2>2. window'.records = ToSet(M) /\ st.reasons = {}
    BY <1>4, <2>1 DEF Complete
  <2>3. bad = {} /\ stats.reasons = {}
    <3>1. CASE bad = {}
      BY <2>2, <3>1 DEF st
    <3>2. CASE bad # {}
      <4>1. st = [stats EXCEPT !.reasons = @ \union {"parse_errors"}, !.dropped = @ + Cardinality(bad)]
        BY <3>2 DEF st
      <4>2. "parse_errors" \in st.reasons
        BY <1>0, <4>1 DEF ScanTypeOK, StatsRecord
      <4>3. QED
        BY <2>2, <4>2
    <3>3. QED
      BY <3>1, <3>2
  <2>4. PICK j \in Asked(n) : r = listed[n][j]
    BY <1>9, <2>1
  <2>5. pc = "next" /\ at > Len(cands)
    BY <1>0, <2>3 DEF BuildWindow, Over, PlaceInv
  <2>6. PICK k \in DOMAIN cands : cands[k] = n
    BY <1>0, <2>3, <2>4, <2>5 DEF DoneInv
  <2>7. k < at
    BY <1>0, <2>5, <2>6 DEF ScanTypeOK
  <2>8. Collects(series, r.ts)
    BY <1>0, <2>1, <2>3, <2>4, <2>5, <2>6, <2>7 DEF DoneInv
  <2>9. PICK u \in ToSet(series) : r.ts \in u.recs
    BY <2>8 DEF Collects
  <2>10. PICK i \in 1..Len(seq) : seq[i] = u
    BY <2>3, <2>9, SortedFacts
  <2>11. PICK p \in DOMAIN M : r.ts \in M[p].recs
    BY <1>6, <2>9, <2>10 DEF Merges
  <2>12. QED
    BY <2>2, <2>11 DEF ToSet
<1>12. QED
  BY <1>10, <1>11

(* Every step keeps the invariant.                                         *)
LEMMA NextScan == ASSUME IInv, [Next]_vars PROVE IInv'
<1>1. CASE vars' = vars
  <2>1. UNCHANGED <<names, content, clock, pc, t0, cands, at, file, run, staged, series, scanned, stop, stats,
                    window, listed, blind>>
    BY <1>1 DEF vars
  <2>2. WindowTrue' /\ CompleteMeansAll'
    BY <2>1 DEF IInv, WindowTrue, CompleteMeansAll, Written, Requested, Counted
  <2>3. ASSUME pc' # "done" PROVE ScanInv'
    <3>1. ScanInv
      BY <2>1, <2>3 DEF IInv
    <3>2. ScanTypeOK' /\ LogsInv' /\ ListedInv'
      BY <2>1, <3>1 DEF ScanInv, ScanTypeOK, LogsInv, ListedInv
    <3>3. RunsInv' /\ ApartInv'
      BY <2>1, <3>1 DEF ScanInv, RunsInv, ApartInv, Kept, Faithful
    <3>4. FreshInv' /\ PlaceInv'
      BY <2>1, <3>1 DEF ScanInv, FreshInv, PlaceInv, Kept, Ahead, Exists
    <3>5. DoneInv' /\ FileInv'
      BY <2>1, <3>1 DEF ScanInv, DoneInv, FileInv, Asked, Requested, Gone
    <3>6. QED
      BY <3>2, <3>3, <3>4, <3>5 DEF ScanInv
  <2>4. QED
    BY <2>2, <2>3 DEF IInv
<1>2. CASE Next
  <2>1. CASE Moves
    <3>1. pc # "done"
      BY <2>1 DEF Moves, Server, List, DeadlineHit, Vanished, Unreadable, Open, TailOpens, ReadError,
             ReadRecord, DeadlineInFile, EndRange, Check
    <3>2. ScanInv
      BY <3>1 DEF IInv
    <3>3. ScanInv'
      BY <2>1, <3>2, TypeStep, LogsStep, ListedStep, RunsStep, ApartStep, FreshStep, PlaceStep, DoneStep, FileStep
         DEF ScanInv
    <3>4. window' = NoWindow
      BY <3>3 DEF ScanInv, ScanTypeOK
    <3>5. QED
      BY <3>3, <3>4 DEF IInv, WindowTrue, CompleteMeansAll, NoWindow
  <2>2. CASE BuildWindow
    BY <2>2, WindowStep DEF BuildWindow, IInv
  <2>3. CASE NotListed \/ NotCapable \/ Fails
    <3>1. \E status : window' = [NoWindow EXCEPT !.status = status] /\ pc' = "done"
      BY <2>3 DEF NotListed, NotCapable, Fails, PhaseEnds
    <3>2. window'.records = {} /\ ~window'.complete
      BY <3>1 DEF NoWindow
    <3>3. QED
      BY <3>1, <3>2 DEF IInv, WindowTrue, CompleteMeansAll
  <2>4. QED
    BY <1>2, <2>1, <2>2, <2>3 DEF Next, Scan, Moves
<1>3. QED
  BY <1>1, <1>2

(* Whatever the server does to its files, a record of the window counts    *)
(* the occurrences it stands for, of one fingerprint and each in one       *)
(* record only (harvester.py, rle.py, merge_client_series).                *)
THEOREM WindowIsTrue == Spec => []WindowTrue
<1>1. IInv => WindowTrue
  BY DEF IInv
<1>2. QED
  BY <1>1, InitScan, NextScan, PTL DEF Spec

(* A window that calls itself complete (ranking_complete) holds every      *)
(* requested record that was in a file when the files were listed, unless  *)
(* a name was reused without a trace.                                      *)
THEOREM CompleteIsAll == Spec => []CompleteMeansAll
<1>1. IInv => CompleteMeansAll
  BY DEF IInv
<1>2. QED
  BY <1>1, InitScan, NextScan, PTL DEF Spec

-----------------------------------------------------------------------------
(* parse_output, as a fold over the frames.                                *)

(* The frames of the script, and what parse_output has of them.            *)
Frames ==
  {Frame(f, i, n) : f \in {"FILE", "FILE_END"}, i \in Inodes \cup {0}, n \in Nat} \cup
  {Frame("RUN", u, 0) : u \in RunRecord} \cup
  {Frame("META", n, h) : n \in {0, 1}, h \in BOOLEAN} \cup
  {Frame("ERR", s, 0) : s \in {"vanished", "symlink", "producer"}}

Block == [file : {<<>>} \cup ((Inodes \cup {0}) \X Nat), staged : Seq(RunRecord), dropped : Nat,
          hit : BOOLEAN, failed : {"no", "vanished", "symlink", "producer"}]
Report == [read : Nat, vanished : Nat, unreadable : Nat, dropped : Nat, reasons : SUBSET Reasons,
           series : Seq(RunRecord)]
(* A block and a report; what the frames so far say.                       *)
Parsing == Block \X Report
ParseStart == <<NoBlock, Account(NoStats, <<>>)>>
ParsedFrames(fs) == FoldLeft(ParseFrame, ParseStart, fs)

(* What each frame does.                                                   *)
LEMMA FileFrame ==
  ASSUME NEW b \in Block, NEW res \in Report, NEW i \in Inodes \cup {0}, NEW n \in Nat
  PROVE  /\ ParseFrame(<<b, res>>, Frame("FILE", i, n)) = <<[b EXCEPT !.file = <<i, n>>], res>>
         /\ ParseFrame(<<b, res>>, Frame("FILE_END", i, n)) = <<NoBlock, Commit(b, res, i, n)>>
BY DEF ParseFrame, Frame

(* RUN is staged in its block.                                             *)
LEMMA RunFrame ==
  ASSUME NEW b \in Block, NEW res \in Report, NEW u \in RunRecord
  PROVE  ParseFrame(<<b, res>>, Frame("RUN", u, 0)) = <<[b EXCEPT !.staged = Append(b.staged, u)], res>>
BY DEF ParseFrame, Frame

(* META counts for its block.                                              *)
LEMMA MetaFrame ==
  ASSUME NEW b \in Block, NEW res \in Report, NEW n \in {0, 1}, NEW h \in BOOLEAN
  PROVE  ParseFrame(<<b, res>>, Frame("META", n, h)) =
           <<[b EXCEPT !.dropped = b.dropped + n, !.hit = h], res>>
BY DEF ParseFrame, Frame

(* ERR fails its block, or counts a file that has none.                    *)
LEMMA ErrorFrame ==
  ASSUME NEW b \in Block, NEW res \in Report, NEW s \in {"vanished", "symlink", "producer"}
  PROVE  /\ b.file # <<>> => ParseFrame(<<b, res>>, Frame("ERR", s, 0)) = <<[b EXCEPT !.failed = s], res>>
         /\ b.file = <<>> /\ s = "vanished" =>
              ParseFrame(<<b, res>>, Frame("ERR", s, 0)) =
                <<b, [res EXCEPT !.vanished = @ + 1, !.reasons = @ \union {"rotation_race"}]>>
         /\ b.file = <<>> /\ s # "vanished" =>
              ParseFrame(<<b, res>>, Frame("ERR", s, 0)) =
                <<b, [res EXCEPT !.unreadable = @ + 1, !.reasons = @ \union {"unreadable"}]>>
BY DEF ParseFrame, Frame

(* Before the first frame there is no block and nothing is counted.        *)
LEMMA ParseStartType == ParseStart \in Parsing /\ NoBlock \in Block
<1>1. NoBlock \in Block
  <2>1. <<>> \in Seq(RunRecord)
    OBVIOUS
  <2>2. QED
    BY <2>1 DEF NoBlock, Block
<1>2. Account(NoStats, <<>>) \in Report
  <2>1. <<>> \in Seq(RunRecord) /\ {} \in SUBSET Reasons
    OBVIOUS
  <2>2. QED
    BY <2>1 DEF Account, Report, NoStats
<1>3. QED
  BY <1>1, <1>2 DEF ParseStart, Parsing

(* Counters and reasons of a report.                                       *)
LEMMA ReportCounts ==
  ASSUME NEW res \in Report, NEW R \in SUBSET Reasons
  PROVE  /\ [res EXCEPT !.vanished = @ + 1, !.reasons = @ \union R] \in Report
         /\ [res EXCEPT !.unreadable = @ + 1, !.reasons = @ \union R] \in Report
<1>1. /\ res.vanished + 1 \in Nat /\ res.unreadable + 1 \in Nat /\ res.reasons \union R \in SUBSET Reasons
  BY DEF Report
<1>2. /\ [res EXCEPT !.vanished = res.vanished + 1] \in Report
      /\ [res EXCEPT !.unreadable = res.unreadable + 1] \in Report
  BY <1>1 DEF Report
<1>3. /\ [res EXCEPT !.vanished = res.vanished + 1, !.reasons = res.reasons \union R] \in Report
      /\ [res EXCEPT !.unreadable = res.unreadable + 1, !.reasons = res.reasons \union R] \in Report
  BY <1>1, <1>2 DEF Report
<1>4. QED
  BY <1>3 DEF Report

(* A commit leaves a report.                                               *)
LEMMA CommitType ==
  ASSUME NEW b \in Block, NEW res \in Report, NEW i \in Inodes \cup {0}, NEW n \in Nat
  PROVE  Commit(b, res, i, n) \in Report
<1> DEFINE R == IF b.hit THEN res.reasons \union {"return_limit"} ELSE res.reasons
           s == res.series \o b.staged
<1>1. R \in SUBSET Reasons /\ s \in Seq(RunRecord) /\ res.read + 1 \in Nat /\ res.dropped + b.dropped \in Nat
  BY DEF Report, Block, Reasons
<1>2. {"unreadable"} \in SUBSET Reasons /\ {"rotation_race"} \in SUBSET Reasons
  BY DEF Reasons
<1>3. [res EXCEPT !.series = s, !.read = res.read + 1, !.dropped = res.dropped + b.dropped, !.reasons = R] \in Report
  <2> HIDE DEF R, s
  <2>1. [res EXCEPT !.series = s] \in Report
    BY <1>1 DEF Report
  <2>2. [res EXCEPT !.series = s, !.read = res.read + 1] \in Report
    BY <1>1, <2>1 DEF Report
  <2>3. [res EXCEPT !.series = s, !.read = res.read + 1, !.dropped = res.dropped + b.dropped] \in Report
    BY <1>1, <2>2 DEF Report
  <2>4. QED
    BY <1>1, <2>3 DEF Report
<1>4. CASE b.failed # "no"
  BY <1>2, <1>4, ReportCounts DEF Commit
<1>5. CASE b.failed = "no" /\ b.file[1] = i /\ b.file[2] <= n
  <2>1. Commit(b, res, i, n) = [res EXCEPT !.series = s, !.read = res.read + 1,
                                           !.dropped = res.dropped + b.dropped, !.reasons = R]
    BY <1>5 DEF Commit, Report
  <2>2. QED
    BY <1>3, <2>1
<1>6. CASE ~(b.failed # "no") /\ ~(b.failed = "no" /\ b.file[1] = i /\ b.file[2] <= n)
  BY <1>2, <1>6, ReportCounts DEF Commit
<1>7. QED
  BY <1>4, <1>5, <1>6

(* Every frame leaves a block and a report.                                *)
LEMMA ParseType ==
  ASSUME NEW v \in Parsing, NEW x \in Frames
  PROVE  ParseFrame(v, x) \in Parsing
<1>1. PICK b \in Block, res \in Report : v = <<b, res>>
  BY DEF Parsing
<1>2. CASE \E i \in Inodes \cup {0}, n \in Nat : x = Frame("FILE", i, n)
  <2>1. PICK i \in Inodes \cup {0}, n \in Nat : x = Frame("FILE", i, n)
    BY <1>2
  <2>2. [b EXCEPT !.file = <<i, n>>] \in Block
    BY DEF Block
  <2>3. ParseFrame(<<b, res>>, Frame("FILE", i, n)) = <<[b EXCEPT !.file = <<i, n>>], res>>
    BY FileFrame
  <2>4. QED
    BY <1>1, <2>1, <2>2, <2>3 DEF Parsing
<1>3. CASE \E i \in Inodes \cup {0}, n \in Nat : x = Frame("FILE_END", i, n)
  <2>1. PICK i \in Inodes \cup {0}, n \in Nat : x = Frame("FILE_END", i, n)
    BY <1>3
  <2>2. Commit(b, res, i, n) \in Report /\ NoBlock \in Block
    BY CommitType, ParseStartType
  <2>3. ParseFrame(<<b, res>>, Frame("FILE_END", i, n)) = <<NoBlock, Commit(b, res, i, n)>>
    BY FileFrame
  <2>4. QED
    BY <1>1, <2>1, <2>2, <2>3 DEF Parsing
<1>4. CASE \E u \in RunRecord : x = Frame("RUN", u, 0)
  <2>1. PICK u \in RunRecord : x = Frame("RUN", u, 0)
    BY <1>4
  <2>2. [b EXCEPT !.staged = Append(b.staged, u)] \in Block
    <3>1. Append(b.staged, u) \in Seq(RunRecord)
      BY DEF Block
    <3>2. QED
      BY <3>1 DEF Block
  <2>3. ParseFrame(<<b, res>>, Frame("RUN", u, 0)) = <<[b EXCEPT !.staged = Append(b.staged, u)], res>>
    BY RunFrame
  <2>4. QED
    BY <1>1, <2>1, <2>2, <2>3 DEF Parsing
<1>5. CASE \E n \in {0, 1}, h \in BOOLEAN : x = Frame("META", n, h)
  <2>1. PICK n \in {0, 1}, h \in BOOLEAN : x = Frame("META", n, h)
    BY <1>5
  <2>2. b.dropped + n \in Nat
    BY DEF Block
  <2>3. [b EXCEPT !.dropped = b.dropped + n] \in Block
    BY <2>2 DEF Block
  <2>4. [b EXCEPT !.dropped = b.dropped + n, !.hit = h] \in Block
    BY <2>2, <2>3 DEF Block
  <2>5. ParseFrame(<<b, res>>, Frame("META", n, h)) = <<[b EXCEPT !.dropped = b.dropped + n, !.hit = h], res>>
    BY MetaFrame
  <2>6. QED
    BY <1>1, <2>1, <2>4, <2>5 DEF Parsing
<1>6. CASE \E s \in {"vanished", "symlink", "producer"} : x = Frame("ERR", s, 0)
  <2>1. PICK s \in {"vanished", "symlink", "producer"} : x = Frame("ERR", s, 0)
    BY <1>6
  <2>2. [b EXCEPT !.failed = s] \in Block
    BY DEF Block
  <2>3. {"unreadable"} \in SUBSET Reasons /\ {"rotation_race"} \in SUBSET Reasons
    BY DEF Reasons
  <2>4. CASE b.file # <<>>
    <3>1. ParseFrame(<<b, res>>, Frame("ERR", s, 0)) = <<[b EXCEPT !.failed = s], res>>
      BY <2>4, ErrorFrame
    <3>2. QED
      BY <1>1, <2>1, <2>2, <3>1 DEF Parsing
  <2>5. CASE b.file = <<>>
    <3> DEFINE r1 == [res EXCEPT !.vanished = @ + 1, !.reasons = @ \union {"rotation_race"}]
               r2 == [res EXCEPT !.unreadable = @ + 1, !.reasons = @ \union {"unreadable"}]
    <3>1. r1 \in Report /\ r2 \in Report
      BY <2>3, ReportCounts
    <3>2. ParseFrame(<<b, res>>, Frame("ERR", s, 0)) \in {<<b, r1>>, <<b, r2>>}
      <4>1. s = "vanished" => ParseFrame(<<b, res>>, Frame("ERR", s, 0)) = <<b, r1>>
        BY <2>5, ErrorFrame
      <4>2. s # "vanished" => ParseFrame(<<b, res>>, Frame("ERR", s, 0)) = <<b, r2>>
        BY <2>5, ErrorFrame
      <4>3. QED
        BY <4>1, <4>2
    <3> HIDE DEF r1, r2
    <3>3. QED
      BY <1>1, <2>1, <3>1, <3>2 DEF Parsing
  <2>6. QED
    BY <2>4, <2>5
<1>7. QED
  BY <1>2, <1>3, <1>4, <1>5, <1>6 DEF Frames

(* The fold of parse_output, frame by frame: h[m] is what the first m      *)
(* frames say.                                                             *)
LEMMA ParseFold ==
  ASSUME NEW seq \in Seq(Frames)
  PROVE  \E h \in [0..Len(seq) -> Parsing] :
           /\ h[0] = ParseStart /\ h[Len(seq)] = ParsedFrames(seq)
           /\ \A m \in 1..Len(seq) : h[m] = ParseFrame(h[m - 1], seq[m])
<1> DEFINE D == DOMAIN seq
           V == Parsing
           pick == [s \in SUBSET D |-> Max(s)]
           step == [d \in D |-> [v \in V |-> ParseFrame(v, seq[d])]]
<1>1. IsFiniteSet(D) /\ D = 1..Len(seq) /\ Len(seq) \in Nat /\ ParseStart \in V
  BY FS_Interval, ParseStartType
<1>2. \A s \in SUBSET D : s # {} => pick[s] = Max(s) /\ pick[s] \in s
  BY <1>1, MaxMember
<1>3. \A d \in D, v \in V : step[d][v] = ParseFrame(v, seq[d])
  OBVIOUS
<1>4. ASSUME NEW d \in D, NEW v \in V PROVE step[d][v] \in V
  <2>1. seq[d] \in Frames /\ step[d][v] = ParseFrame(v, seq[d])
    BY <1>3
  <2>2. QED
    BY <2>1, ParseType
<1>5. PICK G \in [SUBSET D -> V] : \A s \in SUBSET D :
            G[s] = IF s = {} THEN ParseStart ELSE step[pick[s]][G[s \ {pick[s]}]]
  <2> HIDE DEF D, V, pick, step
  <2>1. \A s \in SUBSET D : s # {} => pick[s] \in s
    BY <1>2
  <2>2. ASSUME NEW base \in V PROVE \E G : Iterates(G, D, V, base, pick, step)
    <3>1. IsFiniteSet(D)
      BY <1>1
    <3>2. \A d \in D, v \in V : step[d][v] \in V
      BY <1>4
    <3>3. QED
      BY <2>1, <3>1, <3>2, IterExists
  <2>3. QED
    BY <1>1, <2>2 DEF Iterates
<1>6. \A s \in SUBSET D : s # {} => G[s] = ParseFrame(G[s \ {Max(s)}], seq[Max(s)])
  <2> SUFFICES ASSUME NEW s \in SUBSET D, s # {}
               PROVE  G[s] = ParseFrame(G[s \ {Max(s)}], seq[Max(s)])
    OBVIOUS
  <2>1. Max(s) \in D /\ s \ {Max(s)} \in SUBSET D
    BY <1>2
  <2>2. G[s] = step[Max(s)][G[s \ {Max(s)}]]
    BY <1>2, <1>5
  <2>3. G[s \ {Max(s)}] \in V
    BY <2>1
  <2> HIDE DEF D, V, pick, step
  <2>4. QED
    BY <1>3, <2>1, <2>2, <2>3
<1>7. G[{}] = ParseStart
  BY <1>5
<1>8. G = [s \in SUBSET D |-> IF s = {} THEN ParseStart ELSE ParseFrame(G[s \ {Max(s)}], seq[Max(s)])]
  <2> HIDE DEF step, pick, V
  <2>1. \A s \in SUBSET D : G[s] = IF s = {} THEN ParseStart ELSE ParseFrame(G[s \ {Max(s)}], seq[Max(s)])
    BY <1>6, <1>7
  <2>2. QED
    BY <2>1
<1>9. PICK H : /\ H = [s \in SUBSET D |-> IF s = {} THEN ParseStart ELSE ParseFrame(H[s \ {Max(s)}], seq[Max(s)])]
               /\ ParsedFrames(seq) = H[D]
  BY <1>8 DEF ParsedFrames, FoldLeft, MapThenFoldSet
<1> DEFINE h == [m \in 0..Len(seq) |-> H[1..m]]
<1>10. \A m \in 0..Len(seq) : 1..m \in SUBSET D
  BY <1>1
<1>11. h[0] = ParseStart /\ h[Len(seq)] = ParsedFrames(seq)
  <2>1. 1..0 = {}
    OBVIOUS
  <2>2. QED
    BY <1>1, <1>9, <1>10, <2>1
<1>12. ASSUME NEW m \in 1..Len(seq) PROVE h[m] = ParseFrame(h[m - 1], seq[m])
  <2>1. 1..m # {} /\ Max(1..m) = m /\ (1..m) \ {m} = 1..(m - 1) /\ m - 1 \in 0..Len(seq)
    BY <1>1, MaxOfInterval
  <2>2. h[m] = H[1..m] /\ h[m - 1] = H[1..(m - 1)]
    BY <2>1
  <2>3. H[1..m] = ParseFrame(H[(1..m) \ {Max(1..m)}], seq[Max(1..m)])
    <3>1. \A s \in SUBSET D : s # {} => H[s] = ParseFrame(H[s \ {Max(s)}], seq[Max(s)])
      BY <1>9
    <3> DEFINE s == 1..m
    <3>2. s \in SUBSET D /\ s # {}
      BY <1>10, <2>1
    <3> HIDE DEF D, s
    <3>3. H[s] = ParseFrame(H[s \ {Max(s)}], seq[Max(s)])
      BY <3>1, <3>2
    <3>4. QED
      BY <3>3 DEF s
  <2>4. QED
    BY <2>1, <2>2, <2>3
<1>13. h \in [0..Len(seq) -> V]
  <2> DEFINE S == {m \in Nat : m \in 0..Len(seq) => h[m] \in V}
  <2>1. 0 \in S
    BY <1>1, <1>11
  <2>2. ASSUME NEW m \in Nat, m \in S PROVE m + 1 \in S
    <3>1. SUFFICES ASSUME m + 1 \in 0..Len(seq) PROVE h[m + 1] \in V
      OBVIOUS
    <3>2. h[m] \in V /\ m + 1 \in 1..Len(seq) /\ (m + 1) - 1 = m
      BY <1>1, <2>2, <3>1
    <3>3. seq[m + 1] \in Frames /\ h[m + 1] = ParseFrame(h[m], seq[m + 1])
      <4> HIDE DEF h
      <4>1. QED
        BY <1>12, <3>2
    <3>4. QED
      BY <3>2, <3>3, ParseType
  <2>3. Nat \subseteq S
    <3> HIDE DEF S
    <3>1. QED
      BY <2>1, <2>2, SetInduction
  <2>4. \A m \in 0..Len(seq) : h[m] \in V
    <3> HIDE DEF h, V
    <3>1. QED
      BY <1>1, <2>3
  <2>5. QED
    BY <2>4
<1>14. QED
  <2> HIDE DEF h
  <2>1. QED
    BY <1>11, <1>12, <1>13

(* One more frame.                                                         *)
LEMMA ParseAppend ==
  ASSUME NEW fs \in Seq(Frames), NEW x \in Frames
  PROVE  /\ ParsedFrames(fs) \in Parsing
         /\ Append(fs, x) \in Seq(Frames)
         /\ ParsedFrames(Append(fs, x)) = ParseFrame(ParsedFrames(fs), x)
<1> DEFINE gs == Append(fs, x)
           n == Len(fs)
<1>1. gs \in Seq(Frames) /\ n \in Nat /\ Len(gs) = n + 1 /\ gs[n + 1] = x /\ \A m \in 1..n : gs[m] = fs[m]
  OBVIOUS
<1> HIDE DEF gs
<1>2. PICK h \in [0..n -> Parsing] :
           /\ h[0] = ParseStart /\ h[n] = ParsedFrames(fs)
           /\ \A m \in 1..n : h[m] = ParseFrame(h[m - 1], fs[m])
  BY ParseFold
<1>3. PICK g \in [0..Len(gs) -> Parsing] :
           /\ g[0] = ParseStart /\ g[Len(gs)] = ParsedFrames(gs)
           /\ \A m \in 1..Len(gs) : g[m] = ParseFrame(g[m - 1], gs[m])
  BY <1>1, ParseFold
<1> HIDE DEF n
<1> DEFINE S == {m \in Nat : m \in 0..n => g[m] = h[m]}
<1>4. 0 \in S
  BY <1>2, <1>3
<1>5. ASSUME NEW m \in Nat, m \in S PROVE m + 1 \in S
  <2>1. SUFFICES ASSUME m + 1 \in 0..n PROVE g[m + 1] = h[m + 1]
    OBVIOUS
  <2>2. m \in 0..n /\ m + 1 \in 1..n /\ m + 1 \in 1..Len(gs) /\ (m + 1) - 1 = m
    BY <1>1, <2>1
  <2>0. g[m] = h[m]
    BY <1>5, <2>2
  <2>3. g[m + 1] = ParseFrame(g[m], gs[m + 1]) /\ h[m + 1] = ParseFrame(h[m], fs[m + 1])
    BY <1>2, <1>3, <2>2
  <2>4. QED
    BY <1>1, <2>0, <2>2, <2>3
<1>6. Nat \subseteq S
  <2> HIDE DEF S
  <2>1. QED
    BY <1>4, <1>5, SetInduction
<1>7. g[n] = h[n]
  BY <1>1, <1>6
<1>8. g[n + 1] = ParseFrame(g[n], x)
  <2>1. n + 1 \in 1..Len(gs) /\ (n + 1) - 1 = n
    BY <1>1
  <2>2. g[n + 1] = ParseFrame(g[n], gs[n + 1])
    BY <1>3, <2>1
  <2>3. QED
    BY <1>1, <2>2
<1>9. ParsedFrames(fs) \in Parsing
  BY <1>1, <1>2
<1>10. QED
  BY <1>1, <1>2, <1>3, <1>7, <1>8, <1>9 DEF gs

(* No frame says nothing.                                                  *)
LEMMA ParseNothing == ParsedFrames(<<>>) = ParseStart
<1>1. <<>> \in Seq(Frames) /\ Len(<<>>) = 0
  OBVIOUS
<1>2. QED
  BY <1>1, ParseFold

-----------------------------------------------------------------------------
(* The account of the script: what its frames say is what it has done.     *)

(* The reasons a script can give at its end.                               *)
DoneLimits == {"scan_limit", "return_limit", "time_limit"}

(* The block of the open file as the script has described it.              *)
BlockOf(ino, size, s, d, h) ==
  [file |-> <<ino, size>>, staged |-> s, dropped |-> d, hit |-> h, failed |-> "no"]

(* What the collector has understood so far is what the host has done.     *)
Told(res, st, s) ==
  /\ res.series = s
  /\ res.read = st.read /\ res.vanished = st.vanished /\ res.unreadable = st.unreadable
  /\ res.dropped = st.dropped
  /\ res.reasons \cup (st.reasons \cap DoneLimits) = st.reasons \ {"candidate_limit"}

(* The open block is the open file: what is staged on the host is staged   *)
(* in the collector.                                                       *)
Staging(b) ==
  /\ pc \in {"list", "next"} => b = NoBlock
  /\ pc = "read" => b = BlockOf(file.ino, file.size, staged, 0, FALSE)
  /\ pc = "check" =>
       \E h \in BOOLEAN :
         /\ b = BlockOf(file.ino, file.size, staged, IF file.torn THEN 1 ELSE 0, h)
         /\ h => "return_limit" \in stats.reasons
  /\ pc \in {"read", "check"} /\ stop => "return_limit" \in stats.reasons

(* The account of a remote scan: frames and phases agree.                  *)
HostInv ==
  transport = "remote" =>
    /\ frames \in Seq(Frames)
    /\ Told(ParsedFrames(frames)[2], stats, series)
    /\ Staging(ParsedFrames(frames)[1])

(* What any frames say is a block and a report.                            *)
LEMMA ParsedType ==
  ASSUME NEW fs \in Seq(Frames)
  PROVE  \E b \in Block, res \in Report : ParsedFrames(fs) = <<b, res>>
<1>1. PICK h \in [0..Len(fs) -> Parsing] : h[Len(fs)] = ParsedFrames(fs)
  BY ParseFold
<1>2. Len(fs) \in 0..Len(fs)
  OBVIOUS
<1>3. ParsedFrames(fs) \in Parsing
  BY <1>1, <1>2
<1>4. QED
  BY <1>3 DEF Parsing

(* A limit is told at the end of the output.                               *)
LEMMA ToldLimit ==
  ASSUME NEW res \in Report, NEW st \in StatsRecord, NEW s, Told(res, st, s),
         NEW r \in DoneLimits, NEW v, v = [st EXCEPT !.reasons = st.reasons \cup {r}]
  PROVE  Told(res, v, s) /\ v \in StatsRecord /\ r \in v.reasons
<1>1. st.reasons \in SUBSET Reasons /\ r \in Reasons /\ r # "candidate_limit"
  BY DEF StatsRecord, Reasons, DoneLimits
<1>2. v \in StatsRecord /\ v.reasons = st.reasons \cup {r}
  BY <1>1 DEF StatsRecord
<1>3. v.read = st.read /\ v.vanished = st.vanished /\ v.unreadable = st.unreadable
      /\ v.dropped = st.dropped
  BY DEF StatsRecord
<1>4. res.reasons \cup (v.reasons \cap DoneLimits) = v.reasons \ {"candidate_limit"}
  BY <1>1, <1>2 DEF Told
<1>5. QED
  BY <1>2, <1>3, <1>4 DEF Told

(* A file that is not read is told by the same counter and the same reason. *)
LEMMA ToldSkip ==
  ASSUME NEW res \in Report, NEW st \in StatsRecord, NEW s, Told(res, st, s),
         NEW w, NEW v,
         \/ /\ v = [st EXCEPT !.vanished = st.vanished + 1, !.reasons = st.reasons \cup {"rotation_race"}]
            /\ w = [res EXCEPT !.vanished = res.vanished + 1, !.reasons = res.reasons \cup {"rotation_race"}]
         \/ /\ v = [st EXCEPT !.unreadable = st.unreadable + 1, !.reasons = st.reasons \cup {"unreadable"}]
            /\ w = [res EXCEPT !.unreadable = res.unreadable + 1, !.reasons = res.reasons \cup {"unreadable"}]
  PROVE  Told(w, v, s)
<1>1. PICK r \in {"rotation_race", "unreadable"} :
        v.reasons = st.reasons \cup {r} /\ w.reasons = res.reasons \cup {r}
  BY DEF StatsRecord, Report
<1>2. w.reasons \cup (v.reasons \cap DoneLimits) = v.reasons \ {"candidate_limit"}
  <2>1. r \notin DoneLimits /\ r # "candidate_limit"
    BY DEF DoneLimits
  <2>2. QED
    BY <1>1, <2>1 DEF Told
<1>3. /\ w.series = s
      /\ w.read = v.read /\ w.vanished = v.vanished /\ w.unreadable = v.unreadable
      /\ w.dropped = v.dropped
  <2>1. res.series = s /\ res.read = st.read /\ res.vanished = st.vanished
        /\ res.unreadable = st.unreadable /\ res.dropped = st.dropped
    BY DEF Told
  <2>2. CASE /\ v = [st EXCEPT !.vanished = st.vanished + 1, !.reasons = st.reasons \cup {"rotation_race"}]
             /\ w = [res EXCEPT !.vanished = res.vanished + 1, !.reasons = res.reasons \cup {"rotation_race"}]
    BY <2>1, <2>2 DEF StatsRecord, Report
  <2>3. CASE /\ v = [st EXCEPT !.unreadable = st.unreadable + 1, !.reasons = st.reasons \cup {"unreadable"}]
             /\ w = [res EXCEPT !.unreadable = res.unreadable + 1, !.reasons = res.reasons \cup {"unreadable"}]
    BY <2>1, <2>3 DEF StatsRecord, Report
  <2>4. QED
    BY <2>2, <2>3
<1>4. QED
  BY <1>2, <1>3 DEF Told

(* A committed file is told by its frames.                                 *)
LEMMA ToldCommit ==
  ASSUME NEW res \in Report, NEW st \in StatsRecord, NEW s \in Seq(RunRecord), Told(res, st, s),
         NEW ino, NEW size \in Nat, NEW g \in Seq(RunRecord), NEW d \in Nat, NEW h \in BOOLEAN,
         h => "return_limit" \in st.reasons,
         NEW n \in Nat, size <= n,
         NEW v, v = [st EXCEPT !.read = st.read + 1, !.dropped = st.dropped + d]
  PROVE  Told(Commit(BlockOf(ino, size, g, d, h), res, ino, n), v, s \o g)
<1> DEFINE b == BlockOf(ino, size, g, d, h)
           R == IF h THEN res.reasons \cup {"return_limit"} ELSE res.reasons
           w == [res EXCEPT !.series = res.series \o g, !.read = res.read + 1,
                            !.dropped = res.dropped + d, !.reasons = R]
<1>1. /\ b.file[1] = ino /\ b.file[2] = size /\ b.failed = "no" /\ b.staged = g
      /\ b.dropped = d /\ b.hit = h
  BY DEF BlockOf
<1>2. Commit(b, res, ino, n) = w
  <2> HIDE DEF b
  <2>1. Commit(b, res, ino, n) =
           [res EXCEPT !.series = @ \o b.staged, !.read = @ + 1, !.dropped = @ + b.dropped,
                       !.reasons = IF b.hit THEN @ \union {"return_limit"} ELSE @]
    BY <1>1 DEF Commit
  <2>2. QED
    BY <1>1, <2>1 DEF Report
<1>3. /\ w.series = res.series \o g /\ w.read = res.read + 1 /\ w.vanished = res.vanished
      /\ w.unreadable = res.unreadable /\ w.dropped = res.dropped + d /\ w.reasons = R
  BY DEF Report
<1>4. /\ v.read = st.read + 1 /\ v.vanished = st.vanished /\ v.unreadable = st.unreadable
      /\ v.dropped = st.dropped + d /\ v.reasons = st.reasons
  BY DEF StatsRecord
<1>5. R \cup (st.reasons \cap DoneLimits) = st.reasons \ {"candidate_limit"}
  BY DEF Told, DoneLimits
<1> HIDE DEF b, w, R
<1>6. Told(w, v, s \o g)
  BY <1>3, <1>4, <1>5 DEF Told
<1>7. QED
  BY <1>2, <1>6 DEF b

(* One frame more, and two.                                                *)
LEMMA Spoken ==
  ASSUME NEW fs \in Seq(Frames), NEW x \in Frames
  PROVE  /\ fs \o <<x>> \in Seq(Frames) /\ ParsedFrames(fs \o <<x>>) = ParseFrame(ParsedFrames(fs), x)
         /\ \A y \in Frames :
              /\ fs \o <<x, y>> \in Seq(Frames)
              /\ ParsedFrames(fs \o <<x, y>>) = ParseFrame(ParseFrame(ParsedFrames(fs), x), y)
<1>1. fs \o <<x>> = Append(fs, x)
  OBVIOUS
<1>2. \A y \in Frames : fs \o <<x, y>> = Append(Append(fs, x), y)
  <2> SUFFICES ASSUME NEW y \in Frames PROVE fs \o <<x, y>> = Append(Append(fs, x), y)
    OBVIOUS
  <2>1. Len(fs \o <<x, y>>) = Len(fs) + 2 /\ Len(Append(Append(fs, x), y)) = Len(fs) + 2
    OBVIOUS
  <2>2. \A i \in 1..(Len(fs) + 2) : (fs \o <<x, y>>)[i] = Append(Append(fs, x), y)[i]
    OBVIOUS
  <2>3. fs \o <<x, y>> \in Seq(Frames) /\ Append(Append(fs, x), y) \in Seq(Frames)
    OBVIOUS
  <2>4. QED
    BY <2>1, <2>2, <2>3
<1>3. Append(fs, x) \in Seq(Frames) /\ ParsedFrames(Append(fs, x)) = ParseFrame(ParsedFrames(fs), x)
  BY ParseAppend
<1>4. ASSUME NEW y \in Frames
      PROVE  /\ Append(Append(fs, x), y) \in Seq(Frames)
             /\ ParsedFrames(Append(Append(fs, x), y)) = ParseFrame(ParsedFrames(Append(fs, x)), y)
  BY <1>3, ParseAppend
<1>5. QED
  BY <1>1, <1>2, <1>3, <1>4

(* Two frames more.                                                        *)
LEMMA SpokenTwo ==
  ASSUME NEW fs \in Seq(Frames), NEW x \in Frames, NEW y \in Frames
  PROVE  /\ fs \o <<x, y>> \in Seq(Frames)
         /\ ParsedFrames(fs \o <<x, y>>) = ParseFrame(ParseFrame(ParsedFrames(fs), x), y)
BY Spoken

(* A name that leads nowhere, or to a file that cannot be opened.          *)
LEMMA HostSkips ==
  ASSUME ScanInv, HostInv, Vanished \/ Unreadable, transport = "remote"
  PROVE  HostInv'
<1>0. ScanTypeOK /\ PlaceInv
  BY DEF ScanInv
<1>1. PICK b \in Block, res \in Report : ParsedFrames(frames) = <<b, res>>
  BY ParsedType DEF HostInv
<1>2. frames \in Seq(Frames) /\ Told(res, stats, series) /\ b = NoBlock /\ stats \in StatsRecord
  <2>1. pc = "next"
    BY DEF Vanished, Unreadable
  <2>2. QED
    BY <1>0, <1>1, <2>1 DEF HostInv, Staging, ScanTypeOK
<1>3. b.file = <<>>
  BY <1>2 DEF NoBlock
<1>4. pc' = "next" /\ series' = series /\ transport' = transport
  BY DEF Vanished, Unreadable, Skip, NextFile
<1>5. PICK w : /\ frames' \in Seq(Frames) /\ ParsedFrames(frames') = <<b, w>>
               /\ Told(w, stats', series)
  <2>1. CASE Vanished
    <3>1. frames' = frames \o <<Frame("ERR", "vanished", 0)>> /\ Frame("ERR", "vanished", 0) \in Frames
      BY <2>1 DEF Vanished, Says, Frames
    <3>2. stats' = [stats EXCEPT !.vanished = stats.vanished + 1, !.reasons = stats.reasons \cup {"rotation_race"}]
      BY <1>2, <2>1 DEF Vanished, Skip, StatsRecord
    <3> DEFINE w == [res EXCEPT !.vanished = res.vanished + 1, !.reasons = res.reasons \cup {"rotation_race"}]
    <3>3. Told(w, stats', series)
      BY <1>2, <3>2, ToldSkip
    <3>4. frames' \in Seq(Frames) /\ ParsedFrames(frames') = ParseFrame(<<b, res>>, Frame("ERR", "vanished", 0))
      BY <1>1, <1>2, <3>1, Spoken
    <3>5. ParseFrame(<<b, res>>, Frame("ERR", "vanished", 0)) = <<b, w>>
      BY <1>3, ErrorFrame
    <3> HIDE DEF w
    <3>6. QED
      BY <3>3, <3>4, <3>5
  <2>2. CASE Unreadable
    <3>1. frames' = frames \o <<Frame("ERR", "symlink", 0)>> /\ Frame("ERR", "symlink", 0) \in Frames
      BY <2>2 DEF Unreadable, Says, Frames
    <3>2. stats' = [stats EXCEPT !.unreadable = stats.unreadable + 1, !.reasons = stats.reasons \cup {"unreadable"}]
      BY <1>2, <2>2 DEF Unreadable, Skip, StatsRecord
    <3> DEFINE w == [res EXCEPT !.unreadable = res.unreadable + 1, !.reasons = res.reasons \cup {"unreadable"}]
    <3>3. Told(w, stats', series)
      BY <1>2, <3>2, ToldSkip
    <3>4. frames' \in Seq(Frames) /\ ParsedFrames(frames') = ParseFrame(<<b, res>>, Frame("ERR", "symlink", 0))
      BY <1>1, <1>2, <3>1, Spoken
    <3>5. ParseFrame(<<b, res>>, Frame("ERR", "symlink", 0)) = <<b, w>>
      BY <1>3, ErrorFrame
    <3> HIDE DEF w
    <3>6. QED
      BY <3>3, <3>4, <3>5
  <2>3. QED
    BY <2>1, <2>2
<1>6. Staging(b)'
  BY <1>2, <1>4 DEF Staging
<1>7. QED
  BY <1>4, <1>5, <1>6 DEF HostInv

(* A step of which the script says nothing.                                *)
LEMMA HostSilent ==
  ASSUME ScanInv, HostInv, UNCHANGED <<frames, transport, series>>, transport = "remote",
         \/ UNCHANGED <<stats, pc, staged, stop, file>>
         \/ UNCHANGED <<stats, pc, staged, stop>> /\ pc = "read" /\ \E s, k : file' \in {[file EXCEPT !.src = s], [file EXCEPT !.pos = k]}
         \/ /\ pc = "next" /\ pc' = "next"
            /\ \E r \in DoneLimits : stats' = [stats EXCEPT !.reasons = @ \union {r}]
         \/ /\ pc = "list" /\ pc' = "next"
            /\ \E R \in {{}, {"candidate_limit"}} : stats' = [stats EXCEPT !.reasons = R]
  PROVE  HostInv'
<1>0. ScanTypeOK /\ PlaceInv
  BY DEF ScanInv
<1>1. PICK b \in Block, res \in Report : ParsedFrames(frames) = <<b, res>>
  BY ParsedType DEF HostInv
<1>2. frames \in Seq(Frames) /\ Told(res, stats, series) /\ Staging(b) /\ stats \in StatsRecord
  BY <1>0, <1>1 DEF HostInv, ScanTypeOK
<1>3. Told(res, stats', series)
  <2>1. CASE stats' = stats
    BY <1>2, <2>1
  <2>2. CASE \E r \in DoneLimits : stats' = [stats EXCEPT !.reasons = @ \union {r}]
    <3>1. PICK r \in DoneLimits : stats' = [stats EXCEPT !.reasons = stats.reasons \union {r}]
      BY <1>2, <2>2 DEF StatsRecord
    <3>2. QED
      BY <1>2, <3>1, ToldLimit
  <2>3. CASE pc = "list" /\ \E R \in {{}, {"candidate_limit"}} : stats' = [stats EXCEPT !.reasons = R]
    <3>1. stats.reasons = {}
      BY <1>0, <2>3 DEF PlaceInv
    <3>2. PICK R \in {{}, {"candidate_limit"}} : stats' = [stats EXCEPT !.reasons = R]
      BY <2>3
    <3>3. /\ stats'.read = stats.read /\ stats'.vanished = stats.vanished
          /\ stats'.unreadable = stats.unreadable /\ stats'.dropped = stats.dropped
          /\ stats'.reasons = R
      BY <1>2, <3>2 DEF StatsRecord
    <3>4. QED
      BY <1>2, <3>1, <3>3 DEF Told, DoneLimits
  <2>4. QED
    BY <2>1, <2>2, <2>3
<1>4. Staging(b)'
  <2>1. CASE UNCHANGED <<stats, pc, staged, stop, file>>
    BY <1>2, <2>1 DEF Staging
  <2>2. CASE /\ UNCHANGED <<stats, pc, staged, stop>> /\ pc = "read"
             /\ \E s, k : file' \in {[file EXCEPT !.src = s], [file EXCEPT !.pos = k]}
    <3>1. file'.ino = file.ino /\ file'.size = file.size
      BY <1>0, <2>2 DEF ScanTypeOK, FileRecord
    <3>2. QED
      BY <1>2, <2>2, <3>1 DEF Staging
  <2>3. CASE pc \in {"list", "next"} /\ pc' = "next"
    BY <1>2, <2>3 DEF Staging
  <2>4. QED
    BY <2>1, <2>2, <2>3
<1>5. QED
  BY <1>1, <1>2, <1>3, <1>4 DEF HostInv

(* The block of an open file is one.                                       *)
LEMMA BlockOfType ==
  ASSUME NEW ino \in Inodes \cup {0}, NEW size \in Nat, NEW s \in Seq(RunRecord), NEW d \in Nat,
         NEW h \in BOOLEAN
  PROVE  BlockOf(ino, size, s, d, h) \in Block
BY DEF BlockOf, Block

(* Blocks that agree in every field are the same.                          *)
LEMMA SameBlock ==
  ASSUME NEW b \in Block, NEW c \in Block, b.file = c.file, b.staged = c.staged,
         b.dropped = c.dropped, b.hit = c.hit, b.failed = c.failed
  PROVE  b = c
BY DEF Block


(* The account after a step, from what the frames then say.                *)
LEMMA HostAfter ==
  ASSUME NEW b, NEW res, frames' \in Seq(Frames), ParsedFrames(frames') = <<b, res>>,
         Told(res, stats', series'), Staging(b)'
  PROVE  HostInv'
BY DEF HostInv

(* The script opens a file, or finds that it has no budget left.           *)
LEMMA HostOpens ==
  ASSUME ScanInv, HostInv, Open, transport = "remote"
  PROVE  HostInv'
<1>0. ScanTypeOK /\ LogsInv /\ PlaceInv
  BY DEF ScanInv
<1>1. pc = "next" /\ ~stop /\ transport' = transport /\ series' = series /\ staged' = <<>>
  BY DEF Open, Over
<1>2. CASE scanned >= ScanBudget \/ wire - 1 <= 0
  <2>1. UNCHANGED <<frames, pc>>
    BY <1>2 DEF Open
  <2>2. \E r \in DoneLimits : stats' = [stats EXCEPT !.reasons = @ \union {r}]
    BY <1>2 DEF Open, DoneLimits
  <2>3. QED
    BY <1>1, <2>1, <2>2, HostSilent
<1>3. CASE ~(scanned >= ScanBudget \/ wire - 1 <= 0)
  <2>1. PICK b \in Block, res \in Report : ParsedFrames(frames) = <<b, res>>
    BY ParsedType DEF HostInv
  <2>2. frames \in Seq(Frames) /\ Told(res, stats, series) /\ b = NoBlock /\ stats \in StatsRecord
    BY <1>0, <1>1, <2>1 DEF HostInv, Staging, ScanTypeOK
  <2> DEFINE ino == names[cands[at]]
             size == Len(content[ino])
  <2>3. ino \in Inodes /\ size \in Nat
    <3>1. ino \in Inodes
      BY <1>0, OpenFacts
    <3>2. content[ino] \in Seq(Record)
      BY <1>0, <3>1 DEF ScanTypeOK
    <3>3. QED
      BY <3>1, <3>2
  <2>4. /\ pc' = "read" /\ stop' = stop /\ file'.ino = ino /\ file'.size = size
        /\ Says(<<Frame("FILE", ino, size)>>)
        /\ \/ stats' = stats
           \/ stats' = [stats EXCEPT !.reasons = stats.reasons \union {"scan_limit"}]
    <3>1. PICK start \in Starts(content[ino]), torn \in BOOLEAN :
            /\ file' = [ino |-> ino, src |-> IF transport = "local" THEN ino ELSE 0,
                        size |-> size, pos |-> TailStart(start, size), torn |-> torn]
            /\ stats' = [stats EXCEPT !.reasons = IF TailStart(start, size) = start THEN @
                                                  ELSE @ \union {"scan_limit"}]
            /\ pc' = "read" /\ UNCHANGED stop
            /\ Says(<<Frame("FILE", ino, size)>>)
      BY <1>3 DEF Open
    <3>2. file'.ino = ino /\ file'.size = size
      BY <3>1
    <3>3. stats' = [stats EXCEPT !.reasons = stats.reasons]
          \/ stats' = [stats EXCEPT !.reasons = stats.reasons \union {"scan_limit"}]
      BY <2>2, <3>1 DEF StatsRecord
    <3>4. [stats EXCEPT !.reasons = stats.reasons] = stats
      BY <2>2 DEF StatsRecord
    <3>5. QED
      BY <3>1, <3>2, <3>3, <3>4
  <2> HIDE DEF ino, size
  <2>5. Told(res, stats', series)
    BY <2>2, <2>4, ToldLimit DEF DoneLimits
  <2>6. Frame("FILE", ino, size) \in Frames /\ frames' = frames \o <<Frame("FILE", ino, size)>>
    BY <2>3, <2>4 DEF Frames, Says
  <2>7. frames' \in Seq(Frames) /\ ParsedFrames(frames') = ParseFrame(<<b, res>>, Frame("FILE", ino, size))
    BY <2>1, <2>2, <2>6, Spoken
  <2>8. ParseFrame(<<b, res>>, Frame("FILE", ino, size)) = <<[b EXCEPT !.file = <<ino, size>>], res>>
    BY <2>3, FileFrame
  <2>9. PICK c : c = BlockOf(ino, size, <<>>, 0, FALSE)
    OBVIOUS
  <2>10. [b EXCEPT !.file = <<ino, size>>] = c
    <3>0. <<>> \in Seq(RunRecord) /\ ino \in Inodes \cup {0} /\ size \in Nat
      BY <2>3
    <3>1. c \in Block /\ <<ino, size>> \in (Inodes \cup {0}) \X Nat
      BY <2>9, <3>0, BlockOfType
    <3>2. /\ c.file = <<ino, size>> /\ c.staged = b.staged /\ c.dropped = b.dropped
          /\ c.hit = b.hit /\ c.failed = b.failed
      BY <2>2, <2>9 DEF BlockOf, NoBlock
    <3> DEFINE e == [b EXCEPT !.file = <<ino, size>>]
    <3>3. e \in Block /\ e.file = <<ino, size>> /\ e.staged = b.staged /\ e.dropped = b.dropped
          /\ e.hit = b.hit /\ e.failed = b.failed
      BY <3>1 DEF Block
    <3> HIDE DEF e
    <3>4. e = c
      BY <3>1, <3>2, <3>3, SameBlock
    <3>5. QED
      BY <3>4 DEF e
  <2>11. Staging(c)'
    <3>1. c = BlockOf(file'.ino, file'.size, staged', 0, FALSE) /\ ~stop'
      BY <1>1, <2>4, <2>9
    <3>2. QED
      BY <2>4, <3>1 DEF Staging
  <2>12. QED
    <3>1. ParsedFrames(frames') = <<c, res>>
      BY <2>7, <2>8, <2>10
    <3>2. QED
      BY <1>1, <2>5, <2>7, <2>11, <3>1, HostAfter
<1>4. QED
  BY <1>2, <1>3

(* What a flush gives away is one frame, staged on both sides; a refused   *)
(* run is told as a limit.                                                 *)
LEMMA HostFlush ==
  ASSUME ScanTypeOK, Flush(0), frames \in Seq(Frames),
         NEW ino \in Inodes \cup {0}, NEW size \in Nat, NEW res \in Report,
         ParsedFrames(frames) = <<BlockOf(ino, size, staged, 0, FALSE), res>>,
         Told(res, stats, series)
  PROVE  /\ frames \o Runs \in Seq(Frames)
         /\ ParsedFrames(frames \o Runs) = <<BlockOf(ino, size, staged', 0, FALSE), res>>
         /\ Told(res, stats', series) /\ staged' \in Seq(RunRecord) /\ Runs \in Seq(Frames)
         /\ Refused => "return_limit" \in stats'.reasons
         /\ stop' = (stop \/ Refused)
<1>1. stats \in StatsRecord /\ staged \in Seq(RunRecord) /\ run \in RunRecord
  BY DEF ScanTypeOK
<1>2. /\ stats' = [stats EXCEPT !.dropped = @ + 0,
                             !.reasons = IF Refused THEN @ \union {"return_limit"} ELSE @]
      /\ stop' = (stop \/ Refused) /\ staged' = staged \o Flushed
  BY DEF Flush
<1>3. /\ Refused => stats' = [stats EXCEPT !.reasons = stats.reasons \cup {"return_limit"}]
      /\ ~Refused => stats' = stats
  <2>1. stats.dropped + 0 = stats.dropped
    BY <1>1 DEF StatsRecord
  <2>2. CASE Refused
    BY <1>1, <1>2, <2>1, <2>2 DEF StatsRecord
  <2>3. CASE ~Refused
    BY <1>1, <1>2, <2>1, <2>3 DEF StatsRecord
  <2>4. QED
    BY <2>2, <2>3
<1>4. Told(res, stats', series) /\ (Refused => "return_limit" \in stats'.reasons)
  <2>1. CASE Refused
    BY <1>1, <1>3, <2>1, ToldLimit DEF DoneLimits
  <2>2. CASE ~Refused
    BY <1>3, <2>2
  <2>3. QED
    BY <2>1, <2>2
<1>5. CASE run.count > 0 /\ Fits
  <2>1. Flushed = <<run>>
    BY <1>5 DEF Flushed
  <2>2. Runs = <<Frame("RUN", run, 0)>>
    BY <2>1 DEF Runs
  <2>3. staged' = Append(staged, run) /\ staged' \in Seq(RunRecord)
    BY <1>1, <1>2, <2>1
  <2>4. Frame("RUN", run, 0) \in Frames
    BY <1>1 DEF Frames
  <2>5. /\ frames \o Runs \in Seq(Frames)
        /\ ParsedFrames(frames \o Runs) =
             ParseFrame(<<BlockOf(ino, size, staged, 0, FALSE), res>>, Frame("RUN", run, 0))
    BY <2>2, <2>4, Spoken
  <2> DEFINE b == BlockOf(ino, size, staged, 0, FALSE)
  <2>6. b \in Block
    BY <1>1, BlockOfType
  <2>7. [b EXCEPT !.staged = Append(b.staged, run)] = BlockOf(ino, size, staged', 0, FALSE)
    <3> DEFINE e == [b EXCEPT !.staged = Append(b.staged, run)]
               c == BlockOf(ino, size, staged', 0, FALSE)
    <3>1. b.staged = staged /\ Append(b.staged, run) = staged'
      BY <2>3 DEF BlockOf
    <3>2. c \in Block
      BY <2>3, BlockOfType
    <3>3. /\ c.file = b.file /\ c.staged = staged' /\ c.dropped = b.dropped
          /\ c.hit = b.hit /\ c.failed = b.failed
      BY DEF BlockOf
    <3>4. e \in Block /\ e.file = b.file /\ e.staged = staged' /\ e.dropped = b.dropped
          /\ e.hit = b.hit /\ e.failed = b.failed
      <4> HIDE DEF b
      <4>1. QED
        BY <2>3, <2>6, <3>1 DEF Block
    <3> HIDE DEF e, c
    <3>5. e = c
      BY <3>2, <3>3, <3>4, SameBlock
    <3>6. QED
      BY <3>5 DEF e, c
  <2> HIDE DEF b
  <2>8. ParseFrame(<<b, res>>, Frame("RUN", run, 0)) = <<[b EXCEPT !.staged = Append(b.staged, run)], res>>
    BY <1>1, <2>6, RunFrame
  <2>9. Runs \in Seq(Frames)
    BY <2>2, <2>4
  <2>10. QED
    BY <1>2, <1>4, <2>3, <2>5, <2>7, <2>8, <2>9 DEF b
<1>6. CASE ~(run.count > 0 /\ Fits)
  <2>1. Flushed = <<>>
    BY <1>6 DEF Flushed
  <2>2. Runs = <<>>
    BY <2>1 DEF Runs
  <2>3. staged' = staged /\ frames \o Runs = frames /\ Runs \in Seq(Frames)
    BY <1>1, <1>2, <2>1, <2>2
  <2>4. QED
    BY <1>1, <1>2, <1>4, <2>3
<1>7. QED
  BY <1>5, <1>6

(* A record of the file the script reads.                                  *)
LEMMA HostReads ==
  ASSUME ScanInv, HostInv, ReadRecord, transport = "remote"
  PROVE  HostInv'
<1>0. ScanTypeOK
  BY DEF ScanInv
<1>1. pc = "read" /\ pc' = pc /\ ~stop /\ transport' = transport /\ series' = series
      /\ file' = [file EXCEPT !.pos = @ + 1]
  BY DEF ReadRecord
<1> DEFINE r == content[file.src][file.pos + 1]
<1>2. CASE ~Requested(r) \/ Joins(r.kind, file.pos + 1)
  <2>1. UNCHANGED <<staged, stop, stats, frames>>
    BY <1>2 DEF ReadRecord, Feed
  <2>2. file' = [file EXCEPT !.pos = file.pos + 1]
    BY <1>0, <1>1 DEF ScanTypeOK, FileRecord
  <2>3. QED
    BY <1>1, <2>1, <2>2, HostSilent
<1>3. CASE Requested(r) /\ ~Joins(r.kind, file.pos + 1)
  <2>1. Flush(0) /\ Says(Runs)
    BY <1>3 DEF ReadRecord, Feed
  <2>2. PICK b \in Block, res \in Report : ParsedFrames(frames) = <<b, res>>
    BY ParsedType DEF HostInv
  <2>3. /\ frames \in Seq(Frames) /\ Told(res, stats, series)
        /\ b = BlockOf(file.ino, file.size, staged, 0, FALSE)
    BY <1>1, <2>2 DEF HostInv, Staging
  <2>4. file.ino \in Inodes \cup {0} /\ file.size \in Nat
        /\ file'.ino = file.ino /\ file'.size = file.size
    BY <1>0, <1>1 DEF ScanTypeOK, FileRecord
  <2>5. frames' = frames \o Runs
    BY <2>1 DEF Says
  <2>6. /\ frames' \in Seq(Frames)
        /\ ParsedFrames(frames') = <<BlockOf(file.ino, file.size, staged', 0, FALSE), res>>
        /\ Told(res, stats', series)
        /\ stop' => "return_limit" \in stats'.reasons
    BY <1>0, <1>1, <2>1, <2>2, <2>3, <2>4, <2>5, HostFlush
  <2>7. PICK c : c = BlockOf(file.ino, file.size, staged', 0, FALSE)
    OBVIOUS
  <2>8. Staging(c)'
    <3>1. c = BlockOf(file'.ino, file'.size, staged', 0, FALSE)
      BY <2>4, <2>7
    <3>2. QED
      BY <1>1, <2>6, <3>1 DEF Staging
  <2>9. ParsedFrames(frames') = <<c, res>>
    BY <2>6, <2>7
  <2>10. QED
    BY <1>1, <2>6, <2>8, <2>9, HostAfter
<1>4. QED
  BY <1>2, <1>3
(* The end of the range: META tells what was dropped and whether the wire  *)
(* budget was hit.                                                         *)
LEMMA HostEnds ==
  ASSUME ScanInv, HostInv, EndRange, transport = "remote"
  PROVE  HostInv'
<1>0. ScanTypeOK
  BY DEF ScanInv
<1>1. pc = "read" /\ pc' = "check" /\ transport' = transport /\ series' = series
  BY DEF EndRange
<1>2. PICK b \in Block, res \in Report : ParsedFrames(frames) = <<b, res>>
  BY ParsedType DEF HostInv
<1>3. /\ frames \in Seq(Frames) /\ Told(res, stats, series)
      /\ b = BlockOf(file.ino, file.size, staged, 0, FALSE)
      /\ stop => "return_limit" \in stats.reasons
  BY <1>1, <1>2 DEF HostInv, Staging
<1> DEFINE torn == IF file.torn /\ ~stop THEN 1 ELSE 0
           hit == Refused \/ stop
           meta == Frame("META", torn, hit)
<1>4. /\ file.ino \in Inodes \cup {0} /\ file.size \in Nat /\ staged \in Seq(RunRecord)
      /\ file'.ino = file.ino /\ file'.size = file.size /\ file'.torn = (torn = 1)
      /\ torn \in {0, 1} /\ hit \in BOOLEAN /\ stop \in BOOLEAN
  <2>1. file' = [file EXCEPT !.torn = torn = 1]
    BY DEF EndRange
  <2>2. hit \in BOOLEAN /\ stop \in BOOLEAN /\ file \in FileRecord /\ staged \in Seq(RunRecord)
    BY <1>0 DEF Refused, ScanTypeOK
  <2>3. torn \in {0, 1}
    OBVIOUS
  <2> HIDE DEF torn, hit
  <2>4. QED
    BY <2>1, <2>2, <2>3 DEF FileRecord
<1>5. /\ frames' \in Seq(Frames)
      /\ ParsedFrames(frames') =
           ParseFrame(<<BlockOf(file.ino, file.size, staged', 0, FALSE), res>>, meta)
      /\ Told(res, stats', series) /\ staged' \in Seq(RunRecord)
      /\ hit \/ stop' => "return_limit" \in stats'.reasons
  <2>1. meta \in Frames
    <3> HIDE DEF torn, hit
    <3>1. QED
      BY <1>4 DEF Frames
  <2>2. CASE stop
    <3>1. frames' = frames \o <<meta>> /\ UNCHANGED <<staged, stop, stats>>
      BY <2>2 DEF EndRange, Says
    <3> HIDE DEF meta, hit
    <3>2. QED
      BY <1>2, <1>3, <1>4, <2>1, <2>2, <3>1, Spoken
  <2>3. CASE ~stop
    <3>1. Flush(0) /\ Says(Append(Runs, meta))
      BY <2>3 DEF EndRange
    <3> DEFINE fs == frames \o Runs
    <3>2. /\ fs \in Seq(Frames)
          /\ ParsedFrames(fs) = <<BlockOf(file.ino, file.size, staged', 0, FALSE), res>>
          /\ Told(res, stats', series) /\ staged' \in Seq(RunRecord) /\ Runs \in Seq(Frames)
          /\ Refused => "return_limit" \in stats'.reasons
          /\ stop' = (stop \/ Refused)
      BY <1>0, <1>2, <1>3, <1>4, <3>1, HostFlush
    <3>3. frames' = frames \o Append(Runs, meta)
      BY <3>1 DEF Says
    <3> HIDE DEF meta
    <3>4. frames \o Append(Runs, meta) = fs \o <<meta>>
      BY <1>3, <2>1, <3>2
    <3> HIDE DEF fs
    <3>5. fs \o <<meta>> \in Seq(Frames) /\ ParsedFrames(fs \o <<meta>>) = ParseFrame(ParsedFrames(fs), meta)
      BY <2>1, <3>2, Spoken
    <3>6. QED
      BY <2>3, <3>2, <3>3, <3>4, <3>5
  <2>4. QED
    BY <2>2, <2>3
<1>6. PICK c : c = BlockOf(file.ino, file.size, staged', 0, FALSE)
  OBVIOUS
<1>7. PICK d : d = BlockOf(file.ino, file.size, staged', torn, hit)
  OBVIOUS
<1>8. c \in Block /\ d \in Block
  <2> HIDE DEF torn, hit
  <2>1. torn \in Nat
    BY <1>4
  <2>2. QED
    BY <1>4, <1>5, <1>6, <1>7, <2>1, BlockOfType
<1> HIDE DEF torn, hit
<1>9. ParseFrame(<<c, res>>, meta) = <<[c EXCEPT !.dropped = c.dropped + torn, !.hit = hit], res>>
  <2>1. ASSUME NEW n \in {0, 1}, NEW h \in BOOLEAN
        PROVE  ParseFrame(<<c, res>>, Frame("META", n, h)) =
                 <<[c EXCEPT !.dropped = c.dropped + n, !.hit = h], res>>
    BY <1>2, <1>8 DEF ParseFrame, Frame
  <2>2. QED
    BY <1>4, <2>1
<1>10. [c EXCEPT !.dropped = c.dropped + torn, !.hit = hit] = d
  <2>1. c.dropped = 0 /\ c.dropped + torn = torn /\ torn \in Nat
    BY <1>4, <1>6 DEF BlockOf
  <2> DEFINE e == [c EXCEPT !.dropped = torn, !.hit = hit]
  <2>2. [c EXCEPT !.dropped = torn] \in Block
    BY <1>8, <2>1 DEF Block
  <2>3. e \in Block /\ e.file = c.file /\ e.staged = c.staged /\ e.dropped = torn
        /\ e.hit = hit /\ e.failed = c.failed
    BY <1>4, <1>8, <2>1, <2>2 DEF Block
  <2>4. d.file = c.file /\ d.staged = c.staged /\ d.dropped = torn /\ d.hit = hit /\ d.failed = c.failed
    BY <1>6, <1>7 DEF BlockOf
  <2> HIDE DEF e
  <2>5. e = d
    BY <1>8, <2>3, <2>4, SameBlock
  <2>6. QED
    BY <2>1, <2>5 DEF e
<1>11. ParsedFrames(frames') = <<d, res>>
  BY <1>5, <1>6, <1>9, <1>10
<1>12. Staging(d)'
  <2>1. torn = IF file'.torn THEN 1 ELSE 0
    BY <1>4
  <2>2. d = BlockOf(file'.ino, file'.size, staged', IF file'.torn THEN 1 ELSE 0, hit)
    BY <1>4, <1>7, <2>1
  <2>3. PICK h \in BOOLEAN : h = hit
    BY <1>4
  <2>4. d = BlockOf(file'.ino, file'.size, staged', IF file'.torn THEN 1 ELSE 0, h)
        /\ (h => "return_limit" \in stats'.reasons) /\ (stop' => "return_limit" \in stats'.reasons)
    BY <1>5, <2>2, <2>3
  <2>5. QED
    BY <1>1, <2>4 DEF Staging
<1>13. QED
  BY <1>1, <1>5, <1>11, <1>12, HostAfter
(* The reader of the file fails on the host: the block is not committed.   *)
LEMMA HostFails ==
  ASSUME ScanInv, HostInv, ReadError, transport = "remote"
  PROVE  HostInv'
<1>0. ScanTypeOK /\ PlaceInv
  BY DEF ScanInv
<1>1. pc = "read" /\ pc' = "next" /\ transport' = transport /\ series' = series
  BY DEF ReadError, NextFile, Skip
<1>2. PICK b \in Block, res \in Report : ParsedFrames(frames) = <<b, res>>
  BY ParsedType DEF HostInv
<1>3. /\ frames \in Seq(Frames) /\ Told(res, stats, series) /\ stats \in StatsRecord
      /\ b = BlockOf(file.ino, file.size, staged, 0, FALSE)
  BY <1>0, <1>1, <1>2 DEF HostInv, Staging, ScanTypeOK
<1>4. PICK i \in Inodes \cup {0}, n \in Nat : Stat(cands[at]) = Frame("FILE_END", i, n)
  <2>1. cands[at] \in Names
    BY <1>0, <1>1 DEF PlaceInv, ScanTypeOK
  <2>2. CASE Exists(cands[at])
    <3>1. names[cands[at]] \in Inodes
      BY <1>0, <2>1, <2>2 DEF Exists, ScanTypeOK
    <3>2. content[names[cands[at]]] \in Seq(Record)
      BY <1>0, <3>1 DEF ScanTypeOK
    <3>3. Len(RecordsOf(cands[at])) \in Nat
      BY <2>2, <3>2 DEF RecordsOf
    <3>4. QED
      BY <2>2, <3>1, <3>3 DEF Stat
  <2>3. CASE ~Exists(cands[at])
    BY <2>3 DEF Stat
  <2>4. QED
    BY <2>2, <2>3
<1> DEFINE x == Frame("ERR", "producer", 0)
           y == Frame("FILE_END", i, n)
           c == [b EXCEPT !.failed = "producer"]
           w == [res EXCEPT !.unreadable = res.unreadable + 1, !.reasons = res.reasons \cup {"unreadable"}]
<1>5. frames' = frames \o <<x, y>> /\ x \in Frames /\ y \in Frames
  BY <1>4 DEF ReadError, Says, Frames
<1>6. frames' \in Seq(Frames) /\ ParsedFrames(frames') = ParseFrame(ParseFrame(<<b, res>>, x), y)
  <2> HIDE DEF x, y
  <2>1. /\ frames \o <<x, y>> \in Seq(Frames)
        /\ ParsedFrames(frames \o <<x, y>>) = ParseFrame(ParseFrame(ParsedFrames(frames), x), y)
    BY <1>3, <1>5, SpokenTwo
  <2>2. QED
    BY <1>2, <1>5, <2>1
<1>7. ParseFrame(<<b, res>>, x) = <<c, res>>
  <2>1. b.file # <<>>
    BY <1>3 DEF BlockOf
  <2>2. QED
    BY <1>2, <2>1, ErrorFrame
<1>8. c \in Block /\ c.failed # "no"
  BY <1>2 DEF Block
<1>9. ParseFrame(<<c, res>>, y) = <<NoBlock, Commit(c, res, i, n)>>
  <2> HIDE DEF c
  <2>1. QED
    BY <1>2, <1>4, <1>8, FileFrame
<1>10. Commit(c, res, i, n) = w
  <2> HIDE DEF c
  <2>1. QED
    BY <1>8 DEF Commit
<1>11. stats' = [stats EXCEPT !.unreadable = stats.unreadable + 1, !.reasons = stats.reasons \cup {"unreadable"}]
  BY <1>3 DEF ReadError, Skip, StatsRecord
<1>12. Told(w, stats', series)
  BY <1>2, <1>3, <1>11, ToldSkip
<1> HIDE DEF w, c, x, y
<1>13. Staging(NoBlock)'
  BY <1>1 DEF Staging
<1>14. ParsedFrames(frames') = <<NoBlock, w>>
  BY <1>6, <1>7, <1>9, <1>10
<1>15. QED
  BY <1>1, <1>6, <1>12, <1>13, <1>14, HostAfter

(* The check of the file: the collector commits the block when the host    *)
(* counts the file as read.                                                *)
LEMMA HostChecks ==
  ASSUME ScanInv, HostInv, Check, transport = "remote"
  PROVE  HostInv'
<1>0. ScanTypeOK /\ PlaceInv
  BY DEF ScanInv
<1>1. pc = "check" /\ pc' = "next" /\ transport' = transport
  BY DEF Check, NextFile
<1>2. PICK b \in Block, res \in Report : ParsedFrames(frames) = <<b, res>>
  BY ParsedType DEF HostInv
<1> DEFINE d == IF file.torn THEN 1 ELSE 0
<1>3. /\ frames \in Seq(Frames) /\ Told(res, stats, series) /\ stats \in StatsRecord
      /\ staged \in Seq(RunRecord) /\ series \in Seq(RunRecord) /\ file \in FileRecord
  BY <1>0, <1>1, <1>2 DEF HostInv, ScanTypeOK
<1>4. PICK h \in BOOLEAN : /\ b = BlockOf(file.ino, file.size, staged, d, h)
                           /\ h => "return_limit" \in stats.reasons
  BY <1>1, <1>2 DEF HostInv, Staging
<1>5. file.ino \in Inodes /\ file.size \in Nat /\ d \in Nat /\ 0 \notin Inodes
  BY <1>0, <1>1, <1>3, InodesNat DEF PlaceInv, FileRecord
<1>6. PICK i \in Inodes \cup {0}, n \in Nat :
        /\ frames' = frames \o <<Frame("FILE_END", i, n)>>
        /\ Intact <=> i = file.ino /\ file.size <= n
  <2>1. cands[at] \in Names /\ names[cands[at]] \in Inodes \cup {0}
    BY <1>0, <1>1 DEF PlaceInv, ScanTypeOK
  <2>2. Says(<<IF file.size = 0 THEN Frame("FILE_END", file.ino, 0) ELSE Stat(cands[at])>>)
    BY DEF Check
  <2>3. CASE file.size = 0
    <3>1. frames' = frames \o <<Frame("FILE_END", file.ino, 0)>> /\ Intact
      BY <2>2, <2>3 DEF Says, Intact
    <3>2. QED
      BY <1>5, <2>3, <3>1
  <2>4. CASE file.size # 0 /\ Exists(cands[at])
    <3>1. names[cands[at]] \in Inodes /\ content[names[cands[at]]] \in Seq(Record)
      BY <1>0, <2>1, <2>4 DEF Exists, ScanTypeOK
    <3> DEFINE m == Len(content[names[cands[at]]])
    <3>2. m \in Nat /\ frames' = frames \o <<Frame("FILE_END", names[cands[at]], m)>>
      BY <2>2, <2>4, <3>1 DEF Says, Stat, RecordsOf
    <3>3. Intact <=> names[cands[at]] = file.ino /\ file.size <= m
      <4>1. Intact <=> names[cands[at]] = file.ino /\ Len(content[file.ino]) >= file.size
        BY <2>4 DEF Intact
      <4>2. CASE names[cands[at]] = file.ino
        <5> HIDE DEF m
        <5>1. Intact <=> m >= file.size
          BY <4>1, <4>2 DEF m
        <5>2. QED
          BY <1>5, <3>2, <4>2, <5>1
      <4>3. CASE names[cands[at]] # file.ino
        BY <4>1, <4>3
      <4>4. QED
        BY <4>2, <4>3
    <3> HIDE DEF m
    <3>4. QED
      BY <3>1, <3>2, <3>3
  <2>5. CASE file.size # 0 /\ ~Exists(cands[at])
    <3>1. frames' = frames \o <<Frame("FILE_END", 0, 0)>>
      BY <2>2, <2>5 DEF Says, Stat
    <3>2. ~Intact /\ file.ino # 0
      BY <1>5, <2>5 DEF Intact, Exists
    <3>3. QED
      BY <3>1, <3>2
  <2>6. QED
    BY <2>3, <2>4, <2>5
<1>7. /\ frames' \in Seq(Frames)
      /\ ParsedFrames(frames') = <<NoBlock, Commit(b, res, i, n)>>
  <2> DEFINE y == Frame("FILE_END", i, n)
  <2>1. y \in Frames
    BY DEF Frames
  <2>2. ParseFrame(<<b, res>>, y) = <<NoBlock, Commit(b, res, i, n)>>
    BY <1>2, <1>6, FileFrame
  <2> HIDE DEF y
  <2>3. frames' = frames \o <<y>>
    BY <1>6 DEF y
  <2>4. QED
    BY <1>2, <1>3, <2>1, <2>2, <2>3, Spoken
<1>8. Told(Commit(b, res, i, n), stats', series')
  <2>1. CASE Intact
    <3>1. stats' = [stats EXCEPT !.read = stats.read + 1, !.dropped = stats.dropped + d]
          /\ series' = series \o staged
      <4>1. series' = series \o staged
        BY <2>1 DEF Check
      <4>2. stats' = [stats EXCEPT !.read = stats.read + 1,
                        !.dropped = IF file.torn THEN stats.dropped + 1 ELSE stats.dropped]
        BY <1>3, <2>1 DEF Check, StatsRecord
      <4>3. (IF file.torn THEN stats.dropped + 1 ELSE stats.dropped) = stats.dropped + d
        BY <1>3 DEF StatsRecord
      <4>4. QED
        BY <4>1, <4>2, <4>3
    <3>2. i = file.ino /\ file.size <= n
      BY <1>6, <2>1
    <3> HIDE DEF d
    <3>3. QED
      BY <1>2, <1>3, <1>4, <1>5, <1>6, <3>1, <3>2, ToldCommit
  <2>2. CASE ~Intact
    <3>1. stats' = [stats EXCEPT !.vanished = stats.vanished + 1, !.reasons = stats.reasons \cup {"rotation_race"}]
          /\ series' = series
      BY <1>3, <2>2 DEF Check, StatsRecord
    <3>2. /\ b.failed = "no" /\ b.file[1] = file.ino /\ b.file[2] = file.size
      BY <1>4 DEF BlockOf
    <3>3. Commit(b, res, i, n) =
            [res EXCEPT !.vanished = res.vanished + 1, !.reasons = res.reasons \cup {"rotation_race"}]
      BY <1>6, <2>2, <3>2 DEF Commit
    <3>4. QED
      BY <1>2, <1>3, <3>1, <3>3, ToldSkip
  <2>3. QED
    BY <2>1, <2>2
<1>9. Staging(NoBlock)'
  BY <1>1 DEF Staging
<1>10. QED
  BY <1>7, <1>8, <1>9, HostAfter
(* The account is kept by every step of the scan.                          *)
LEMMA HostStep == ASSUME ScanInv, HostInv, Moves PROVE HostInv'
<1>1. transport' = transport
  BY DEF Moves, Server, List, DeadlineHit, Vanished, Unreadable, Skip, Open, TailOpens,
         ReadError, ReadRecord, DeadlineInFile, EndRange, Check
<1>2. CASE transport # "remote"
  BY <1>1, <1>2 DEF HostInv
<1>3. CASE transport = "remote"
  <2>1. CASE Server
    <3>1. UNCHANGED <<frames, transport, series, stats, pc, staged, stop, file>>
      BY <2>1 DEF Server, read
    <3>2. QED
      BY <1>3, <3>1, HostSilent
  <2>2. CASE List
    <3>1. UNCHANGED <<frames, transport, series>> /\ pc = "list" /\ pc' = "next"
      BY <2>2 DEF List
    <3>2. \E R \in {{}, {"candidate_limit"}} : stats' = [stats EXCEPT !.reasons = R]
      BY <2>2 DEF List
    <3>3. QED
      BY <1>3, <3>1, <3>2, HostSilent
  <2>3. CASE DeadlineHit
    <3>1. UNCHANGED <<frames, transport, series>> /\ pc = "next" /\ pc' = "next"
      BY <2>3 DEF DeadlineHit
    <3>2. \E r \in DoneLimits : stats' = [stats EXCEPT !.reasons = @ \union {r}]
      BY <2>3 DEF DeadlineHit, DoneLimits
    <3>3. QED
      BY <1>3, <3>1, <3>2, HostSilent
  <2>4. CASE TailOpens
    <3>1. UNCHANGED <<frames, transport, series, stats, pc, staged, stop>> /\ pc = "read"
      BY <2>4 DEF TailOpens
    <3>2. file' = [file EXCEPT !.src = names[cands[at]]]
      BY <2>4 DEF TailOpens
    <3>3. \E s, k : file' \in {[file EXCEPT !.src = s], [file EXCEPT !.pos = k]}
      BY <3>2
    <3>4. QED
      BY <1>3, <3>1, <3>3, HostSilent
  <2>5. CASE DeadlineInFile
    BY <1>3, <2>5 DEF DeadlineInFile
  <2>6. QED
    BY <1>3, <2>1, <2>2, <2>3, <2>4, <2>5, HostSkips, HostOpens, HostReads, HostEnds, HostFails,
       HostChecks DEF Moves
<1>4. QED
  BY <1>2, <1>3

(* The account at the start.                                               *)
LEMMA InitHost == ASSUME Init PROVE HostInv
<1>1. frames = <<>> /\ pc = "list" /\ series = <<>> /\ stats = NoStats
  BY DEF Init
<1>2. frames \in Seq(Frames) /\ ParsedFrames(frames) = <<NoBlock, Account(NoStats, <<>>)>>
  BY <1>1, ParseNothing DEF ParseStart
<1>3. Told(Account(NoStats, <<>>), stats, series)
  BY <1>1 DEF Told, Account, NoStats
<1>4. Staging(NoBlock)
  BY <1>1 DEF Staging
<1>5. QED
  BY <1>2, <1>3, <1>4 DEF HostInv

(* Reports that agree in every field are the same.                         *)
LEMMA SameReport ==
  ASSUME NEW a \in Report, NEW c \in Report, a.read = c.read, a.vanished = c.vanished,
         a.unreadable = c.unreadable, a.dropped = c.dropped, a.reasons = c.reasons,
         a.series = c.series
  PROVE  a = c
BY DEF Report

(* At the end of the scan the account is the collector's result: DONE adds *)
(* the limits.                                                             *)
LEMMA HostAgrees ==
  ASSUME ScanInv, HostInv, pc = "next"
  PROVE  ParserAgrees
<1>1. SUFFICES ASSUME transport = "remote"
               PROVE  Parse(frames, stats.reasons \cap {"scan_limit", "return_limit", "time_limit"}) =
                        Account([stats EXCEPT !.reasons = @ \ {"candidate_limit"}], series)
  BY DEF ParserAgrees
<1>2. PICK b \in Block, res \in Report : ParsedFrames(frames) = <<b, res>>
  BY <1>1, ParsedType DEF HostInv
<1>3. Told(res, stats, series) /\ stats \in StatsRecord
  BY <1>1, <1>2 DEF HostInv, ScanInv, ScanTypeOK
<1> DEFINE l == stats.reasons \cap DoneLimits
           v == [stats EXCEPT !.reasons = stats.reasons \ {"candidate_limit"}]
           w == [res EXCEPT !.reasons = res.reasons \cup l]
<1>4. Parse(frames, l) = w
  <2>1. FoldLeft(ParseFrame, <<NoBlock, Account(NoStats, <<>>)>>, frames) = <<b, res>>
    BY <1>2 DEF ParsedFrames, ParseStart
  <2> HIDE DEF l
  <2>2. Parse(frames, l) = [<<b, res>>[2] EXCEPT !.reasons = @ \union l]
    BY <2>1 DEF Parse
  <2>3. <<b, res>>[2] = res
    OBVIOUS
  <2>4. QED
    BY <2>2, <2>3
<1>5. /\ v.read = stats.read /\ v.vanished = stats.vanished /\ v.unreadable = stats.unreadable
      /\ v.dropped = stats.dropped /\ v.reasons = stats.reasons \ {"candidate_limit"}
  BY <1>3 DEF StatsRecord
<1>6. w = Account(v, series)
  <2> DEFINE a == Account(v, series)
  <2>1. /\ a.read = stats.read /\ a.vanished = stats.vanished /\ a.unreadable = stats.unreadable
        /\ a.dropped = stats.dropped /\ a.reasons = stats.reasons \ {"candidate_limit"}
        /\ a.series = series
    <3> HIDE DEF v
    <3>1. QED
      BY <1>5 DEF Account
  <2>2. a \in Report
    <3>1. series \in Seq(RunRecord)
      BY DEF ScanInv, ScanTypeOK
    <3>2. stats.reasons \ {"candidate_limit"} \in SUBSET Reasons
      BY <1>3 DEF StatsRecord
    <3> HIDE DEF v
    <3>3. QED
      BY <1>3, <1>5, <3>1, <3>2 DEF Account, Report, StatsRecord
  <2>3. /\ w.read = stats.read /\ w.vanished = stats.vanished /\ w.unreadable = stats.unreadable
        /\ w.dropped = stats.dropped /\ w.reasons = stats.reasons \ {"candidate_limit"}
        /\ w.series = series
    BY <1>2, <1>3 DEF Told, Report
  <2>4. w \in Report
    <3>1. res.reasons \cup l \in SUBSET Reasons
      BY <1>2, <1>3 DEF Report, StatsRecord
    <3> HIDE DEF l
    <3>2. QED
      BY <1>2, <3>1 DEF Report
  <2> HIDE DEF a, w
  <2>5. w = a
    BY <2>1, <2>2, <2>3, <2>4, SameReport
  <2>6. QED
    BY <2>5 DEF a
<1>7. v = [stats EXCEPT !.reasons = @ \ {"candidate_limit"}]
  BY <1>3 DEF StatsRecord
<1>8. QED
  BY <1>4, <1>6, <1>7 DEF DoneLimits
(* The invariant with the account.                                         *)
HostIInv == IInv /\ (pc # "done" => HostInv)

(* Every step keeps the invariant and the account.                         *)
LEMMA NextHost == ASSUME HostIInv, [Next]_vars PROVE HostIInv'
<1>1. IInv'
  BY NextScan DEF HostIInv
<1>2. ASSUME pc' # "done" PROVE HostInv'
  <2>1. CASE vars' = vars
    <3>1. UNCHANGED <<transport, frames, stats, series, pc, file, staged, stop>>
      BY <2>1 DEF vars
    <3>2. HostInv
      BY <1>2, <3>1 DEF HostIInv
    <3>3. QED
      BY <3>1, <3>2 DEF HostInv, Staging
  <2>2. CASE Next
    <3>1. Moves
      BY <1>2, <2>2 DEF Next, Scan, Moves, NotListed, NotCapable, Fails, BuildWindow, PhaseEnds
    <3>2. pc # "done"
      BY <3>1 DEF Moves, Server, List, DeadlineHit, Vanished, Unreadable, Open, TailOpens, ReadError,
             ReadRecord, DeadlineInFile, EndRange, Check
    <3>3. QED
      BY <3>1, <3>2, HostStep DEF HostIInv, IInv
  <2>3. QED
    BY <2>1, <2>2
<1>3. QED
  BY <1>1, <1>2 DEF HostIInv

(* What parse_output reads out of the script's frames is what the host has *)
(* read, in every interleaving with the server and at every limit: the     *)
(* same committed runs, the same counters, the same reasons.               *)
THEOREM HostTold == Spec => []ParserAgrees
<1>1. Init => HostIInv
  BY InitScan, InitHost DEF HostIInv
<1>2. HostIInv => ParserAgrees
  <2>1. CASE pc = "next"
    BY <2>1, HostAgrees DEF HostIInv, IInv
  <2>2. CASE pc # "next"
    BY <2>2 DEF ParserAgrees
  <2>3. QED
    BY <2>1, <2>2
<1>3. HostIInv /\ [Next]_vars => HostIInv'
  BY NextHost
<1>4. QED
  BY <1>1, <1>2, <1>3, PTL DEF Spec

-----------------------------------------------------------------------------
(* The run around the scan.                                                *)

(* When each phase begins at the latest.                                   *)
TimeInv ==
  /\ phase \in {"start", "collect", "publish"} => now <= Soft
  /\ phase \in {"undo", "clean"} => now <= Soft + StopMax
  /\ phase = "close" => now <= Soft + StopMax + CleanupMax + JoinMax
  /\ now <= Deadline

(* What the writer has done by each phase; after the publishing only a     *)
(* writer that was given up can touch a file.                              *)
DiskInv ==
  /\ temps \cap new = {}
  /\ phase \in {"start", "undo", "collect"} => writer = "none" /\ new = {} /\ temps = {}
  /\ phase = "publish" <=> writer \in {"run", "blocked", "done", "failed"}
  /\ writer = "done" => new = formats
  /\ writer = "doomed" => "stalled" \in gaps
  /\ phase \in {"close", "ended"} /\ gaps = {} => temps = {}
  /\ outcome = "none" <=> phase \in {"start", "collect", "publish"}
  /\ outcome = "report" => new = formats /\ writer = "gone"
  /\ phase = "ended" => closing = remote

RunInv == TypeOK /\ TimeInv /\ DiskInv

(* A run starts with them. *)
LEMMA RunInitInv == RunInit => RunInv
<1> SUFFICES ASSUME RunInit PROVE RunInv
  OBVIOUS
<1> USE LogsRunAssumption DEF RunInit
<1>1. TypeOK
  BY DEF TypeOK
<1>2. TimeInv
  BY DEF TimeInv
<1>3. DiskInv
  BY DEF DiskInv
<1>4. QED
  BY <1>1, <1>2, <1>3 DEF RunInv

(* A bounded await that ends by itself takes what its bound allows.        *)
LEMMA Ends ==
  ASSUME TypeOK, NEW t \in Int, EndsBy(t)
  PROVE  now' \in Nat /\ now' <= t /\ (armed => now' <= Soft)
  BY DEF TypeOK, EndsBy

(* One that is interrupted ends by the alarm, or at once, and the stopping *)
(* is added.                                                               *)
LEMMA Interrupts ==
  ASSUME TypeOK, NEW d \in Nat, Interrupt(d)
  PROVE  /\ now' \in Nat /\ armed' \in BOOLEAN /\ outcome' \in {"cancelled", "deadline"}
         /\ now' <= Soft + d \/ now' <= now + d
<1>1. now \in Nat /\ Soft \in Nat /\ armed \in BOOLEAN
  BY LogsRunAssumption DEF TypeOK
<1>2. CASE Alarm(d)
  <2>1. armed' = FALSE /\ outcome' = "deadline"
    BY <1>2 DEF Alarm
  <2>2. now' \in Soft .. Soft + d \/ now' \in now .. now + d
    BY <1>2 DEF Alarm
  <2>3. now' \in Nat /\ (now' <= Soft + d \/ now' <= now + d)
    BY <1>1, <2>2
  <2>4. QED
    BY <2>1, <2>3
<1>3. CASE Cancel(d)
  <2>1. CASE armed /\ now < Soft
    BY <1>1, <1>3, <2>1 DEF Cancel
  <2>2. CASE ~(armed /\ now < Soft)
    BY <1>1, <1>3, <2>2 DEF Cancel
  <2>3. QED
    BY <2>1, <2>2
<1>4. QED
  BY <1>2, <1>3 DEF Interrupt

(* The limits are what is left until the deadline, at most.                *)
LEMMA Limits ==
  ASSUME TypeOK, now <= Deadline
  PROVE  /\ CloseLimit \in Nat /\ CloseLimit <= Deadline - now
         /\ CleanupLimit \in Nat /\ CleanupLimit <= CleanupMax
         /\ CleanupLimit <= Deadline - now
  BY LogsRunAssumption DEF TypeOK, CloseLimit, CleanupLimit, Least

(* A call of the writer creates a temporary file or makes it the file.     *)
LEMMA FileCalls ==
  ASSUME TypeOK, DiskInv, CreateTemp \/ Replace
  PROVE  temps' \in SUBSET formats /\ new' \in SUBSET formats /\ temps' \cap new' = {}
  BY DEF TypeOK, DiskInv, CreateTemp, Replace

(* Every step keeps the types.                                             *)
LEMMA RunTypeStep == ASSUME TypeOK, TimeInv, DiskInv, [RunNext]_runVars PROVE TypeOK'
<1> USE LogsRunAssumption DEF TypeOK, TimeInv
<1>1. CASE RunStart
  BY <1>1, Ends, Interrupts DEF RunStart, disk
<1>2. CASE Undo
  BY <1>2, Ends, Interrupts, Limits DEF Undo, Closes, disk
<1>3. CASE Collect
  BY <1>3, Ends, Interrupts DEF Collect, disk
<1>4. CASE Write
  BY <1>4, FileCalls DEF Write, disk
<1>5. CASE WriteFails
  BY <1>5 DEF WriteFails, disk
<1>6. CASE WriteEnds
  BY <1>6 DEF WriteEnds, disk
<1>7. CASE Stall
  BY <1>7 DEF Stall, disk
<1>8. CASE DoomedEnds
  BY <1>8, FileCalls DEF DoomedEnds, disk
<1>9. CASE Publish
  BY <1>9, Ends DEF Publish, disk
<1>10. CASE PublishStops
  BY <1>10, Interrupts DEF PublishStops, disk
<1>11. CASE Clean
  BY <1>11, Ends, Limits DEF Clean, disk
<1>12. CASE CleanFails
  BY <1>12, Ends, Interrupts, Limits DEF CleanFails, disk
<1>13. CASE Close
  BY <1>13, Ends, Limits DEF Close, Closes, disk
<1>14. CASE CloseFails
  BY <1>14, Interrupts, Limits DEF CloseFails, disk
<1>15. CASE UNCHANGED runVars
  BY <1>15 DEF runVars, disk
<1>16. QED
  BY <1>1, <1>2, <1>3, <1>4, <1>5, <1>6, <1>7, <1>8, <1>9, <1>10, <1>11, <1>12, <1>13, <1>14, <1>15
  DEF RunNext, Run, Writer

(* Every step keeps the timetable: the limits of the finally clauses are   *)
(* cut to what is left until the deadline.                                 *)
LEMMA TimeStep == ASSUME TypeOK, TimeInv, [RunNext]_runVars PROVE TimeInv'
<1> USE LogsRunAssumption DEF TimeInv
<1>0. now \in Nat
  BY DEF TypeOK
<1>1. CASE RunStart
  BY <1>0, <1>1, Ends, Interrupts DEF RunStart, disk
<1>2. CASE Undo
  BY <1>0, <1>2, Ends, Interrupts, Limits DEF Undo, Closes, disk
<1>3. CASE Collect
  BY <1>0, <1>3, Ends, Interrupts DEF Collect, disk
<1>4. CASE Write
  BY <1>4 DEF Write, disk
<1>5. CASE WriteFails
  BY <1>5 DEF WriteFails, disk
<1>6. CASE WriteEnds
  BY <1>6 DEF WriteEnds, disk
<1>7. CASE Stall
  BY <1>7 DEF Stall, disk
<1>8. CASE DoomedEnds
  BY <1>8 DEF DoomedEnds, disk
<1>9. CASE Publish
  BY <1>0, <1>9, Ends DEF Publish, disk
<1>10. CASE PublishStops
  BY <1>0, <1>10, Interrupts DEF PublishStops, disk
<1>11. CASE Clean
  BY <1>0, <1>11, Ends, Limits DEF Clean, disk
<1>12. CASE CleanFails
  BY <1>0, <1>12, Ends, Interrupts, Limits DEF CleanFails, disk
<1>13. CASE Close
  BY <1>0, <1>13, Ends, Limits DEF Close, Closes, disk
<1>14. CASE CloseFails
  BY <1>0, <1>14, Interrupts, Limits DEF CloseFails, disk
<1>15. CASE UNCHANGED runVars
  BY <1>15 DEF runVars, disk
<1>16. QED
  BY <1>1, <1>2, <1>3, <1>4, <1>5, <1>6, <1>7, <1>8, <1>9, <1>10, <1>11, <1>12, <1>13, <1>14, <1>15
  DEF RunNext, Run, Writer

(* Every step keeps the account of the files.                              *)
LEMMA DiskStep == ASSUME TypeOK, DiskInv, [RunNext]_runVars PROVE DiskInv'
<1> USE LogsRunAssumption DEF TypeOK, DiskInv
<1>1. CASE RunStart
  BY <1>1, Interrupts DEF RunStart, disk
<1>2. CASE Undo
  BY <1>2, Interrupts DEF Undo, disk
<1>3. CASE Collect
  BY <1>3, Interrupts DEF Collect, disk
<1>4. CASE Write
  BY <1>4, FileCalls DEF Write, disk
<1>5. CASE WriteFails
  BY <1>5 DEF WriteFails, disk
<1>6. CASE WriteEnds
  BY <1>6 DEF WriteEnds, disk
<1>7. CASE Stall
  BY <1>7 DEF Stall, disk
<1>8. CASE DoomedEnds
  BY <1>8, FileCalls DEF DoomedEnds, disk
<1>9. CASE Publish
  BY <1>9 DEF Publish, disk
<1>10. CASE PublishStops
  BY <1>10, Interrupts DEF PublishStops, disk
<1>11. CASE Clean
  BY <1>11 DEF Clean, disk
<1>12. CASE CleanFails
  BY <1>12, Interrupts DEF CleanFails, disk
<1>13. CASE Close
  BY <1>13 DEF Close, disk
<1>14. CASE CloseFails
  BY <1>14, Interrupts DEF CloseFails, disk
<1>15. CASE UNCHANGED runVars
  BY <1>15 DEF runVars, disk
<1>16. QED
  BY <1>1, <1>2, <1>3, <1>4, <1>5, <1>6, <1>7, <1>8, <1>9, <1>10, <1>11, <1>12, <1>13, <1>14, <1>15
  DEF RunNext, Run, Writer

LEMMA RunInductive == RunSpec => []RunInv
<1>1. RunInv /\ [RunNext]_runVars => RunInv'
  BY RunTypeStep, TimeStep, DiskStep DEF RunInv
<1>2. QED
  BY <1>1, RunInitInv, PTL DEF RunSpec

(* Type correctness of a run, for every deadline and limit.                *)
THEOREM RunTypeCorrect == RunSpec => []TypeOK
<1>1. RunInv => TypeOK
  BY DEF RunInv
<1>2. QED
  BY <1>1, RunInductive, PTL

(* A run that returns its report has replaced every file of it             *)
(* (finish_collection, _collect_logs).                                     *)
THEOREM InPlace == RunSpec => []ReportInPlace
<1>1. RunInv => ReportInPlace
  BY DEF RunInv, TypeOK, DiskInv, ReportInPlace
<1>2. QED
  BY <1>1, RunInductive, PTL

(* The run ends by its deadline (_collect_logs, _close_logs_collection).   *)
THEOREM InTime == RunSpec => []EndsByDeadline
<1>1. RunInv => EndsByDeadline
  BY DEF RunInv, TimeInv, EndsByDeadline
<1>2. QED
  BY <1>1, RunInductive, PTL

(* No temporary file outlives a run whose removal was complete             *)
(* (_remove_temporary_files).                                              *)
THEOREM Removed == RunSpec => []TempsRemoved
<1>1. RunInv => TempsRemoved
  BY DEF RunInv, DiskInv, TempsRemoved
<1>2. QED
  BY <1>1, RunInductive, PTL

(* No file is touched after the run has ended, unless a stalled file       *)
(* system held the writer.                                                 *)
THEOREM Settled == RunSpec => FilesSettled
<1>1. RunInv /\ [RunNext]_runVars =>
        (phase = "ended" /\ "stalled" \notin gaps => UNCHANGED <<new, temps>>)
  BY DEF RunInv, DiskInv, TypeOK, RunNext, Run, Writer, RunStart, Undo, Collect, Write,
     WriteFails, WriteEnds, Stall, DoomedEnds, Publish, PublishStops, Clean,
     CleanFails, Close, CloseFails, runVars, disk
<1>2. QED
  BY <1>1, RunInductive, PTL DEF RunSpec, FilesSettled

=============================================================================

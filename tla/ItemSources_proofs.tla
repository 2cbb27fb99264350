-------------------------- MODULE ItemSources_proofs --------------------------
(***************************************************************************)
(* How an item of the report gets its answer.                              *)
(*                                                                         *)
(* A program on the collector's own host (LocalSource), for every length   *)
(* of its output: an invariant over the program, its group and the call.   *)
(*                                                                         *)
(* A batch of queries in one transaction (QueryBatch), for every batch,    *)
(* server, limits and content of the buffers.  That every answer is true   *)
(* rests on what the aggregates of BufferCache say: a sum over their       *)
(* groups counts buffers, a chart of the candidates and the sum of the     *)
(* rest is the chart of all relations, and the fast paths agree with the   *)
(* full scan.  The invariant of the batch then says of every reading which *)
(* moment of the buffers it is about.  The two components share no state.  *)
(***************************************************************************)
EXTENDS LocalSource, QueryBatch, Folding

-----------------------------------------------------------------------------
(* LocalSource.                                                            *)

(* The values of the variables.                                            *)
LocalTypeOK ==
  /\ kind \in {"script", "command", "worker"}
  /\ stubborn \subseteq {"leader", "helper"}
  /\ leader \in {"forked", "running", "killed", "zombie", "reaped"}
  /\ code \in {0, 1, 3, -1, Unset}
  /\ helper \in {"none", "running", "gone"}
  /\ grouped \in BOOLEAN /\ clings \in BOOLEAN
  /\ sent \in 0..Frame /\ got \in 0..sent
  /\ call \in (IF Worker THEN {"reading", "joining", "rejoining", "ended"}
              ELSE {"reading", "grace", "check", "killing", "last", "ended"})
  /\ outcome \in {"none", "value", "raised", "timeout", "interrupted"}
  /\ item \in {"pending", "ok", "empty", "error", "unsupported", "timeout", "none"}
  /\ cut \in BOOLEAN

(* Only a worker has no group at first; a call that stops its program has  *)
(* a reason, and one that has its answer has all of it.                    *)
LocalCallInv ==
  /\ ~Worker => leader # "forked"
  /\ call \in {"grace", "check", "killing", "last"} => outcome \in {"timeout", "interrupted"}
  /\ call \in {"joining", "rejoining", "ended"} /\ Worker /\ outcome = "value" => got = Frame
  /\ call \in {"joining", "rejoining"} => outcome # "none"
  /\ call # "ended" => item # "ok" /\ ~cut

(* From the moment the group is told to end, only what ignores SIGTERM, or *)
(* was started by what does, is left of it, and of a worker that was not   *)
(* told so, having sent its answer, the worker; from the moment the group  *)
(* is killed it is gone.                                                   *)
LocalStopInv ==
  /\ call \in {"grace", "check"} /\ Alive => "leader" \in stubborn
  /\ call \in {"grace", "check"} /\ HelperInGroup => stubborn # {}
  /\ call = "joining" /\ Alive => "leader" \in stubborn \/ got = Frame
  /\ call \in {"killing", "last"} => ~Alive /\ ~HelperInGroup
  /\ call = "rejoining" => ~Alive

(* The answer of a program that is not a worker was taken with its leader. *)
LocalAnswerInv == AnswerWhole /\ (kind = "script" /\ item = "ok" => leader = "reaped")

LocalInv == LocalTypeOK /\ LocalCallInv /\ LocalStopInv /\ GroupStopped /\ LocalAnswerInv

LEMMA LocalInitInv == LocalInit => LocalInv
<1> SUFFICES ASSUME LocalInit PROVE LocalInv
  OBVIOUS
<1>1. LocalTypeOK
  <2>1. leader \in {"forked", "running"} /\ cut \in BOOLEAN
    BY DEF LocalInit
  <2>2. sent \in 0..Frame /\ got \in 0..sent
    BY LocalSourceAssumption DEF LocalInit
  <2>3. grouped \in BOOLEAN /\ clings \in BOOLEAN
    BY DEF LocalInit
  <2>4. QED
    BY <2>1, <2>2, <2>3 DEF LocalInit, LocalTypeOK, Worker, Unset
<1>2. LocalCallInv /\ LocalStopInv /\ LocalAnswerInv /\ GroupStopped
  BY DEF LocalInit, LocalCallInv, LocalStopInv, LocalAnswerInv, AnswerWhole, GroupStopped, Worker, Alive
<1>3. QED
  BY <1>1, <1>2 DEF LocalInv

(* Every step keeps the invariant: a killed group gets no new member,      *)
(* because only a running leader starts one, and nothing is written after  *)
(* the leader has ended.                                                   *)
LEMMA LocalStep == ASSUME LocalInv, [LocalNext]_localVars PROVE LocalInv'
<1> USE LocalSourceAssumption DEF LocalInv, LocalTypeOK, LocalCallInv, LocalStopInv,
        LocalAnswerInv, AnswerWhole, GroupStopped, Collector, Worker, Unset, Alive, HelperInGroup
<1>1. CASE Setsid
  BY <1>1 DEF Setsid
<1>2. CASE StartHelper
  BY <1>2 DEF StartHelper
<1>3. CASE Send
  BY <1>3 DEF Send
<1>4. CASE Exit
  BY <1>4 DEF Exit, Alive
<1>5. CASE HelperEnds
  BY <1>5 DEF HelperEnds
<1>6. CASE Completes
  BY <1>6 DEF Completes, Finished, Reap, Ends, Reported
<1>7. CASE TimesOut
  BY <1>7 DEF TimesOut, StopGroup, GroupExists, GroupOfLeader, Term, Group
<1>8. CASE Interrupted
  BY <1>8 DEF Interrupted, StopGroup, GroupExists, GroupOfLeader, Term, Group
<1>9. CASE Grace
  BY <1>9 DEF Grace, Finished, Reap
<1>10. CASE Check
  BY <1>10 DEF Check, GroupExists, GroupOfLeader, Kill, KillGroup, Group, Ends, Reported
<1>11. CASE Killing
  BY <1>11 DEF Killing, Finished, Reap, Ends, Reported
<1>12. CASE Last
  BY <1>12 DEF Last, Finished, Reap, Ends, Reported
<1>13. CASE GivenUp
  BY <1>13 DEF GivenUp
<1>14. CASE Receive
  BY <1>14 DEF Receive
<1>15. CASE Whole
  BY <1>15 DEF Whole, AnswerArrived
<1>16. CASE Short
  BY <1>16 DEF Short, EndOfOutput, AnswerArrived, Terminate, Term, Group
<1>17. CASE Expires
  BY <1>17 DEF Expires, Terminate, Term, Group
<1>18. CASE Join
  BY <1>18 DEF Join, ForceTerminate, Kill, Group, Ends, Reported
<1>19. CASE Rejoin
  BY <1>19 DEF Rejoin, Ends, Reported
<1>20. CASE UNCHANGED localVars
  BY <1>20 DEF localVars
<1>21. CASE CutShort
  BY <1>21 DEF CutShort, Ends, Reported
<1>22. QED
  BY <1>21, <1>1, <1>2, <1>3, <1>4, <1>5, <1>6, <1>7, <1>8, <1>9, <1>10,
     <1>11, <1>12, <1>13, <1>14, <1>15, <1>16, <1>17, <1>18, <1>19, <1>20 DEF LocalNext

LEMMA LocalInductive == LocalSpec => []LocalInv
BY LocalInitInv, LocalStep, PTL DEF LocalSpec

(* What an item reports as its answer is all of it: the output of a        *)
(* command that ended by itself with status 0, the whole frame of a worker *)
(* (run_local_process, execute_shell_item, _run_sync_process).             *)
THEOREM WholeAnswer == LocalSpec => []AnswerWhole
<1>1. LocalInv => AnswerWhole
  BY DEF LocalInv, LocalAnswerInv
<1>2. QED
  BY <1>1, LocalInductive, PTL

(* When a command that timed out or was interrupted is reported, its group *)
(* runs no more; when the call of a worker is over, the worker does not    *)
(* (_stop_process_group, _terminate_process_group).  An interruption in    *)
(* the middle of the stop leaves what ignores SIGTERM or was started by    *)
(* what does, and a worker that had sent its answer, and nothing else.     *)
THEOREM Stopped == LocalSpec => []GroupStopped
<1>1. LocalInv => GroupStopped
  BY DEF LocalInv
<1>2. QED
  BY <1>1, LocalInductive, PTL

-----------------------------------------------------------------------------
(* BufferCache: what the aggregates say.                                   *)

(* The buffers the aggregate is about, and the group of each.              *)
Chosen(sources, view) == {n \in DOMAIN view : Selected(sources, view[n])}

(* A sum over groups is the number of their buffers.                       *)
LEMMA GroupSum ==
  ASSUME NEW sources, NEW view, IsFiniteSet(DOMAIN view),
         NEW R \in SUBSET DOMAIN Aggregate(sources, view)
  PROVE  Total(Aggregate(sources, view), R)
           = Cardinality({n \in Chosen(sources, view) : Projection(sources, view[n]) \in R})
<1> DEFINE N == Chosen(sources, view)
           q == [n \in N |-> Projection(sources, view[n])]
           groups == Aggregate(sources, view)
<1>1. IsFiniteSet(N)
  BY FS_Subset DEF Chosen
<1>2. DOMAIN groups = {q[n] : n \in N}
      /\ \A d \in DOMAIN groups : groups[d] = Cardinality({n \in N : q[n] = d})
  <2>1. groups = [row \in {q[n] : n \in N} |-> Cardinality({n \in N : q[n] = row})]
    <3>1. {q[n] : n \in N} = {Projection(sources, view[n]) : n \in N}
      OBVIOUS
    <3>2. \A row : {n \in N : q[n] = row} = {n \in N : Projection(sources, view[n]) = row}
      OBVIOUS
    <3>3. groups = [row \in {Projection(sources, view[n]) : n \in N} |->
                      Cardinality({n \in N : Projection(sources, view[n]) = row})]
      BY DEF Aggregate, Chosen
    <3> HIDE DEF q, groups, N
    <3>4. QED
      BY <3>1, <3>2, <3>3
  <2> HIDE DEF q, N, groups
  <2>2. QED
    BY <2>1
<1>3. IsFiniteSet(R)
  <2> HIDE DEF q, N, groups
  <2>1. IsFiniteSet({q[n] : n \in N})
    BY <1>1, ImageFinite
  <2>2. R \subseteq {q[n] : n \in N}
    BY <1>2 DEF groups
  <2>3. QED
    BY <2>1, <2>2, FS_Subset
<1>4. SumOver(groups, R) = CountIn(N, q, R)
  <2>1. ASSUME NEW d \in R PROVE groups[d] = CountAt(N, q, d)
    <3>1. d \in DOMAIN groups
      OBVIOUS
    <3> HIDE DEF q, N, groups
    <3>2. QED
      BY <1>2, <3>1 DEF CountAt
  <2> HIDE DEF q, N, groups
  <2>2. QED
    BY <1>1, <1>3, <2>1, SumOverCounts
<1>5. Total(groups, R) = SumOver(groups, R)
  BY DEF Total, SumOver
<1>6. {n \in N : q[n] \in R} = {n \in N : Projection(sources, view[n]) \in R}
  OBVIOUS
<1>7. QED
  BY <1>4, <1>5, <1>6 DEF CountIn

(* The same for the groups that are chosen by what they say.               *)
LEMMA GroupSumOf ==
  ASSUME NEW sources, NEW view, IsFiniteSet(DOMAIN view), NEW R, NEW B,
         R \subseteq DOMAIN Aggregate(sources, view),
         B \subseteq DOMAIN view,
         \A n \in DOMAIN view :
            n \in B <=> /\ Selected(sources, view[n])
                        /\ Projection(sources, view[n]) \in R
  PROVE  Total(Aggregate(sources, view), R) = Cardinality(B)
<1>1. B = {n \in Chosen(sources, view) : Projection(sources, view[n]) \in R}
  BY DEF Chosen
<1>2. QED
  BY <1>1, GroupSum

(* The groups are the projections of the chosen buffers.                   *)
LEMMA GroupOf ==
  ASSUME NEW sources, NEW view
  PROVE  /\ \A n \in DOMAIN view : Selected(sources, view[n]) =>
                Projection(sources, view[n]) \in DOMAIN Aggregate(sources, view)
         /\ \A row \in DOMAIN Aggregate(sources, view) :
              \E n \in DOMAIN view : Selected(sources, view[n]) /\ row = Projection(sources, view[n])
BY DEF Aggregate
(* Utilization, usage counts, dirty and pinned buffers: the groups of any  *)
(* aggregate that serves the item add up to the item's own count.          *)
LEMMA SummaryRight ==
  ASSUME NEW sources, NEW source \in sources \cap SummarySources, NEW view, Buffers(view),
         NEW payload, payload.groups = Aggregate(sources, view), NEW resolvable
  PROVE  Build(source, payload) = Reference(source, view, resolvable)
<1> DEFINE g == Aggregate(sources, view)
<1>1. ~ (sources \subseteq RelationSources) /\ sources # {"top_dirty_relations"}
  BY DEF SummarySources, RelationSources
<1>2. \A n \in DOMAIN view : IsBuffer(view[n])
  BY DEF Buffers
<1>3. CASE source = "utilization"
  <2> DEFINE Used == {n \in DOMAIN view : view[n].rel # NoRelation}
             Unused == {n \in DOMAIN view : view[n].rel = NoRelation}
             U == {row \in DOMAIN g : row.rel # NoRelation}
             W == {row \in DOMAIN g : row.rel = NoRelation}
  <2>1. ASSUME NEW n \in DOMAIN view
        PROVE  /\ Selected(sources, view[n]) /\ Projection(sources, view[n]) \in DOMAIN g
               /\ Projection(sources, view[n]).rel = NoRelation <=> view[n].rel = NoRelation
    BY <1>1, <1>3, GroupOf DEF Selected, Projection, NoRelation, SomeRelation
  <2>2. Total(g, U) = Cardinality(Used)
    <3>1. \A n \in DOMAIN view : n \in Used <=> /\ Selected(sources, view[n])
                                               /\ Projection(sources, view[n]) \in U
      BY <2>1
    <3> HIDE DEF U, Used
    <3>2. U \subseteq DOMAIN g /\ Used \subseteq DOMAIN view
      BY DEF U, Used
    <3>3. QED
      BY <3>1, <3>2, GroupSumOf DEF Buffers
  <2>3. Total(g, W) = Cardinality(Unused)
    <3>1. \A n \in DOMAIN view : n \in Unused <=> /\ Selected(sources, view[n])
                                                 /\ Projection(sources, view[n]) \in W
      BY <2>1
    <3> HIDE DEF W, Unused
    <3>2. W \subseteq DOMAIN g /\ Unused \subseteq DOMAIN view
      BY DEF W, Unused
    <3>3. QED
      BY <3>1, <3>2, GroupSumOf DEF Buffers
  <2>4. Build(source, payload) = [used |-> Total(g, U), unused |-> Total(g, W)]
    BY <1>3 DEF Build, BuildUtilization
  <2>5. Reference(source, view, resolvable) = [used |-> Cardinality(Used), unused |-> Cardinality(Unused)]
    BY <1>3 DEF Reference, TrueUtilization, InUse
  <2>6. QED
    BY <2>2, <2>3, <2>4, <2>5
<1>4. CASE source = "usage_count_distribution"
  <2> DEFINE At(u) == {n \in DOMAIN view : view[n].usage = u}
             Groups(u) == {row \in DOMAIN g : row.usage = u}
  <2>1. ASSUME NEW u \in UsageCounts PROVE Total(g, Groups(u)) = Cardinality(At(u))
    <3>1. ASSUME NEW n \in DOMAIN view
          PROVE n \in At(u) <=> /\ Selected(sources, view[n])
                                /\ Projection(sources, view[n]) \in Groups(u)
      <4>1. view[n].usage = u => view[n].rel # NoRelation
        BY <1>2, BufferCacheAssumption DEF IsBuffer, Free, UsageCounts, NoCount, NoRelation
      <4>2. view[n].usage = u => Selected(sources, view[n])
        BY <1>1, <4>1 DEF Selected
      <4>3. Projection(sources, view[n]).usage = view[n].usage
        BY <1>4 DEF Projection
      <4>4. QED
        BY <4>2, <4>3, GroupOf
    <3> HIDE DEF At, Groups
    <3>2. Groups(u) \subseteq DOMAIN g /\ At(u) \subseteq DOMAIN view
      BY DEF Groups, At
    <3>3. QED
      BY <3>1, <3>2, GroupSumOf DEF Buffers
  <2>2. Build(source, payload) = [u \in UsageCounts |-> Total(g, Groups(u))]
    BY <1>4 DEF Build, BuildUsageCounts
  <2>3. Reference(source, view, resolvable) = [u \in UsageCounts |-> Cardinality(At(u))]
    BY <1>4 DEF Reference, TrueUsageCounts
  <2> HIDE DEF At, Groups
  <2>4. QED
    BY <2>1, <2>2, <2>3
<1>5. CASE source = "dirty_and_pinned"
  <2> DEFINE Dirty == {n \in DOMAIN view : view[n].dirty}
             Pinned == {n \in DOMAIN view : view[n].pinned}
             D == {row \in DOMAIN g : row.dirty}
             P == {row \in DOMAIN g : row.pinned}
  <2>1. ASSUME NEW n \in DOMAIN view
        PROVE  /\ view[n].dirty \/ view[n].pinned => Selected(sources, view[n])
               /\ Projection(sources, view[n]).dirty = view[n].dirty
               /\ Projection(sources, view[n]).pinned = view[n].pinned
    <3>1. view[n].dirty \/ view[n].pinned => view[n].rel # NoRelation
      BY <1>2, BufferCacheAssumption DEF IsBuffer, Free, NoRelation
    <3>2. view[n].pinned \in BOOLEAN
      <4>1. CASE view[n] = Free
        BY <4>1 DEF Free
      <4>2. CASE view[n] # Free
        BY <1>2, <4>2 DEF IsBuffer
      <4>3. QED
        BY <4>1, <4>2
    <3>3. QED
      BY <1>1, <1>5, <3>1, <3>2 DEF Selected, Projection, NeedsDirty
  <2>2. Total(g, D) = Cardinality(Dirty)
    <3>1. \A n \in DOMAIN view : n \in Dirty <=> /\ Selected(sources, view[n])
                                                /\ Projection(sources, view[n]) \in D
      BY <2>1, GroupOf
    <3> HIDE DEF D, Dirty
    <3>2. D \subseteq DOMAIN g /\ Dirty \subseteq DOMAIN view
      BY DEF D, Dirty
    <3>3. QED
      BY <3>1, <3>2, GroupSumOf DEF Buffers
  <2>3. Total(g, P) = Cardinality(Pinned)
    <3>1. \A n \in DOMAIN view : n \in Pinned <=> /\ Selected(sources, view[n])
                                                 /\ Projection(sources, view[n]) \in P
      BY <2>1, GroupOf
    <3> HIDE DEF P, Pinned
    <3>2. P \subseteq DOMAIN g /\ Pinned \subseteq DOMAIN view
      BY DEF P, Pinned
    <3>3. QED
      BY <3>1, <3>2, GroupSumOf DEF Buffers
  <2>4. Build(source, payload) = [dirty |-> Total(g, D), pinned |-> Total(g, P)]
    BY <1>5 DEF Build, BuildDirtyAndPinned
  <2>5. Reference(source, view, resolvable) = [dirty |-> Cardinality(Dirty), pinned |-> Cardinality(Pinned)]
    BY <1>5 DEF Reference, TrueDirtyAndPinned
  <2>6. QED
    BY <2>2, <2>3, <2>4, <2>5
<1>6. QED
  BY <1>3, <1>4, <1>5 DEF SummarySources

(* The databases: every buffer in use is in the group of its database.     *)
LEMMA DatabasesRight ==
  ASSUME NEW sources, "by_database" \in sources, NEW view, Buffers(view),
         NEW payload, payload.groups = Aggregate(sources, view), payload.databases = Databases,
         NEW resolvable
  PROVE  BuildByDatabase(payload) = Reference("by_database", view, resolvable)
<1> DEFINE g == Aggregate(sources, view)
           used == {row \in DOMAIN g : row.rel # NoRelation /\ row.db # Nothing}
           Used == {n \in DOMAIN view : view[n].rel # NoRelation}
           Rows(d) == {row \in used : row.db = d}
           Of(d) == {n \in Used : view[n].db = d}
           names == Databases \cup {Shared} \cup {row.db : row \in used}
           Names == Databases \cup {Shared} \cup {view[n].db : n \in Used}
<1>1. ~ (sources \subseteq RelationSources) /\ sources # {"top_dirty_relations"}
  BY DEF RelationSources
<1>2. ASSUME NEW n \in DOMAIN view
      PROVE  /\ view[n].rel # NoRelation =>
                  /\ Selected(sources, view[n])
                  /\ Projection(sources, view[n]) \in used
             /\ view[n].rel = NoRelation => ~ (/\ Selected(sources, view[n])
                                               /\ Projection(sources, view[n]) \in used)
             /\ Projection(sources, view[n]).db = view[n].db
  <2>1. IsBuffer(view[n])
    BY DEF Buffers
  <2>2. view[n].rel # NoRelation => view[n].db # Nothing
    BY <2>1 DEF IsBuffer, Free
  <2>3. Projection(sources, view[n]).db = view[n].db
    BY DEF Projection, DatabaseSources
  <2>4. Selected(sources, view[n]) /\ view[n].rel = NoRelation =>
          Projection(sources, view[n]).rel = NoRelation
    BY DEF Selected, Projection
  <2>5. view[n].rel # NoRelation => Selected(sources, view[n])
    BY <1>1 DEF Selected
  <2>6. view[n].rel # NoRelation => Projection(sources, view[n]).rel # NoRelation
    BY DEF Projection, DatabaseSources, NoRelation, SomeRelation
  <2>7. QED
    BY <2>2, <2>3, <2>4, <2>5, <2>6, GroupOf
<1>3. names = Names
  <2>1. {row.db : row \in used} = {view[n].db : n \in Used}
    <3>1. \A row \in used : \E n \in Used : row.db = view[n].db
      BY <1>2, GroupOf
    <3>2. \A n \in Used : \E row \in used : row.db = view[n].db
      BY <1>2
    <3> HIDE DEF used, Used
    <3>3. QED
      BY <3>1, <3>2
  <2>2. QED
    BY <2>1
<1>4. ASSUME NEW d PROVE Total(g, Rows(d)) = Cardinality(Of(d))
  <2>1. \A n \in DOMAIN view : n \in Of(d) <=> /\ Selected(sources, view[n])
                                              /\ Projection(sources, view[n]) \in Rows(d)
    BY <1>2
  <2>2. Rows(d) \subseteq DOMAIN g /\ Of(d) \subseteq DOMAIN view
    OBVIOUS
  <2> HIDE DEF Rows, Of
  <2>3. QED
    BY <2>1, <2>2, GroupSumOf DEF Buffers
<1>5. BuildByDatabase(payload) = [d \in names |-> Total(g, Rows(d))]
  BY DEF BuildByDatabase
<1>6. Reference("by_database", view, resolvable) = [d \in Names |-> Cardinality(Of(d))]
  BY DEF Reference, TrueByDatabase, InUse
<1> HIDE DEF names, Names, Rows, Of
<1>7. QED
  BY <1>3, <1>4, <1>5, <1>6

(* The members of S with fewer than the limit of larger ones.              *)
Leading(A, S) == {x \in S : Cardinality({m \in S : A[m] > A[x]}) < RelationLimit}

(* A chart of the candidates and the sum of the others is the chart of all *)
(* relations: a relation with fewer than the limit ahead of it by size is  *)
(* a candidate, and so is each one ahead of it.                            *)
LEMMA BoundedNarrowed ==
  ASSUME NEW N, IsFiniteSet(N), NEW q, NEW S, IsFiniteSet(S), NEW A,
         \A x \in S : A[x] = CountAt(N, q, x),
         NEW rest, rest = CountIn(N, q, S \ Leading(A, S))
  PROVE  Bounded(Restrict(A, Leading(A, S)), rest) = Bounded(Restrict(A, S), 0)
<1> DEFINE T == Leading(A, S)
           f == [x \in T |-> A[x]]
           h == [x \in S |-> A[x]]
           Larger(x) == {m \in S : A[m] > A[x]}
           keptF == {n \in T : Cardinality(Ahead(f, n)) < RelationLimit}
           keptH == {n \in S : Cardinality(Ahead(h, n)) < RelationLimit}
<1>1. \A x \in S : A[x] \in Nat
  <2> SUFFICES ASSUME NEW x \in S PROVE CountAt(N, q, x) \in Nat
    OBVIOUS
  <2>1. QED
    BY FS_Subset, FS_CardinalityType DEF CountAt
<1>2. T \subseteq S /\ IsFiniteSet(T) /\ RelationLimit \in Nat
  <2>1. T \subseteq S
    BY DEF Leading
  <2>2. QED
    BY <2>1, FS_Subset, BufferCacheAssumption
<1>3. \A x \in S : x \in T <=> Cardinality(Larger(x)) < RelationLimit
  BY DEF Leading
<1> HIDE DEF T
<1>4. \A U \in SUBSET S : IsFiniteSet(U) /\ Cardinality(U) \in Nat
  BY FS_Subset, FS_CardinalityType
<1>5. \A x \in S : /\ Larger(x) \in SUBSET S
                   /\ Ahead(h, x) = {m \in S : A[m] > A[x] \/ (A[m] = A[x] /\ m < x)}
  BY DEF Ahead
<1>6. \A x \in T : Ahead(f, x) = {m \in T : A[m] > A[x] \/ (A[m] = A[x] /\ m < x)}
  BY DEF Ahead
<1>7. ASSUME NEW x \in S, Cardinality(Ahead(h, x)) < RelationLimit PROVE x \in T
  <2>1. Larger(x) \subseteq Ahead(h, x) /\ Ahead(h, x) \in SUBSET S
    BY <1>5
  <2>2. Cardinality(Larger(x)) <= Cardinality(Ahead(h, x))
    BY <1>4, <2>1, FS_Subset
  <2>3. Cardinality(Larger(x)) \in Nat /\ Cardinality(Ahead(h, x)) \in Nat
    BY <1>4, <1>5, <2>1
  <2> HIDE DEF Larger, h
  <2>4. QED
    BY <1>2, <1>3, <1>7, <2>2, <2>3
<1>8. ASSUME NEW x \in T PROVE Ahead(h, x) = Ahead(f, x)
  <2>1. ASSUME NEW m \in Ahead(h, x) PROVE m \in T
    <3>1. m \in S /\ A[m] >= A[x]
      BY <1>1, <1>2, <1>5
    <3>2. Larger(m) \subseteq Larger(x)
      BY <1>1, <1>2, <3>1
    <3>3. Cardinality(Larger(m)) <= Cardinality(Larger(x))
      BY <1>2, <1>4, <1>5, <3>2, FS_Subset
    <3>4. Cardinality(Larger(m)) \in Nat /\ Cardinality(Larger(x)) \in Nat
      BY <1>2, <1>4, <1>5, <3>1
    <3> HIDE DEF Larger
    <3>5. QED
      BY <1>2, <1>3, <3>1, <3>3, <3>4
  <2> HIDE DEF f, h
  <2>2. QED
    BY <1>2, <1>5, <1>6, <2>1
<1>9. keptF = keptH
  <2> HIDE DEF f, h
  <2>1. QED
    BY <1>2, <1>7, <1>8
<1>10. keptH \subseteq T
  BY <1>9
<1>11. SumOver(f, T \ keptF) = CountIn(N, q, T \ keptF)
  <2>1. IsFiniteSet(T \ keptF)
    BY <1>2, FS_Subset
  <2>2. \A d \in T \ keptF : f[d] = CountAt(N, q, d)
    BY <1>2
  <2> HIDE DEF f, keptF
  <2>3. QED
    BY <2>1, <2>2, SumOverCounts
<1>12. SumOver(h, S \ keptH) = CountIn(N, q, S \ keptH)
  <2>1. IsFiniteSet(S \ keptH)
    BY FS_Subset
  <2>2. \A d \in S \ keptH : h[d] = CountAt(N, q, d)
    OBVIOUS
  <2> HIDE DEF h, keptH
  <2>3. QED
    BY <2>1, <2>2, SumOverCounts
<1>13. rest + CountIn(N, q, T \ keptF) = CountIn(N, q, S \ keptH)
  <2> DEFINE X == {n \in N : q[n] \in S \ T}
             Y == {n \in N : q[n] \in T \ keptF}
             Z == {n \in N : q[n] \in S \ keptH}
  <2> HIDE DEF f, h, keptF, keptH
  <2>1. X \cap Y = {} /\ X \cup Y = Z
    BY <1>2, <1>9, <1>10
  <2>2. IsFiniteSet(X) /\ IsFiniteSet(Y)
    BY FS_Subset
  <2>3. rest = Cardinality(X) /\ CountIn(N, q, T \ keptF) = Cardinality(Y)
        /\ CountIn(N, q, S \ keptH) = Cardinality(Z)
    BY DEF CountIn, T
  <2> HIDE DEF X, Y, Z
  <2>4. Cardinality(X) \in Nat /\ Cardinality(Y) \in Nat /\ Cardinality(X \cap Y) = 0
    BY <2>1, <2>2, FS_CardinalityType, FS_EmptySet
  <2>5. Cardinality(X \cup Y) = Cardinality(X) + Cardinality(Y) - Cardinality(X \cap Y)
    BY <2>2, FS_Union
  <2>6. Cardinality(Z) = Cardinality(X) + Cardinality(Y)
    <3>1. Cardinality(X) + Cardinality(Y) - Cardinality(X \cap Y) = Cardinality(X) + Cardinality(Y)
      BY <2>4
    <3>2. QED
      BY <2>1, <2>5, <3>1
  <2>7. QED
    BY <2>3, <2>6
<1>14. DOMAIN f = T /\ DOMAIN h = S
  OBVIOUS
<1>15. [n \in keptF |-> f[n]] = [n \in keptH |-> h[n]]
  <2>1. \A n \in keptF : n \in T /\ n \in S /\ f[n] = h[n]
    BY <1>2
  <2> HIDE DEF f, h, keptF, keptH
  <2>2. QED
    BY <1>9, <2>1
<1>16. CountIn(N, q, S \ keptH) \in Nat
  BY FS_Subset, FS_CardinalityType DEF CountIn
<1>17. Bounded(f, rest) = [named |-> [n \in keptF |-> f[n]], other |-> rest + SumOver(f, T \ keptF)]
  <2> HIDE DEF f
  <2>1. QED
    BY <1>14 DEF Bounded, SumOver
<1>18. Bounded(h, 0) = [named |-> [n \in keptH |-> h[n]], other |-> 0 + SumOver(h, S \ keptH)]
  <2> HIDE DEF h
  <2>1. QED
    BY <1>14 DEF Bounded, SumOver
<1> HIDE DEF f, h, keptF, keptH
<1>19. Bounded(f, rest) = Bounded(h, 0)
  <2>1. rest + SumOver(f, T \ keptF) = 0 + SumOver(h, S \ keptH)
    BY <1>11, <1>12, <1>13, <1>16
  <2>2. QED
    BY <1>15, <1>17, <1>18, <2>1
<1>20. QED
  BY <1>19 DEF f, h, T, Restrict

(* A set of the same size on the other side of an injective naming.        *)
LEMMA SameSize ==
  ASSUME NEW X, IsFiniteSet(X), NEW f, NEW Y, Y = {f[x] : x \in X},
         \A x, y \in X : f[x] = f[y] => x = y
  PROVE  Cardinality(Y) = Cardinality(X)
<1> DEFINE g == [x \in X |-> f[x]]
<1>1. g \in [X -> Y] /\ (\A y \in Y : \E x \in X : g[x] = y)
  OBVIOUS
<1>2. \A x, y \in X : g[x] = g[y] => x = y
  OBVIOUS
<1> HIDE DEF g
<1>3. g \in Surjection(X, Y) /\ g \in Injection(X, Y)
  BY <1>1, <1>2 DEF Surjection, Injection, IsInjective
<1>4. QED
  BY <1>3, FS_Surjection

(* No two relations have the same name.                                    *)
LEMMA NamesApart ==
  ASSUME NEW k \in Relations, NEW m \in Relations, NEW resolved, Name(k, resolved) = Name(m, resolved)
  PROVE  k = m
BY BufferCacheAssumption DEF Name
(* The groups a chart of relations is made of are those of its buffers.    *)
LEMMA RelationGroups ==
  ASSUME NEW sources, IsFiniteSet(sources), NEW source \in sources \cap RelationSources,
         NEW view, Buffers(view), NEW n \in DOMAIN view
  PROVE  /\ n \in Listed(source, view) <=>
              /\ Selected(sources, view[n])
              /\ Projection(sources, view[n])
                   \in InCurrent(Aggregate(sources, view), DirtyOnly(source))
         /\ Projection(sources, view[n]).rel = view[n].rel
         /\ n \in Listed(source, view) => view[n].rel \in Relations
<1>1. sources \cap RelationSources # {} /\ IsBuffer(view[n])
  BY DEF Buffers
<1>2. /\ Projection(sources, view[n]).db = view[n].db
      /\ Projection(sources, view[n]).rel = view[n].rel
  BY <1>1 DEF Projection
<1>3. view[n].dirty \in BOOLEAN
  <2>1. CASE view[n] = Free
    BY <2>1 DEF Free
  <2>2. CASE view[n] # Free
    BY <1>1, <2>2 DEF IsBuffer
  <2>3. QED
    BY <2>1, <2>2
<1>4. ASSUME DirtyOnly(source), Selected(sources, view[n])
      PROVE  Projection(sources, view[n]).dirty = view[n].dirty
  <2>1. source = "top_dirty_relations"
    BY <1>4 DEF DirtyOnly
  <2>2. CASE NeedsDirty(sources)
    BY <2>2 DEF Projection
  <2>3. CASE ~ NeedsDirty(sources)
    <3>1. ~ (Cardinality(sources) > 1)
      BY <2>1, <2>3 DEF NeedsDirty
    <3>2. sources = {source}
      <4>1. Cardinality({source}) = 1 /\ IsFiniteSet({source}) /\ {source} \subseteq sources
        BY FS_Singleton
      <4>2. Cardinality(sources) \in Nat
        BY FS_CardinalityType
      <4>3. Cardinality({source}) = Cardinality(sources)
        BY <3>1, <4>1, <4>2, FS_Subset
      <4>4. QED
        BY <4>1, <4>3, FS_Subset
    <3>3. view[n].dirty = TRUE
      BY <1>3, <1>4, <2>1, <3>2 DEF Selected
    <3>4. Projection(sources, view[n]).dirty = TRUE
      BY <2>1, <2>3 DEF Projection
    <3>5. QED
      BY <3>3, <3>4
  <2>4. QED
    BY <2>2, <2>3
<1>5. n \in Listed(source, view) => Selected(sources, view[n])
  <2>1. ASSUME n \in Listed(source, view)
        PROVE  view[n].rel # NoRelation /\ view[n].db = Current /\ (DirtyOnly(source) => view[n].dirty)
    BY <2>1 DEF Listed, InUse
  <2>2. sources = {"top_dirty_relations"} => DirtyOnly(source)
    BY DEF DirtyOnly
  <2>3. QED
    BY <2>1, <2>2 DEF Selected
<1>6. n \in Listed(source, view) => view[n].rel \in Relations
  BY <1>1 DEF Listed, InUse, IsBuffer, Free, NoRelation
<1>7. ASSUME Selected(sources, view[n])
      PROVE  n \in Listed(source, view) <=>
               Projection(sources, view[n]) \in InCurrent(Aggregate(sources, view), DirtyOnly(source))
  BY <1>2, <1>4, <1>7, GroupOf DEF Listed, InUse, InCurrent
<1>8. QED
  BY <1>2, <1>5, <1>6, <1>7

(* The sum of some of these groups counts their buffers.                   *)
LEMMA RelationSum ==
  ASSUME NEW sources, IsFiniteSet(sources), NEW source \in sources \cap RelationSources,
         NEW view, Buffers(view), NEW R, NEW B,
         R \subseteq InCurrent(Aggregate(sources, view), DirtyOnly(source)),
         B \subseteq Listed(source, view),
         \A n \in Listed(source, view) : n \in B <=> Projection(sources, view[n]) \in R
  PROVE  Total(Aggregate(sources, view), R) = Cardinality(B)
<1>1. R \subseteq DOMAIN Aggregate(sources, view) /\ B \subseteq DOMAIN view
  BY DEF InCurrent, Listed, InUse
<1>2. \A n \in DOMAIN view : n \in B <=> /\ Selected(sources, view[n])
                                       /\ Projection(sources, view[n]) \in R
  BY RelationGroups
<1>3. QED
  BY <1>1, <1>2, GroupSumOf DEF Buffers

(* How many buffers of a chart belong to a relation.                       *)
SizeOf(source, view) ==
  [k \in {view[n].rel : n \in Listed(source, view)} |->
      Cardinality({n \in Listed(source, view) : view[n].rel = k})]

(* The candidates are the largest relations.                               *)
LEMMA CandidatesRight ==
  ASSUME NEW sources, IsFiniteSet(sources), NEW source \in sources \cap RelationSources,
         NEW view, Buffers(view)
  PROVE  TopKeys(Aggregate(sources, view), DirtyOnly(source)) =
           Leading(SizeOf(source, view), DOMAIN SizeOf(source, view))
<1> DEFINE g == Aggregate(sources, view)
           rows == InCurrent(g, DirtyOnly(source))
           keys == {row.rel : row \in rows}
           size == [k \in keys |-> Total(g, {row \in rows : row.rel = k})]
           L == Listed(source, view)
           K == {view[n].rel : n \in L}
           c == [k \in K |-> Cardinality({n \in L : view[n].rel = k})]
<1>1. keys = K
  <2>1. ASSUME NEW row \in rows PROVE \E n \in L : row.rel = view[n].rel
    <3>1. PICK n \in DOMAIN view : Selected(sources, view[n]) /\ row = Projection(sources, view[n])
      BY GroupOf DEF InCurrent
    <3>2. n \in L /\ row.rel = view[n].rel
      BY <2>1, <3>1, RelationGroups
    <3>3. QED
      BY <3>2
  <2>2. ASSUME NEW n \in L PROVE \E row \in rows : row.rel = view[n].rel
    <3>1. n \in DOMAIN view
      BY DEF Listed, InUse
    <3>2. QED
      BY <3>1, <2>2, RelationGroups
  <2> HIDE DEF rows, L
  <2>3. QED
    BY <2>1, <2>2
<1>2. ASSUME NEW k PROVE Total(g, {row \in rows : row.rel = k}) = Cardinality({n \in L : view[n].rel = k})
  <2> DEFINE R == {row \in rows : row.rel = k}
             B == {n \in L : view[n].rel = k}
  <2>1. \A n \in L : n \in B <=> Projection(sources, view[n]) \in R
    <3>1. ASSUME NEW n \in L PROVE n \in B <=> Projection(sources, view[n]) \in R
      <4>1. n \in DOMAIN view
        BY DEF Listed, InUse
      <4>2. Projection(sources, view[n]) \in rows /\ Projection(sources, view[n]).rel = view[n].rel
        BY <4>1, RelationGroups
      <4> HIDE DEF rows, L
      <4>3. QED
        BY <4>2
    <3>2. QED
      BY <3>1
  <2>2. R \subseteq rows /\ B \subseteq L
    OBVIOUS
  <2> HIDE DEF R, B
  <2>3. Total(g, R) = Cardinality(B)
    BY <2>1, <2>2, RelationSum
  <2>4. QED
    BY <2>3 DEF R, B
<1>3. size = c
  <2> HIDE DEF g, rows, keys, L, K
  <2>1. QED
    BY <1>1, <1>2
<1>4. TopKeys(g, DirtyOnly(source)) =
        {k \in keys : Cardinality({m \in keys : size[m] > size[k]}) < RelationLimit}
  <2> HIDE DEF g
  <2>1. QED
    BY DEF TopKeys
<1>5. SizeOf(source, view) = c /\ DOMAIN c = K
  BY DEF SizeOf
<1> HIDE DEF g, size, keys, c, K
<1>6. QED
  BY <1>1, <1>3, <1>4, <1>5 DEF g, Leading

(* Both charts of relations: the relations that are looked up and the sum  *)
(* of the others show what all of them would.                              *)
LEMMA RelationsRight ==
  ASSUME NEW sources, IsFiniteSet(sources), NEW source \in sources \cap RelationSources,
         NEW view, Buffers(view), NEW payload, NEW resolvable,
         payload.groups = Aggregate(sources, view),
         payload.keys[source] = TopKeys(Aggregate(sources, view), DirtyOnly(source)),
         \A k \in payload.keys[source] : k \in payload.resolved <=> k \in resolvable
  PROVE  BuildRelations(source, payload) = TrueRelations(source, view, resolvable)
<1> DEFINE g == Aggregate(sources, view)
           rows == InCurrent(g, DirtyOnly(source))
           L == Listed(source, view)
           c == SizeOf(source, view)
           K == DOMAIN c
           T == payload.keys[source]
           nm == [k \in K |-> Name(k, resolvable)]
           q == [n \in L |-> nm[view[n].rel]]
           S == {q[n] : n \in L}
           A == [x \in S |-> Cardinality({n \in L : q[n] = x})]
           U == {nm[k] : k \in T}
<1>1. L \subseteq DOMAIN view /\ IsFiniteSet(L)
  <2>1. L \subseteq DOMAIN view
    BY DEF Listed, InUse
  <2>2. QED
    BY <2>1, FS_Subset DEF Buffers
<1>2. /\ K = {view[n].rel : n \in L}
      /\ \A k \in K : c[k] = Cardinality({n \in L : view[n].rel = k})
  BY DEF SizeOf
<1>3. \A n \in L : view[n].rel \in K /\ q[n] = Name(view[n].rel, resolvable)
  BY <1>2
<1>4. K \subseteq Relations
  BY <1>1, <1>2, RelationGroups
<1>5. \A k, m \in K : nm[k] = nm[m] => k = m
  <2> HIDE DEF c, K
  <2>1. QED
    BY <1>4, NamesApart
<1>6. S = {nm[k] : k \in K}
  <2>1. \A n \in L : q[n] = nm[view[n].rel]
    OBVIOUS
  <2> HIDE DEF q, nm, c, L, K
  <2>2. QED
    BY <1>2, <2>1
<1>7. \A k \in K : A[nm[k]] = c[k]
  <2>1. ASSUME NEW k \in K PROVE {n \in L : q[n] = nm[k]} = {n \in L : view[n].rel = k}
    <3>1. \A n \in L : q[n] = nm[view[n].rel] /\ view[n].rel \in K
      BY <1>3
    <3> HIDE DEF q, nm, c, L, K
    <3>2. QED
      BY <1>5, <3>1
  <2>2. \A x \in S : A[x] = Cardinality({n \in L : q[n] = x})
    OBVIOUS
  <2>3. ASSUME NEW k \in K PROVE A[nm[k]] = Cardinality({n \in L : q[n] = nm[k]})
    <3>1. nm[k] \in S
      BY <1>6
    <3> HIDE DEF q, nm, c, L, K, S, A
    <3>2. QED
      BY <2>2, <3>1
  <2>4. ASSUME NEW k \in K PROVE A[nm[k]] = c[k]
    <3> HIDE DEF q, nm, c, L, K, S, A
    <3>1. QED
      BY <1>2, <2>1, <2>3
  <2>5. QED
    BY <2>4
<1>8. /\ T \subseteq K
      /\ \A k \in K : k \in T <=> Cardinality({m \in K : c[m] > c[k]}) < RelationLimit
  <2>1. T = Leading(c, K)
    BY CandidatesRight
  <2> HIDE DEF c, K, T
  <2>2. QED
    BY <2>1 DEF Leading
<1>9. IsFiniteSet(K) /\ IsFiniteSet(S)
  <2>1. IsFiniteSet({[m \in L |-> view[m].rel][n] : n \in L})
    BY <1>1, ImageFinite
  <2>2. {[m \in L |-> view[m].rel][n] : n \in L} = K
    BY <1>2
  <2>3. IsFiniteSet(S)
    <3> HIDE DEF q
    <3>1. QED
      BY <1>1, ImageFinite
  <2>4. QED
    BY <2>1, <2>2, <2>3
<1>10. U = Leading(A, S)
  <2> HIDE DEF q, nm, c, L, K, S, A, T
  <2>1. ASSUME NEW k \in K
        PROVE Cardinality({m \in S : A[m] > A[nm[k]]}) = Cardinality({m \in K : c[m] > c[k]})
    <3> DEFINE X == {m \in K : c[m] > c[k]}
               Y == {m \in S : A[m] > A[nm[k]]}
    <3>1. IsFiniteSet(X)
      BY <1>9, FS_Subset
    <3>2. Y = {nm[m] : m \in X}
      BY <1>6, <1>7
    <3>3. \A x, y \in X : nm[x] = nm[y] => x = y
      BY <1>5
    <3> HIDE DEF X, Y
    <3>4. Cardinality(Y) = Cardinality(X)
      BY <3>1, <3>2, <3>3, SameSize
    <3>5. QED
      BY <3>4 DEF X, Y
  <2>2. \A k \in K : nm[k] \in U <=> k \in T
    BY <1>5, <1>8
  <2>3. U \subseteq S
    BY <1>6, <1>8
  <2>4. \A k \in K : nm[k] \in U <=> Cardinality({m \in S : A[m] > A[nm[k]]}) < RelationLimit
    BY <1>8, <2>1, <2>2
  <2> HIDE DEF U
  <2>5. ASSUME NEW x \in S PROVE x \in U <=> Cardinality({m \in S : A[m] > A[x]}) < RelationLimit
    <3>1. PICK k \in K : x = nm[k]
      BY <1>6
    <3>2. QED
      BY <2>4, <3>1
  <2>6. QED
    BY <2>3, <2>5 DEF Leading
<1> DEFINE candidates == {row \in rows : row.rel \in T}
           called(x) == {row \in candidates : Name(row.rel, payload.resolved) = x}
           names == {Name(row.rel, payload.resolved) : row \in candidates}
           rest == Total(g, rows \ candidates)
<1>11. ASSUME NEW row \in rows
       PROVE  \E n \in L : row = Projection(sources, view[n]) /\ row.rel = view[n].rel
  <2>1. PICK n \in DOMAIN view : Selected(sources, view[n]) /\ row = Projection(sources, view[n])
    BY GroupOf DEF InCurrent
  <2>2. QED
    BY <2>1, RelationGroups
<1>12. ASSUME NEW n \in L
       PROVE  Projection(sources, view[n]) \in rows /\ Projection(sources, view[n]).rel = view[n].rel
  BY <1>1, RelationGroups
<1>13. \A k \in T : Name(k, payload.resolved) = nm[k]
  BY <1>8 DEF Name
<1>14. names = U
  <2>1. ASSUME NEW row \in candidates PROVE Name(row.rel, payload.resolved) \in U
    BY <1>13
  <2>2. ASSUME NEW k \in T PROVE \E row \in candidates : nm[k] = Name(row.rel, payload.resolved)
    <3>1. PICK n \in L : view[n].rel = k
      BY <1>2, <1>8
    <3>2. Projection(sources, view[n]) \in candidates
      BY <1>12, <3>1
    <3>3. QED
      BY <1>12, <1>13, <3>1, <3>2
  <2> HIDE DEF nm, T, candidates
  <2>3. QED
    BY <2>1, <2>2
<1>15. ASSUME NEW k \in T PROVE Total(g, called(nm[k])) = A[nm[k]]
  <2> DEFINE R == called(nm[k])
             B == {n \in L : view[n].rel = k}
  <2>1. ASSUME NEW n \in L PROVE n \in B <=> Projection(sources, view[n]) \in R
    <3>1. view[n].rel \in T => Name(view[n].rel, payload.resolved) = nm[view[n].rel]
      BY <1>13
    <3>2. view[n].rel \in K /\ k \in K
      BY <1>3, <1>8
    <3> HIDE DEF q, nm, c, L, K, S, A, T, rows
    <3>3. Projection(sources, view[n]) \in R <=>
            view[n].rel \in T /\ Name(view[n].rel, payload.resolved) = nm[k]
      BY <1>12
    <3>4. QED
      BY <1>5, <3>1, <3>2, <3>3
  <2>2. R \subseteq rows /\ B \subseteq L
    OBVIOUS
  <2>3. Total(g, R) = Cardinality(B)
    <3> HIDE DEF R, B
    <3>1. QED
      BY <2>1, <2>2, RelationSum
  <2>4. k \in K
    BY <1>8
  <2> HIDE DEF q, nm, c, L, K, S, A, T, rows
  <2>5. QED
    BY <1>2, <1>7, <2>3, <2>4
<1>16. rest = CountIn(L, q, S \ U)
  <2> DEFINE B == {n \in L : q[n] \in S \ U}
             R == rows \ candidates
  <2>1. ASSUME NEW n \in L PROVE n \in B <=> Projection(sources, view[n]) \in R
    <3>1. q[n] \in S /\ view[n].rel \in K /\ q[n] = nm[view[n].rel]
      BY <1>3
    <3> HIDE DEF q, nm, c, L, K, S, A, T, rows
    <3>2. q[n] \in U <=> view[n].rel \in T
      BY <1>5, <1>8, <3>1
    <3>3. QED
      BY <1>12, <3>1, <3>2
  <2>2. R \subseteq rows /\ B \subseteq L
    OBVIOUS
  <2>3. Total(g, R) = Cardinality(B)
    <3> HIDE DEF R, B
    <3>1. QED
      BY <2>1, <2>2, RelationSum
  <2>4. QED
    BY <2>3 DEF CountIn
<1>17. [x \in names |-> Total(g, called(x))] = [x \in U |-> A[x]]
  <2>1. ASSUME NEW x \in U PROVE Total(g, called(x)) = A[x]
    <3>1. PICK k \in T : x = nm[k]
      OBVIOUS
    <3> HIDE DEF nm, called, A, T
    <3>2. QED
      BY <1>15, <3>1
  <2> HIDE DEF names, called, U, A
  <2>2. QED
    BY <1>14, <2>1
<1>18. BuildRelations(source, payload) = Bounded([x \in U |-> A[x]], rest)
  <2>1. BuildRelations(source, payload) = Bounded([x \in names |-> Total(g, called(x))], rest)
    BY DEF BuildRelations
  <2> HIDE DEF names, called, rest, U, A
  <2>2. QED
    BY <1>17, <2>1
<1>19. TrueRelations(source, view, resolvable) = Bounded([x \in S |-> A[x]], 0)
  <2> DEFINE name(n) == Name(view[n].rel, resolvable)
             full == [x \in {name(n) : n \in L} |-> Cardinality({n \in L : name(n) = x})]
  <2>1. TrueRelations(source, view, resolvable) = Bounded(full, 0)
    BY DEF TrueRelations
  <2>2. full = [x \in S |-> A[x]]
    <3>1. \A n \in L : name(n) = q[n]
      BY <1>3
    <3>2. [x \in S |-> A[x]] = [x \in S |-> Cardinality({n \in L : q[n] = x})]
      OBVIOUS
    <3>3. \A x : {n \in L : name(n) = x} = {n \in L : q[n] = x}
      BY <3>1
    <3>4. {name(n) : n \in L} = S
      BY <3>1
    <3> HIDE DEF name, q, S, L, A
    <3>5. QED
      BY <3>2, <3>3, <3>4
  <2> HIDE DEF full, S, A
  <2>3. QED
    BY <2>1, <2>2
<1>20. \A x \in S : A[x] = CountAt(L, q, x)
  BY DEF CountAt
<1> HIDE DEF q, nm, c, L, K, S, A, T, U, rest
<1>21. Bounded(Restrict(A, U), rest) = Bounded(Restrict(A, S), 0)
  BY <1>1, <1>9, <1>10, <1>16, <1>20, BoundedNarrowed
<1>22. QED
  BY <1>18, <1>19, <1>21 DEF Restrict

(* Whichever aggregate served it, an item says what the buffers were.      *)
LEMMA BuildRight ==
  ASSUME NEW sources \in SUBSET CacheSources, NEW source \in sources, NEW view, Buffers(view),
         NEW payload, NEW resolvable,
         payload.groups = Aggregate(sources, view),
         sources \cap (DatabaseSources \cup RelationSources) # {} => payload.databases = Databases,
         payload.keys = CandidateKeys(Aggregate(sources, view), sources),
         \A s \in sources \cap RelationSources : \A k \in payload.keys[s] :
            k \in payload.resolved <=> k \in resolvable
  PROVE  Build(source, payload) = Reference(source, view, resolvable)
<1>1. CASE source \in SummarySources
  BY <1>1, SummaryRight
<1>2. CASE source = "by_database"
  <2>1. payload.databases = Databases
    BY <1>2 DEF DatabaseSources
  <2>2. QED
    BY <1>2, <2>1, DatabasesRight DEF Build
<1>3. CASE source \in RelationSources
  <2>1. IsFiniteSet(CacheSources)
    <3>1. CacheSources = (({"utilization"} \cup {"usage_count_distribution"}) \cup {"dirty_and_pinned"})
                           \cup (({"by_database"} \cup {"top_relations"}) \cup {"top_dirty_relations"})
      BY DEF CacheSources, SummarySources, DatabaseSources, RelationSources
    <3>2. \A s : IsFiniteSet({s})
      BY FS_Singleton
    <3>3. IsFiniteSet(({"utilization"} \cup {"usage_count_distribution"}) \cup {"dirty_and_pinned"})
      BY <3>2, FS_Union
    <3>4. IsFiniteSet(({"by_database"} \cup {"top_relations"}) \cup {"top_dirty_relations"})
      BY <3>2, FS_Union
    <3>5. QED
      BY <3>1, <3>3, <3>4, FS_Union
  <2>2. IsFiniteSet(sources)
    BY <2>1, FS_Subset
  <2>3. payload.keys[source] = TopKeys(Aggregate(sources, view), DirtyOnly(source))
    BY <1>3 DEF CandidateKeys
  <2>4. \A k \in payload.keys[source] : k \in payload.resolved <=> k \in resolvable
    BY <1>3
  <2>5. BuildRelations(source, payload) = TrueRelations(source, view, resolvable)
    BY <1>3, <2>2, <2>3, <2>4, RelationsRight
  <2>6. /\ Build(source, payload) = BuildRelations(source, payload)
        /\ Reference(source, view, resolvable) = TrueRelations(source, view, resolvable)
    BY <1>3 DEF Build, Reference, RelationSources
  <2>7. QED
    BY <2>5, <2>6
<1>4. QED
  BY <1>1, <1>2, <1>3 DEF CacheSources, DatabaseSources

(* The cheap functions say the same of the buffers.                        *)
LEMMA FastSummaryRight ==
  ASSUME NEW view, NEW resolvable
  PROVE  /\ FastUtilization(Summary(view)) = Reference("utilization", view, resolvable)
         /\ FastDirty(Summary(view)) = Reference("dirty_and_pinned", view, resolvable)
<1>1. DOMAIN view \ InUse(view) = {n \in DOMAIN view : view[n].rel = NoRelation}
  BY DEF InUse
<1>2. FastUtilization(Summary(view)) = TrueUtilization(view)
  BY <1>1 DEF FastUtilization, Summary, TrueUtilization, InUse
<1>3. FastDirty(Summary(view)) = TrueDirtyAndPinned(view)
  BY DEF FastDirty, Summary, TrueDirtyAndPinned
<1>4. QED
  BY <1>2, <1>3 DEF Reference

(* The usage counts, where a free buffer counts as one that is not used.   *)
LEMMA FastDirtyRight ==
  ASSUME NEW view, Buffers(view), NEW resolvable
  PROVE  FastDirtyFromUsage(UsageRows(view)) = Reference("dirty_and_pinned", view, resolvable)
<1> DEFINE rows == UsageRows(view)
           q == [n \in DOMAIN view |-> IF view[n].usage = NoCount THEN 0 ELSE view[n].usage]
           at(u) == {n \in DOMAIN view : view[n].usage = u \/ (u = 0 /\ view[n].usage = NoCount)}
           D == {n \in DOMAIN view : view[n].dirty}
           P == {n \in DOMAIN view : view[n].pinned}
           dirty == [u \in UsageCounts |-> rows[u].dirty]
           pinned == [u \in UsageCounts |-> rows[u].pinned]
<1>1. \A n \in DOMAIN view : q[n] \in UsageCounts
  <2> SUFFICES ASSUME NEW n \in DOMAIN view PROVE q[n] \in UsageCounts
    OBVIOUS
  <2>1. IsBuffer(view[n])
    BY DEF Buffers
  <2>2. QED
    BY <2>1 DEF IsBuffer, Free, UsageCounts, NoCount
<1>2. ASSUME NEW n \in DOMAIN view, NEW u \in UsageCounts
      PROVE  q[n] = u <=> view[n].usage = u \/ (u = 0 /\ view[n].usage = NoCount)
  BY DEF UsageCounts, NoCount
<1>3. IsFiniteSet(DOMAIN view) /\ IsFiniteSet(D) /\ IsFiniteSet(P) /\ IsFiniteSet(UsageCounts)
  <2>1. IsFiniteSet(0 .. 5)
    <3>1. 0 \in Int /\ 5 \in Int
      OBVIOUS
    <3>2. QED
      BY <3>1, FS_Interval
  <2>2. QED
    BY <2>1, FS_Subset DEF Buffers, UsageCounts
<1>4. ASSUME NEW u \in UsageCounts
      PROVE  /\ rows[u].dirty = CountAt(D, q, u) /\ rows[u].dirty \in Nat
             /\ rows[u].pinned = CountAt(P, q, u) /\ rows[u].pinned \in Nat
  <2>1. /\ rows[u].dirty = Cardinality({n \in at(u) : view[n].dirty})
        /\ rows[u].pinned = Cardinality({n \in at(u) : view[n].pinned})
    BY DEF UsageRows
  <2>2. {n \in at(u) : view[n].dirty} = {n \in D : q[n] = u}
    BY <1>2
  <2>3. {n \in at(u) : view[n].pinned} = {n \in P : q[n] = u}
    BY <1>2
  <2>4. CountAt(D, q, u) \in Nat /\ CountAt(P, q, u) \in Nat
    BY <1>3, FS_Subset, FS_CardinalityType DEF CountAt
  <2>5. QED
    BY <2>1, <2>2, <2>3, <2>4 DEF CountAt
<1>5. /\ dirty \in [UsageCounts -> Nat] /\ \A u \in UsageCounts : dirty[u] = CountAt(D, q, u)
      /\ pinned \in [UsageCounts -> Nat] /\ \A u \in UsageCounts : pinned[u] = CountAt(P, q, u)
  BY <1>4
<1>6. CountIn(D, q, UsageCounts) = Cardinality(D) /\ CountIn(P, q, UsageCounts) = Cardinality(P)
  <2>1. {n \in D : q[n] \in UsageCounts} = D /\ {n \in P : q[n] \in UsageCounts} = P
    BY <1>1
  <2>2. QED
    BY <2>1 DEF CountIn
<1>7. FastDirtyFromUsage(rows) = [dirty |-> Sum(dirty), pinned |-> Sum(pinned)]
  BY DEF FastDirtyFromUsage, Sum
<1>8. Reference("dirty_and_pinned", view, resolvable)
        = [dirty |-> Cardinality(D), pinned |-> Cardinality(P)]
  BY DEF Reference, TrueDirtyAndPinned
<1> HIDE DEF rows, q, D, P, dirty, pinned
<1>9. Sum(dirty) = CountIn(D, q, UsageCounts) /\ Sum(pinned) = CountIn(P, q, UsageCounts)
  BY <1>3, <1>5, SumCounts
<1>10. QED
  BY <1>6, <1>7, <1>8, <1>9 DEF rows

(* Two readings of the same buffers: those that are free are taken off the *)
(* buffers with usage 0.                                                   *)
LEMMA FastUsageRight ==
  ASSUME NEW view, Buffers(view), NEW resolvable
  PROVE  FastUsage(Summary(view), UsageRows(view))
           = Reference("usage_count_distribution", view, resolvable)
<1> DEFINE rows == UsageRows(view)
           At(u) == {n \in DOMAIN view : view[n].usage = u}
           unused == {n \in DOMAIN view : view[n].rel = NoRelation}
           zero == {n \in DOMAIN view : view[n].usage = 0 \/ view[n].usage = NoCount}
<1>1. \A n \in DOMAIN view : view[n].rel = NoRelation <=> view[n].usage = NoCount
  <2> SUFFICES ASSUME NEW n \in DOMAIN view
               PROVE  view[n].rel = NoRelation <=> view[n].usage = NoCount
    OBVIOUS
  <2>1. IsBuffer(view[n])
    BY DEF Buffers
  <2>2. QED
    BY <2>1, BufferCacheAssumption DEF IsBuffer, Free, UsageCounts, NoCount, NoRelation
<1>2. \A u \in UsageCounts : u # 0 => rows[u].buffers = Cardinality(At(u))
  <2> SUFFICES ASSUME NEW u \in UsageCounts, u # 0 PROVE rows[u].buffers = Cardinality(At(u))
    OBVIOUS
  <2>1. {n \in DOMAIN view : view[n].usage = u \/ (u = 0 /\ view[n].usage = NoCount)} = At(u)
    OBVIOUS
  <2>2. QED
    BY <2>1 DEF UsageRows
<1>3. rows[0].buffers = Cardinality(zero) /\ Summary(view).unused = Cardinality(unused)
  <2>1. 0 \in UsageCounts
    BY DEF UsageCounts
  <2>2. {n \in DOMAIN view : view[n].usage = 0 \/ (0 = 0 /\ view[n].usage = NoCount)} = zero
    OBVIOUS
  <2>3. QED
    BY <2>1, <2>2 DEF UsageRows, Summary
<1>4. zero = At(0) \cup unused /\ At(0) \cap unused = {}
  BY <1>1 DEF NoCount
<1>5. IsFiniteSet(At(0)) /\ IsFiniteSet(unused)
  BY FS_Subset DEF Buffers
<1>6. Reference("usage_count_distribution", view, resolvable) = [u \in UsageCounts |-> Cardinality(At(u))]
  BY DEF Reference, TrueUsageCounts
<1> HIDE DEF rows, At, unused, zero
<1>7. Cardinality(zero) = Cardinality(At(0)) + Cardinality(unused)
      /\ Cardinality(At(0)) \in Nat /\ Cardinality(unused) \in Nat
  <2>1. Cardinality(At(0)) \in Nat /\ Cardinality(unused) \in Nat
    BY <1>5, FS_CardinalityType
  <2>2. Cardinality(At(0) \cup unused)
          = Cardinality(At(0)) + Cardinality(unused) - Cardinality(At(0) \cap unused)
    BY <1>5, FS_Union
  <2>3. Cardinality(At(0) \cap unused) = 0
    BY <1>4, FS_EmptySet
  <2>4. Cardinality(At(0)) + Cardinality(unused) - Cardinality(At(0) \cap unused)
          = Cardinality(At(0)) + Cardinality(unused)
    BY <2>1, <2>3
  <2>5. QED
    BY <1>4, <2>1, <2>2, <2>4
<1>8. (IF rows[0].buffers > Summary(view).unused THEN rows[0].buffers - Summary(view).unused ELSE 0)
        = Cardinality(At(0))
  BY <1>3, <1>7
<1>9. FastUsage(Summary(view), rows) = [u \in UsageCounts |-> Cardinality(At(u))]
  <2>1. \A u \in UsageCounts :
          (IF u = 0
           THEN IF rows[0].buffers > Summary(view).unused
                THEN rows[0].buffers - Summary(view).unused ELSE 0
           ELSE rows[u].buffers) = Cardinality(At(u))
    BY <1>2, <1>8
  <2>2. QED
    BY <2>1 DEF FastUsage
<1>10. QED
  BY <1>6, <1>9 DEF rows

-----------------------------------------------------------------------------
(* QueryBatch: the transaction and its limits.                             *)

(* Where a query does its own work.                                        *)
WorkPoints == {"work", "plain", "probe", "summary", "usage", "detail", "metadata", "resolve"}

(* Where the batch is: one item for every query that is over.              *)
BatchTypeOK ==
  /\ batch \in Batches
  /\ index \in Nat \ {0}
  /\ \E S : items \in Seq(S)
  /\ Len(items) = index - 1
  /\ pc \in WorkPoints \cup Around \cup {"done", "raised"}
  /\ pc \notin {"next", "done", "raised"} => index \in DOMAIN batch
  /\ DOMAIN settings = DOMAIN Defaults /\ DOMAIN saved = DOMAIN Defaults
  /\ slips \subseteq Nat

(* Which limits the query has set and not put back.                        *)
OverriddenInv ==
  /\ pc \in {"next", "release"} => overridden = {}
  /\ pc \in WorkPoints => overridden = DOMAIN Query.limits
  /\ pc \in {"limits", "restore"} => overridden \subseteq DOMAIN Query.limits
  /\ pc = "limits" => DOMAIN Query.limits \ overridden # {}
  /\ pc = "restore" => overridden # {}

(* A query that fails goes back to the session's limits; one that is       *)
(* answered has put them back itself before its savepoint is released; in  *)
(* between the limits it has set and not put back are its own.             *)
LimitsInv ==
  \A k \in Limits :
    /\ saved[k] = Defaults[k]
    /\ pc \in {"next", "release"} => settings[k] = Defaults[k]
    /\ pc \in {"limits", "restore"} =>
         settings[k] = IF k \in overridden THEN Query.limits[k] ELSE Defaults[k]
    /\ pc \in WorkPoints => settings[k] = Limit(Query, k)

(* A savepoint statement has failed by itself, in this query or before.    *)
Tainted == \E m \in slips : m <= index

(* The transaction is left failed by nothing else.                         *)
BatchInv ==
  /\ BatchTypeOK /\ OverriddenInv /\ LimitsInv
  /\ aborted => Tainted
  /\ NeverRefused /\ OwnLimit

(* A refusal that is remembered for the queries to come has that reason.   *)
ProviderInv(p) ==
  /\ p \in [checked : BOOLEAN, caps : {p.caps}, summary : {p.summary}, usage : {p.usage},
            detail : {p.detail}]
  /\ \A r \in {"summary", "usage", "detail"} :
        p[r].kind = "lost" => (p[r].error = Refused => Tainted)

LEMMA BatchInitInv == Init => BatchInv /\ ProviderInv(provider)
BY QueryBatchAssumption
   DEF Init, BatchInv, BatchTypeOK, OverriddenInv, LimitsInv, NeverRefused, OwnLimit, ProviderInv,
       Unread, WorkPoints, Around

(* The limits of a planned query are numbers.                              *)
LEMMA LimitNat ==
  ASSUME BatchTypeOK, index \in DOMAIN batch, NEW k \in Limits
  PROVE  Limit(Query, k) \in Nat
BY QueryBatchAssumption DEF BatchTypeOK, Limit, Query

(* A reason that was there stays.                                          *)
LEMMA TaintStays ==
  ASSUME BatchTypeOK, slips \subseteq slips', index' \in {index, index + 1}, Tainted
  PROVE  Tainted'
<1>1. PICK m \in slips : m <= index
  BY DEF Tainted
<1>2. m \in Nat /\ index \in Nat /\ m \in slips'
  BY <1>1 DEF BatchTypeOK
<1>3. m <= index'
  BY <1>1, <1>2
<1>4. QED
  BY <1>2, <1>3 DEF Tainted

(* An error a statement of the current query can meet: it is no refusal    *)
(* without a reason, and a limit that stopped it is the query's own or,    *)
(* around its work, the session's.                                         *)
Honest(e) ==
  /\ e = Refused => Tainted
  /\ e.why \in Limits =>
       IF pc \in Around THEN e.after \in {Limit(Query, e.why), Defaults[e.why]}
       ELSE e.after = Limit(Query, e.why)

LEMMA ErrsHonest ==
  ASSUME BatchInv, pc \in WorkPoints \cup Around, NEW e, Errs(e)
  PROVE  Honest(e)
<1>1. ASSUME NEW k \in Limits
      PROVE  IF pc \in Around THEN settings[k] \in {Limit(Query, k), Defaults[k]}
             ELSE settings[k] = Limit(Query, k)
  BY DEF BatchInv, OverriddenInv, LimitsInv, Limit, WorkPoints, Around
<1>2. CASE e \in ServerErrors
  <2>1. e # Refused
    BY <1>2 DEF ServerErrors, Refused, Limits
  <2>2. e.why \in Limits => e.after = settings[e.why]
    BY <1>2 DEF ServerErrors, Limits
  <2>3. QED
    BY <1>1, <2>1, <2>2 DEF Honest
<1>3. CASE e = Closed
  BY <1>3 DEF Honest, Closed, Refused, Limits
<1>4. CASE aborted /\ e = Refused
  BY <1>4 DEF BatchInv, Honest, Refused, Limits
<1>5. QED
  BY <1>2, <1>3, <1>4 DEF Errs

(* A step of the query's work that stores nothing and leaves the session   *)
(* alone, or failed for a reason.                                          *)
LEMMA KeepsInv ==
  ASSUME BatchInv, pc \in WorkPoints, pc' \in WorkPoints,
         UNCHANGED <<batch, settings, saved, overridden, items, index>>,
         slips \subseteq slips', slips' \subseteq Nat,
         aborted' => aborted \/ index \in slips'
  PROVE  BatchInv' /\ (Tainted => Tainted')
<1>1. index \in DOMAIN batch
  BY DEF BatchInv, BatchTypeOK, WorkPoints
<1>2. BatchTypeOK' /\ (Tainted => Tainted')
  BY <1>1, TaintStays DEF BatchInv, BatchTypeOK, WorkPoints
<1>3. OverriddenInv' /\ LimitsInv'
  BY DEF BatchInv, OverriddenInv, LimitsInv, Limit, Query, WorkPoints
<1>4. aborted' => Tainted'
  <2>1. index \in slips' => Tainted'
    BY DEF BatchInv, BatchTypeOK, Tainted
  <2>2. QED
    BY <1>2, <2>1 DEF BatchInv
<1>5. NeverRefused' /\ OwnLimit'
  BY DEF BatchInv, NeverRefused, OwnLimit, Limit
<1>6. QED
  BY <1>2, <1>3, <1>4, <1>5 DEF BatchInv

(* A step within a query that leaves its items alone keeps what they say.  *)
LEMMA ItemsKept ==
  ASSUME BatchInv, UNCHANGED <<batch, items, slips>>
  PROVE  NeverRefused' /\ OwnLimit'
BY DEF BatchInv, NeverRefused, OwnLimit, Limit

(* The item stored for a query is the one at its place.                    *)
LEMMA StoreKeeps ==
  ASSUME BatchInv, NEW answered, Store(answered), UNCHANGED batch,
         slips \subseteq slips',
         answered.error = Refused => \E m \in slips' : m <= index,
         answered.own /\ answered.error.why \in Limits =>
            IF answered.at \in Around
            THEN answered.error.after \in {Limit(Query, answered.error.why), Defaults[answered.error.why]}
            ELSE /\ answered.error.after = Limit(Query, answered.error.why)
                 /\ answered.failure = answered.error.why
  PROVE  /\ NeverRefused' /\ OwnLimit'
         /\ index' \in Nat \ {0} /\ (\E S : items' \in Seq(S)) /\ Len(items') = index' - 1
         /\ pc' \in {"next", "raised"} /\ overridden' = {}
         /\ Tainted => Tainted'
<1>1. PICK S : items \in Seq(S)
  BY DEF BatchInv, BatchTypeOK
<1>2. items' = Append(items, answered) /\ index' = index + 1 /\ pc' \in {"next", "raised"}
      /\ overridden' = {}
  BY DEF Store
<1>3. items' \in Seq(S \cup {answered}) /\ Len(items') = Len(items) + 1
  BY <1>1, <1>2
<1>4. /\ DOMAIN items' = 1..index
      /\ \A n \in 1..(index - 1) : items'[n] = items[n]
      /\ items'[index] = answered
  BY <1>1, <1>2 DEF BatchInv, BatchTypeOK
<1>5. DOMAIN items = 1..(index - 1) /\ index \in Nat \ {0}
  BY <1>1 DEF BatchInv, BatchTypeOK
<1>6. NeverRefused'
  <2> SUFFICES ASSUME NEW n \in 1..index, items'[n].error = Refused
               PROVE  \E m \in slips' : m <= n
    BY <1>4 DEF NeverRefused
  <2>1. CASE n = index
    BY <2>1, <1>4
  <2>2. CASE n # index
    <3>1. n \in DOMAIN items /\ items[n].error = Refused
      BY <2>2, <1>4, <1>5
    <3>2. QED
      BY <3>1 DEF BatchInv, NeverRefused
  <2>3. QED
    BY <2>1, <2>2
<1>7. OwnLimit'
  <2> DEFINE i(n) == items'[n]
             own(n) == Limit(batch[n], items'[n].error.why)
  <2> SUFFICES ASSUME NEW n \in 1..index, i(n).own, i(n).error.why \in Limits
               PROVE  IF i(n).at \in Around
                      THEN i(n).error.after \in {own(n), Defaults[i(n).error.why]}
                      ELSE i(n).error.after = own(n) /\ i(n).failure = i(n).error.why
    BY <1>4 DEF OwnLimit, Limit
  <2>1. CASE n = index
    BY <2>1, <1>4 DEF Query
  <2>2. CASE n # index
    BY <2>2, <1>4, <1>5 DEF BatchInv, OwnLimit
  <2>3. QED
    BY <2>1, <2>2
<1>8. Tainted => Tainted'
  BY <1>2, TaintStays DEF BatchInv
<1>9. QED
  BY <1>2, <1>3, <1>5, <1>6, <1>7, <1>8 DEF BatchInv, BatchTypeOK

(* What is said of a query that fails at a statement of its own.           *)
LEMMA FailedOwn ==
  ASSUME BatchInv, index \in DOMAIN batch, NEW e, NEW own \in BOOLEAN, own => Honest(e),
         FailedItem(e, own).own, FailedItem(e, own).error.why \in Limits
  PROVE  IF FailedItem(e, own).at \in Around
         THEN FailedItem(e, own).error.after \in {Limit(Query, e.why), Defaults[e.why]}
         ELSE /\ FailedItem(e, own).error.after = Limit(Query, e.why)
              /\ FailedItem(e, own).failure = e.why
<1>1. /\ FailedItem(e, own).error = e /\ FailedItem(e, own).own = own /\ FailedItem(e, own).at = pc
      /\ FailedItem(e, own).failure = FailureKind(e, IF own THEN e.after ELSE 0, Query)
  BY DEF FailedItem
<1>2. own /\ e.why \in Limits /\ Honest(e)
  BY <1>1
<1>3. CASE pc \in Around
  BY <1>1, <1>2, <1>3 DEF Honest
<1>4. CASE pc \notin Around
  <2>1. e.after = Limit(Query, e.why) /\ e.after \in Nat
    BY <1>2, <1>4, LimitNat DEF Honest, BatchInv
  <2>2. e.after >= Limit(Query, e.why)
    BY <2>1
  <2>3. FailureKind(e, e.after, Query) = e.why
    BY <1>2, <2>1, <2>2 DEF FailureKind, Limits
  <2>4. QED
    BY <1>1, <1>2, <1>4, <2>1, <2>3
<1>5. QED
  BY <1>3, <1>4

(* A query that fails leaves the session as its savepoint found it.        *)
LEMMA FailsKeeps ==
  ASSUME BatchInv, index \in DOMAIN batch, NEW e, NEW own \in BOOLEAN, Fails(e, own), UNCHANGED batch,
         e = Refused => Tainted, own => Honest(e)
  PROVE  BatchInv' /\ (Tainted => Tainted')
<1>1. /\ Store(FailedItem(e, own)) /\ settings' = saved /\ saved' = saved /\ ~aborted'
      /\ slips' = slips
  BY DEF Fails
<1>2. FailedItem(e, own).error = e
  BY DEF FailedItem
<1>3. e = Refused => \E m \in slips' : m <= index
  BY <1>1 DEF Tainted
<1>4. /\ NeverRefused' /\ OwnLimit'
      /\ index' \in Nat \ {0} /\ (\E S : items' \in Seq(S)) /\ Len(items') = index' - 1
      /\ pc' \in {"next", "raised"} /\ overridden' = {}
      /\ Tainted => Tainted'
  <2> HIDE DEF FailedItem
  <2>1. QED
    BY <1>1, <1>2, <1>3, FailedOwn, StoreKeeps
<1>5. BatchTypeOK' /\ OverriddenInv' /\ LimitsInv'
  BY <1>1, <1>4 DEF BatchInv, BatchTypeOK, OverriddenInv, LimitsInv, WorkPoints, Around
<1>6. QED
  BY <1>1, <1>4, <1>5 DEF BatchInv

(* A query whose savepoint cannot be set or released leaves the session's  *)
(* limits, and the reason for the refusals that follow.                    *)
LEMMA SlipsKeeps ==
  ASSUME BatchInv, pc \in {"next", "release"}, index \in DOMAIN batch, NEW e \in Errors, NEW left,
         DOMAIN left = DOMAIN Defaults, \A k \in Limits : left[k] = Defaults[k],
         Slips(e, left), UNCHANGED batch
  PROVE  BatchInv' /\ (Tainted => Tainted')
<1>1. /\ Errs(e) /\ Store(FailedItem(e, TRUE)) /\ settings' = left /\ saved' = saved
      /\ aborted' = (e # Closed)
      /\ slips' = IF e \in ServerErrors THEN slips \cup {index} ELSE slips
  BY DEF Slips
<1>2. Honest(e)
  BY <1>1, ErrsHonest DEF Around
<1>3. FailedItem(e, TRUE).error = e
  BY DEF FailedItem
<1>4. slips \subseteq slips' /\ slips' \subseteq Nat
  BY <1>1 DEF BatchInv, BatchTypeOK
<1>5. e = Refused => \E m \in slips' : m <= index
  BY <1>2, <1>4 DEF Honest, Tainted
<1>6. /\ NeverRefused' /\ OwnLimit'
      /\ index' \in Nat \ {0} /\ (\E S : items' \in Seq(S)) /\ Len(items') = index' - 1
      /\ pc' \in {"next", "raised"} /\ overridden' = {}
      /\ Tainted => Tainted'
  <2> HIDE DEF FailedItem
  <2>1. QED
    BY <1>1, <1>2, <1>3, <1>4, <1>5, FailedOwn, StoreKeeps
<1>7. aborted' => Tainted'
  <2>1. CASE e \in ServerErrors
    <3>1. index \in slips' /\ index \in Nat /\ index' = index + 1
      BY <1>1, <2>1 DEF Store, BatchInv, BatchTypeOK
    <3>2. QED
      BY <3>1 DEF Tainted
  <2>2. CASE e = Refused
    BY <1>2, <1>6, <2>2 DEF Honest
  <2>3. CASE e = Closed
    BY <1>1, <2>3
  <2>4. QED
    BY <2>1, <2>2, <2>3 DEF Errors
<1>8. BatchTypeOK' /\ OverriddenInv' /\ LimitsInv'
  BY <1>1, <1>4, <1>6 DEF BatchInv, BatchTypeOK, OverriddenInv, LimitsInv, WorkPoints, Around
<1>9. QED
  BY <1>6, <1>7, <1>8 DEF BatchInv

(* A query that is answered still has its own limits to put back, or none. *)
LEMMA AnswersKeeps ==
  ASSUME BatchInv, pc \in WorkPoints, NEW answer, Answers(answer), UNCHANGED batch
  PROVE  BatchInv' /\ (Tainted => Tainted')
<1>1. /\ UNCHANGED <<settings, saved, aborted, slips, overridden, items, index>>
      /\ pc' = IF overridden = {} THEN "release" ELSE "restore"
  BY DEF Answers, session, report
<1>2. index \in DOMAIN batch /\ overridden = DOMAIN Query.limits
  BY DEF BatchInv, BatchTypeOK, OverriddenInv, WorkPoints
<1>3. BatchTypeOK' /\ OverriddenInv'
  BY <1>1, <1>2 DEF BatchInv, BatchTypeOK, OverriddenInv, WorkPoints, Around, Query
<1>4. LimitsInv'
  BY <1>1, <1>2 DEF BatchInv, LimitsInv, WorkPoints, Query, Limit
<1>5. Tainted' = Tainted
  BY <1>1 DEF Tainted
<1>6. QED
  BY <1>1, <1>3, <1>4, <1>5, ItemsKept DEF BatchInv

(* What the current query does next with provider p.                       *)
LEMMA ProceedsKeeps ==
  ASSUME BatchInv, pc \in WorkPoints, NEW p, Proceeds(p), UNCHANGED batch,
         \A r \in {"summary", "usage", "detail"} :
            p[r].kind = "lost" => (p[r].error = Refused => Tainted)
  PROVE  BatchInv' /\ (Tainted => Tainted')
<1> DEFINE r == Readings(Query.source, p.caps)
           open == {n \in DOMAIN r : p[r[n]].kind # "held"}
           first == r[CHOOSE n \in open : \A m \in open : n <= m]
<1>1. r \in {<<"summary">>, <<"summary", "usage">>, <<"usage">>, <<"detail">>}
  BY DEF Readings
<1>2. ASSUME open # {} PROVE first \in {"summary", "usage", "detail"}
  <2>1. DOMAIN r \in {{1}, {1, 2}}
    BY <1>1
  <2>2. \E n \in open : \A m \in open : n <= m
    BY <1>2, <2>1
  <2>3. QED
    BY <1>1, <2>1, <2>2
<1>3. ASSUME UNCHANGED <<session, local, report>>,
             pc' = "probe" \/ (open # {} /\ pc' = first)
      PROVE  BatchInv' /\ (Tainted => Tainted')
  <2>1. pc' \in WorkPoints
    BY <1>2, <1>3 DEF WorkPoints
  <2>2. slips' \subseteq Nat
    BY <1>3 DEF session, BatchInv, BatchTypeOK
  <2> HIDE DEF open, first, r
  <2>3. QED
    BY <1>3, <2>1, <2>2, KeepsInv DEF session, local, report
<1>4. CASE Answers(FromReadings(Query.source, p))
  BY <1>4, AnswersKeeps
<1>5. CASE open # {} /\ p[first].kind = "lost" /\ Fails(p[first].error, FALSE)
  <2>1. p[first].error = Refused => Tainted
    BY <1>2, <1>5
  <2>2. index \in DOMAIN batch
    BY DEF BatchInv, BatchTypeOK, WorkPoints
  <2> HIDE DEF open, first, r
  <2>3. QED
    BY <1>5, <2>1, <2>2, FailsKeeps
<1> HIDE DEF open, first, r
<1>6. QED
  BY <1>3, <1>4, <1>5 DEF Proceeds, open, first, r

(* The provider keeps its reasons.                                         *)
LEMMA ProviderKept ==
  ASSUME ProviderInv(provider), UNCHANGED provider, Tainted => Tainted'
  PROVE  ProviderInv(provider)'
BY DEF ProviderInv

(* The reading a query fails with is remembered with its error.            *)
LEMMA RememberKeeps ==
  ASSUME BatchInv, ProviderInv(provider), index \in DOMAIN batch, UNCHANGED batch,
         NEW name \in {"summary", "usage", "detail"}, NEW e, Remember(name, e), Honest(e)
  PROVE  BatchInv' /\ ProviderInv(provider)'
<1>1. provider' = [provider EXCEPT ![name] = Lost(e)] /\ Fails(e, TRUE)
  BY DEF Remember
<1>2. BatchInv' /\ (Tainted => Tainted')
  BY <1>1, FailsKeeps DEF Honest
<1>3. ProviderInv(provider)'
  BY <1>1, <1>2 DEF ProviderInv, Honest, Lost
<1>4. QED
  BY <1>2, <1>3

(* A reading that is held, then what the query does with it.               *)
LEMMA HeldKeeps ==
  ASSUME BatchInv, ProviderInv(provider), pc \in WorkPoints,
         UNCHANGED batch, NEW name \in {"summary", "usage", "detail"}, NEW value, NEW moment,
         provider' = [provider EXCEPT ![name] = Held(value, moment)], Proceeds(provider')
  PROVE  BatchInv' /\ ProviderInv(provider)'
<1>1. \A r \in {"summary", "usage", "detail"} :
         provider'[r].kind = "lost" => (provider'[r].error = Refused => Tainted)
  BY DEF ProviderInv, Held
<1>2. BatchInv' /\ (Tainted => Tainted')
  BY <1>1, ProceedsKeeps
<1>3. ProviderInv(provider)'
  BY <1>1, <1>2 DEF ProviderInv, Held
<1>4. QED
  BY <1>2, <1>3

(* The limits are set one by one.                                          *)
LEMMA SetLimitsKeeps ==
  ASSUME BatchInv, SetLimits
  PROVE  BatchInv' /\ (Tainted => Tainted')
<1> DEFINE left == DOMAIN Query.limits \ overridden
           key == FirstOf(left)
<1>1. pc = "limits" /\ index \in DOMAIN batch /\ UNCHANGED batch
  BY DEF SetLimits, BatchInv, BatchTypeOK, world
<1>2. /\ left # {} /\ overridden \subseteq DOMAIN Query.limits /\ DOMAIN Query.limits \subseteq Limits
      /\ key \in left
  BY <1>1, QueryBatchAssumption DEF BatchInv, BatchTypeOK, OverriddenInv, Query, FirstOf, Limits
<1>3. ASSUME settings' = [settings EXCEPT ![key] = Query.limits[key]],
             overridden' = overridden \cup {key},
             pc' = IF left = {key} THEN "work" ELSE "limits",
             UNCHANGED <<saved, aborted, slips, report>>
      PROVE  BatchInv' /\ (Tainted => Tainted')
  <2> HIDE DEF left, key
  <2>1. UNCHANGED <<items, index, Query>>
    BY <1>1, <1>3 DEF report, Query
  <2>2. BatchTypeOK'
    BY <1>1, <1>3, <2>1 DEF BatchInv, BatchTypeOK, WorkPoints, Around
  <2>3. OverriddenInv'
    BY <1>1, <1>2, <1>3, <2>1 DEF OverriddenInv, left, WorkPoints
  <2>4. LimitsInv'
    <3> SUFFICES ASSUME NEW k \in Limits
                 PROVE  /\ saved'[k] = Defaults[k]
                        /\ settings'[k] = IF k \in overridden' THEN Query.limits[k] ELSE Defaults[k]
                        /\ pc' = "work" => overridden' = DOMAIN Query.limits
      BY <1>3, <2>1 DEF LimitsInv, Limit, WorkPoints
    <3>1. saved[k] = Defaults[k] /\ key \in DOMAIN settings
          /\ settings[k] = IF k \in overridden THEN Query.limits[k] ELSE Defaults[k]
      BY <1>1, <1>2, QueryBatchAssumption DEF BatchInv, BatchTypeOK, LimitsInv, left
    <3>2. QED
      BY <1>2, <1>3, <3>1 DEF left
  <2>5. Tainted' = Tainted
    BY <1>3, <2>1 DEF Tainted
  <2>6. QED
    BY <1>1, <1>3, <2>1, <2>2, <2>3, <2>4, <2>5, ItemsKept DEF BatchInv
<1>4. ASSUME NEW e, Errs(e), Fails(e, TRUE) PROVE BatchInv' /\ (Tainted => Tainted')
  BY <1>1, <1>4, ErrsHonest, FailsKeeps DEF Honest, Around
<1>5. QED
  BY <1>3, <1>4 DEF SetLimits

(* ... and put back one by one.                                            *)
LEMMA RestoreKeeps ==
  ASSUME BatchInv, Restore
  PROVE  BatchInv' /\ (Tainted => Tainted')
<1> DEFINE key == FirstOf(overridden)
<1>1. pc = "restore" /\ index \in DOMAIN batch /\ UNCHANGED batch
  BY DEF Restore, BatchInv, BatchTypeOK, world
<1>2. /\ overridden \subseteq DOMAIN Query.limits /\ DOMAIN Query.limits \subseteq Limits
      /\ key \in overridden
  BY <1>1, QueryBatchAssumption DEF BatchInv, BatchTypeOK, OverriddenInv, Query, FirstOf, Limits
<1>3. ASSUME settings' = [settings EXCEPT ![key] = Defaults[key]],
             overridden' = overridden \ {key},
             pc' = IF overridden = {key} THEN "release" ELSE "restore",
             UNCHANGED <<saved, aborted, slips, report>>
      PROVE  BatchInv' /\ (Tainted => Tainted')
  <2> HIDE DEF key
  <2>1. UNCHANGED <<items, index, Query>>
    BY <1>1, <1>3 DEF report, Query
  <2>2. BatchTypeOK'
    BY <1>1, <1>3, <2>1 DEF BatchInv, BatchTypeOK, WorkPoints, Around
  <2>3. OverriddenInv'
    BY <1>1, <1>2, <1>3, <2>1 DEF OverriddenInv, WorkPoints
  <2>4. LimitsInv'
    <3> SUFFICES ASSUME NEW k \in Limits
                 PROVE  /\ saved'[k] = Defaults[k]
                        /\ settings'[k] = IF k \in overridden' THEN Query.limits[k] ELSE Defaults[k]
                        /\ pc' = "release" => overridden' = {}
      BY <1>3, <2>1 DEF LimitsInv, WorkPoints
    <3>1. saved[k] = Defaults[k] /\ key \in DOMAIN settings
          /\ settings[k] = IF k \in overridden THEN Query.limits[k] ELSE Defaults[k]
      BY <1>1, <1>2, QueryBatchAssumption DEF BatchInv, BatchTypeOK, LimitsInv
    <3>2. QED
      BY <1>2, <1>3, <3>1
  <2>5. Tainted' = Tainted
    BY <1>3, <2>1 DEF Tainted
  <2>6. QED
    BY <1>1, <1>3, <2>1, <2>2, <2>3, <2>4, <2>5, ItemsKept DEF BatchInv
<1>4. ASSUME NEW e, Errs(e), Fails(e, TRUE) PROVE BatchInv' /\ (Tainted => Tainted')
  BY <1>1, <1>4, ErrsHonest, FailsKeeps DEF Honest, Around
<1>5. QED
  BY <1>3, <1>4 DEF Restore

LEMMA BatchStep ==
  ASSUME BatchInv, ProviderInv(provider), [Next]_vars
  PROVE  BatchInv' /\ ProviderInv(provider)'
<1>1. ASSUME Savepoint PROVE BatchInv' /\ ProviderInv(provider)'
  <2>1. pc = "next" /\ index \in DOMAIN batch /\ UNCHANGED <<batch, provider>>
    BY <1>1, QueryBatchAssumption DEF Savepoint, BatchInv, BatchTypeOK, world
  <2>2. ASSUME saved' = settings, pc' = IF DOMAIN Query.limits = {} THEN "work" ELSE "limits",
               UNCHANGED <<settings, aborted, slips, local, report>>
        PROVE  BatchInv' /\ (Tainted => Tainted')
    <3>1. UNCHANGED <<overridden, items, index, Query>> /\ overridden = {}
      BY <2>1, <2>2 DEF local, report, Query, BatchInv, OverriddenInv
    <3>2. BatchTypeOK' /\ OverriddenInv'
      BY <2>1, <2>2, <3>1 DEF BatchInv, BatchTypeOK, OverriddenInv, WorkPoints, Around
    <3>3. LimitsInv'
      BY <2>1, <2>2, <3>1 DEF BatchInv, LimitsInv, Limit, WorkPoints
    <3>4. Tainted' = Tainted
      BY <2>2, <3>1 DEF Tainted
    <3>5. QED
      BY <2>1, <2>2, <3>1, <3>2, <3>3, <3>4, ItemsKept DEF BatchInv
  <2>3. ASSUME NEW e \in Errors, Slips(e, IF e = Refused THEN settings ELSE Defaults)
        PROVE  BatchInv' /\ (Tainted => Tainted')
    <3> DEFINE left == IF e = Refused THEN settings ELSE Defaults
    <3>1. DOMAIN left = DOMAIN Defaults /\ \A k \in Limits : left[k] = Defaults[k]
      BY <2>1 DEF BatchInv, BatchTypeOK, LimitsInv
    <3> HIDE DEF left
    <3>2. QED
      BY <2>1, <2>3, <3>1, SlipsKeeps DEF left
  <2>4. QED
    BY <1>1, <2>1, <2>2, <2>3, ProviderKept DEF Savepoint
<1>2. ASSUME SetLimits PROVE BatchInv' /\ ProviderInv(provider)'
  BY <1>2, SetLimitsKeeps, ProviderKept DEF SetLimits
<1>3. ASSUME Work PROVE BatchInv' /\ ProviderInv(provider)'
  <2>1. UNCHANGED <<batch, provider>> /\ pc = "work" /\ pc \in WorkPoints /\ Starts(provider)
    BY <1>3 DEF Work, WorkPoints, world
  <2>2. ASSUME Proceeds(provider) PROVE BatchInv' /\ (Tainted => Tainted')
    BY <2>1, <2>2, ProceedsKeeps DEF ProviderInv
  <2>3. ASSUME pc' = "plain", UNCHANGED <<session, local, report>>
        PROVE  BatchInv' /\ (Tainted => Tainted')
    BY <2>1, <2>3, KeepsInv DEF session, local, report, WorkPoints, BatchInv, BatchTypeOK
  <2>4. QED
    BY <2>1, <2>2, <2>3, ProviderKept DEF Starts
<1>4. ASSUME Plain PROVE BatchInv' /\ ProviderInv(provider)'
  <2>1. /\ UNCHANGED <<batch, provider>> /\ pc = "plain" /\ pc \in WorkPoints
        /\ index \in DOMAIN batch
    BY <1>4 DEF Plain, BatchInv, BatchTypeOK, WorkPoints, world
  <2>2. ASSUME Answers([kind |-> "plain"]) PROVE BatchInv' /\ (Tainted => Tainted')
    BY <2>1, <2>2, AnswersKeeps
  <2>3. ASSUME NEW e \in Errors, Errs(e), Fails(e, TRUE) PROVE BatchInv' /\ (Tainted => Tainted')
    BY <2>1, <2>3, ErrsHonest, FailsKeeps DEF Honest
  <2>4. QED
    BY <1>4, <2>1, <2>2, <2>3, ProviderKept DEF Plain
<1>5. ASSUME Restore PROVE BatchInv' /\ ProviderInv(provider)'
  BY <1>5, RestoreKeeps, ProviderKept DEF Restore
<1>6. ASSUME Release PROVE BatchInv' /\ ProviderInv(provider)'
  <2>1. UNCHANGED <<batch, provider>> /\ pc = "release" /\ index \in DOMAIN batch
    BY <1>6 DEF Release, BatchInv, BatchTypeOK, world
  <2>2. ASSUME Store(AnsweredItem(result)), UNCHANGED session
        PROVE  BatchInv' /\ (Tainted => Tainted')
    <3>1. AnsweredItem(result).error # Refused /\ AnsweredItem(result).own = FALSE
      BY DEF AnsweredItem, NoError, Refused
    <3>2. UNCHANGED <<settings, saved, aborted, slips>>
      BY <2>2 DEF session
    <3> HIDE DEF AnsweredItem
    <3>3. /\ NeverRefused' /\ OwnLimit'
          /\ index' \in Nat \ {0} /\ (\E S : items' \in Seq(S)) /\ Len(items') = index' - 1
          /\ pc' \in {"next", "raised"} /\ overridden' = {}
          /\ Tainted => Tainted'
      BY <2>1, <2>2, <3>1, <3>2, StoreKeeps
    <3>4. BatchTypeOK' /\ OverriddenInv' /\ LimitsInv'
      BY <2>1, <3>2, <3>3
         DEF BatchInv, BatchTypeOK, OverriddenInv, LimitsInv, WorkPoints, Around
    <3>5. QED
      BY <3>2, <3>3, <3>4 DEF BatchInv
  <2>3. ASSUME NEW e \in Errors, Slips(e, saved) PROVE BatchInv' /\ (Tainted => Tainted')
    <3>1. DOMAIN saved = DOMAIN Defaults /\ \A k \in Limits : saved[k] = Defaults[k]
      BY DEF BatchInv, BatchTypeOK, LimitsInv
    <3>2. QED
      BY <2>1, <2>3, <3>1, SlipsKeeps
  <2>4. QED
    BY <1>6, <2>1, <2>2, <2>3, ProviderKept DEF Release
<1>7. ASSUME Probe PROVE BatchInv' /\ ProviderInv(provider)'
  <2>1. /\ UNCHANGED <<batch, settings, saved, overridden, items, index>> /\ pc = "probe"
        /\ pc' = "work"
    BY <1>7 DEF Probe, world, local, report
  <2>2. slips \subseteq slips' /\ slips' \subseteq Nat /\ (aborted' => aborted \/ index \in slips')
    BY <1>7 DEF Probe, ProbeFailed, ProbeSlips, BatchInv, BatchTypeOK
  <2>3. BatchInv' /\ (Tainted => Tainted')
    BY <2>1, <2>2, KeepsInv DEF WorkPoints
  <2>4. ProviderInv(provider)'
    BY <1>7, <2>3 DEF Probe, ProbeFailed, ProbeSlips, ProviderInv
  <2>5. QED
    BY <2>3, <2>4
<1>8. ASSUME ReadSummary PROVE BatchInv' /\ ProviderInv(provider)'
  <2>1. UNCHANGED batch /\ pc = "summary" /\ pc \in WorkPoints /\ index \in DOMAIN batch
    BY <1>8 DEF ReadSummary, BatchInv, BatchTypeOK, WorkPoints, world
  <2>2. QED
    BY <1>8, <2>1, HeldKeeps, RememberKeeps, ErrsHonest DEF ReadSummary
<1>9. ASSUME ReadUsage PROVE BatchInv' /\ ProviderInv(provider)'
  <2>1. UNCHANGED batch /\ pc = "usage" /\ pc \in WorkPoints /\ index \in DOMAIN batch
    BY <1>9 DEF ReadUsage, BatchInv, BatchTypeOK, WorkPoints, world
  <2>2. QED
    BY <1>9, <2>1, HeldKeeps, RememberKeeps, ErrsHonest DEF ReadUsage
<1>10. ASSUME ReadDetail PROVE BatchInv' /\ ProviderInv(provider)'
  <2>1. UNCHANGED batch /\ pc = "detail" /\ pc \in WorkPoints /\ index \in DOMAIN batch
    BY <1>10 DEF ReadDetail, BatchInv, BatchTypeOK, WorkPoints, world
  <2>2. ASSUME settings' = [settings EXCEPT !.work_mem = "64MB"], pc' = "metadata",
               UNCHANGED <<provider, aborted, saved, slips, local, report>>
        PROVE  BatchInv' /\ (Tainted => Tainted')
    <3>1. DOMAIN settings' = DOMAIN settings /\ \A k \in Limits : settings'[k] = settings[k]
      BY <2>2 DEF Limits
    <3>2. UNCHANGED <<overridden, items, index, Query>>
      BY <2>1, <2>2 DEF local, report, Query
    <3>3. BatchTypeOK' /\ OverriddenInv' /\ LimitsInv'
      BY <2>1, <2>2, <3>1, <3>2
         DEF BatchInv, BatchTypeOK, OverriddenInv, LimitsInv, WorkPoints, Around, Limit
    <3>4. Tainted' = Tainted
      BY <2>2, <3>2 DEF Tainted
    <3>5. QED
      BY <2>1, <2>2, <3>2, <3>3, <3>4, ItemsKept DEF BatchInv
  <2>3. ASSUME NEW e \in Errors, Errs(e), Remember("detail", e)
        PROVE  BatchInv' /\ ProviderInv(provider)'
    BY <2>1, <2>3, RememberKeeps, ErrsHonest
  <2>4. QED
    BY <1>10, <2>2, <2>3, ProviderKept DEF ReadDetail
<1>11. ASSUME Metadata PROVE BatchInv' /\ ProviderInv(provider)'
  <2>1. UNCHANGED batch /\ pc = "metadata" /\ pc \in WorkPoints /\ index \in DOMAIN batch
    BY <1>11 DEF Metadata, BatchInv, BatchTypeOK, WorkPoints, world
  <2>2. CASE Remember("detail", NoError)
    BY <2>1, <2>2, RememberKeeps DEF NoError, Refused, Honest, Limits
  <2>3. ASSUME NEW payload, Collected(payload) PROVE BatchInv' /\ ProviderInv(provider)'
    BY <2>1, <2>3, HeldKeeps DEF Collected
  <2>4. ASSUME pc' = "resolve", UNCHANGED <<provider, session, local, report>>
        PROVE  BatchInv' /\ ProviderInv(provider)'
    <3>1. BatchInv' /\ (Tainted => Tainted')
      BY <2>1, <2>4, KeepsInv DEF session, local, report, WorkPoints, BatchInv, BatchTypeOK
    <3>2. QED
      BY <2>4, <3>1, ProviderKept
  <2>5. ASSUME NEW e \in Errors, Errs(e), Remember("detail", e)
        PROVE  BatchInv' /\ ProviderInv(provider)'
    BY <2>1, <2>5, RememberKeeps, ErrsHonest
  <2>6. QED
    BY <1>11, <2>2, <2>3, <2>4, <2>5 DEF Metadata
<1>12. ASSUME Resolve PROVE BatchInv' /\ ProviderInv(provider)'
  <2>1. UNCHANGED batch /\ pc = "resolve" /\ pc \in WorkPoints /\ index \in DOMAIN batch
    BY <1>12 DEF Resolve, BatchInv, BatchTypeOK, WorkPoints, world
  <2>2. ASSUME NEW payload, Collected(payload) PROVE BatchInv' /\ ProviderInv(provider)'
    BY <2>1, <2>2, HeldKeeps DEF Collected
  <2>3. ASSUME NEW e \in Errors, Errs(e), Remember("detail", e)
        PROVE  BatchInv' /\ ProviderInv(provider)'
    BY <2>1, <2>3, RememberKeeps, ErrsHonest
  <2>4. QED
    BY <1>12, <2>2, <2>3 DEF Resolve
<1>13. ASSUME Commit PROVE BatchInv' /\ ProviderInv(provider)'
  <2>1. /\ UNCHANGED <<batch, provider, settings, saved, aborted, slips, overridden, items, index>>
        /\ pc' \in {"done", "raised"}
    BY <1>13 DEF Commit, world, session, local, report
  <2>2. BatchTypeOK' /\ OverriddenInv' /\ LimitsInv'
    BY <2>1 DEF BatchInv, BatchTypeOK, OverriddenInv, LimitsInv, WorkPoints, Around
  <2>3. Tainted' = Tainted
    BY <2>1 DEF Tainted
  <2>4. QED
    BY <2>1, <2>2, <2>3, ItemsKept, ProviderKept DEF BatchInv
<1>14. ASSUME BuffersChange \/ UNCHANGED vars PROVE BatchInv' /\ ProviderInv(provider)'
  <2>1. /\ UNCHANGED <<batch, provider, settings, saved, aborted, slips, overridden, items, index>>
        /\ UNCHANGED pc
    BY <1>14 DEF BuffersChange, vars, world, session, local, report
  <2>2. BatchTypeOK' /\ OverriddenInv' /\ LimitsInv'
    BY <2>1 DEF BatchInv, BatchTypeOK, OverriddenInv, LimitsInv, Query, Limit
  <2>3. Tainted' = Tainted
    BY <2>1 DEF Tainted
  <2>4. QED
    BY <2>1, <2>2, <2>3, ItemsKept, ProviderKept DEF BatchInv
<1>15. QED
  BY <1>1, <1>2, <1>3, <1>4, <1>5, <1>6, <1>7, <1>8, <1>9, <1>10, <1>11, <1>12, <1>13, <1>14
     DEF Next

LEMMA BatchInductive == Spec => [](BatchInv /\ ProviderInv(provider))
<1>1. (BatchInv /\ ProviderInv(provider)) /\ [Next]_vars => (BatchInv /\ ProviderInv(provider))'
  BY BatchStep
<1>2. QED
  BY <1>1, BatchInitInv, PTL DEF Spec

(* No query of a batch is refused because of another's failure: each       *)
(* failure is rolled back to the query's savepoint, the probe's to its     *)
(* own.  The exception is a statement about a savepoint that failed by     *)
(* itself, in this query or in one before it (execute_query_item,          *)
(* QueryBatchContext).                                                     *)
THEOREM NoneRefused == Spec => []NeverRefused
<1>1. BatchInv => NeverRefused
  BY DEF BatchInv
<1>2. QED
  BY <1>1, BatchInductive, PTL

(* A query is stopped by its own limits and no other query's, whichever    *)
(* statement of another failed, those that set limits and put them back    *)
(* included, and is reported so whatever the language of the server        *)
(* (execute_query_item, _restore_batch_timeout_guards, _sql_failure_kind). *)
THEOREM LimitsOwn == Spec => []OwnLimit
<1>1. BatchInv => OwnLimit
  BY DEF BatchInv
<1>2. QED
  BY <1>1, BatchInductive, PTL

-----------------------------------------------------------------------------
(* QueryBatch: every answer is true.                                       *)

(* The payload says what the buffers were at that moment, as far as the    *)
(* sources need it.                                                        *)
Complete(payload, sources, of) ==
  /\ payload.groups = Aggregate(sources, of)
  /\ sources \cap (DatabaseSources \cup RelationSources) # {} => payload.databases = Databases
  /\ payload.keys = CandidateKeys(Aggregate(sources, of), sources)
  /\ \A s \in sources \cap RelationSources : \A k \in payload.keys[s] :
        k \in payload.resolved <=> k \in server.resolvable

(* What the provider holds of a reading is what the server had then.       *)
ReadingsInv(p) ==
  /\ p.summary.kind = "held" => p.summary.value = Summary(p.summary.of) /\ Buffers(p.summary.of)
  /\ p.usage.kind = "held" => p.usage.value = UsageRows(p.usage.of) /\ Buffers(p.usage.of)
  /\ p.detail.kind = "held" =>
       Complete(p.detail.value, DetailSources(p), p.detail.of) /\ Buffers(p.detail.of)

(* The payload while it is collected.                                      *)
ScanInv ==
  LET sources == DetailSources(provider)
      groups == Aggregate(sources, scan.of)
  IN  /\ pc \in {"metadata", "resolve"} => Buffers(scan.of)
      /\ pc = "metadata" =>
           scan = Held([groups |-> groups, databases |-> {}, resolved |-> {},
                        keys |-> [s \in {} |-> {}]], scan.of)
      /\ pc = "resolve" =>
           scan = Held([groups |-> groups,
                        databases |-> IF sources \cap (DatabaseSources \cup RelationSources) # {}
                                      THEN Databases ELSE {},
                        resolved |-> {}, keys |-> CandidateKeys(groups, sources)], scan.of)

(* The provider is used for its own sources only, and what the server      *)
(* offers is known before the detailed aggregate is chosen for them.       *)
PlaceInv ==
  /\ pc \in {"probe", "summary", "usage", "detail", "metadata", "resolve"} =>
       Query.source \in CacheSources
  /\ pc = "probe" => Prefer /\ ~ provider.checked
  /\ Prefer /\ ~ provider.checked =>
       /\ pc \notin {"summary", "usage", "detail", "metadata", "resolve"}
       /\ provider.detail.kind # "held"

(* What an answer says is true, stored or not.                             *)
AnswerTrue(answer) ==
  answer.kind = "cache" =>
    \A moment \in answer.of : answer.of = {moment} =>
      answer.rows = Reference(answer.source, moment, server.resolvable)

TruthInv ==
  /\ AnswersTrue /\ AnswerTrue(result)
  /\ ReadingsInv(provider) /\ ScanInv /\ PlaceInv /\ Buffers(table)

(* The item stored for a query says what is true.                          *)
LEMMA StoreTrue ==
  ASSUME BatchInv, AnswersTrue, NEW answered, Store(answered), UNCHANGED <<batch, server>>,
         AnswerTrue(answered.answer)
  PROVE  AnswersTrue' /\ AnswerTrue(result)' /\ pc' \in {"next", "raised"}
<1>1. PICK S : items \in Seq(S)
  BY DEF BatchInv, BatchTypeOK
<1>2. items' = Append(items, answered) /\ pc' \in {"next", "raised"}
  BY DEF Store
<1>3. \A n \in DOMAIN items' : items'[n] = answered \/ (n \in DOMAIN items /\ items'[n] = items[n])
  BY <1>1, <1>2
<1>4. ASSUME NEW n \in Answered', NEW moment \in items'[n].answer.of, items'[n].answer.of = {moment}
      PROVE  items'[n].answer.rows = Reference(items'[n].answer.source, moment, server.resolvable)
  <2>1. n \in DOMAIN items' /\ items'[n].answer.kind = "cache"
    BY DEF Answered
  <2>2. CASE items'[n] = answered
    BY <1>4, <2>1, <2>2 DEF AnswerTrue
  <2>3. CASE n \in DOMAIN items /\ items'[n] = items[n]
    <3>1. n \in Answered
      BY <2>1, <2>3 DEF Answered
    <3>2. QED
      BY <1>4, <2>3, <3>1 DEF AnswersTrue
  <2>4. QED
    BY <1>3, <2>1, <2>2, <2>3
<1>5. AnswerTrue(result)'
  BY DEF Store, NoAnswer, AnswerTrue
<1>6. QED
  BY <1>2, <1>4, <1>5 DEF AnswersTrue

LEMMA FailsTrue ==
  ASSUME BatchInv, AnswersTrue, NEW e, NEW own, Store(FailedItem(e, own)), UNCHANGED <<batch, server>>
  PROVE  AnswersTrue' /\ AnswerTrue(result)' /\ pc' \in {"next", "raised"}
<1>1. AnswerTrue(FailedItem(e, own).answer)
  BY DEF FailedItem, NoAnswer, AnswerTrue
<1> HIDE DEF FailedItem
<1>2. QED
  BY <1>1, StoreTrue

(* What an item is built from is what it would be built from at its source. *)
LEMMA ReadingsRight ==
  ASSUME NEW p, ReadingsInv(p), index \in DOMAIN batch, NEW source, source = Query.source,
         source \in CacheSources,
         \A n \in DOMAIN Readings(source, p.caps) : p[Readings(source, p.caps)[n]].kind = "held",
         NEW moment, FromReadings(source, p).of = {moment}
  PROVE  FromReadings(source, p).rows = Reference(source, moment, server.resolvable)
<1> DEFINE r == Readings(source, p.caps)
           rows == FromReadings(source, p).rows
<1>1. FromReadings(source, p).of = {p[r[n]].of : n \in DOMAIN r}
  BY DEF FromReadings
<1>2. \A n \in DOMAIN r : p[r[n]].of = moment
  BY <1>1
<1>3. CASE r = <<"detail">>
  <2>1. p.detail.kind = "held" /\ p.detail.of = moment
    <3>1. 1 \in DOMAIN r /\ r[1] = "detail"
      BY <1>3
    <3> HIDE DEF r
    <3>2. QED
      BY <1>2, <3>1 DEF r
  <2>2. DetailSources(p) \in SUBSET CacheSources /\ source \in DetailSources(p)
    BY <1>3 DEF DetailSources, Shares, Query
  <2>3. Complete(p.detail.value, DetailSources(p), moment) /\ Buffers(moment)
    BY <2>1 DEF ReadingsInv
  <2>4. Build(source, p.detail.value) = Reference(source, moment, server.resolvable)
    <3> DEFINE sources == DetailSources(p)
               payload == p.detail.value
    <3>1. /\ payload.groups = Aggregate(sources, moment)
          /\ sources \cap (DatabaseSources \cup RelationSources) # {} => payload.databases = Databases
          /\ payload.keys = CandidateKeys(Aggregate(sources, moment), sources)
          /\ \A s \in sources \cap RelationSources : \A k \in payload.keys[s] :
                k \in payload.resolved <=> k \in server.resolvable
      BY <2>3 DEF Complete
    <3>2. sources \in SUBSET CacheSources /\ source \in sources /\ Buffers(moment)
      BY <2>2, <2>3
    <3> HIDE DEF sources, payload
    <3>3. Build(source, payload) = Reference(source, moment, server.resolvable)
      BY <3>1, <3>2, BuildRight
    <3>4. QED
      BY <3>3 DEF payload
  <2>5. rows = Build(source, p.detail.value)
    BY <1>3 DEF FromReadings
  <2>6. QED
    BY <2>4, <2>5
<1>4. CASE r = <<"summary", "usage">>
  <2>1. /\ p.summary.kind = "held" /\ p.summary.of = moment
        /\ p.usage.kind = "held" /\ p.usage.of = moment
    <3>1. 1 \in DOMAIN r /\ r[1] = "summary" /\ 2 \in DOMAIN r /\ r[2] = "usage"
      BY <1>4
    <3> HIDE DEF r
    <3>2. QED
      BY <1>2, <3>1 DEF r
  <2>2. source = "usage_count_distribution"
    BY <1>4 DEF Readings
  <2>3. rows = FastUsage(p.summary.value, p.usage.value)
    BY <1>4 DEF FromReadings
  <2>4. QED
    BY <2>1, <2>2, <2>3, FastUsageRight DEF ReadingsInv
<1>5. CASE r = <<"usage">>
  <2>1. p.usage.kind = "held" /\ p.usage.of = moment
    <3>1. 1 \in DOMAIN r /\ r[1] = "usage"
      BY <1>5
    <3> HIDE DEF r
    <3>2. QED
      BY <1>2, <3>1 DEF r
  <2>2. source = "dirty_and_pinned"
    BY <1>5 DEF Readings
  <2>3. rows = FastDirtyFromUsage(p.usage.value)
    BY <1>5 DEF FromReadings
  <2>4. QED
    BY <2>1, <2>2, <2>3, FastDirtyRight DEF ReadingsInv
<1>6. CASE r = <<"summary">>
  <2>1. p.summary.kind = "held" /\ p.summary.of = moment
    <3>1. 1 \in DOMAIN r /\ r[1] = "summary"
      BY <1>6
    <3> HIDE DEF r
    <3>2. QED
      BY <1>2, <3>1 DEF r
  <2>2. source \in {"utilization", "dirty_and_pinned"}
    BY <1>6 DEF Readings
  <2>3. rows = IF source = "utilization" THEN FastUtilization(p.summary.value)
               ELSE FastDirty(p.summary.value)
    BY <1>6 DEF FromReadings
  <2>4. QED
    BY <2>1, <2>2, <2>3, FastSummaryRight DEF ReadingsInv
<1>7. r \in {<<"summary">>, <<"summary", "usage">>, <<"usage">>, <<"detail">>}
  BY DEF Readings
<1>8. QED
  BY <1>3, <1>4, <1>5, <1>6, <1>7

(* What a query does next with a provider that holds what was true.        *)
LEMMA ProceedsTrue ==
  ASSUME BatchInv, index \in DOMAIN batch, AnswersTrue, AnswerTrue(result), NEW p, ReadingsInv(p),
         Proceeds(p), Query.source \in CacheSources, UNCHANGED <<batch, server>>
  PROVE  /\ AnswersTrue' /\ AnswerTrue(result)'
         /\ \/ pc' \in {"next", "raised", "release", "restore"}
            \/ pc' = "probe" /\ index' = index /\ Prefer /\ ~ p.checked
            \/ pc' \in {"summary", "usage", "detail"} /\ index' = index /\ (Prefer => p.checked)
<1> DEFINE r == Readings(Query.source, p.caps)
           open == {n \in DOMAIN r : p[r[n]].kind # "held"}
           first == r[CHOOSE n \in open : \A m \in open : n <= m]
<1>1. r \in {<<"summary">>, <<"summary", "usage">>, <<"usage">>, <<"detail">>}
  BY DEF Readings
<1>2. ASSUME open # {} PROVE first \in {"summary", "usage", "detail"}
  <2>1. DOMAIN r \in {{1}, {1, 2}}
    BY <1>1
  <2>2. \E n \in open : \A m \in open : n <= m
    BY <1>2, <2>1
  <2>3. QED
    BY <1>1, <2>1, <2>2
<1>3. ASSUME UNCHANGED items PROVE AnswersTrue'
  BY <1>3 DEF AnswersTrue, Answered
<1>4. ASSUME UNCHANGED <<session, local, report>>
      PROVE  AnswersTrue' /\ AnswerTrue(result)' /\ index' = index
  BY <1>3, <1>4 DEF local, report, AnswerTrue
<1>5. ASSUME open = {}, Answers(FromReadings(Query.source, p))
      PROVE  AnswersTrue' /\ AnswerTrue(result)' /\ pc' \in {"release", "restore"}
  <2> DEFINE answer == FromReadings(Query.source, p)
  <2>1. \A n \in DOMAIN r : p[r[n]].kind = "held"
    BY <1>5
  <2>2. result' = answer /\ UNCHANGED items /\ pc' \in {"release", "restore"}
    BY <1>5 DEF Answers, report
  <2>3. answer.source = Query.source
    BY DEF FromReadings
  <2>4. \A moment \in answer.of : answer.of = {moment} =>
          answer.rows = Reference(answer.source, moment, server.resolvable)
    BY <2>1, <2>3, ReadingsRight
  <2> HIDE DEF answer
  <2>5. AnswerTrue(result)'
    BY <2>2, <2>4 DEF AnswerTrue
  <2>6. QED
    BY <1>3, <2>2, <2>5
<1>6. ASSUME Fails(p[first].error, FALSE)
      PROVE  AnswersTrue' /\ AnswerTrue(result)' /\ pc' \in {"next", "raised"}
  BY <1>6, FailsTrue DEF Fails
<1>7. ASSUME Prefer => p.checked, open # {}, pc' = first, UNCHANGED <<session, local, report>>
      PROVE  /\ AnswersTrue' /\ AnswerTrue(result)'
             /\ pc' \in {"summary", "usage", "detail"} /\ index' = index
  BY <1>2, <1>4, <1>7
<1> HIDE DEF open, first
<1>8. QED
  BY <1>4, <1>5, <1>6, <1>7 DEF Proceeds, open, first, r

(* The invariant after a query has proceeded with provider'.               *)
LEMMA ProceedsKeepsTruth ==
  ASSUME BatchInv, index \in DOMAIN batch, AnswersTrue, AnswerTrue(result),
         ReadingsInv(provider)', Proceeds(provider'), Query.source \in CacheSources,
         UNCHANGED <<batch, server>>, Buffers(table)',
         Prefer /\ ~ provider'.checked => provider'.detail.kind # "held"
  PROVE  TruthInv'
<1>1. ReadingsInv(provider')
  BY DEF ReadingsInv, Complete, DetailSources, Shares
<1>2. /\ AnswersTrue' /\ AnswerTrue(result)'
      /\ \/ pc' \in {"next", "raised", "release", "restore"}
         \/ pc' = "probe" /\ index' = index /\ Prefer /\ ~ provider'.checked
         \/ pc' \in {"summary", "usage", "detail"} /\ index' = index /\ (Prefer => provider'.checked)
  BY <1>1, ProceedsTrue
<1>3. Prefer' = Prefer
  BY DEF Prefer, Shares
<1>4. PlaceInv'
  BY <1>2, <1>3 DEF PlaceInv, Query
<1>5. ScanInv'
  BY <1>2 DEF ScanInv
<1>6. QED
  BY <1>2, <1>4, <1>5 DEF TruthInv

(* The query has ended with an error; the provider holds no more.          *)
LEMMA FailsKeepsTruth ==
  ASSUME BatchInv, TruthInv, NEW e, NEW own, Store(FailedItem(e, own)), UNCHANGED <<batch, server>>,
         ReadingsInv(provider)', Buffers(table)',
         provider'.checked = provider.checked,
         provider'.detail.kind = "held" => provider.detail.kind = "held"
  PROVE  TruthInv'
<1>1. AnswersTrue' /\ AnswerTrue(result)' /\ pc' \in {"next", "raised"}
  BY FailsTrue DEF TruthInv
<1>2. Prefer' = Prefer
  BY DEF Prefer, Shares
<1>3. PlaceInv' /\ ScanInv'
  BY <1>1, <1>2 DEF TruthInv, PlaceInv, ScanInv
<1>4. QED
  BY <1>1, <1>3 DEF TruthInv

LEMMA RememberTruth ==
  ASSUME BatchInv, ProviderInv(provider), TruthInv, NEW name \in {"summary", "usage", "detail"}, NEW e,
         Remember(name, e), UNCHANGED <<batch, server, table>>
  PROVE  TruthInv'
<1>1. provider' = [provider EXCEPT ![name] = Lost(e)] /\ Store(FailedItem(e, TRUE))
  BY DEF Remember, Fails
<1>2. /\ provider'.checked = provider.checked /\ provider'.caps = provider.caps
      /\ \A r \in {"summary", "usage", "detail"} :
            provider'[r] = provider[r] \/ provider'[r].kind = "lost"
  BY <1>1 DEF ProviderInv, Lost
<1>3. DetailSources(provider)' = DetailSources(provider)
  BY <1>2 DEF DetailSources, Shares
<1>4. ReadingsInv(provider)'
  BY <1>2, <1>3 DEF TruthInv, ReadingsInv, Complete
<1>5. QED
  BY <1>1, <1>2, <1>4, FailsKeepsTruth DEF TruthInv

(* A step that reads nothing and stores nothing.                           *)
LEMMA KeepsTruth ==
  ASSUME TruthInv, UNCHANGED <<batch, server, provider, items, index, result>>, Buffers(table)',
         pc' \notin {"metadata", "resolve"},
         pc' \in {"probe", "summary", "usage", "detail"} => pc' = pc
  PROVE  TruthInv'
<1>1. AnswersTrue' /\ AnswerTrue(result)' /\ ReadingsInv(provider)' /\ PlaceInv' /\ ScanInv'
  BY DEF TruthInv, AnswersTrue, AnswerTrue, Answered, ReadingsInv, Complete, DetailSources, Shares, PlaceInv,
         Prefer, Query, ScanInv
<1>2. QED
  BY <1>1 DEF TruthInv

LEMMA TruthInit == Init => TruthInv
<1> SUFFICES ASSUME Init PROVE TruthInv
  OBVIOUS
<1>1. Buffers(table)
  BY QueryBatchAssumption DEF Init
<1>2. /\ items = << >> /\ pc = "next"
      /\ provider.summary.kind = "unread" /\ provider.usage.kind = "unread"
      /\ provider.detail.kind = "unread"
  BY DEF Init, Unread
<1>3. AnswersTrue /\ AnswerTrue(result)
  BY <1>2 DEF AnswersTrue, Answered, Init, NoAnswer, AnswerTrue
<1>4. ReadingsInv(provider) /\ ScanInv /\ PlaceInv
  BY <1>2 DEF ReadingsInv, ScanInv, PlaceInv
<1>5. QED
  BY <1>1, <1>3, <1>4 DEF TruthInv

(* A cheap function has answered.                                          *)
LEMMA ReadTruth ==
  ASSUME BatchInv, ProviderInv(provider), TruthInv, index \in DOMAIN batch,
         NEW name \in {"summary", "usage"}, pc = name,
         provider' = [provider EXCEPT ![name] =
            Held(IF name = "summary" THEN Summary(table) ELSE UsageRows(table), table)],
         Proceeds(provider'), UNCHANGED <<batch, server, table>>
  PROVE  TruthInv'
<1>1. /\ provider'.checked = provider.checked /\ provider'.caps = provider.caps
      /\ provider'.detail = provider.detail
      /\ name = "summary" => provider'.usage = provider.usage
                             /\ provider'.summary = Held(Summary(table), table)
      /\ name = "usage" => provider'.summary = provider.summary
                           /\ provider'.usage = Held(UsageRows(table), table)
  BY DEF ProviderInv
<1>2. DetailSources(provider)' = DetailSources(provider)
  BY <1>1 DEF DetailSources, Shares
<1>3. ReadingsInv(provider)'
  <2>1. Complete(provider.detail.value, DetailSources(provider), provider.detail.of) <=>
          Complete(provider.detail.value, DetailSources(provider), provider.detail.of)'
    BY <1>1, <1>2 DEF Complete
  <2>2. CASE name = "summary"
    BY <1>1, <2>1, <2>2 DEF TruthInv, ReadingsInv, Held
  <2>3. CASE name = "usage"
    BY <1>1, <2>1, <2>3 DEF TruthInv, ReadingsInv, Held
  <2>4. QED
    BY <2>2, <2>3
<1>4. Query.source \in CacheSources /\ (Prefer => provider.checked)
  BY DEF TruthInv, PlaceInv
<1>5. QED
  BY <1>1, <1>3, <1>4, ProceedsKeepsTruth DEF TruthInv

(* The payload of the detailed aggregate is complete.                      *)
LEMMA CollectedTruth ==
  ASSUME BatchInv, ProviderInv(provider), TruthInv, index \in DOMAIN batch,
         pc \in {"metadata", "resolve"}, NEW payload, Collected(payload),
         Complete(payload, DetailSources(provider), scan.of), UNCHANGED <<batch, server, table>>
  PROVE  TruthInv'
<1>1. provider' = [provider EXCEPT !.detail = Held(payload, scan.of)] /\ Proceeds(provider')
  BY DEF Collected
<1>2. /\ provider'.checked = provider.checked /\ provider'.caps = provider.caps
      /\ provider'.summary = provider.summary /\ provider'.usage = provider.usage
      /\ provider'.detail = Held(payload, scan.of)
  BY <1>1 DEF ProviderInv
<1>3. DetailSources(provider)' = DetailSources(provider)
  BY <1>2 DEF DetailSources, Shares
<1>4. Buffers(scan.of)
  BY DEF TruthInv, ScanInv
<1>5. ReadingsInv(provider)'
  BY <1>2, <1>3, <1>4 DEF TruthInv, ReadingsInv, Complete, Held
<1>6. Query.source \in CacheSources /\ (Prefer => provider.checked)
  BY DEF TruthInv, PlaceInv
<1>7. QED
  BY <1>1, <1>2, <1>5, <1>6, ProceedsKeepsTruth DEF TruthInv

LEMMA TruthStep ==
  ASSUME BatchInv, ProviderInv(provider), TruthInv, [Next]_vars
  PROVE  TruthInv'
<1> DEFINE Sources == DetailSources(provider)
           groups == Aggregate(Sources, scan.of)
           named == Sources \cap (DatabaseSources \cup RelationSources) # {}
<1>0. ASSUME UNCHANGED provider, UNCHANGED world PROVE ReadingsInv(provider)'
  BY <1>0 DEF TruthInv, ReadingsInv, Complete, DetailSources, Shares, world
<1>1. ASSUME Savepoint PROVE TruthInv'
  <2>1. UNCHANGED <<batch, server, table, provider>> /\ ReadingsInv(provider)'
    BY <1>0, <1>1 DEF Savepoint, world
  <2>2. ASSUME pc' \in {"limits", "work"}, UNCHANGED <<local, report>> PROVE TruthInv'
    BY <2>1, <2>2, KeepsTruth DEF TruthInv, local, report
  <2>3. ASSUME NEW e \in Errors, NEW left, Slips(e, left) PROVE TruthInv'
    BY <2>1, <2>3, FailsKeepsTruth DEF TruthInv, Slips
  <2>4. QED
    BY <1>1, <2>2, <2>3 DEF Savepoint
<1>2. ASSUME SetLimits \/ Restore PROVE TruthInv'
  <2>1. UNCHANGED <<batch, server, table, provider>> /\ ReadingsInv(provider)'
    BY <1>0, <1>2 DEF SetLimits, Restore, world
  <2>2. ASSUME pc' \in {"limits", "work", "restore", "release"}, UNCHANGED <<result, report>>
        PROVE  TruthInv'
    BY <2>1, <2>2, KeepsTruth DEF TruthInv, report
  <2>3. ASSUME NEW e \in Errors, Fails(e, TRUE) PROVE TruthInv'
    BY <2>1, <2>3, FailsKeepsTruth DEF TruthInv, Fails
  <2>4. QED
    BY <1>2, <2>2, <2>3 DEF SetLimits, Restore
<1>3. ASSUME Work PROVE TruthInv'
  <2>1. /\ UNCHANGED <<batch, server, table, provider>> /\ pc = "work" /\ Starts(provider)
        /\ index \in DOMAIN batch
    BY <1>3 DEF Work, BatchInv, BatchTypeOK, world
  <2>2. ASSUME Query.source \in CacheSources, Proceeds(provider) PROVE TruthInv'
    <3>1. ReadingsInv(provider)'
      BY <2>1 DEF TruthInv, ReadingsInv, Complete, DetailSources, Shares
    <3>2. QED
      BY <2>1, <2>2, <3>1, ProceedsKeepsTruth DEF TruthInv, PlaceInv
  <2>3. CASE pc' = "plain" /\ UNCHANGED <<session, local, report>>
    BY <2>1, <2>3, KeepsTruth DEF TruthInv, local, report
  <2>4. QED
    BY <2>1, <2>2, <2>3 DEF Starts
<1>4. ASSUME Plain PROVE TruthInv'
  <2>1. UNCHANGED <<batch, server, table, provider>> /\ ReadingsInv(provider)'
    BY <1>0, <1>4 DEF Plain, world
  <2>2. ASSUME Answers([kind |-> "plain"]) PROVE TruthInv'
    <3>1. /\ UNCHANGED <<items, index>> /\ pc' \in {"release", "restore"}
          /\ AnswerTrue(result)'
      BY <2>2 DEF Answers, report, AnswerTrue
    <3>2. AnswersTrue' /\ PlaceInv' /\ ScanInv'
      BY <2>1, <3>1 DEF TruthInv, AnswersTrue, Answered, PlaceInv, ScanInv, Prefer, Shares
    <3>3. QED
      BY <2>1, <3>1, <3>2 DEF TruthInv
  <2>3. ASSUME NEW e \in Errors, Fails(e, TRUE) PROVE TruthInv'
    BY <2>1, <2>3, FailsKeepsTruth DEF TruthInv, Fails
  <2>4. QED
    BY <1>4, <2>2, <2>3 DEF Plain
<1>14. ASSUME Release PROVE TruthInv'
  <2>1. UNCHANGED <<batch, server, table, provider>> /\ ReadingsInv(provider)'
    BY <1>0, <1>14 DEF Release, world
  <2>2. ASSUME Store(AnsweredItem(result)) PROVE TruthInv'
    <3>1. AnswerTrue(AnsweredItem(result).answer)
      BY DEF TruthInv, AnsweredItem
    <3> HIDE DEF AnsweredItem
    <3>2. AnswersTrue' /\ AnswerTrue(result)' /\ pc' \in {"next", "raised"}
      BY <2>1, <2>2, <3>1, StoreTrue DEF TruthInv
    <3>3. PlaceInv' /\ ScanInv'
      BY <2>1, <3>2 DEF TruthInv, PlaceInv, ScanInv, Prefer, Shares
    <3>4. QED
      BY <2>1, <3>2, <3>3 DEF TruthInv
  <2>3. ASSUME NEW e \in Errors, Slips(e, saved) PROVE TruthInv'
    BY <2>1, <2>3, FailsKeepsTruth DEF TruthInv, Slips
  <2>4. QED
    BY <1>14, <2>2, <2>3 DEF Release
<1>5. ASSUME Probe PROVE TruthInv'
  <2>1. /\ UNCHANGED <<batch, server, table, items, index, result>> /\ pc' = "work"
        /\ Prefer /\ ~ provider.checked
    BY <1>5 DEF Probe, TruthInv, PlaceInv, world, local, report
  <2>2. /\ provider'.checked = TRUE /\ provider'.summary = provider.summary
        /\ provider'.usage = provider.usage /\ provider'.detail = provider.detail
    BY <1>5 DEF Probe, ProbeFailed, ProbeSlips, ProviderInv
  <2>3. provider.detail.kind # "held"
    BY <2>1 DEF TruthInv, PlaceInv
  <2>4. ReadingsInv(provider)'
    BY <2>2, <2>3 DEF TruthInv, ReadingsInv
  <2>5. AnswersTrue' /\ AnswerTrue(result)' /\ PlaceInv' /\ ScanInv'
    BY <2>1, <2>2 DEF TruthInv, AnswersTrue, AnswerTrue, Answered, PlaceInv, ScanInv
  <2>6. QED
    BY <2>1, <2>4, <2>5 DEF TruthInv
<1>6. ASSUME ReadSummary PROVE TruthInv'
  <2>1. UNCHANGED <<batch, server, table>> /\ pc = "summary" /\ index \in DOMAIN batch
    BY <1>6 DEF ReadSummary, BatchInv, BatchTypeOK, world
  <2>2. CASE provider' = [provider EXCEPT !.summary = Held(Summary(table), table)] /\ Proceeds(provider')
    BY <2>1, <2>2, ReadTruth
  <2>3. ASSUME NEW e \in Errors, Remember("summary", e) PROVE TruthInv'
    BY <2>1, <2>3, RememberTruth
  <2>4. QED
    BY <1>6, <2>2, <2>3 DEF ReadSummary
<1>7. ASSUME ReadUsage PROVE TruthInv'
  <2>1. UNCHANGED <<batch, server, table>> /\ pc = "usage" /\ index \in DOMAIN batch
    BY <1>7 DEF ReadUsage, BatchInv, BatchTypeOK, world
  <2>2. CASE provider' = [provider EXCEPT !.usage = Held(UsageRows(table), table)] /\ Proceeds(provider')
    BY <2>1, <2>2, ReadTruth
  <2>3. ASSUME NEW e \in Errors, Remember("usage", e) PROVE TruthInv'
    BY <2>1, <2>3, RememberTruth
  <2>4. QED
    BY <1>7, <2>2, <2>3 DEF ReadUsage
<1>8. ASSUME ReadDetail PROVE TruthInv'
  <2>1. UNCHANGED <<batch, server, table>> /\ pc = "detail" /\ Buffers(table)
        /\ Query.source \in CacheSources /\ (Prefer => provider.checked)
    BY <1>8 DEF ReadDetail, TruthInv, PlaceInv, world
  <2>2. ASSUME scan' = Held([groups |-> Aggregate(Sources, table), databases |-> {}, resolved |-> {},
                             keys |-> [s \in {} |-> {}]], table),
               pc' = "metadata", UNCHANGED <<provider, local, report>>
        PROVE  TruthInv'
    <3>1. DetailSources(provider)' = Sources
      BY <2>1, <2>2 DEF DetailSources, Shares
    <3>2. scan'.of = table
      BY <2>2 DEF Held
    <3>3. ScanInv'
      BY <2>1, <2>2, <3>1, <3>2 DEF ScanInv
    <3>4. AnswersTrue' /\ AnswerTrue(result)' /\ ReadingsInv(provider)' /\ PlaceInv'
          /\ Buffers(table)'
      BY <2>1, <2>2 DEF TruthInv, AnswersTrue, AnswerTrue, Answered, ReadingsInv, Complete, DetailSources,
           Shares, PlaceInv, Prefer, Query, local, report
    <3>5. QED
      BY <3>3, <3>4 DEF TruthInv
  <2>3. ASSUME NEW e \in Errors, Remember("detail", e) PROVE TruthInv'
    BY <2>1, <2>3, RememberTruth
  <2>4. QED
    BY <1>8, <2>2, <2>3 DEF ReadDetail
<1>9. ASSUME Metadata PROVE TruthInv'
  <2> DEFINE payload == [groups |-> scan.value.groups, databases |-> IF named THEN Databases ELSE {},
                         resolved |-> {}, keys |-> CandidateKeys(scan.value.groups, Sources)]
             wanted == UNION {payload.keys[s] : s \in DOMAIN payload.keys}
  <2>1. UNCHANGED <<batch, server, table>> /\ pc = "metadata" /\ index \in DOMAIN batch
    BY <1>9 DEF Metadata, BatchInv, BatchTypeOK, world
  <2>2. scan = Held([groups |-> groups, databases |-> {}, resolved |-> {},
                     keys |-> [s \in {} |-> {}]], scan.of)
        /\ Query.source \in CacheSources /\ (Prefer => provider.checked)
    BY <2>1 DEF TruthInv, ScanInv, PlaceInv
  <2>3. scan.value = [groups |-> groups, databases |-> {}, resolved |-> {}, keys |-> [s \in {} |-> {}]]
    <3> HIDE DEF groups
    <3>1. QED
      BY <2>2 DEF Held
  <2>4. payload = [groups |-> groups, databases |-> IF named THEN Databases ELSE {}, resolved |-> {},
                   keys |-> CandidateKeys(groups, Sources)]
    <3>1. scan.value.groups = groups
      <4> HIDE DEF groups
      <4>1. QED
        BY <2>3
    <3> HIDE DEF groups, named, Sources
    <3>2. QED
      BY <3>1
  <2>5. CASE Remember("detail", NoError)
    BY <2>1, <2>5, RememberTruth
  <2>6. ASSUME wanted = {}, Collected(payload) PROVE TruthInv'
    <3>1. \A s \in Sources \cap RelationSources : payload.keys[s] = {}
      <4>1. DOMAIN payload.keys = Sources \cap RelationSources
        BY <2>4 DEF CandidateKeys
      <4> HIDE DEF payload, Sources
      <4>2. QED
        BY <2>6, <4>1
    <3>2. Complete(payload, Sources, scan.of)
      <4>1. payload.groups = groups /\ payload.databases = (IF named THEN Databases ELSE {})
            /\ payload.keys = CandidateKeys(groups, Sources)
        BY <2>4
      <4> HIDE DEF payload
      <4>2. QED
        BY <3>1, <4>1 DEF Complete
    <3> HIDE DEF payload
    <3>3. QED
      BY <2>1, <2>6, <3>2, CollectedTruth
  <2>7. ASSUME scan' = [scan EXCEPT !.value = payload], pc' = "resolve",
               UNCHANGED <<provider, local, report>>
        PROVE  TruthInv'
    <3>1. DetailSources(provider)' = Sources
      BY <2>1, <2>7 DEF DetailSources, Shares
    <3>2. scan' = Held(payload, scan.of) /\ scan'.of = scan.of
      <4> HIDE DEF payload, groups
      <4>1. QED
        BY <2>2, <2>7 DEF Held
    <3>3. Buffers(scan.of)
      BY <2>1 DEF TruthInv, ScanInv
    <3>4. ScanInv'
      <4> HIDE DEF payload
      <4>1. QED
        BY <2>4, <2>7, <3>1, <3>2, <3>3 DEF ScanInv
    <3>5. AnswersTrue' /\ AnswerTrue(result)' /\ ReadingsInv(provider)' /\ PlaceInv'
          /\ Buffers(table)'
      BY <2>1, <2>2, <2>7 DEF TruthInv, AnswersTrue, AnswerTrue, Answered, ReadingsInv, Complete,
           DetailSources, Shares, PlaceInv, Prefer, Query, local, report
    <3>6. QED
      BY <3>4, <3>5 DEF TruthInv
  <2>8. ASSUME NEW e \in Errors, Remember("detail", e) PROVE TruthInv'
    BY <2>1, <2>8, RememberTruth
  <2>9. QED
    BY <1>9, <2>5, <2>6, <2>7, <2>8 DEF Metadata
<1>10. ASSUME Resolve PROVE TruthInv'
  <2> DEFINE keys == scan.value.keys
             wanted == UNION {keys[s] : s \in DOMAIN keys}
             payload == [scan.value EXCEPT !.resolved = wanted \cap server.resolvable]
  <2>1. UNCHANGED <<batch, server, table>> /\ pc = "resolve" /\ index \in DOMAIN batch
    BY <1>10 DEF Resolve, BatchInv, BatchTypeOK, world
  <2>2. scan.value = [groups |-> groups, databases |-> IF named THEN Databases ELSE {},
                      resolved |-> {}, keys |-> CandidateKeys(groups, Sources)]
    <3>1. scan = Held([groups |-> groups, databases |-> IF named THEN Databases ELSE {},
                       resolved |-> {}, keys |-> CandidateKeys(groups, Sources)], scan.of)
      BY <2>1 DEF TruthInv, ScanInv
    <3> HIDE DEF groups, named, Sources
    <3>2. QED
      BY <3>1 DEF Held
  <2>3. ASSUME Collected(payload) PROVE TruthInv'
    <3>1. /\ payload.groups = groups /\ payload.databases = (IF named THEN Databases ELSE {})
          /\ payload.keys = keys /\ payload.resolved = wanted \cap server.resolvable
          /\ keys = CandidateKeys(groups, Sources)
      <4> HIDE DEF groups, named, Sources
      <4>1. QED
        BY <2>2
    <3>2. DOMAIN keys = Sources \cap RelationSources
      BY <3>1 DEF CandidateKeys
    <3>3. \A s \in Sources \cap RelationSources : keys[s] \subseteq wanted
      <4> HIDE DEF keys, Sources
      <4>1. QED
        BY <3>2
    <3>4. Complete(payload, Sources, scan.of)
      <4> HIDE DEF payload, keys, wanted
      <4>1. QED
        BY <3>1, <3>3 DEF Complete
    <3> HIDE DEF payload
    <3>5. QED
      BY <2>1, <2>3, <3>4, CollectedTruth
  <2>4. ASSUME NEW e \in Errors, Remember("detail", e) PROVE TruthInv'
    BY <2>1, <2>4, RememberTruth
  <2>5. QED
    BY <1>10, <2>3, <2>4 DEF Resolve
<1>11. ASSUME Commit PROVE TruthInv'
  BY <1>11, KeepsTruth DEF Commit, TruthInv, world, local, report
<1>12. ASSUME BuffersChange PROVE TruthInv'
  <2>1. Buffers(table)'
    BY <1>12, QueryBatchAssumption DEF BuffersChange
  <2>2. QED
    BY <1>12, <2>1, KeepsTruth DEF BuffersChange, world, local, report
<1>13. ASSUME UNCHANGED vars PROVE TruthInv'
  BY <1>13 DEF vars, world, local, report, TruthInv, AnswersTrue, AnswerTrue, Answered, ReadingsInv,
         Complete, DetailSources, Shares, PlaceInv, Prefer, Query, ScanInv
<1>15. QED
  BY <1>1, <1>2, <1>3, <1>4, <1>5, <1>6, <1>7, <1>8, <1>9, <1>10, <1>11, <1>12, <1>13, <1>14
     DEF Next

(* Every item about the buffer cache says what its own query over the      *)
(* whole view would have said, whichever other items shared the reading    *)
(* and whatever failed before (QueryBatchContext, build_result).           *)
THEOREM SharedAnswersTrue == Spec => []AnswersTrue
<1>1. BatchInv /\ ProviderInv(provider) /\ TruthInv /\ [Next]_vars => TruthInv'
  BY TruthStep
<1>2. TruthInv => AnswersTrue
  BY DEF TruthInv
<1>3. QED
  BY <1>1, <1>2, TruthInit, BatchInductive, PTL DEF Spec

=============================================================================

--------------------------- MODULE MCQueryBatch ---------------------------
(* Small instances of QueryBatch. *)
EXTENDS QueryBatch, TLC

\* Relation 1 sorts after relation 2 by name.
Names == 1 :> 2 @@ 2 :> 1

Buf(db, rel, dirty, usage, pinned) ==
    [db |-> db, rel |-> rel, dirty |-> dirty, usage |-> usage, pinned |-> pinned]

Shapes == <<Free,
    Buf("app", 1, TRUE, 1, TRUE), Buf("app", 1, FALSE, 0, FALSE), Buf("app", 2, FALSE, 1, TRUE),
    Buf("shared", 1, TRUE, 0, FALSE), Buf("dropped", 2, FALSE, 1, FALSE)>>

\* Every pair of buffers, and three that the buffers may change to.
AllTables == {<<Shapes[i], Shapes[j]>> : i \in 1 .. Len(Shapes), j \in 1 .. Len(Shapes)}
SomeTables == {t \in AllTables : \E i, j \in 1 .. Len(Shapes) : i <= j /\ t = <<Shapes[i], Shapes[j]>>}
LaterTables == {<<Shapes[2], Shapes[4], Shapes[5]>>}

NoLimits == [k \in {} |-> 0]
Entry(s) == [source |-> s, limits |-> NoLimits, optional |-> FALSE]
Slow == [source |-> "tables", limits |-> "statement_timeout" :> 3 @@ "lock_timeout" :> 2, optional |-> TRUE]
Quick == [source |-> "locks", limits |-> NoLimits, optional |-> FALSE]

Order == <<"utilization", "by_database", "usage_count_distribution", "top_relations",
           "dirty_and_pinned", "top_dirty_relations">>
Chosen(S) == SelectSeq(Order, LAMBDA s : s \in S)
Batch(S) == [n \in 1 .. Len(Chosen(S)) |-> Entry(Chosen(S)[n])]

\* Up to two buffer cache items, or all of them, between a query with limits of its own
\* and one without.
AllBatches ==
    {<<Slow>> \o Batch(S) \o <<Quick>> :
        S \in {T \in SUBSET CacheSources : Cardinality(T) \in {0, 1, 2, 6}}}

AllServers ==
    [modern : {TRUE}, summary : BOOLEAN, usage : BOOLEAN, resolvable : {{1, 2}}]
    \cup [modern : {FALSE}, summary : {FALSE}, usage : {FALSE}, resolvable : {{2}, {1, 2}}]

Session == [statement_timeout |-> 2, lock_timeout |-> 1, work_mem |-> "4MB"]
=============================================================================

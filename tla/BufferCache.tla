---------------------------- MODULE BufferCache ----------------------------
(***************************************************************************)
(* What the batch collector of pg_buffercache asks the server and what it  *)
(* makes of the answer (src/pg_diag/executors/buffer_cache.py).  All the   *)
(* buffer cache items of one batch share one aggregate over the buffers:   *)
(* the aggregate keeps only the dimensions that the items of the batch     *)
(* need, and every item is built from the same rows.  On PostgreSQL 16     *)
(* three of the items can be answered by two cheap functions instead.      *)
(*                                                                         *)
(* A table of buffers is a function from buffer numbers to the columns of  *)
(* pg_buffercache.  A relation is a number; the pair of tablespace and     *)
(* file node that identifies it on disk is that number.                    *)
(***************************************************************************)
EXTENDS Integers, FiniteSets, FiniteSetsExt, Functions

CONSTANTS
    Databases,      \* the databases pg_database lists
    Current,        \* the one the collector is connected to
    Relations,      \* relation file identities, numbers
    NameOf,         \* the name each relation resolves to, a number as well
    RelationLimit   \* how many relations a chart names (30)

ASSUME BufferCacheAssumption ==
    /\ Current \in Databases
    /\ Relations \subseteq Nat
    /\ NameOf \in [Relations -> Nat]
    /\ \A k, m \in Relations : NameOf[k] = NameOf[m] => k = m
    /\ \A k, m \in Relations : NameOf[k] # 1000 + m     \* no name is like "unresolved:..."
    /\ RelationLimit \in Nat \ {0}

SummarySources == {"utilization", "usage_count_distribution", "dirty_and_pinned"}
DatabaseSources == {"by_database"}
RelationSources == {"top_relations", "top_dirty_relations"}
CacheSources == SummarySources \cup DatabaseSources \cup RelationSources

Shared == "shared"      \* reldatabase 0: the shared catalogs
Nothing == "null"
NoRelation == -1        \* a null relfilenode
SomeRelation == 0       \* the marker 1::oid that stands for any relation
NoCount == -1
UsageCounts == 0 .. 5

\* A buffer that holds no page: every column of the view is null.
Free == [db |-> Nothing, rel |-> NoRelation, dirty |-> FALSE, usage |-> NoCount, pinned |-> FALSE]

\* A row of the view: a free buffer, or one of a relation with its usage.
IsBuffer(b) ==
    \/ b = Free
    \/ /\ b.db # Nothing /\ b.rel \in Relations /\ b.usage \in UsageCounts
       /\ b.dirty \in BOOLEAN /\ b.pinned \in BOOLEAN

\* A table of buffers.
Buffers(table) == IsFiniteSet(DOMAIN table) /\ \A n \in DOMAIN table : IsBuffer(table[n])

---------------------------------------------------------------------------
(* The aggregate *)

\* A plausible slip: only the summary of dirty buffers is given the dimension.
NeedsDirtyForSummary(sources) == "dirty_and_pinned" \in sources

\* needs_dirty_dimension: with top_dirty_relations alone a filter is enough.
NeedsDirty(sources) ==
    \/ "dirty_and_pinned" \in sources
    \/ "top_dirty_relations" \in sources /\ Cardinality(sources) > 1

\* The columns of one buffer after the projection: what no item needs is constant.
Projection(sources, b) ==
    [db |-> IF sources \cap (DatabaseSources \cup RelationSources) # {} THEN b.db ELSE Nothing,
     rel |-> IF sources \cap RelationSources # {} THEN b.rel
             ELSE IF "utilization" \in sources
                  THEN IF b.rel = NoRelation THEN NoRelation ELSE SomeRelation
             ELSE IF sources \cap DatabaseSources # {} THEN SomeRelation ELSE NoRelation,
     dirty |-> IF NeedsDirty(sources) THEN b.dirty ELSE "top_dirty_relations" \in sources,
     usage |-> IF "usage_count_distribution" \in sources THEN b.usage ELSE NoCount,
     pinned |-> "dirty_and_pinned" \in sources /\ b.pinned]

\* The WHERE clause.
Selected(sources, b) ==
    /\ "utilization" \in sources \/ b.rel # NoRelation
    /\ sources \subseteq RelationSources => b.db = Current
    /\ sources = {"top_dirty_relations"} => b.dirty

\* The groups of the aggregate and their counts.
Aggregate(sources, table) ==
    LET chosen == {n \in DOMAIN table : Selected(sources, table[n])}
    IN  [row \in {Projection(sources, table[n]) : n \in chosen} |->
            Cardinality({n \in chosen : Projection(sources, table[n]) = row})]

---------------------------------------------------------------------------
(* The items built from the groups *)

Total(groups, rows) == MapThenSumSet(LAMBDA row : groups[row], rows)

InCurrent(groups, dirtyOnly) ==
    {row \in DOMAIN groups :
        row.db = Current /\ row.rel # NoRelation /\ (dirtyOnly => row.dirty)}

DirtyOnly(source) == source = "top_dirty_relations"

\* The relations whose names are looked up: the largest ones, with every tie
\* at the limit, since ties are settled by name.
TopKeys(groups, dirtyOnly) ==
    LET rows == InCurrent(groups, dirtyOnly)
        keys == {row.rel : row \in rows}
        size == [k \in keys |-> Total(groups, {row \in rows : row.rel = k})]
    IN  {k \in keys : Cardinality({m \in keys : size[m] > size[k]}) < RelationLimit}

CandidateKeys(groups, sources) ==
    [s \in sources \cap RelationSources |-> TopKeys(groups, DirtyOnly(s))]

\* A name that could not be resolved sorts after those that could.
Name(k, resolved) == IF k \in resolved THEN NameOf[k] ELSE 1000 + k

\* The largest named amounts, ties by name, and the sum of all the others.
Ahead(amount, n) ==
    {m \in DOMAIN amount : amount[m] > amount[n] \/ (amount[m] = amount[n] /\ m < n)}

Bounded(amount, rest) ==
    LET kept == {n \in DOMAIN amount : Cardinality(Ahead(amount, n)) < RelationLimit}
    IN  [named |-> [n \in kept |-> amount[n]],
         other |-> rest + MapThenSumSet(LAMBDA n : amount[n], DOMAIN amount \ kept)]

BuildRelations(source, payload) ==
    LET rows == InCurrent(payload.groups, DirtyOnly(source))
        candidates == {row \in rows : row.rel \in payload.keys[source]}
        called(n) == {row \in candidates : Name(row.rel, payload.resolved) = n}
        names == {Name(row.rel, payload.resolved) : row \in candidates}
    IN  Bounded([n \in names |-> Total(payload.groups, called(n))],
                Total(payload.groups, rows \ candidates))

\* Every known database has a row, with or without buffers, and so have the
\* shared catalogs; a database that is no longer listed has one if it has buffers.
BuildByDatabase(payload) ==
    LET used == {row \in DOMAIN payload.groups : row.rel # NoRelation /\ row.db # Nothing}
    IN  [d \in payload.databases \cup {Shared} \cup {row.db : row \in used} |->
            Total(payload.groups, {row \in used : row.db = d})]

BuildUtilization(groups) ==
    [used |-> Total(groups, {row \in DOMAIN groups : row.rel # NoRelation}),
     unused |-> Total(groups, {row \in DOMAIN groups : row.rel = NoRelation})]

BuildUsageCounts(groups) ==
    [u \in UsageCounts |-> Total(groups, {row \in DOMAIN groups : row.usage = u})]

BuildDirtyAndPinned(groups) ==
    [dirty |-> Total(groups, {row \in DOMAIN groups : row.dirty}),
     pinned |-> Total(groups, {row \in DOMAIN groups : row.pinned})]

Build(source, payload) ==
    CASE source = "utilization" -> BuildUtilization(payload.groups)
      [] source = "usage_count_distribution" -> BuildUsageCounts(payload.groups)
      [] source = "dirty_and_pinned" -> BuildDirtyAndPinned(payload.groups)
      [] source = "by_database" -> BuildByDatabase(payload)
      [] OTHER -> BuildRelations(source, payload)

---------------------------------------------------------------------------
(* The cheap functions of PostgreSQL 16 and the items built from them *)

\* pg_buffercache_summary().
Summary(table) ==
    [used |-> Cardinality({n \in DOMAIN table : table[n].rel # NoRelation}),
     unused |-> Cardinality({n \in DOMAIN table : table[n].rel = NoRelation}),
     dirty |-> Cardinality({n \in DOMAIN table : table[n].dirty}),
     pinned |-> Cardinality({n \in DOMAIN table : table[n].pinned})]

\* pg_buffercache_usage_counts(): a free buffer is counted with usage 0.
UsageRows(table) ==
    LET at(u) == {n \in DOMAIN table : table[n].usage = u \/ (u = 0 /\ table[n].usage = NoCount)}
    IN  [u \in UsageCounts |->
            [buffers |-> Cardinality(at(u)),
             dirty |-> Cardinality({n \in at(u) : table[n].dirty}),
             pinned |-> Cardinality({n \in at(u) : table[n].pinned})]]

FastUtilization(summary) == [used |-> summary.used, unused |-> summary.unused]
FastDirty(summary) == [dirty |-> summary.dirty, pinned |-> summary.pinned]
FastDirtyFromUsage(rows) ==
    [dirty |-> FoldFunction(+, 0, [u \in UsageCounts |-> rows[u].dirty]),
     pinned |-> FoldFunction(+, 0, [u \in UsageCounts |-> rows[u].pinned])]
FastUsage(summary, rows) ==
    [u \in UsageCounts |->
        IF u = 0
        THEN IF rows[0].buffers > summary.unused THEN rows[0].buffers - summary.unused ELSE 0
        ELSE rows[u].buffers]

---------------------------------------------------------------------------
(* What each item says of the buffers, stated on the buffers themselves *)

InUse(table) == {n \in DOMAIN table : table[n].rel # NoRelation}

TrueUtilization(table) ==
    [used |-> Cardinality(InUse(table)), unused |-> Cardinality(DOMAIN table \ InUse(table))]

TrueUsageCounts(table) ==
    [u \in UsageCounts |-> Cardinality({n \in DOMAIN table : table[n].usage = u})]

TrueDirtyAndPinned(table) ==
    [dirty |-> Cardinality({n \in DOMAIN table : table[n].dirty}),
     pinned |-> Cardinality({n \in DOMAIN table : table[n].pinned})]

TrueByDatabase(table) ==
    [d \in Databases \cup {Shared} \cup {table[n].db : n \in InUse(table)} |->
        Cardinality({n \in InUse(table) : table[n].db = d})]

\* The buffers a chart of relations is about.
Listed(source, table) ==
    {n \in InUse(table) : table[n].db = Current /\ (DirtyOnly(source) => table[n].dirty)}

TrueRelations(source, table, resolvable) ==
    LET name(n) == Name(table[n].rel, resolvable)
    IN  Bounded([x \in {name(n) : n \in Listed(source, table)} |->
                    Cardinality({n \in Listed(source, table) : name(n) = x})], 0)

Reference(source, table, resolvable) ==
    CASE source = "utilization" -> TrueUtilization(table)
      [] source = "usage_count_distribution" -> TrueUsageCounts(table)
      [] source = "dirty_and_pinned" -> TrueDirtyAndPinned(table)
      [] source = "by_database" -> TrueByDatabase(table)
      [] OTHER -> TrueRelations(source, table, resolvable)
=============================================================================

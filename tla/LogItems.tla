------------------------------ MODULE LogItems ------------------------------
(***************************************************************************)
(* The items of the server_log section (content/python/server_log) and the *)
(* value budget of their rows (logscan/budget.py).  The clauses of the     *)
(* selected items say which messages of the log are recalled; each item    *)
(* picks its own out of the window, ranks them, shows so many, counts the  *)
(* rest; then the budget retains whole rows with the texts they refer to,  *)
(* until it is used up, and every later item is skipped.                   *)
(*                                                                         *)
(* A message is the set of facts the clauses and the items look at: its    *)
(* severity, its SQLSTATE, phrases of its English text, its command tag.   *)
(* With another lc_messages the severity and the phrases are not there.    *)
(* One row, one text in a catalog or a pool, costs one unit of the budget. *)
(***************************************************************************)
EXTENDS Integers, Sequences, FiniteSets, SequencesExt, FiniteSetsExt, Functions, Sorting

CONSTANTS
    Plans,          \* sequences of items a run may select, in the order of the report
    Logs,           \* the logs considered: sets of event series
    RowLimit,       \* TOP_LIMIT, ROW_LIMIT, EVENT_LIMIT, SERIES_LIMIT
    PerBucket,      \* TOP_EVENTS_PER_MINUTE, TOP_QUERIES_PER_BUCKET
    PointLimit,     \* CHART_POINT_LIMIT
    PoolLimit,      \* TEXT_REFERENCE_LIMIT
    Limits          \* the values of REPORT_VALUE_BUDGET_BYTES considered, in units

VARIABLES
    english,        \* lc_messages is C, POSIX or English
    log, plan, limit,
    marker,         \* status of the log phase: "none", "collected" or why it was not
    window,         \* the records of the phase
    whole,          \* coverage.ranking_complete as the scan left it
    report,         \* what is recorded of each item, in the order of the plan
    used, hit, refs \* LogValueBudget: used, hit, query_refs (the texts in the catalog)

input == <<english, log, plan, limit>>
vars == <<input, marker, window, whole, report, used, hit, refs>>

-----------------------------------------------------------------------------
(* The messages PostgreSQL writes, as far as the code tells them apart.    *)

Message(sev, state, says, query, db) ==
    [sev |-> sev, state |-> state, says |-> says, query |-> query, db |-> db]

Messages == [
    syntax   |-> Message("ERROR", "42601", {}, "q1", "a"),
    warned   |-> Message("WARNING", "01000", {}, "none", "a"),
    deadlock |-> Message("ERROR", "40P01", {}, "q1", "a"),
    waited   |-> Message("LOG", "00000", {"still waiting for"}, "q2", "a"),
    password |-> Message("FATAL", "28P01", {"password authentication failed"}, "none", "a"),
    archive  |-> Message("LOG", "00000", {"archive command failed"}, "none", "none"),
    gaveUp   |-> Message("WARNING", "01000", {"failed too many times"}, "none", "none"),
    standby  |-> Message("LOG", "08P01", {"EOF on standby connection"}, "none", "none"),
    checkpt  |-> Message("LOG", "00000", {"checkpoint complete"}, "none", "none"),
    vacuum   |-> Message("LOG", "00000", {"automatic vacuum", "over a threshold"}, "none", "none"),
    quick    |-> Message("LOG", "00000", {"automatic vacuum"}, "none", "none"),
    vacuumCut |-> Message("ERROR", "57014", {"user request"}, "q2", "a"),
    crash    |-> Message("LOG", "00000", {"terminated by signal"}, "none", "none"),
    xid      |-> Message("WARNING", "01000", {"must be vacuumed within"}, "none", "a"),
    full     |-> Message("ERROR", "53100", {"no space left on device"}, "q1", "a"),
    noSpace  |-> Message("LOG", "00000", {"no space left on device"}, "none", "none"),
    rmgr     |-> Message("LOG", "00000", {"invalid resource manager ID"}, "none", "none"),
    pidFile  |-> Message("FATAL", "F0001", {"postmaster.pid"}, "none", "none"),
    cancel   |-> Message("ERROR", "57014", {"statement timeout"}, "q1", "a"),
    slow     |-> Message("LOG", "00000", {"duration"}, "q1", "a"),
    slowB    |-> Message("LOG", "00000", {"duration"}, "q1", "b"),
    slowNoDb |-> Message("LOG", "00000", {"duration"}, "q1", "none"),
    plan     |-> Message("LOG", "00000", {"duration", "plan"}, "q2", "a"),
    slowPlan |-> Message("LOG", "00000", {"duration", "plan", "long"}, "q1", "a"),
    ready    |-> Message("LOG", "00000", {"ready to accept"}, "none", "none")]

\* What csvlog keeps of it: SQLSTATE and the tag of the command always, severity and text in
\* the server's language.
Facts(r) ==
    LET m == Messages[r.kind] IN
    {<<"state", m.state>>} \union
        {<<"tag", "VACUUM">> : k \in {r.kind} \intersect {"vacuumCut"}} \union
        (IF english THEN {<<"sev", m.sev>>} \union {<<"says", p>> : p \in m.says} ELSE {})
Says(r, phrases) == \E p \in phrases : <<"says", p>> \in Facts(r)
Sev(r, sevs) == \E s \in sevs : <<"sev", s>> \in Facts(r)
State(r) == Messages[r.kind].state
Query(r) == Messages[r.kind].query

Errors == {"ERROR", "FATAL", "PANIC"}

-----------------------------------------------------------------------------
(* Recall: a clause is a set of facts, all of which a line must hold.      *)

OneOf(what, values) == {{<<what, v>>} : v \in values}

ItemRecall == [
    archiver_failures |-> OneOf("says", {"archive command failed"}),
    authentication_failures |->
        OneOf("says", {"password authentication failed"}) \union OneOf("state", {"28000", "28P01"}),
    auto_explain_plans |-> {{<<"says", "duration">>, <<"says", "plan">>}},
    autovacuum_runs |-> OneOf("says", {"automatic vacuum"}),
    checkpoints |-> OneOf("says", {"checkpoint complete"}),
    crash_recovery_events |-> OneOf("says", {"terminated by signal"}),
    deadlock_events |-> OneOf("state", {"40P01"}),
    error_chronology |-> OneOf("sev", Errors),
    lock_waits |-> {{<<"sev", "LOG">>, <<"state", "00000">>, <<"says", "still waiting for">>}},
    maintenance_events |-> OneOf("says", {"automatic vacuum"}) \union OneOf("tag", {"VACUUM"}),
    query_resource_events |-> OneOf("says", {"duration"}),
    query_termination_events |-> OneOf("state", {"57014", "55P03", "57P01"}),
    replication_events |->
        OneOf("says", {"archive command failed", "EOF on standby connection"}),
    server_lifecycle |-> OneOf("says", {"ready to accept", "terminated by signal"}),
    system_incidents |->
        OneOf("state", {"53100", "53200", "58030"}) \union OneOf("says", {"no space left on device"}),
    top_errors |-> OneOf("sev", Errors),
    top_warnings |-> OneOf("sev", {"WARNING"}),
    wraparound_pressure |-> OneOf("says", {"must be vacuumed within"})]

ASSUME LogItemsAssumption ==
    /\ Plans \subseteq Seq(DOMAIN ItemRecall)
    /\ \A l \in Logs : /\ IsFiniteSet(l)
                        /\ \A r \in l : r.kind \in DOMAIN Messages /\ r.n \in Nat \ {0} /\ r.t \in Nat
    /\ {RowLimit, PerBucket, PointLimit} \union Limits \subseteq Nat \ {0} /\ PoolLimit \in Nat

\* clauses_for_items: the union over the items of the plan.
ClausesFor(items) == UNION {ItemRecall[items[i]] : i \in DOMAIN items}
Recalled == {r \in log : \E c \in ClausesFor(plan) : c \subseteq Facts(r)}

-----------------------------------------------------------------------------
(* What an item makes of a set of records W.  A row stands for n events of *)
(* the records of, and refers to texts.                                    *)

EventsIn(R) == SumFunction([r \in R |-> r.n])
EventsOf(rows) == SumFunction([i \in DOMAIN rows |-> rows[i].n])
FirstTime(R) == Min({r.t : r \in R})
Upto(s, n) == SubSeq(s, 1, IF Len(s) < n THEN Len(s) ELSE n)

\* query_columns, group_query_columns: the queries of the records of a row.
QueryRefs(R) == {<<"query", Query(r)>> : r \in {x \in R : Query(x) # "none"}}
RowOf(R) == [n |-> EventsIn(R), refs |-> QueryRefs(R), of |-> R]
WithRef(row, ref) == [n |-> row.n, refs |-> row.refs \union {ref}, of |-> row.of]
Singly(order) == [i \in DOMAIN order |-> RowOf({order[i]})]

\* The item's result: what it shows, and the counts beside it.
Result(all, shown, counts) ==
    [shown |-> shown, counts |-> counts, series |-> Len(all), events |-> EventsOf(all), lost |-> 0]
Table(rows, counts) == Result(rows, Upto(rows, RowLimit), counts)

Newest(R) == Singly(Sorted(R, [r \in R |-> <<-r.t, 0>>]))
Ranked(R, rank) == Singly(Sorted(R, [r \in R |-> <<-rank[r], -r.t>>]))
Groups(R, By(_)) == {{b \in R : By(b) = By(a)} : a \in R}
MostFrequent(G) ==
    LET order == Sorted(G, [A \in G |-> <<-EventsIn(A), FirstTime(A)>>])
    IN [i \in DOMAIN order |-> RowOf(order[i])]

Having(W, phrases) == {r \in W : Says(r, phrases)}
WithSev(W, sevs) == {r \in W : Sev(r, sevs)}
WithState(W, states) == {r \in W : State(r) \in states}
ByKind(R) == Groups(R, LAMBDA r : r.kind)

ArchiverFailures(W) == Table(Newest(Having(W, {"archive command failed"})), {})
AutovacuumRuns(W) == Table(Newest(Having(W, {"automatic vacuum"})), {"series", "events"})
Checkpoints(W) == Table(Newest(Having(W, {"checkpoint complete"})), {"series"})
CrashRecovery(W) == Table(Newest(Having(W, {"terminated by signal"})), {})
DeadlockEvents(W) == Table(Newest(WithState(W, {"40P01"})), {"series", "events"})
ErrorChronology(W) == Table(Newest(WithSev(W, Errors)), {"series", "events"})
LockWaits(W) == Table(Newest(Having(W, {"still waiting for"})), {"series", "events"})
Wraparound(W) == Table(Newest(Having(W, {"must be vacuumed within"})), {})
ServerLifecycle(W) ==
    Table(Newest(Having(W, {"ready to accept", "terminated by signal", "postmaster.pid"})), {"series"})
ByCount(R) == Ranked(R, [r \in R |-> r.n])
ReplicationEvents(W) ==
    Table(ByCount(Having(W, {"archive command failed", "failed too many times",
                             "EOF on standby connection"})), {"series"})
\* By SQLSTATE, or by message where the SQLSTATE says nothing; worst severity first.
Incidents(W) ==
    {r \in W : \/ State(r) \in {"53100", "53200", "58030"}
               \/ /\ State(r) \in {"00000", "XX000"}
                  /\ Says(r, {"no space left on device", "invalid resource manager ID"})}
WorstFirst(R) ==
    LET severity(r) == IF Sev(r, {"FATAL", "PANIC"}) THEN 2 ELSE IF Sev(r, {"ERROR"}) THEN 1 ELSE 0
    IN Ranked(R, [r \in R |-> severity(r) * 10 + r.n])
SystemIncidents(W) == Table(WorstFirst(Incidents(W)), {"series"})
\* Low-impact runs are counted apart; failures outrank what exceeds a threshold.
Maintenance(W) == {r \in W : <<"tag", "VACUUM">> \in Facts(r) \/ Says(r, {"automatic vacuum"})}
Failed(r) == Sev(r, Errors) \/ State(r) \in {"57014", "55P03"}
Heavy(R) == {r \in R : Failed(r) \/ Says(r, {"over a threshold"})}
FailedFirst(R) == Ranked(R, [r \in R |-> IF Failed(r) THEN 2 ELSE 1])
MaintenanceEvents(W) == Table(FailedFirst(Heavy(Maintenance(W))), {"series"})
Refusals(W) ==
    {r \in W : State(r) \in {"28000", "28P01"} \/ Says(r, {"password authentication failed"})}
ByStateAndDatabase(R) == Groups(R, LAMBDA r : <<State(r), Messages[r.kind].db>>)
AuthenticationFailures(W) == Table(MostFrequent(ByStateAndDatabase(Refusals(W))), {})
TopErrors(W) == Table(MostFrequent(ByKind(WithSev(W, Errors))), {"series", "events"})
TopWarnings(W) == Table(MostFrequent(ByKind(WithSev(W, {"WARNING"}))), {})

\* A group without a database joins the group of its query when there is exactly one.
DatabaseOf(A) == Messages[(CHOOSE r \in A : TRUE).kind].db
QueryOf(A) == Query(CHOOSE r \in A : TRUE)
AttachDatabaseless(G) ==
    LET named(A) == {B \in G : QueryOf(B) = QueryOf(A) /\ DatabaseOf(B) # "none"}
        joins == {A \in G : DatabaseOf(A) = "none" /\ Cardinality(named(A)) = 1}
    IN {B \union UNION {A \in joins : named(A) = {B}} : B \in G \ joins}
\* A duration that is not the head of a plan.
Durations(W) == {r \in W : Says(r, {"duration"}) /\ ~Says(r, {"plan"})}
ByQueryAndDatabase(R) == Groups(R, LAMBDA r : <<Query(r), Messages[r.kind].db>>)
QueryResources(W) ==
    Table(MostFrequent(AttachDatabaseless(ByQueryAndDatabase(Durations(W)))), {"series"})

-----------------------------------------------------------------------------
(* Charts: points of a rank within a bucket of time.  Their series are     *)
(* listed from the last rank to the first.                                 *)

Bucket(r) == r.t \div 2
LastRankFirst(points) ==
    LET order == Sorted(DOMAIN points, [i \in DOMAIN points |-> <<-points[i].rank, i>>])
    IN [i \in DOMAIN order |-> points[order[i]].row]

\* ChartReferencePool.add_message: a text is interned once, until the pool is full.
Interned(points) ==
    LET text(i) == (CHOOSE r \in points[i].row.of : TRUE).kind
        kept == {i \in DOMAIN points :
                   \E j \in 1..i : /\ text(j) = text(i)
                                  /\ Cardinality({text(k) : k \in 1..j}) <= PoolLimit}
    IN [points |-> [i \in DOMAIN points |->
                      IF i \in kept
                      THEN [rank |-> points[i].rank,
                            row |-> WithRef(points[i].row, <<"message", text(i)>>)]
                      ELSE points[i]],
        lost |-> Cardinality(DOMAIN points \ kept)]

\* Rank 1 of every active minute is selected before rank 2.
BucketOf(A) == Bucket(CHOOSE r \in A : TRUE)
RankIn(groups, A) ==
    LET bucket == {B \in groups : BucketOf(B) = BucketOf(A)}
        order == Sorted(bucket, [B \in bucket |-> <<-EventsIn(B), -FirstTime(B)>>])
    IN CHOOSE i \in DOMAIN order : order[i] = A
Fairly(points) ==
    LET kept == {p \in points : p.rank <= PerBucket}
    IN Sorted(kept, [p \in kept |-> <<p.rank, BucketOf(p.row.of)>>])
TerminationChart(groups, pooled) ==
    [Result(MostFrequent(groups), LastRankFirst(pooled.points), {"series", "events"})
        EXCEPT !.lost = pooled.lost]
Terminations(groups) ==
    TerminationChart(groups,
        Interned(Upto(Fairly({[rank |-> RankIn(groups, A), row |-> RowOf(A)] : A \in groups}),
                      PointLimit)))
ByBucketAndKind(R) == Groups(R, LAMBDA r : <<Bucket(r), r.kind>>)
QueryTerminations(W) ==
    Terminations(ByBucketAndKind(WithState(W, {"57014", "55P03", "57P01"})))

\* The slowest executions of all, then the slowest of each bucket; each with its plan.
RankAmong(retained, i) == Cardinality({j \in 1..i : Bucket(retained[j]) = Bucket(retained[i])})
PlanPoint(r, rank) ==
    [rank |-> rank, row |-> WithRef(RowOf({r}), <<"plan", r.t>>)]
PlanPoints(retained) ==
    LET kept == {i \in DOMAIN retained : RankAmong(retained, i) <= PerBucket}
        shown == Sorted(kept, [i \in kept |-> <<Bucket(retained[i]), i>>])
    IN [k \in DOMAIN shown |-> PlanPoint(retained[shown[k]], RankAmong(retained, shown[k]))]
Slowest(R) ==
    LET slow(r) == IF Says(r, {"long"}) THEN 2 ELSE 1
    IN Sorted(R, [r \in R |-> <<-slow(r), r.t>>])
PlanChart(order) ==
    Result(Singly(order), LastRankFirst(PlanPoints(Upto(order, PointLimit))), {"series"})
AutoExplainPlans(W) == PlanChart(Slowest(Having(W, {"plan"})))

Collect(item, W) ==
    CASE item = "archiver_failures" -> ArchiverFailures(W)
      [] item = "authentication_failures" -> AuthenticationFailures(W)
      [] item = "auto_explain_plans" -> AutoExplainPlans(W)
      [] item = "autovacuum_runs" -> AutovacuumRuns(W)
      [] item = "checkpoints" -> Checkpoints(W)
      [] item = "crash_recovery_events" -> CrashRecovery(W)
      [] item = "deadlock_events" -> DeadlockEvents(W)
      [] item = "error_chronology" -> ErrorChronology(W)
      [] item = "lock_waits" -> LockWaits(W)
      [] item = "maintenance_events" -> MaintenanceEvents(W)
      [] item = "query_resource_events" -> QueryResources(W)
      [] item = "query_termination_events" -> QueryTerminations(W)
      [] item = "replication_events" -> ReplicationEvents(W)
      [] item = "server_lifecycle" -> ServerLifecycle(W)
      [] item = "system_incidents" -> SystemIncidents(W)
      [] item = "top_errors" -> TopErrors(W)
      [] item = "top_warnings" -> TopWarnings(W)
      [] OTHER -> Wraparound(W)

-----------------------------------------------------------------------------
(* The phase, then the items of the plan one after the other.              *)

NoItem == [status |-> "none", rows |-> <<>>, omittedSeries |-> 0, displayed |-> 0,
           omittedEvents |-> 0, partial |-> FALSE, lost |-> 0]

Init ==
    /\ english \in BOOLEAN /\ log \in Logs /\ plan \in Plans /\ limit \in Limits
    /\ marker = "none" /\ window = {} /\ whole = FALSE /\ report = <<>>
    /\ used = 0 /\ hit = FALSE /\ refs = {}

\* The window holds what the clauses of the plan recall: all of it, or some part.
Phase ==
    /\ marker = "none" /\ marker' = "collected"
    /\ window' \in SUBSET Recalled
    /\ whole' \in {w \in BOOLEAN : w => window' = Recalled}
    /\ UNCHANGED <<input, report, used, hit, refs>>

\* No log to read, a phase that failed, a run without logs.
NoPhase ==
    /\ marker = "none" /\ marker' \in {"skipped", "unavailable", "error"}
    /\ UNCHANGED <<input, window, whole, report, used, hit, refs>>

\* resolve_window, resolve_english_window: the status of an item that cannot look at rows.
AnyLocale == {"authentication_failures", "deadlock_events", "query_termination_events",
              "system_incidents"}
EarlyStatus(item) ==
    IF marker = "unavailable" \/ (marker = "collected" /\ ~english /\ item \notin AnyLocale)
    THEN "unsupported" ELSE IF marker = "collected" THEN "none" ELSE marker

\* Mutant: the coverage is not looked at.
NoRowsStatusBlind(item) == IF english THEN "empty" ELSE "ok"

\* An item without rows: empty is said of a window that was read in full, and where the
\* messages a message pattern would find can be read.
NoRowsStatus(item) ==
    IF whole /\ (english \/ item \notin {"query_termination_events", "system_incidents"})
    THEN "empty" ELSE "ok"

\* Mutant: a row is kept before the texts it refers to, which may find the budget used up.
AdmitRowFirst(kept, row) ==
    LET new == {ref \in row.refs : ref \notin kept.refs /\ kept.used + 1 < limit} IN
    IF kept.cut \/ (kept.rows # <<>> /\ kept.used >= limit) THEN [kept EXCEPT !.cut = TRUE]
    ELSE [rows |-> Append(kept.rows, row), used |-> kept.used + 1 + Cardinality(new),
          refs |-> kept.refs \union new, cut |-> FALSE]

\* retain_log_item: whole rows with what they refer to, the first one in any case.  A query
\* text is charged once for all items, a message or a plan once for this one.
Admit(kept, row) ==
    LET new == {ref \in row.refs : ref \notin kept.refs} IN
    IF kept.cut \/ (kept.rows # <<>> /\ kept.used >= limit) THEN [kept EXCEPT !.cut = TRUE]
    ELSE [rows |-> Append(kept.rows, row), used |-> kept.used + 1 + Cardinality(new),
          refs |-> kept.refs \union new, cut |-> FALSE]
Retained(rows) ==
    FoldLeft(Admit, [rows |-> <<>>, used |-> used, refs |-> refs, cut |-> FALSE], rows)

\* Mutant: the rows the budget left out are not counted with those the row limit left out.
MarkPartialOnce(made, kept) ==
    [status |-> "ok", rows |-> kept.rows, partial |-> kept.rows # made.shown, lost |-> made.lost,
     omittedSeries |-> made.series - Len(made.shown), displayed |-> EventsOf(made.shown),
     omittedEvents |-> made.events - EventsOf(made.shown)]

\* _mark_item_partial: the counts beside the rows that were kept.
MarkPartial(made, kept) ==
    LET cut == kept.rows # made.shown IN
    [status |-> "ok", rows |-> kept.rows, partial |-> cut, lost |-> made.lost,
     omittedSeries |-> (made.series - Len(made.shown)) + (Len(made.shown) - Len(kept.rows)),
     displayed |-> EventsOf(kept.rows),
     omittedEvents |-> (made.events - EventsOf(made.shown))
                          + (EventsOf(made.shown) - EventsOf(kept.rows))]

Turn == marker # "none" /\ Len(report) < Len(plan)
Current == plan[Len(report) + 1]
Record(item) == report' = Append(report, item)

\* execute_and_record_report_item, once the budget has been used up.
SkipItem ==
    /\ Turn /\ hit
    /\ Record([NoItem EXCEPT !.status = "skipped"])
    /\ UNCHANGED <<input, marker, window, whole, used, hit, refs>>

\* An item that says why it cannot look.
EarlyItem ==
    /\ Turn /\ ~hit /\ EarlyStatus(Current) # "none"
    /\ Record([NoItem EXCEPT !.status = EarlyStatus(Current)])
    /\ UNCHANGED <<input, marker, window, whole, used, hit, refs>>

\* An item that looked: its rows are retained and charged.
Charge(made, kept) ==
    /\ Record(IF made.shown = <<>> THEN [NoItem EXCEPT !.status = NoRowsStatus(Current)]
              ELSE MarkPartial(made, kept))
    /\ used' = kept.used
    /\ hit' = (kept.used >= limit)
    /\ refs' = {ref \in kept.refs : ref[1] = "query"}
Retain(made) == Charge(made, Retained(made.shown))
ExecuteItem ==
    /\ Turn /\ ~hit /\ EarlyStatus(Current) = "none"
    /\ Retain(Collect(Current, window))
    /\ UNCHANGED <<input, marker, window, whole>>

Next == Phase \/ NoPhase \/ SkipItem \/ EarlyItem \/ ExecuteItem
Spec == Init /\ [][Next]_vars

\* update_coverage, finish_budget: what runtime.log_collection.coverage says in the end.
RankingComplete == whole /\ ~hit

-----------------------------------------------------------------------------
(* Properties                                                              *)

Recorded == DOMAIN report
Looked(i) == report[i].status \in {"ok", "empty"} /\ marker = "collected"
Made(i) == Collect(plan[i], window)

Adds(item, made) ==
    /\ "series" \in made.counts => Len(item.rows) + item.omittedSeries = made.series
    /\ "events" \in made.counts =>
          /\ item.displayed = EventsOf(item.rows)
          /\ item.displayed + item.omittedEvents = made.events

\* The counts beside the rows of an item tell how many of the events of the window that are
\* its own are not shown, whatever a row limit, a bucket, a point limit and the budget left out.
CountsAddUp == \A i \in Recorded : Looked(i) => Adds(report[i], Made(i))

\* A row the budget left out is marked in its item, and the coverage of the report no longer
\* claims to be complete; a row that is kept has the text of every query it refers to, and
\* the budget is exceeded by the row that crosses it at most.
BudgetSaysSo ==
    \A i \in Recorded :
       /\ Looked(i) => /\ report[i].rows # Made(i).shown => report[i].partial /\ ~RankingComplete
                       /\ \A row \in Range(report[i].rows) : QueryRefs(row.of) \subseteq refs
                       /\ report[i].rows # <<>> => used <= limit + 2
       /\ report[i].status = "skipped" => ~RankingComplete

\* Messages an item takes for its own and for which it has no clause.
NoClause == {"gaveUp", "rmgr", "pidFile"}

Tells(i, made, all) == (whole => made = all) /\ (report[i].status = "empty" => all.shown = <<>>)

\* An item is "empty" only if nothing it reports on was written in the window, and a complete
\* report shows of the log what the item would show of every record of it.
EmptyIsTrue ==
    \A i \in Recorded :
       (Looked(i) /\ \A r \in log : r.kind \notin NoClause)
         => Tells(i, Made(i), Collect(plan[i], log))

=============================================================================

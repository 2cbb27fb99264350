----------------------------- MODULE QueryBatch -----------------------------
(***************************************************************************)
(* One batch of queries of a snapshot (snapshots._execute_query_batch):    *)
(* the queries run one after the other inside one read-only transaction,   *)
(* each in a savepoint of its own (executors/sql.py).  A query may set its *)
(* own limits for its savepoint.  The items about the buffer cache are     *)
(* answered by a provider shared by the batch (executors/buffer_cache.py), *)
(* which reads the buffers once and remembers what failed.                 *)
(*                                                                         *)
(* One action is one statement sent to the server with what the collector  *)
(* does with its answer.  Any statement can fail and the connection can be *)
(* lost under any of them, those that set and restore the limits, set and  *)
(* release the savepoint and commit included; only a ROLLBACK TO, sent     *)
(* after another failure, is taken to fail with the connection alone.  The *)
(* buffers change between statements.                                      *)
(***************************************************************************)
EXTENDS BufferCache, Sequences

CONSTANTS
    Batches,        \* the batches of planned queries
    Tables,         \* the contents of the buffers at first
    Later,          \* and those they may change to
    Servers,        \* what the server offers the collector
    Defaults,       \* runtime_policy: the limits the session starts with
    MaxFailures,    \* bound: statements that fail by themselves
    MaxChanges      \* bound: changes of the buffers

Limits == {"statement_timeout", "lock_timeout"}

\* A planned query: its source, the limits it overrides, and whether its
\* relations may be missing on this server.
ASSUME QueryBatchAssumption ==
    /\ \A b \in Batches : b \in Seq({b[n] : n \in DOMAIN b})
    /\ \A b \in Batches : \A n \in DOMAIN b :
          DOMAIN b[n].limits \subseteq Limits /\ b[n].optional \in BOOLEAN
    /\ \A b \in Batches : \A n \in DOMAIN b : \A k \in DOMAIN b[n].limits : b[n].limits[k] \in Nat
    /\ Limits \subseteq DOMAIN Defaults /\ \A k \in Limits : Defaults[k] \in Nat
    /\ \A t \in Tables \cup Later : Buffers(t)
    /\ MaxFailures \in Nat /\ MaxChanges \in Nat

VARIABLES
    batch,      \* the planned queries
    failFast,   \* --fail-fast
    server,     \* [modern, summary, usage, resolvable]
    table,      \* the buffers of the server now
    up,         \* the connection works
    aborted,    \* the innermost open (sub)transaction has failed
    settings,   \* the session's settings in force
    saved,      \* the settings to go back to when the query's savepoint is rolled back
    index,      \* the query being executed
    pc,
    overridden, \* overridden_timeout_keys: the limits it has set and not put back
    result,     \* its answer, while its savepoint is not released
    slips,      \* the queries with a savepoint statement that failed by itself
    provider,   \* QueryBatchContext.buffer_cache
    scan,       \* the payload of the detailed aggregate while it is collected
    items,      \* what was reported, query by query
    failures, changes

world == <<batch, failFast, server>>
session == <<settings, saved, aborted, slips>>
local == <<overridden, result>>
report == <<items, index>>
vars == <<world, table, up, session, local, pc, report, provider, scan, failures, changes>>

Query == batch[index]
Shares == {batch[n].source : n \in DOMAIN batch} \cap CacheSources

\* The limit a query is meant to run under.
Limit(q, key) == IF key \in DOMAIN q.limits THEN q.limits[key] ELSE Defaults[key]

\* prefer_fast_summary: a variant for PostgreSQL 16 was planned.
Prefer == server.modern /\ Shares \cap SummarySources # {}

Unread == [kind |-> "unread"]
Held(value, moment) == [kind |-> "held", value |-> value, of |-> moment]
Lost(error) == [kind |-> "lost", error |-> error]

NoAnswer == [kind |-> "none"]
NoCapabilities == [summary |-> FALSE, usage |-> FALSE]

Init ==
    /\ batch \in Batches
    /\ failFast \in BOOLEAN
    /\ server \in Servers
    /\ table \in Tables
    /\ up = TRUE /\ aborted = FALSE
    /\ settings = Defaults /\ saved = Defaults
    /\ index = 1 /\ pc = "next"
    /\ overridden = {} /\ result = NoAnswer /\ slips = {}
    /\ provider = [checked |-> FALSE, caps |-> NoCapabilities,
                   summary |-> Unread, usage |-> Unread, detail |-> Unread]
    /\ scan = Unread
    /\ items = <<>>
    /\ failures = 0 /\ changes = 0

---------------------------------------------------------------------------
(* Statements *)

\* What the server can make of a statement: a limit in force that expires, a
\* missing relation, a function the server lacks, a cancel, anything else.  "told"
\* is whether the message is in a language the collector recognises.
ServerErrors ==
    {[why |-> key, told |-> told, after |-> settings[key]] : key \in Limits, told \in BOOLEAN}
    \cup {[why |-> w, told |-> FALSE, after |-> 0] : w \in {"cancel", "missing", "feature", "other"}}

Refused == [why |-> "aborted", told |-> FALSE, after |-> 0]
Closed == [why |-> "closed", told |-> FALSE, after |-> 0]

Succeeds == up /\ ~aborted

\* A statement fails with error e: by itself, because the transaction has already
\* failed, or because the connection is gone.
Errs(e) ==
    \/ /\ Succeeds /\ failures < MaxFailures
       /\ e \in ServerErrors
       /\ failures' = failures + 1 /\ UNCHANGED up
    \/ /\ Succeeds /\ failures < MaxFailures
       /\ e = Closed
       /\ failures' = failures + 1 /\ up' = FALSE
    \/ /\ up /\ aborted
       /\ e = Refused
       /\ UNCHANGED <<up, failures>>
    \/ /\ ~up
       /\ e = Closed
       /\ UNCHANGED <<up, failures>>

Errors == ServerErrors \cup {Refused, Closed}

---------------------------------------------------------------------------
(* Items *)

\* _classify_sql_error.
StatusOf(e, q) ==
    IF e.why = "feature" \/ (q.optional /\ e.why = "missing") THEN "unsupported" ELSE "error"

\* _sql_failure_kind: the server's message decides, then the time the query took.
FailureKind(e, elapsed, q) ==
    CASE e.why = "lock_timeout" ->
            IF e.told \/ elapsed >= Limit(q, "lock_timeout") THEN "lock_timeout" ELSE "lock_not_available"
      [] e.why \in {"statement_timeout", "cancel"} ->
            IF e.told \/ elapsed >= Limit(q, "statement_timeout") THEN "statement_timeout" ELSE "query_canceled"
      [] OTHER -> "none"

NoError == [why |-> "none", told |-> FALSE, after |-> 0]

\* The item of a query that failed at the statement of this moment; "own" is whether
\* a statement of its own did.  The query took at least as long as that statement.
FailedItem(e, own) ==
    [status |-> StatusOf(e, Query), answer |-> NoAnswer, error |-> e, own |-> own, at |-> pc,
     failure |-> FailureKind(e, IF own THEN e.after ELSE 0, Query)]

AnsweredItem(answer) ==
    [status |-> "ok", answer |-> answer, error |-> NoError, own |-> FALSE, at |-> pc,
     failure |-> "none"]

\* The item is stored; with --fail-fast an error ends the batch.
Store(item) ==
    /\ items' = Append(items, item)
    /\ index' = index + 1
    /\ pc' = IF failFast /\ item.status = "error" THEN "raised" ELSE "next"
    /\ overridden' = {} /\ result' = NoAnswer

\* The exception leaves the query's transaction: its savepoint is rolled back, and
\* with it the settings made since.
Fails(e, own) ==
    /\ settings' = saved /\ aborted' = FALSE
    /\ Store(FailedItem(e, own))
    /\ UNCHANGED <<saved, slips>>

\* SAVEPOINT or RELEASE fails: the exception is the query's, but the transaction it
\* leaves is not (or no longer) the query's own, and nothing is rolled back.
Slips(e, left) ==
    /\ Errs(e)
    /\ settings' = left /\ aborted' = (e # Closed)
    /\ slips' = IF e \in ServerErrors THEN slips \cup {index} ELSE slips
    /\ Store(FailedItem(e, TRUE))
    /\ UNCHANGED saved

\* The query is answered: the limits it had set are put back before its savepoint
\* is released, which would keep them.
Answers(answer) ==
    /\ result' = answer
    /\ pc' = IF overridden = {} THEN "release" ELSE "restore"
    /\ UNCHANGED <<session, overridden, report>>

---------------------------------------------------------------------------
(* The shared provider *)

\* What the item of a source is built from (result_for, _uses_fast_source).
Readings(source, caps) ==
    CASE source = "utilization" /\ caps.summary -> <<"summary">>
      [] source = "usage_count_distribution" /\ caps.summary /\ caps.usage -> <<"summary", "usage">>
      [] source = "dirty_and_pinned" /\ caps.summary -> <<"summary">>
      [] source = "dirty_and_pinned" /\ ~caps.summary /\ caps.usage -> <<"usage">>
      [] OTHER -> <<"detail">>

\* The sources the detailed aggregate has to serve.
DetailSources(p) == {s \in Shares : Readings(s, p.caps) = <<"detail">>}

FromReadings(source, p) ==
    LET r == Readings(source, p.caps)
        of == {p[r[n]].of : n \in DOMAIN r}
    IN  [kind |-> "cache", source |-> source, of |-> of,
         rows |-> CASE r = <<"detail">> -> Build(source, p.detail.value)
                    [] r = <<"summary", "usage">> -> FastUsage(p.summary.value, p.usage.value)
                    [] r = <<"usage">> -> FastDirtyFromUsage(p.usage.value)
                    [] r = <<"summary">> /\ source = "utilization" -> FastUtilization(p.summary.value)
                    [] OTHER -> FastDirty(p.summary.value)]

\* After a reading, or with nothing read yet: what the current query does next with
\* provider p.  A reading that failed for an earlier query fails again, unasked.
Proceeds(p) ==
    LET r == Readings(Query.source, p.caps)
        open == {n \in DOMAIN r : p[r[n]].kind # "held"}
        first == r[CHOOSE n \in open : \A m \in open : n <= m]
    IN  \/ /\ Prefer /\ ~p.checked
           /\ pc' = "probe"
           /\ UNCHANGED <<session, local, report>>
        \/ /\ Prefer => p.checked
           /\ open = {}
           /\ Answers(FromReadings(Query.source, p))
        \/ /\ Prefer => p.checked
           /\ open # {}
           /\ p[first].kind = "lost"
           /\ Fails(p[first].error, FALSE)
        \/ /\ Prefer => p.checked
           /\ open # {}
           /\ p[first].kind = "unread"
           /\ pc' = first
           /\ UNCHANGED <<session, local, report>>

\* The error of a reading is remembered, then raised.
Remember(name, e) ==
    /\ provider' = [provider EXCEPT ![name] = Lost(e)]
    /\ Fails(e, TRUE)

---------------------------------------------------------------------------
(* The steps of a query *)

\* The query's own work, once its limits are set.
Starts(p) ==
    IF Query.source \in CacheSources
    THEN Proceeds(p)
    ELSE pc' = "plain" /\ UNCHANGED <<session, local, report>>

\* SAVEPOINT, which fails at once on a lost connection or in a failed transaction.
\* Failing by itself it fails the transaction of the batch.
Savepoint ==
    /\ pc = "next" /\ index <= Len(batch)
    /\ \/ /\ Succeeds
          /\ saved' = settings
          /\ pc' = IF DOMAIN Query.limits = {} THEN "work" ELSE "limits"
          /\ UNCHANGED <<settings, aborted, slips, local, report, up, failures>>
       \/ \E e \in Errors : Slips(e, IF e = Refused THEN settings ELSE Defaults)
    /\ UNCHANGED <<world, table, provider, scan, changes>>

\* The limits are set, and put back, one by one in this order.
FirstOf(keys) == IF "statement_timeout" \in keys THEN "statement_timeout" ELSE "lock_timeout"

\* set_config(..., true) for each limit of the query.
SetLimits ==
    LET left == DOMAIN Query.limits \ overridden
        key == FirstOf(left)
    IN  /\ pc = "limits"
        /\ \/ /\ Succeeds
              /\ settings' = [settings EXCEPT ![key] = Query.limits[key]]
              /\ overridden' = overridden \cup {key}
              /\ pc' = IF left = {key} THEN "work" ELSE "limits"
              /\ UNCHANGED <<saved, aborted, slips, result, report, up, failures>>
           \/ \E e \in Errors : Errs(e) /\ Fails(e, TRUE)
        /\ UNCHANGED <<world, table, provider, scan, changes>>

Work ==
    /\ pc = "work"
    /\ Starts(provider)
    /\ UNCHANGED <<world, table, up, provider, scan, failures, changes>>

\* A query of its own: prepared, fetched, turned into an item.
Plain ==
    /\ pc = "plain"
    /\ \/ Succeeds /\ Answers([kind |-> "plain"]) /\ UNCHANGED <<up, failures>>
       \/ \E e \in Errors : Errs(e) /\ Fails(e, TRUE)
    /\ UNCHANGED <<world, table, provider, scan, changes>>

\* A plausible slip: limits set for a savepoint are trusted to end with it.
RestoreByRelease ==
    /\ pc = "restore"
    /\ overridden' = {} /\ pc' = "release"
    /\ UNCHANGED <<session, result, report, up, failures, world, table, provider, scan, changes>>

\* _restore_batch_timeout_guards: when it fails, so does the query that was answered.
Restore ==
    LET key == FirstOf(overridden)
    IN  /\ pc = "restore"
        /\ \/ /\ Succeeds
              /\ settings' = [settings EXCEPT ![key] = Defaults[key]]
              /\ overridden' = overridden \ {key}
              /\ pc' = IF overridden = {key} THEN "release" ELSE "restore"
              /\ UNCHANGED <<saved, aborted, slips, result, report, up, failures>>
           \/ \E e \in Errors : Errs(e) /\ Fails(e, TRUE)
        /\ UNCHANGED <<world, table, provider, scan, changes>>

\* RELEASE: the item is the answer, unless this last statement fails.
Release ==
    /\ pc = "release"
    /\ \/ Succeeds /\ Store(AnsweredItem(result)) /\ UNCHANGED <<session, up, failures>>
       \/ \E e \in Errors : Slips(e, saved)
    /\ UNCHANGED <<world, table, provider, scan, changes>>

\* A plausible slip: the failure is swallowed, but the transaction stays failed.
ProbeFailedInPlace(e) ==
    /\ provider' = [provider EXCEPT !.checked = TRUE]
    /\ aborted' = (e # Closed)

\* The probe has a savepoint of its own: its failure is swallowed and leaves the
\* query's transaction usable.
ProbeFailed(e) ==
    /\ provider' = [provider EXCEPT !.checked = TRUE]
    /\ UNCHANGED aborted

\* ... unless what failed was to set or release that savepoint.
ProbeSlips(e) ==
    /\ provider' = [provider EXCEPT !.checked = TRUE]
    /\ aborted' = TRUE /\ slips' = slips \cup {index}

Probe ==
    /\ pc = "probe"
    /\ \/ /\ Succeeds
          /\ provider' = [provider EXCEPT !.checked = TRUE,
                              !.caps = [summary |-> server.summary, usage |-> server.usage]]
          /\ UNCHANGED <<up, aborted, slips, failures>>
       \/ \E e \in Errors : Errs(e) /\ ProbeFailed(e) /\ UNCHANGED slips
       \/ \E e \in ServerErrors : Errs(e) /\ ProbeSlips(e)
    /\ pc' = "work"
    /\ UNCHANGED <<world, table, settings, saved, local, report, scan, changes>>

\* The two cheap functions.
ReadSummary ==
    /\ pc = "summary"
    /\ \/ /\ Succeeds
          /\ provider' = [provider EXCEPT !.summary = Held(Summary(table), table)]
          /\ Proceeds(provider')
          /\ UNCHANGED <<up, failures>>
       \/ \E e \in Errors : Errs(e) /\ Remember("summary", e)
    /\ UNCHANGED <<world, table, scan, changes>>

ReadUsage ==
    /\ pc = "usage"
    /\ \/ /\ Succeeds
          /\ provider' = [provider EXCEPT !.usage = Held(UsageRows(table), table)]
          /\ Proceeds(provider')
          /\ UNCHANGED <<up, failures>>
       \/ \E e \in Errors : Errs(e) /\ Remember("usage", e)
    /\ UNCHANGED <<world, table, scan, changes>>

\* The aggregate over every buffer, with more memory, in a savepoint that is
\* released when it succeeds: the memory setting then stays for the rest of the
\* batch, unless the query still fails.
ReadDetail ==
    LET sources == DetailSources(provider)
        groups == Aggregate(sources, table)
    IN  /\ pc = "detail"
        /\ \/ /\ Succeeds
              /\ settings' = [settings EXCEPT !.work_mem = "64MB"]
              /\ scan' = Held([groups |-> groups, databases |-> {}, resolved |-> {},
                               keys |-> [s \in {} |-> {}]], table)
              /\ pc' = "metadata"
              /\ UNCHANGED <<up, failures, provider, aborted, saved, slips, local, report>>
           \/ /\ \E e \in Errors : Errs(e) /\ Remember("detail", e)
              /\ UNCHANGED scan
        /\ UNCHANGED <<world, table, changes>>

\* The payload is complete.
Collected(payload) ==
    /\ provider' = [provider EXCEPT !.detail = Held(payload, scan.of)]
    /\ scan' = Unread
    /\ Proceeds(provider')

\* The databases, when an item names databases or relations; then the relations
\* worth a name.
Metadata ==
    LET sources == DetailSources(provider)
        named == sources \cap (DatabaseSources \cup RelationSources) # {}
        payload == [groups |-> scan.value.groups,
                    databases |-> IF named THEN Databases ELSE {},
                    resolved |-> {},
                    keys |-> CandidateKeys(scan.value.groups, sources)]
        wanted == UNION {payload.keys[s] : s \in DOMAIN payload.keys}
    IN  /\ pc = "metadata"
        /\ \/ /\ ~named /\ scan.value.groups = <<>>     \* neither rows nor databases
              /\ Remember("detail", NoError)
              /\ scan' = Unread
              /\ UNCHANGED <<up, failures>>
           \/ /\ named => Succeeds
              /\ named \/ scan.value.groups # <<>>
              /\ wanted = {}
              /\ Collected(payload)
              /\ UNCHANGED <<up, failures>>
           \/ /\ Succeeds
              /\ wanted # {}
              /\ scan' = [scan EXCEPT !.value = payload]
              /\ pc' = "resolve"
              /\ UNCHANGED <<up, failures, provider, session, local, report>>
           \/ /\ named
              /\ \E e \in Errors : Errs(e) /\ Remember("detail", e)
              /\ scan' = Unread
        /\ UNCHANGED <<world, table, changes>>

Resolve ==
    LET keys == scan.value.keys
        wanted == UNION {keys[s] : s \in DOMAIN keys}
    IN  /\ pc = "resolve"
        /\ \/ /\ Succeeds
              /\ Collected([scan.value EXCEPT !.resolved = wanted \cap server.resolvable])
              /\ UNCHANGED <<up, failures>>
           \/ /\ \E e \in Errors : Errs(e) /\ Remember("detail", e)
              /\ scan' = Unread
        /\ UNCHANGED <<world, table, changes>>

---------------------------------------------------------------------------
\* The transaction of the batch ends.  COMMIT of a failed one rolls it back quietly.
Commit ==
    /\ pc = "next" /\ index > Len(batch)
    /\ \/ up /\ pc' = "done" /\ UNCHANGED <<up, failures>>
       \/ \E e \in Errors \ {Refused} : Errs(e) /\ pc' = "raised"
    /\ UNCHANGED <<world, table, session, local, report, provider, scan, changes>>

\* Other sessions use the buffers; it matters only before they are read.
BuffersChange ==
    /\ pc \in {"summary", "usage", "detail"}
    /\ changes < MaxChanges
    /\ \E t \in Later \ {table} : table' = t
    /\ changes' = changes + 1
    /\ UNCHANGED <<world, up, session, local, pc, report, provider, scan, failures>>

Next ==
    \/ Savepoint \/ SetLimits \/ Work \/ Plain \/ Restore \/ Release
    \/ Probe \/ ReadSummary \/ ReadUsage \/ ReadDetail \/ Metadata \/ Resolve
    \/ Commit \/ BuffersChange

Spec == Init /\ [][Next]_vars

---------------------------------------------------------------------------
(* Properties *)

Answered == {n \in DOMAIN items : items[n].answer.kind = "cache"}

\* Every item about the buffer cache says of the buffers what its own query over
\* the whole view would have said at the moment they were read, whichever other
\* items shared the reading and whatever failed before: the narrowed aggregate, the
\* names looked up and the fast functions lose nothing.  (An item built from two
\* readings is compared when both saw the same buffers.)
AnswersTrue ==
    \A n \in Answered : \A moment \in items[n].answer.of :
        items[n].answer.of = {moment} =>
            items[n].answer.rows =
                Reference(items[n].answer.source, moment, server.resolvable)

\* A statement of one query never suffers from the failure of another: no query is
\* refused because a failed statement was left behind in the transaction.  Only a
\* savepoint statement that fails by itself can leave that behind, in an earlier query
\* or in the probe of the same one.
NeverRefused ==
    \A n \in DOMAIN items : items[n].error = Refused => \E m \in slips : m <= n

\* The statements around a query's work.
Around == {"next", "limits", "restore", "release"}

\* A query runs under its own limits and no other's, whichever statement of the query
\* before it failed while its limits were set, in force, or half put back: a statement
\* of its work stopped by a limit is stopped by the limit of its own query, and is
\* reported as such even when the server's message is in a language the collector does
\* not read; a statement around it is stopped by that limit or the session's.
OwnLimit ==
    \A n \in DOMAIN items :
        LET i == items[n]
            own == Limit(batch[n], i.error.why)
        IN  i.own /\ i.error.why \in Limits =>
                IF i.at \in Around
                THEN i.error.after \in {own, Defaults[i.error.why]}
                ELSE i.error.after = own /\ i.failure = i.error.why
=============================================================================

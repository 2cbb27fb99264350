# A verification project for pg_diag

pg_diag collects diagnostic reports from PostgreSQL: it connects to a server,
directly or through an SSH tunnel, runs a plan of report items once or samples
chart queries over a window, reads the host and its log files, and writes one
JSON document and one HTML page. This directory holds TLA+ specifications of
its control, the TLC configurations that model-check them on small instances,
and proofs of the main invariants that TLAPS checks for every instance.

Paths are relative to the repository; the package is `src/pg_diag/`.

## 1. Inventory

| component | code | state | operations | interactions |
|---|---|---|---|---|
| database session, reconnect controller | `collection.py`, `executors/sql.py` | `run.conn`, `run.database_identity`, attempt counter, artifact items | execute an operation, reconnect, verify, repeat, record, close | every item, sample and endpoint goes through it; cancelled from outside at any await |
| snapshots mode | `snapshots.py` | phase, sampler task, snapshots, endpoints | once items, endpoints, sampling loop, sampler, metrics, log, DDL, finish, drain | runs the controller and the sampler side by side, closes both |
| schedule | `runtime_config.py` | none | offsets, acceptance, suggested interval | sampling loop, host sampler, command line |
| host sampler | `sampler_runtime.py`, `providers/linux*.py` | one task per provider, its samples and errors | start, collect, time out, cancel, normalise | host access (local threads or SSH commands) |
| one-shot mode | `one_shot.py` | artifact | items, log, DDL, finish | controller |
| logs mode | `logs.py` | deadline, temporary files | collect, publish, clean up, close | log pipeline, worker process, SSH transport |
| log pipeline | `logscan/` | candidate files, byte budgets, evidence series | list, choose, scan, merge, parse, retain | host access, SSH harvester, worker |
| worker process | `executors/python.py` | child process, payload pipe | run, time out, terminate, reap | Python items, log work, report writing |
| SSH transport | `ssh_transport.py` | connection, listeners, SFTP client, commands | connect, tunnel, run with a bound and a budget, stop, close | host access, database session |
| host access, local processes | `host_access.py`, `local_process.py`, `executors/shell.py` | threads, process groups | stat, read, run, stop a group | providers, shell and Python items |
| buffer cache batch | `executors/buffer_cache.py`, `executors/batch.py` | inventory of a batch | inventory, share, invalidate | controller's savepoints |
| planner | `planner.py`, `orchestration.py` | none | which items run, what they require | start of a run |
| metric engine | `metric_engine.py` | none | deltas, rates, coverage of intervals | reads all snapshots of a run |
| configuration facts, summaries | `configuration_facts.py`, `summaries.py` | none | formatting | report |
| artifact and its schema | `artifact.py`, `artifact_schema.py`, `contracts.py` | files | record an item, write a report | finish, logs mode |
| object DDL | `object_ddl.py`, `ddlx/` | none | extract, assemble | end of a run |
| content pack, validator | `content_loader.py`, `_content_state.py`, `validator.py`, `sql_lint.py`, `security.py`, `versioning.py` | none | load, check | before a run |
| command line | `cli.py`, `progress.py` | none | parse, run, exit code | all modes |
| HTML and graph | `render/`, `presentation.py` | none | layout | finished report |

What is hard in it:

* **Sessions that come and go.** A session may be lost at any await, inside an
  operation of several queries, while its replacement is being identified, or
  while the retried operation runs. What was read before must not be mixed with
  what is read after, the replacement must lead to the same endpoint, attempts
  are bounded, and nothing may stay open.
* **Two tasks and one way out.** In snapshots mode the sampler runs beside the
  main task, over the transport the main task will close. The main task may
  end, fail or be cancelled at any await, in its `finally` clause too.
* **Time.** Batches take longer than the interval, the event loop wakes late,
  the session is lost for seconds in the middle of a window.
* **Processes.** Commands and workers that do not stop when told to, deadlines
  that expire while something is being stopped or published.
* **Budgets.** Output, log bytes and values are cut at limits; what is kept
  must be whole and what is cut must be said.

`PROJECT.json` lists these hazards one by one, each at its line, with the
properties that cover it or the reason none does.

What makes each component correct: the controller, that one record holds the
answers of one session and that every opened session is closed; snapshots mode,
that it always ends with its helpers reaped and a report that accounts for its
plan; the schedule and the loop, that points are neither queued nor lost; the
SSH transport and the worker, that whatever they start is stopped, and that a
result is whole; logs mode, that the deadline holds and that a report is either
published or not; the log pipeline, that coverage flags tell the truth about
what was cut; the planner, that a run has what its items need; the metric
engine, that a rate is never computed across a reset.

## 2. Modules

| module | models | kind |
|---|---|---|
| `Endpoints` | what a session shows of its server, and the identity comparison | operators |
| `Timeline` | what the collector promises about the data of a run | abstract specification |
| `DbSession` | the reconnect controller, recording and closing | state machine, implements `Timeline` |
| `Schedule` | the schedule of a window, its limits and the suggested interval | operators |
| `SampleWindow` | the timed sampling loop | state machine over `Schedule` |
| `SnapshotRun` | a run in snapshots mode: main task, sampler, transport | state machine |
| `SshCommand` | one command of the SSH transport, its stop, and the wrapper on the host | state machine |
| `LogsRun` | a run in logs mode: deadline, writer process, clean-up, closing | state machine |
| `Counters` | a row's counters on the server, in samples, charts, tables and Top-N charts | state machine and operators |
| `MetricItem` | the item a metric becomes, with its failed collections and what it says of gaps | extends `Counters` |
| `LogScan` | the scan of the log files under budgets while the server rotates them, locally and through the remote script | state machine |
| `LogDirectory` | the discovery of a log directory: probes, verification, anchor and bounds of the window | state machine |
| `LogItems` | recall clauses, the items of the server log section, the value budget | state machine and operators |
| `BufferCache` | readings of the buffer cache, the aggregate they share and the item each source makes of it | operators |
| `QueryBatch` | a batch of queries with savepoints, limits and shared readings | state machine over `BufferCache` |
| `LocalSource` | a local script, host command or Python worker with its process group | state machine |
| `ReportCommand` | one command from arguments to exit status: validator, planner, connections, items, files | state machine |
| `MC*` | model values and small sets for TLC | model checking |
| `Sorting` | Python's `sorted` with a key, of files and of rows | operators |
| `Folding` | induction over finite sets and numbers, what folds over them add up to, what sorting returns | lemmas |
| `*_proofs` | theorems and their proofs | proofs |

### DbSession

One action is what the code does between two awaits. `pc` says where the task
is suspended: `idle` between two operations, `running` inside the callback,
`waiting` in the delay and `connector.open`, `detecting` in
`detect_runtime_context(replacement)`, `ending` in the `finally` clause.

| code | here |
|---|---|
| `run.conn`, `run.database_identity` | the last element of `accepted`; the elements before it are history, kept for the properties |
| `replacement`, before it is adopted | `candidate`, `candOpen` |
| an open connection that no variable refers to | `strays` |
| the callback's local lists | `asked`, `got` |
| `attempt` in the loop | `attempt`, 0 before the loop |
| `artifact["items"]`, `["snapshots"]`, endpoints | `results` |
| `artifact["query_texts"]` | `texts` |

`Complete` and `Lost` are the `else` branch and the fall-through of the first
`try` and, when `attempt > 0`, of the `try` in the loop. `Raise` is the
exception that is not a disconnect. An item (`ItemOps`) turns an exception
into an error item unless it is a `PgDiagError`; a sample or an endpoint
(`BatchOps`) lets it end the run. `_is_database_disconnect` decides by the
connection's state and by the exception's class and message; `Lost` is
therefore allowed in every state of the session. `Cancel` is a
`CancelledError`, which no `except Exception` sees.

`Timeline` states the promise without connections: a record is made once, of
answers of the session that is current; sessions form a chain of matching
neighbours; a report exists only when everything is recorded. `DbSession`
implements it under the mapping written in `DbSession!TL`.

The texts of the queries go into the catalogue at two places. A batch puts them
there with each answer (`Ask`, `snapshots.py:588-593`), before it is known
whether the batch will be kept or repeated; an item's come when it is recorded
(`Catalogue`). A text that is in the catalogue is never replaced.

### SampleWindow

Time is in whole seconds from the start of the loop. `WakeTimes` is the sleep
of the loop (`asyncio.sleep` never returns early, and may return late);
`SkipTarget` is both `continue` branches, `StartBatch` and `EndBatch` the batch,
`RepeatBatch` its repetition on a replacement session, which keeps the time of
the last attempt as the sample's timestamp. `lag_tolerance` is
`max(0.1, min(interval / 4, 1.0))`, which is one second for every accepted
interval (at least five seconds).

### SnapshotRun

`pc` follows `collect_snapshots` from top to bottom, then `drain`, `reap`,
`closeDb`, `closeSsh` are the `finally` clause. A plan is any combination of
once items and log items that need the database, chart queries, endpoint
queries and sampler outputs that `build_plan` can leave (host items and items
of files touch none of this state). An operation under the controller is
one step with the outcomes `DbSession` allows: `Returns` (on this session or
on a later one) and `Raises`. `sampler` is the task of
`collect_sampler_providers`, `provider[p]` the task of one provider. An
`asyncio` cancellation of a task that awaits another one goes to that other
task (`CancelAwait`), and the awaiting task goes on only when it has ended.

### SshCommand

One call of `SshTransport._run` and what it starts on the host. `phase` is the
await the call is suspended in: `start` (`create_process`), `gather` (the
`wait_for` over the three tasks), `stop` (`_stop_remote_process`, whose stage
is `stage`) and `reap` (the `finally` clause).

| code | here |
|---|---|
| `wait_task`, `stdout_task`, `stderr_task` | `task` |
| `_OutputBudget.size`, the readers' `chunks` | `size`, `kept` |
| `terminate()`, `kill()`, `close()` on their way to the host | `travel`, `age` |
| `wait_for(..., REMOTE_PROCESS_STOP_GRACE_SECONDS)` | `grace` |
| `REMOTE_SCRIPT_WRAPPER`: before `trap`, in `wait`, in `sleep 0.1` | `shell` |
| the process group of `setsid` | `group` |

`BeginStage(k)` starts a stage; `Onward` is both what follows its timeout and what
follows a cancellation, because `except BaseException: pass` treats them
alike. The SSH server, the link and the script are external: they are modelled
from how `_run` and the wrapper use them (requests of a channel arrive in
order, a channel closes when its process is dead and nothing holds its
streams, a connection may be lost). `lapse` is a history variable that says
why the wrapper may not have reached its group: TERM came before the trap
(`early`), a cancellation cut a grace short (`hurried`), the link or the host
was slower than assumed (`late`).

### LogsRun

`phase` follows `collect_logs` and `_collect_logs`: `undo` is the clean-up inside
`start_collection` when that fails, `clean` and `close` are the two nested
`finally` clauses. The clock starts where the limits begin to matter; the
alarm is the `wait_for` of `collect_logs`, which goes off once. `Interrupt` is
that alarm or a cancellation from outside; what it stops on its way (a remote
command, a worker) takes a bounded time. The writer is the child process that
runs `finish_collection`: `CreateTemp` and `Replace` are `mkstemp` and
`os.replace` of `write_text_atomic`, once for each file. A writer that is
killed while the file system holds it in a call (`blocked`) is given up after
two joins and is `doomed`: the call may still have its effect later.

### Counters

The metric engine has no state of its own: it gets the samples of a run and
calculates. What it must not get wrong is about a process, though, so the
module has the server that counts (`Event`, `Reset`, `Lose`, external) and the
samples (`Sample`), with `real` and `truth` as history of what happened. A
sample may lack the row, a value or the marker, and the server's clock may
stand. A row that is there carries the marker the server has now, or none that
the collector knows: a row with a marker of another time is left out. A step back is the same to the code (`_seconds_between` cuts at zero).

`_transform_interval_points` goes through the samples in their order and looks
at no later one, so `Round` takes one round of its loop with each sample:
`Missing`, `Appears` (both branches of a point without a predecessor) and
`Goes`. Values are integers; a rate is a delta divided by a positive duration
and has the same statuses. `TableStatus`, `Cell` and `Shown` are
`build_table_result` on the first and the last sample, `TopNStatus` is the
interval of a Top-N chart of one counter, each with its own order of checks as
in the code.

### MetricItem

Extends `Counters` with the collections behind the samples (`Collect`,
`SamplerFails`) and with `build_metric_item`: which of the result's forms shows
anything (`ChartShows`, `Shown`, `TopNShows`), the coverage of each, and the
item's status, reason and diagnostics (`Item`). A query that failed still makes
a sample without rows, a sampler that failed makes none. Ratios, averages,
`sample_sum` tables, `column_statuses`, sorting, limits and findings are left
out.

### LogScan

The server writes, rotates, truncates, removes and recreates files (`Server`,
external); the collector lists them (`List`), takes those that may matter newest
first under a limit on candidates, opens each (`Open`, `TailOpens`), reads
records until a budget or the deadline stops it, and looks at the file again
(`Check`): what was staged is committed only if it is the same file and not
shorter. `Joins` is the run-length merger of `rle.py`, `Commit` the sink of
`_LogicalRecordAssembler`, `BuildWindow` the window with its coverage flag.
With `transport = "remote"` every step also emits the frames of the harvester's
script, and `Parse` is `HarvesterParser`. `MergeInto` is the same merger when the sources of the window
are brought together, in any order the sort by time leaves open (`Chronological`).
A file that is open is not reused for another one (`Free`), files with the same
time are listed in any order (`Enumerations`), the wire's budget is counted down
frame by frame, and a record that is torn at the end of a file is not counted
when a limit stopped the scan before it. A record is a time and a kind; the
fingerprint of a kind is `PrintOf`. `listed` and `blind` are history: what was
in the files when they were listed, and which names were reused without a trace
(section 6). Hosts without GNU `stat` and log clocks that run backwards are
left out.

### LogDirectory

Without a database the collector must find the log's end by itself. A file is a
sequence of lines; a line may begin with a date, and has an odd or even
number of quotes. `Reading` goes from line to line as `complete_records` does;
`TrueRecords` is what it makes of the whole file, `ParseTail` what it makes of a
tail, whose beginning it takes to be outside quotes. `TailSize` is the size at
which the probe stops doubling its reach, `ProbeFile` what it then knows.
`verify_discovery` is `VerifyUndetermined`, `VerifyNewest`, `NewestDone` (which
chooses the files to be left out, `Excluded`) and `VerifyExcluded`,
each within the budget (`Verify`, `Unverified`); `Resolve` is
`resolve_directory_window` with the bounds `WindowBounds` of `clock.py`. Files
grow or go between probe and verification. The change of the offset is `shift`.
`probed` and `tested` are history: the disk at the probe, and the anchor with which
the files to be left out were chosen. Bounds for numeric suffixes and the inventory
of the directory are left out.

### LogItems

A message is the set of facts that clauses and items look at. `Collect(item,
records)` is the item's module: its own records, ranked, grouped, limited and
counted; `ItemRecall` and `ClausesFor` are `item_recall.py`; `Retained`,
`Admit` and `MarkPartial` are `LogValueBudget` with the rows and texts it admits
and the marks it leaves. Records that Python's `sorted` leaves in the order
of the log are in any order here (`Sorted`). Merging of chart series, the
lengths of texts, byte caps, the wording for manual maintenance and
`log_files_overview` are left out.

### BufferCache and QueryBatch

`Build` and the `Fast*` operators make each item's rows from a reading;
`Reference` is what the item's own query over the whole view would say. A
batch is one transaction with a savepoint for each query (`Savepoint`,
`Release`, `Commit`). A query's limits are set one by one (`SetLimits`;
`overridden` is `overridden_timeout_keys`) and, when it has been answered, put
back one by one (`Restore`) before its savepoint is released, which would keep
them; a query that fails has its savepoint rolled back, and its settings with
it. `provider` is `QueryBatchContext.buffer_cache`, which remembers readings and
errors. Every statement may fail, by a limit, by the server, or by the
connection: those that set and restore limits, `SAVEPOINT`, `RELEASE` and
`COMMIT` too. A savepoint statement that fails by itself (`Slips`, `ProbeSlips`)
has nothing to roll back to: the transaction of the batch stays failed, and
the queries after it are refused. A `ROLLBACK TO` is taken to fail only with the
connection. The limit of 100 names, a database called like the shared catalogues, redaction and severity
are left out; `work_mem` stays for the rest of a batch, as in the code.

### LocalSource

One call of `run_local_process` (a script or a host command, in a thread) or of
`run_sync_function_in_process` (a Python worker). `leader`, `helper` and
`grouped` are the process, a child of it and whether that is still in the
group; `clings` says that it holds the output open, `stubborn` are the
processes that ignore SIGTERM. `Setsid` may come after the first signal. The item's task may be
cancelled while the thread goes on (`GivenUp`). `Interrupted` is the
interruption that begins the stop of a script. `CutShort` is one that comes
during a stop, of a script that ran out of time or was interrupted before, or
during a join of a worker: `_stop_process_group` catches `TimeoutExpired` only and the joins catch
nothing, so the `KeyboardInterrupt` leaves the call where it is, and nobody
finishes the stop (`cut`). How Python delivers the first and the second Ctrl-C
differs between versions; both are allowed at each wait of the stop.

### ReportCommand

The definitions of the items are data chosen in `Init` (`content`), so one
state machine covers every content pack of that size. `Valid` is what the
validator demands of them, `Requiring` which connections the selection asks
for, `PlanStatus` what the planner says of each, `Executed` and `Before` what
is executed and in which order. `pc` follows `cmd_one_shot` (or `cmd_snapshots`, `cmd_logs`),
`start_collection`, the items, `collect_report_object_ddl`, `finish_collection`
and `close_collection`. `Interrupt` is Ctrl-C as `asyncio.run` delivers it;
`InterruptClosing` comes while the connections are being closed, for the first
or the second time.

A Python source may answer that it does not apply (`PythonAnswers`), and such an
item is left out of the report. The sources of the server log do so exactly
when the command names no depth of the log (`resolve_window` in `items_common.py`); this is
the bundled pack's code, and a foreign pack's could decide otherwise. Once they have
used up the value budget (`full`), the rest of them is not executed and is
kept as an item that a limit cut off (`limited`). `Sample` is the window of
a snapshots run with its outcome for all charts: a query that fails is an item
with an error in its snapshot, which `artifact_has_errors` finds as well. After
the run `MachineStatus` reads the JSON that is in place; one that another
version wrote cannot be read (`Unreadable`). Jobs behind metrics, version ranges
of variants, content integrity and `column_statuses` of the validator are left
out.

## 3. Runs

`CHECK_DEADLOCK FALSE` is in every configuration, because every modelled run
really ends; that it does end is a liveness property (`Termination`, `RunEnds`,
`CallReturns`, `CallEnds`) where something could keep it from ending, and a
bound on the clock (`EndsByDeadline`, `OverrunBounded`) where there is one.

| run | question | instance |
|---|---|---|
| `DbSession` | can two endpoints be merged, can a session stay open, is the artifact a `Timeline`, do answers find their texts, is the database given up only when it should, does the run end | two servers with two roles, TCP and socket, one item and one batch, two attempts |
| `SnapshotRun` | are the providers reaped, is the report accounted for, does the run end | two items, two providers with one output each, two points, two sessions, all modes and plans |
| `SampleWindow` | backlog, accounting, overrun | windows of 10 to 24 s, intervals of 5 to 8 s, at most 4 points, batches up to 8 s, wake-ups 2 s late, one outage up to 3 s |
| `SshCommand` | is a result whole, is a task left, does the stop reach the group, does the call return | one chunk a stream and a budget of one, stages of 3 ticks, sleep and delay of 1 |
| `LocalSource` | is an answer whole, is the group gone or what is left by an interrupted stop, does the call end | one process with one helper, every combination of what the helper ignores, holds and leaves, an interruption at any wait |
| `LogsRun` | is a returned report in place, does the deadline hold, what outlives the run | either or both files, local or remote; times in quarters of a second: the alarm at 2.5 s, 5 s before the deadline; stopping 0.75 s, joins 0.5 s, clean-up and closing 2 s each |
| `LogScan` | are counts right, is "complete" true, do the remote frames say the same | two names, three records at the start, two steps of the server, one or two candidates, a scan budget of 3 and wire budgets of 3 and 5, 6.7 million states |
| `LogDirectory` | is the anchor a record, is anything hidden | three names, eight contents: files of up to six lines with quoted dates, torn ends or a head that is no record; a tail probe of 2 lines up to 4, two candidates, a verification budget of 8 lines, a depth of 3, a change of the offset each way, 3.3 million states |
| `LogItems` | do counts add up, does a cut say so, is "empty" true | two rows an item, one event a bucket, budgets of 1 and 3 units, logs of three series of any two kinds of messages, every item alone and the plans whose items share messages |
| `QueryBatch` | does sharing change an answer, does a failure spread, do limits leak | two buffers of six shapes, batches of no, one, two or all six cache items between a query with limits of its own and one without, one failure, one change, six kinds of servers, 3.9 million states |
| `Counters` | does a chart or a table ever show more than happened, does an empty item mean that nothing did | one counter, three samples, two events, one reset, query and sampler with errors |
| `ReportCommand` | do connections fit the items, is the report complete, what does the exit status say, what stays open | two items of eleven kinds of definitions, all modes, formats and options, five filters, with and without a depth, no old report, one of this version or of another, 13.5 million states |

Why the bounds are enough. Two attempts distinguish the first, a middle and
the last attempt of an operation (attempt 0 is the session it began on), and
three sessions in a chain are what an identity drift needs: two replacements,
the middle one without an address. An operation has one query: its attempt can
be lost before and after the answer, which is what mixing answers of two sessions
and losing a text need; the theorems hold for any number. Two providers allow
one to have ended when the other is cancelled, and each may bring its output or
not. Two points are the first one, which is never skipped, and one that
may be. In `SampleWindow`, a batch may be longer than the longest interval and
the windows include multiples and non-multiples of the interval, so that the
end point is both regular and appended; windows that the limit on points
refuses exist too. In `SshCommand` a budget of one chunk is filled by
either stream alone and exceeded by both together; `Grace = 3 > Sleep +
MaxDelay = 2` is the code's 0.25 s against its 0.1 s, with a link that takes as
long as the wrapper's sleep. The starting time of a logs run does not matter to
what happens after it, so its 295 s before the alarm are cut to 2.5 s, which is
longer than every single limit after it. In `Counters` three samples are a row that appears or goes
between two others, or is missing between two; the charts of different counters
are independent. In `LogScan` two names are a file and the one it
is rotated to, and two steps of the server are a rotation and a write, or a
removal and a new file; both budgets are reached inside a file and between
two, and the smaller wire budget ends the frames before the scan's budget does. In `LogDirectory` a tail of two lines can begin inside quotes and end in a
torn record, a budget of 8 verifies one file of five lines and one of three, and three
files are what it takes to move the window after the files to be left out were
chosen. A listing over `MaxFiles` is not in this instance; the theorems cover it. In `QueryBatch`
a failure before, at and after the shared reading and one item after it that
must go on need two cache items and the query after them; six are all there
are; the query with limits comes first, so that what it leaves behind
meets all others. In `ReportCommand` one item
decides what is opened and another meets it; a filter keeps either, both, none or
one that does not exist. `DbSession` is checked
without `--fail-fast`; its invariants are proved with and without. The constants of the code (5 attempts, 300 points, 30 s to
24 h) are not the model's: the theorems hold for all of them.

Fairness. `DbSession` and `SnapshotRun` assume that the task goes on for as
long as it can: each await of the code is bounded, by the statement timeout of
the session, by `wait_for` around a connect and a close (5 s each), by a sleep
of 3 s, by `wait_for` around each provider and by the stop sequence of a
command (3 x 0.25 s). Nothing is assumed of `SessionLost` and the
cancellations: they may happen or not, as often as they can.
In `SnapshotRun`, main task, sampler and each provider have a fairness
condition of their own, since the event loop runs each task that is ready.
`SshCommand` assumes that the call goes on when it can and that time passes,
nothing of the host, the link, the script or `create_process` (which has no
time limit: `CallReturns` begins after it). `LocalSource` assumes that the
caller goes on, that a time limit passes and that signalled processes that do
not ignore the signal die; nothing of what a helper does otherwise. The other
specifications are checked for safety only.

## 4. Proofs

All theorems hold for every value of the constants that satisfies the named
assumptions (`EndpointsAssumption`, `DbSessionAssumption`,
`SnapshotRunAssumption`, `ScheduleAssumption`, `SampleWindowAssumption`,
`SshCommandAssumption`, `PromptAssumption`, `LogsRunAssumption`,
`LogScanAssumption`, `LogDirectoryAssumption`, `ChronologyAssumption`,
`LogItemsAssumption`, `QueryBatchAssumption`, `BufferCacheAssumption`,
`CountersAssumption`, `FailedAssumption`, `DefinitionsAssumption`). Most are type
assumptions, positivity, finiteness and the disjointness of two sets of
operations. `BufferCacheAssumption` says besides that two relations have two
names and that no name looks like the label of an unresolved one, and
`QueryBatchAssumption` that the tables are such as the view can show
(`Buffers`). `ChronologyAssumption` is about the server: the records of a log file
are in the order of their dates, which is what lets the code take the last record's
date for the newest of a file. Two
say how the code's limits fit together: a signal and the wrapper's sleep take
less than the grace of a stage (`PromptAssumption`), and stopping, cleaning up
and a join fit between alarm and deadline (the last conjunct of
`LogsRunAssumption`; with the code's numbers 0.75 + 2 + 0.5 s of 5 s).

* `Connections_proofs`, the session. `IInv` adds to `TypeOK` and `NoSessionLeftOpen` what
  makes them inductive: an operation is under way exactly in `running`,
  `waiting` and `detecting`, a candidate exists exactly in `detecting`, and
  `run.conn` is closed while a replacement is being waited for (so adopting it
  leaves nothing behind). `OneEndpoint` follows from the chain of matching
  neighbours: roles are equal by induction along the chain, written as an
  invariant over all pairs, and addresses too when all are known.
  `GivesUpOnlyExhausted` needs `Ledger`: what each outcome says of the attempt
  counter and of the records. `Refinement` maps each action to a step of
  `Timeline` or to a stutter, using that `got` holds answers of the current
  session only. `TextsResolve` needs that a batch's texts are in the catalogue before
  the batch is recorded (`Catalogued`): each answer in `got` of a batch has its text
  there already, in whichever attempt.
* `SnapshotsMode_proofs`, the run. `IInv` is `TypeOK`, `HostInv` (sampler and provider
  states go together, and after the drain both are settled), `TunnelInv` (the
  transport is open while the session is), `PhaseInv` (what has been collected
  by each phase) and `Accounted`, from which `SamplersReaped`,
  `SessionInsideTunnel` and `ReportAccounts` follow.
* `SnapshotsMode_proofs`, the window. `WindowInv` describes the samples taken so far: their
  points increase, none began before its scheduled time, and all but the first
  at most the tolerance after it. `NoBacklog` is arithmetic from there.
  `ScheduleSound` and `AdviceWorks` are proved from the definitions of
  `Schedule` for all limits, integer division included.
* `Connections_proofs`, a command. `Whole` needs that what the readers kept is within
  what was charged to the budget, and that a reader that is done has
  everything its stream carried. `Killed` is a
  race, and its invariant is the timetable of that race: as long as nothing was
  late, a request on its way is at most `MaxDelay` old, so TERM arrived by the
  tick `MaxDelay` of its stage, and what is left of the wrapper's sleep is less
  than what is left of the grace; when the second stage begins the wrapper has
  finished.
* `LogsMode_proofs` is about the two halves of the logs mode, `LogScan` and
  `LogsRun`.

  *The window.* `WindowTrue` and `CompleteMeansAll` hold for any number of
  names, records, steps of the server, candidates and for any budgets. The
  inductive invariant `IInv` accounts for every record that was asked for: it is
  in a committed run, in a run of the file that is open, ahead of the reading
  position, or gone with its file, and then a reason has been noted before the
  file is passed. Its parts are the records of the disk and what rotation leaves
  of them (`LogsInv`), the list of candidates (`ListedInv`), that each run counts
  what it holds and that two runs share nothing (`RunsInv`, `ApartInv`), that
  what is read is what was listed or the file was noted as changed (`FreshInv`,
  `PlaceInv`, `FileInv`), and what is settled of the files that are done
  (`DoneInv`). When the window is built, merging adds counts and loses no record
  (`MergeKeeps`), from which both properties follow.

  *The frames.* `ParserAgrees` needs a second invariant, `HostInv`, which
  compares two accounts after every step of the script: what the parser has made
  of the frames sent so far, and what the scan has done. They agree but for
  frames that the wire's budget withheld, and then the parser knows that it
  was cut (`Told`, `Staging`). A new frame is one step of the parser's fold
  (`ParseAppend`).

  *The run.* `EndsByDeadline` is not inductive: its invariant bounds
  the clock in each phase (by the alarm and a stop in `clean`, by the clean-up
  limit and a join more in `close`), and the limits of the `finally` clauses
  are themselves cut to what is left. `TempsRemoved` and `FilesSettled` rest
  on the fact that from `clean` on a writer was never started, is `gone`, or
  is `doomed` and on record.

* `ServerLog_proofs`, discovery. What `Reading` and `Chunk` compute is a function on an
  interval of numbers (`ReadingRight`, `ChunkRight`), from which follows that a file
  that grows ends with the new record (`GrowthRight`), and that
  a date the probe calls exact is the file's last (`ProbeFileRight`). `WindowRight` is
  arithmetic: whatever the change of the offset, the bounds of the scan hold the
  wall-clock time of every date of the window. The invariant `DirectoryInv`
  says of each probed file what its date is worth (`Known`) and that no file is
  dropped without a reason (`ListedInv`). `AnchorReal` is not inductive: while files are
  verified that would be left out, one with an exact date must be newer than each
  without (`Beaten`), which survives because the files still to be verified are
  without one and each is there once (`Waiting`). `NothingHidden` needs that what
  nothing proves and the window would leave out is still to be verified (`Listed`).

* `ServerLog_proofs`, the items. The proofs first say what the operators return, item by
  item. A set can be sorted, and what is sorted is every element once
  (`SortedRight`, `SortedAll`); a group has the records of its rank, a rank is taken
  once in each bucket. So whatever an item is given to look at, it shows something of
  what it has, and its rows refer to two texts at most (`CollectRight`). What an
  item takes of the log is what its own clauses recall, except the messages of
  `NoClause`, so that an item sees in the window of a plan what it would see in the
  log (`WholeLog`). Of the rows the budget keeps a prefix that is not empty, with the
  texts it refers to, and exceeds its limit by one row at most (`RetainedRight`).
  The invariant `ItemsInv` says what is left of the budget while it is not hit and
  by how little it can be exceeded (`BudgetInv`), and of each recorded item that it
  agrees with what it made of the window (`Judged`); the catalogue only grows, so what
  holds of an item when it is recorded still holds at the end.

* `ItemSources_proofs` is about where an item gets its answer: `LocalSource` and
  `QueryBatch`. `AnswerWhole` needs that the collector has all the leader wrote
  when it takes the exit status for the answer, and `GroupStopped` that a group
  that was sent KILL is empty and stays so, because only a running leader starts
  a member. Where the stop was cut short, what counts is what TERM alone achieves:
  after it only processes that ignore it are left, or those they started. `NeverRefused`
  holds because the transaction is failed only after a savepoint statement of a
  query that is on record failed by itself (`Tainted`), and nothing else leaves
  it so between two statements. `OwnLimit` rests on which limits are set
  at each place (`OverriddenInv`, `LimitsInv`): the defaults between two
  queries and in every `saved`, the defaults with the query's own for exactly
  the `overridden` limits within it, also halfway through setting and
  restoring, whichever way the query before it ended.

  `AnswersTrue` is in two parts. The first is about data, with no step of the
  system: what `Build` and the `Fast*` operators make of a reading of a table is
  `Reference` of that table (`BuildRight`, `FastSummaryRight`, `FastDirtyRight`,
  `FastUsageRight`). A sum over groups of the aggregate counts the buffers
  projected onto them (`GroupSum`), whatever dimensions the other items of the
  batch made the aggregate keep; the candidates of a chart are its largest
  relations with their ties (`CandidatesRight`), so that a chart of them, with
  all others in one sum, is the chart of all relations (`BoundedNarrowed`,
  `RelationsRight`). The second is an invariant of the batch, `TruthInv`: the
  readings that the provider holds are what the server had at one moment
  (`ReadingsInv`), the payload that is being collected is complete but for the
  statements still to come (`ScanInv`), and the provider is asked for
  its own sources only and knows what the server offers before it chooses the
  aggregate (`PlaceInv`). An item that is made from two readings is compared
  when both saw the same buffers. An answer is compared when it is made, and kept
  true (`AnswerTrue` of `result`) until its savepoint is released and it is stored.

* `MetricItem_proofs`, the samples. `ChartTrue` is about pairs of samples, and its invariant
  relates every sample to the server: under the server's current marker,
  a counter has grown since a sample by no more than what happened since, and
  by all of it while no counter was lost (`ServerInv`). A reset needs that
  its marker is newer than every one seen (`MarkerInv`). When a sample is
  taken, this becomes the same fact of two samples (`PairInv`), from which
  `TableTrue` follows too. `CoverageComplete` and `TopNAgrees` need that each
  interval is counted under the status of its two rows (`StatusInv`).

* `MetricItem_proofs`, the items. A metric whose collections fail still takes its samples
  as `Counters` does (`ItemSpec => Spec`), so its chart and its table are as
  true. `SilenceIsQuiet` needs one invariant more, that an interval that could be
  compared has a point in the chart (`DrawnInv`); a chart's coverage without
  failures then means that no sample lacks the row, so that markers are equal
  and deltas zero from each sample to the next.
* `ReportCommand_proofs`. `IInv` says of each place of the run which connections
  there are (`LinkInv`), that what is to be done was planned from a pack that is
  valid (`WorkInv`), which files are new and whether an error is on record
  (`FilesInv`), in items and in samples, and what an exit status stands for
  (`ExitInv`). `Served` needs in
  addition that planner and validator agree: an item the plan keeps was
  counted among those that require its targets (`Targeted`), and a fallback
  targets no more than its parent. `EveryItemAnswered` does not hold for every
  pack (finding 11), so it is proved for packs in which every script says that
  it runs on the host only (`ScriptsLocal`): there an item is selected and
  applies exactly if it is executed (`PlanAgrees`), and a source that is reached is
  skipped only if it is a Python source that may decline (`Answers`). `DefinitionsAssumption` says that every
  source has one of four kinds and that its flags are Boolean.

Some theorems state what no run checks any more because the proof says it
for every instance: type correctness, `ScheduleSound`, `AdviceWorks`,
`SessionInsideTunnel`, `ChannelReleased`, `FilesSettled`, `CoverageComplete`,
`TopNAgrees`.

Some proofs are inductions over data, which the library's induction theorems
cannot be used for here: they take an operator as a parameter. `SetInduction`
states induction of a set of numbers instead and follows from the
well-foundedness of `<`; with it a fold of the community modules, which is a
recursive function over the subsets of its domain, is shown to exist
(`IterExists`, `SumExists`; `CountExists` for a function that goes from number to
number) and to go step by step (`MergeFold`, `ParseFold`, `AdmitFold`) or
to add up (`SumZero`; `SumOverCounts` and `SumCounts`, by which a sum of sizes is
the size of the union). These lemmas are in `Folding`, which the modules of
proofs share.

Only model-checked: `Termination`, `RunEnds`, `CallReturns` and `CallEnds`,
because liveness under fairness is outside the prover's reach.

## 5. What the mutants show

Each property of a run has a mutant in `PROJECT.json`: a definition of the
module is replaced by a variant with a plausible bug (an attempt counted
wrongly, a refused session not closed, answers kept from an interrupted batch, a
sampler cancelled but not awaited, texts of a repeated batch taken for
catalogued, a missing output not reported, a skipped
point not counted, a budget for each stream, a close with a limit of its own, a
gap that is bridged, a marker that is not compared, records merged whatever
they say, a file recognised by its inode alone, bounds taken from wall-clock
times, a row admitted before its texts, a probe outside its savepoint, limits
left to the savepoint, a group taken for gone with its leader, a worker without
a group left alone, an item that a limit cut off dropped like one that does not
apply, snapshots not looked through for errors, a fallback that needs more than
its parent) and TLC finds the property violated. The mutants
stand beside the definition they change, and nothing else refers to them.

## 6. Findings

Statements of the documentation and of comments that are not what the code
does, as far as the modelling met them. The models follow the code, and no
property states the contrary.

1. `docs/access-best-practices.md:845` says a replacement must match the
   *initial* session. `collection.py:636` compares with the last accepted one,
   and `collection.py:732` skips a field either side does not know: a chain
   from server A over TCP, to a socket (no address), to server B over TCP is
   accepted. `OneEndpoint` therefore speaks of runs whose sessions all report
   an address.
2. `README.md:968` says the interrupted work is repeated on the reconnected
   session. A plan without chart queries samples on the connection captured at
   `snapshots.py:93`; after a reconnect it is closed and the run fails.
3. `README.md:602` says host charts work the same way in snapshots mode. A
   plan of host charts alone has no session and the first empty batch
   opens a transaction on `None`.
4. `ssh_transport.py:508` says that a timeout kills the remote process group.
   `_stop_remote_process` (`:656`) takes a cancellation for the end of a
   stage's grace and sends KILL at once: it overtakes the wrapper in its sleep,
   and a script that ignores TERM goes on.
5. `content/ITEM_DEVELOPMENT_SPEC.md:874` says that a counter that decreased
   under the same marker invalidates its own cells and leaves the row's other
   counters. `build_table_result` (`metric_engine.py:836`) skips the whole row,
   and counts it under one status, where `:881` speaks of counts per column.
6. `logscan/phase.py:693` says that the absence of events must never be
   overclaimed. A file that is truncated, or removed and made again under the
   same name and inode, and has grown past its listed size before it is
   opened (`sources.py:289`, `phase.py:573`) leaves a window that calls itself
   complete. `CompleteMeansAll` leaves those names out (`blind`).
7. `logscan/directory.py:708` says that a planted old date cannot hide a file. A
   tail that looks whole while the file ends inside a record is trusted (`:753`)
   and never verified. `NothingHidden` leaves those files out (`Misled`).
8. `docs/log-parser-regressions.md:17` says that recall must work with only the
   owning item selected. Some messages an item takes for its own match none of
   its clauses (`NoClause` in `LogItems`).
9. `content/python/server_log/auto_explain_plans.py:138` names its selection
   `slowest_executions`; the value budget (`logscan/budget.py:132`) keeps rows in
   the order of the table, which need not be the slowest.
10. `content/README.md:333` says that a script's group is stopped. A process that
   has left the group and holds the output makes the last `communicate()`
   (`local_process.py:63`) wait for as long as it lives.
11. `README.md:631` says that `remote_db_only` runs nothing on the host. The
   validator does not compare a script's `local_only` with its targets, so a
   script with `local_only: false` is planned there and runs on the
   collector's own host.
12. `README.md:1490` and `docs/pg_play-integration.md:24` call a result
   `partial` when a report of the run exists. `_machine_artifacts` lists every
   file in place, an earlier run's too. And a JSON that another version wrote cannot
   be read back (`cli.py:1031`), which makes the envelope `failed` (`cli.py:1104`)
   even if the new HTML of this run is beside it: a run that fails between its
   two files. `ExitTells` names this case.
13. `logscan/directory.py:707` says that files that would be excluded are verified
   too, so that an old date cannot hide a file. The bounds that decide it are
   computed once (`:745`); if one of these files proves newer than all, the window
   moves on, and a file whose unproved date was inside the old window but not the new
   one is left out unverified, with no reason noted. `NothingHidden` leaves those
   files out (`Overtaken`), and the run reaches them.

## 7. Not modelled, and what could follow

Abstracted for good: SQL texts, YAML content and the checks of its names and
layout, formatting, redaction, the parsing of `/proc` and of log lines, HTML; none of
them has state or order. Parts of a modelled component that are left out are
named in section 2 and in the component's `note` in `PROJECT.json`.

Every module has its own instance of what it needs of the others: a run of
`ReportCommand` executes an item in one step, `SnapshotRun` an operation of
the controller in one, `LogsRun` the scan in one. What they assume of each other
is what the other modules check (an operation returns on this session or a
later one, a command ends or fails, a scan is bounded by its deadline).

Next, in this order: the composition of `SnapshotRun` with `DbSession`, in which
the one-step operations are shown to be implemented by the controller; the SFTP
client and `close()` of the transport against open channels; the query jobs
behind metrics in the planner; `sample_sum` tables and ratios in `Counters`.
Theorems to come: that a step of `SnapshotRun` which executes an operation is what the
controller of `DbSession` does between two idle states.

Observations without a property: outside the logs mode, a command without
`--log-depth-time-min` gets `skipped` from every item of the server log
(`logscan/items_common.py:90`), and `artifact.py:367` drops them; a filter that
names only such items is accepted, writes an empty report and exits with zero.
`EveryItemAnswered` says only that the report is silent on what may decline, and
this is such a case. Top-N charts take no marker, so a counter
that was reset and has grown past its old value is shown there as if it had gone
on. The DDL of the objects in a report is read from the session that is
current at the end, which may be a replacement.

--------------------------- MODULE ReportCommand ---------------------------
(***************************************************************************)
(* One collection command from its arguments to its exit status: what the  *)
(* validator accepts of a content pack (validator.py), which connections   *)
(* the selected items ask for and which of them are planned (planner.py),  *)
(* how the connections are opened and closed (collection.py), how items    *)
(* and their fallbacks are executed and recorded, and what is written and  *)
(* reported at the end (cli.py, artifact.py).                              *)
(*                                                                         *)
(* Whether an item runs is decided twice: from its targets, for the        *)
(* connections, and from its source's local_only flag or sampler, for the  *)
(* plan.  The validator is what keeps the two together.                    *)
(***************************************************************************)
EXTENDS Naturals

CONSTANTS
  Count,        \* bound: items of the content pack, in their order
  Definitions,  \* bound: the items' definitions that occur
  Selections    \* the filters that occur: sets of items, also of items that
                \* do not exist, and NoFilter

Items == 1 .. Count

Kinds == {"query", "script", "python", "metric"}

Declared(d) == d.kind \in Kinds /\ d.localOnly \in BOOLEAN /\ d.log \in BOOLEAN

NoFilter == {0}
None == "none"
Idle == [item |-> 0, source |-> None]

(* A definition is [kind, targets, localOnly, query, log, fallback, on].   *)
(* localOnly of a metric: it has a source_sampler.  log: its identifier    *)
(* begins with server_log.  fallback holds the definition of the fallback, *)
(* if there is one; on is the set of failures that activate it.            *)
ASSUME DefinitionsAssumption ==
  \A d \in Definitions : Declared(d) /\ \A f \in d.fallback : Declared(f)

VARIABLES
  content,    \* the definition of each item
  args,       \* the command: mode, collection mode, filter, formats, options
              \* given, a depth of the server log that is not zero, and
              \* whether each of them is sound by itself
  old,        \* a report of an earlier run that is in place: None, "sound",
              \* or "foreign", one that another version wrote
  failFast,   \* runtime_policy.fail_fast
  server,     \* what the server can do: supported at all, queries with a variant
  pc,
  ssh,        \* the transport: "none", "open", "tunnel" with its tunnel, "closed"
  conn,       \* the session: "none", "unverified", "open", "closed"
  hurried,    \* history: the closing itself was interrupted
  todo,       \* items to be executed
  current,    \* the item being executed and which of its sources, or Idle
  report,     \* the status of each item recorded
  full,       \* the budget of the log's items is used up
  samples,    \* the window's snapshots: none yet, "clean", or "failed": one of
              \* them holds an item with an error
  files,      \* whose report each file is: "none", "old", "new"
  exit        \* the exit status

given == <<content, args, old>>
session == <<ssh, conn, hurried>>
answers == <<report, full, samples>>
work == <<todo, current, answers>>
vars == <<given, failFast, server, pc, session, work, files, exit>>

Formats == {"html", "json"}

-----------------------------------------------------------------------------
(* The validator.                                                          *)

TriggersOf(kind) ==
  CASE kind = "query"  -> {"statement_timeout", "lock_timeout"}
    [] kind = "script" -> {"shell_timeout"}
    [] kind = "python" -> {"python_timeout"}
    [] kind = "metric" -> {}

(* Every source says what it runs on; all but Python sources have no       *)
(* choice.  localOnly of a script is not compared with its targets.        *)
TargetsValid(d) == d.targets # {} /\ d.targets \subseteq {"host", "db"}
QueryValid(d)   == d.kind = "query"  => d.targets = {"db"}
ScriptValid(d)  == d.kind = "script" => d.targets = {"host"}
MetricValid(d)  == d.kind = "metric" => d.targets = {IF d.localOnly THEN "host" ELSE "db"}

PythonValid(d) == d.kind = "python" => (d.localOnly <=> "host" \in d.targets)

SourceValid(d) ==
  /\ TargetsValid(d)
  /\ QueryValid(d) /\ ScriptValid(d) /\ MetricValid(d) /\ PythonValid(d)

(* A fallback is an item of its own, not collected twice, without another. *)
FallbackItemValid(f) == f.kind # "metric" /\ SourceValid(f) /\ f.fallback = {}

(* Mutant: a fallback may need what its parent does not.                   *)
FallbackValidAnywhere(d) ==
  \A f \in d.fallback :
     FallbackItemValid(f) /\ d.on # {} /\ d.on \subseteq TriggersOf(d.kind)

FallbackValid(d) ==
  \A f \in d.fallback :
     /\ FallbackItemValid(f) /\ d.on # {} /\ d.on \subseteq TriggersOf(d.kind)
     /\ f.targets \subseteq d.targets

Valid == \A i \in Items : SourceValid(content[i]) /\ FallbackValid(content[i])

-----------------------------------------------------------------------------
(* The selection and the connections it asks for.                          *)

Mode == args.mode
Selected(i) == args.filter = NoFilter \/ i \in args.filter
NotOnHost == args.collection = "remote_db_only"

ModeTargets(i) ==
  IF Mode = "logs" /\ content[i].log THEN {"host"} ELSE content[i].targets

Executes(i) ==
  IF Mode = "logs" THEN content[i].log
  ELSE /\ ~(content[i].kind = "metric" /\ Mode = "one_shot")
       /\ ~(NotOnHost /\ "host" \in ModeTargets(i))

Requiring(target) == {i \in Items : Selected(i) /\ Executes(i) /\ target \in ModeTargets(i)}

(* Only a filter, or the logs mode, makes a report without a database.     *)
RequiresDatabase ==
  \/ Requiring("db") # {}
  \/ args.filter = NoFilter /\ Mode # "logs"

RequiresSsh ==
  args.collection = "remote" /\ (RequiresDatabase \/ Requiring("host") # {})

-----------------------------------------------------------------------------
(* The plan, once the server is known.                                     *)

QueryStatus(d) == IF d.query \in server.queries THEN "planned" ELSE "unsupported"

ScriptStatus(d) == IF NotOnHost /\ d.localOnly THEN "skipped" ELSE "planned"
PythonStatus(d) == IF NotOnHost /\ d.localOnly THEN "skipped" ELSE "planned"

(* A metric needs snapshots, and its sampler the host.                     *)
MetricStatus(d) ==
  IF Mode = "one_shot" \/ (NotOnHost /\ d.localOnly) THEN "skipped" ELSE "planned"

SourceStatus(d) ==
  CASE d.kind = "query"  -> QueryStatus(d)
    [] d.kind = "script" -> ScriptStatus(d)
    [] d.kind = "python" -> PythonStatus(d)
    [] d.kind = "metric" -> MetricStatus(d)

PlanStatus(i) ==
  IF Mode = "logs" /\ ~content[i].log THEN "skipped" ELSE SourceStatus(content[i])

PlannedFallback(i) == IF Mode = "logs" THEN {} ELSE content[i].fallback

(* The sections of the report keep the items that were planned.            *)
InSections == {i \in Items : Selected(i)}

Executed == {i \in Items : Selected(i) /\ PlanStatus(i) # "skipped"}

(* The order they are executed in: what needs the log window comes last,   *)
(* charts after what is collected once.                                    *)
Round(i) ==
  IF content[i].log THEN 3
  ELSE IF Mode = "snapshots" /\ content[i].kind = "metric" THEN 2 ELSE 1

Before(i, j) == Round(i) < Round(j) \/ (Round(i) = Round(j) /\ i < j)

-----------------------------------------------------------------------------

Init ==
  /\ content \in [Items -> Definitions]
  /\ args \in [mode : {"one_shot", "snapshots", "logs"},
               collection : {"local", "remote", "remote_db_only"},
               filter : Selections, formats : (SUBSET Formats) \ {{}},
               options : SUBSET {"db", "ssh"}, depth : BOOLEAN, sound : BOOLEAN]
  /\ Mode = "logs" => ~NotOnHost /\ args.depth
  /\ old \in {None, "sound", "foreign"}
  /\ failFast = FALSE /\ server = [supported |-> FALSE, queries |-> {}]
  /\ pc = "arguments"
  /\ ssh = "none" /\ conn = "none" /\ hurried = FALSE
  /\ todo = {} /\ current = Idle
  /\ report = << >> /\ full = FALSE /\ samples = None
  /\ files = [f \in Formats |-> IF old = None THEN "none" ELSE "old"]
  /\ exit = None

Exits(code) == pc' = "exited" /\ exit' = code

(* A filter names items, tags or types that exist.                         *)
UnknownSelection == args.filter # NoFilter /\ ~(args.filter \subseteq Items)

(* A filter, and the logs mode, must leave something to execute.           *)
EmptySelection ==
  (args.filter # NoFilter \/ Mode = "logs") /\ Requiring("host") \cup Requiring("db") = {}

NoDatabaseGiven == RequiresDatabase /\ "db" \notin args.options

(* SSH options are given exactly when there is a host to reach by them.    *)
SshArguments ==
  \/ args.collection # "remote" /\ "ssh" \in args.options
  \/ RequiresSsh /\ "ssh" \notin args.options

Refused == UnknownSelection \/ EmptySelection \/ NoDatabaseGiven \/ SshArguments

(* The window, the depth, the directory, the paths are looked at before    *)
(* the content pack is read, what depends on the selection after it.       *)
Arguments ==
  /\ pc = "arguments"
  /\ CASE ~args.sound                         -> Exits(2)
       [] args.sound /\ ~Valid               -> Exits(1)
       [] args.sound /\ Valid /\ Refused     -> Exits(2)
       [] args.sound /\ Valid /\ ~Refused    -> pc' = "ssh" /\ exit' = exit
  /\ failFast' \in BOOLEAN
  /\ UNCHANGED <<given, server, session, work, files>>

(* The run has failed, or was interrupted: the connections are closed.     *)
Fails == pc' = "failed" /\ UNCHANGED exit

OpenSsh ==
  /\ pc = "ssh"
  /\ \/ /\ RequiresSsh /\ ssh' = "open" /\ exit' = exit
        /\ pc' = IF RequiresDatabase THEN "tunnel" ELSE "plan"
     \/ RequiresSsh /\ Fails /\ UNCHANGED ssh
     \/ /\ ~RequiresSsh /\ UNCHANGED <<ssh, exit>>
        /\ pc' = IF RequiresDatabase THEN "database" ELSE "plan"
  /\ UNCHANGED <<given, failFast, server, conn, hurried, work, files>>

OpenTunnel ==
  /\ pc = "tunnel"
  /\ \/ ssh' = "tunnel" /\ pc' = "database" /\ exit' = exit
     \/ Fails /\ UNCHANGED ssh
  /\ UNCHANGED <<given, failFast, server, conn, hurried, work, files>>

Connect ==
  /\ pc = "database"
  /\ \/ conn' = "unverified" /\ pc' = "verify" /\ exit' = exit
     \/ Fails /\ UNCHANGED conn
  /\ UNCHANGED <<given, failFast, server, ssh, hurried, work, files>>

(* The search path is put right and the session must be read-only; until   *)
(* then only connect() knows the session, and closes it when it fails.     *)
Verify ==
  /\ pc = "verify"
  /\ \/ conn' = "open" /\ pc' = "identify" /\ exit' = exit
     \/ conn' = "closed" /\ Fails
  /\ UNCHANGED <<given, failFast, server, ssh, hurried, work, files>>

Identify ==
  /\ pc = "identify"
  /\ \/ /\ server' \in [supported : BOOLEAN,
                        queries : SUBSET {content[i].query : i \in Items}]
        /\ IF server'.supported THEN pc' = "plan" /\ exit' = exit ELSE Fails
     \/ Fails /\ UNCHANGED server
  /\ UNCHANGED <<given, failFast, session, work, files>>

Plan ==
  /\ pc = "plan" /\ pc' = "items"
  /\ todo' = Executed
  /\ UNCHANGED <<given, failFast, server, session, current, answers, files, exit>>

-----------------------------------------------------------------------------
(* Executing an item.                                                      *)

Definition(at) ==
  IF at.source = "own" THEN content[at.item]
  ELSE CHOOSE f \in PlannedFallback(at.item) : TRUE

Begin ==
  /\ pc = "items" /\ current = Idle
  /\ \E i \in todo :
       /\ \A j \in todo \ {i} : Before(i, j)
       /\ Mode = "snapshots" /\ Round(i) > 1 => samples # None
       /\ current' = [item |-> i, source |-> "own"]
  /\ UNCHANGED <<given, failFast, server, pc, session, todo, answers, files, exit>>

(* raise_if_fail_fast.                                                     *)
Stops(status) == failFast /\ status = "error"

Record(status) ==
  /\ report' = [i \in DOMAIN report \cup {current.item} |->
                  IF i = current.item THEN status ELSE report[i]]
  /\ current' = Idle /\ todo' = todo \ {current.item}
  /\ IF Stops(status) THEN Fails ELSE UNCHANGED <<pc, exit>>

(* A Python source may find that it does not apply and answer "skipped".   *)
(* One of the server log does so exactly when no depth was given: the log  *)
(* is not read then.                                                       *)
PythonAnswers(d) ==
  IF d.log /\ ~args.depth THEN {"skipped"}
  ELSE {"ok", "unsupported"} \cup (IF d.log THEN {} ELSE {"skipped"})

(* What a source can end with.                                             *)
Outcomes(d) ==
  IF SourceStatus(d) # "planned" THEN {SourceStatus(d)}
  ELSE {"error"} \cup TriggersOf(d.kind)
         \cup (IF d.kind = "python" THEN PythonAnswers(d) ELSE {"ok", "unsupported"})

(* Once the log's items have used up their budget, the next of them is not *)
(* executed: it is answered "skipped", with the limit as its diagnostic.   *)
Barred == full /\ content[current.item].log
Ends == IF Barred THEN {"limited"} ELSE Outcomes(Definition(current))

(* A failure that was named is replaced by the fallback, once.             *)
FallsBack(o) ==
  /\ current.source = "own" /\ PlannedFallback(current.item) # {}
  /\ o \in content[current.item].on

(* What was raised is recorded as an error, whatever it was.               *)
StatusOf(o) == IF o \in {"ok", "unsupported", "skipped", "limited"} THEN o ELSE "error"

(* Except that the database or its tunnel is not to be had again.          *)
Abandon ==
  /\ pc = "items" /\ current # Idle /\ ~Barred
  /\ conn = "open" /\ SourceStatus(Definition(current)) = "planned"
  /\ Definition(current).kind \in {"query", "python"}
  /\ Fails
  /\ UNCHANGED <<given, failFast, server, session, work, files>>

Execute ==
  /\ pc = "items" /\ current # Idle
  /\ \E o \in Ends :
       /\ IF FallsBack(o)
            THEN /\ current' = [current EXCEPT !.source = "fallback"]
                 /\ UNCHANGED <<pc, exit, todo, report>>
            ELSE Record(StatusOf(o))
       /\ full' \in {full, full \/ (o = "ok" /\ content[current.item].log)}
  /\ UNCHANGED <<given, failFast, server, session, samples, files>>

(* The window of a snapshots run, between what is collected once and the   *)
(* charts: the queries of all charts are sampled, a failed one is kept in  *)
(* its snapshot.  It ends the run when errors do, when the database is     *)
(* lost, or when an endpoint query, which no snapshot keeps, is the one.   *)
Sampled ==
  {i \in Executed : content[i].kind = "metric" /\ ~content[i].localOnly
                      /\ content[i].query \in server.queries}

Sample ==
  /\ pc = "items" /\ current = Idle /\ Mode = "snapshots" /\ samples = None
  /\ \A i \in todo : Round(i) > 1
  /\ \/ samples' = "clean" /\ UNCHANGED <<pc, exit>>
     \/ /\ Sampled # {} /\ samples' = "failed"
        /\ IF Stops("error") THEN Fails ELSE UNCHANGED <<pc, exit>>
     \/ Sampled # {} /\ Fails /\ UNCHANGED samples
  /\ UNCHANGED <<given, failFast, server, session, todo, current, report, full, files>>

-----------------------------------------------------------------------------
(* The report, the connections, the exit status.                           *)

(* Mutant: the snapshots are not looked through.                           *)
HasErrorsOfItems == \E i \in DOMAIN report : report[i] = "error"

(* artifact_has_errors: of an item, or of an item in a snapshot.           *)
HasErrors == samples = "failed" \/ \E i \in DOMAIN report : report[i] = "error"

(* The definitions of the objects the items name are read from the same    *)
(* session, if there is one; a failure there never fails the report.       *)
ObjectDdl ==
  /\ pc = "items" /\ current = Idle /\ todo = {}
  /\ Mode = "snapshots" => samples # None
  /\ pc' = "finish"
  /\ UNCHANGED <<given, failFast, server, session, work, files, exit>>

(* Mutant: what was cut off by a limit is left out like what does not      *)
(* apply.                                                                  *)
InapplicableOrLimited ==
  {i \in Items : PlanStatus(i) = "skipped"}
    \cup {i \in DOMAIN report : report[i] \in {"skipped", "limited"}}

(* What does not apply, by the plan or by the answer, is left out; what a  *)
(* limit cut off is evidence that is missing, and stays.                   *)
Inapplicable ==
  {i \in Items : PlanStatus(i) = "skipped"}
    \cup {i \in DOMAIN report : report[i] = "skipped"}

Kept == [i \in DOMAIN report \ Inapplicable |-> report[i]]

(* What the report must be to be written: an answer to everything its      *)
(* sections name, with statuses that exist.                                *)
Referenced == InSections \ Inapplicable
ItemValid(status) == status \in {"ok", "error", "unsupported", "skipped", "limited"}
ArtifactValid ==
  Referenced \subseteq DOMAIN Kept /\ \A i \in DOMAIN Kept : ItemValid(Kept[i])

(* finish_collection: the files are replaced one after the other.          *)
Finish ==
  /\ pc = "finish"
  /\ report' = Kept
  /\ IF ArtifactValid THEN pc' = "html" /\ exit' = exit ELSE Fails
  /\ UNCHANGED <<given, failFast, server, session, todo, current, full, samples, files>>

Write(format, next) ==
  /\ pc = format
  /\ \/ /\ files' = IF format \in args.formats THEN [files EXCEPT ![format] = "new"] ELSE files
        /\ pc' = next /\ exit' = exit
     \/ format \in args.formats /\ Fails /\ UNCHANGED files
  /\ UNCHANGED <<given, failFast, server, session, work>>

WriteFiles == Write("html", "json") \/ Write("json", "written")

(* close_collection: after the session its tunnel.                         *)
Closed(c) == IF c \in {"open", "tunnel"} THEN "closed" ELSE c

ExitStatus ==
  CASE pc = "written"     -> IF HasErrors THEN 1 ELSE 0
    [] pc = "failed"      -> 1
    [] pc = "interrupted" -> 130

Close ==
  /\ pc \in {"written", "failed", "interrupted"}
  /\ conn' = Closed(conn) /\ ssh' = Closed(ssh)
  /\ Exits(ExitStatus)
  /\ UNCHANGED <<given, failFast, server, hurried, work, files>>

(* Mutant: connect() closes the session when it fails, not when it is      *)
(* cancelled.                                                              *)
InterruptUnverified ==
  /\ pc \in {"ssh", "tunnel", "database", "verify", "identify", "items", "finish"}
  /\ pc' = "interrupted" /\ UNCHANGED conn
  /\ UNCHANGED <<given, failFast, server, ssh, hurried, work, files, exit>>

(* Ctrl-C while the run waits: it is cancelled there and cleaned up.       *)
Interrupt ==
  /\ pc \in {"ssh", "tunnel", "database", "verify", "identify", "items", "finish"}
  /\ pc' = "interrupted"
  /\ conn' = IF conn = "unverified" THEN "closed" ELSE conn
  /\ UNCHANGED <<given, failFast, server, ssh, hurried, work, files, exit>>

(* While it closes, for a first or a second time, or in the writing        *)
(* before: the session is terminated, and the transport may be left to the *)
(* end of the process.                                                     *)
InterruptClosing ==
  /\ pc \in {"written", "failed", "interrupted"}
  /\ conn' = Closed(conn) /\ ssh' \in {ssh, Closed(ssh)} /\ hurried' = TRUE
  /\ Exits(130)
  /\ UNCHANGED <<given, failFast, server, work, files>>

Next ==
  \/ Arguments \/ OpenSsh \/ OpenTunnel \/ Connect \/ Verify \/ Identify \/ Plan
  \/ Begin \/ Execute \/ Sample \/ Abandon \/ ObjectDdl \/ Finish \/ WriteFiles \/ Close
  \/ Interrupt \/ InterruptClosing

Spec == Init /\ [][Next]_vars

(* _run_machine: the envelope of a collection command for an orchestrator, *)
(* which lists every report file that is in place.                         *)
Listed == {f \in args.formats : files[f] # "none"}

(* The JSON in place is read back for its summary, whatever the status; it *)
(* is refused when another version wrote it.                               *)
Unreadable == "json" \in Listed /\ files["json"] = "old" /\ old = "foreign"

MachineStatus ==
  CASE exit = 130                 -> "cancelled"
    [] exit # 130 /\ Unreadable   -> "failed"
    [] exit = 0 /\ ~Unreadable    -> "succeeded"
    [] exit = 2 /\ ~Unreadable    -> "failed"
    [] exit = 1 /\ ~Unreadable    -> IF Listed # {} THEN "partial" ELSE "failed"

-----------------------------------------------------------------------------

(* Planner and executors agree with the connections that were opened: a    *)
(* source, a fallback included, runs only when all it targets is at hand.  *)
Served ==
  pc = "items" /\ current # Idle /\ SourceStatus(Definition(current)) = "planned" =>
    LET targets == IF Mode = "logs" THEN {"host"} ELSE Definition(current).targets
    IN  /\ "db" \in targets => conn = "open"
        /\ args.collection = "remote" =>
             ssh \in {"tunnel"} \cup (IF "db" \in targets THEN {} ELSE {"open"})

(* What has a Python source may decline for itself, but not an item of the *)
(* server log when the log was asked for.                                  *)
MayDecline(i) ==
  \E d \in {content[i]} \cup PlannedFallback(i) : d.kind = "python" /\ ~(d.log /\ args.depth)

(* A report that was written answers for the selected items that apply to  *)
(* the run and for no other, and is silent only on what may decline: a     *)
(* query, a script, a chart and, with a depth, an item of the server log   *)
(* is always there, one that a limit cut off too.  And the artifact's own  *)
(* validation never refuses what was collected.                            *)
EveryItemAnswered ==
  /\ pc = "finish" => ArtifactValid
  /\ pc = "written" =>
       LET applying == {i \in Items : Selected(i) /\ Executes(i)}
       IN  /\ DOMAIN report \subseteq applying
           /\ \A i \in applying \ DOMAIN report : MayDecline(i)
           /\ args.filter # NoFilter => applying # {}

(* README.md:1490: the exit status tells what became of the report.  Zero, *)
(* and only then the envelope "succeeded": it is written whole, without an *)
(* error in an item or in a sample; two: nothing was touched.  A report    *)
(* that is whole is one of status zero, or one with errors, unless the     *)
(* closing after it was interrupted, and with fail_fast no report with an  *)
(* error is ever written.  An envelope "failed": there is no report of the *)
(* run, or its HTML alone, beside a JSON that another version wrote.       *)
ExitTells ==
  pc = "exited" =>
    LET new   == {f \in Formats : files[f] = "new"}
        wrong == samples = "failed" \/ \E i \in DOMAIN report : report[i] = "error"
    IN  /\ exit = 0 <=> MachineStatus = "succeeded"
        /\ exit = 0 => new = args.formats /\ ~wrong
        /\ exit = 2 => new = {} /\ {conn, ssh} = {"none"}
        /\ MachineStatus = "failed" => new = {} \/ (new = {"html"} /\ old = "foreign")
        /\ new = args.formats => exit = (IF wrong THEN 1 ELSE 0) \/ hurried
        /\ failFast /\ wrong => new = {}

(* Nothing stays open behind a command, wherever it failed: no session at  *)
(* all, and a transport only when the closing itself was interrupted.      *)
ClosedAtExit ==
  pc = "exited" =>
    conn \in {"none", "closed"} /\ (ssh \in {"none", "closed"} \/ hurried)

=============================================================================

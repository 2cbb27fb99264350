---------------------------- MODULE SnapshotRun ----------------------------
(***************************************************************************)
(* A run in snapshots mode (snapshots.py, sampler_runtime.py): the main    *)
(* task takes the point-in-time items, the two window endpoints and the    *)
(* samples between them from the database, while a sampler task runs the   *)
(* host providers side by side, over the SSH transport in remote mode.     *)
(* Whatever ends the main task, the finally clause waits for the sampler,  *)
(* cancels it if it is late, and only then closes the database session and *)
(* the transport.                                                          *)
(*                                                                         *)
(* DbSession models the reconnect controller step by step.  Here one       *)
(* operation under the controller is one step with the outcomes DbSession  *)
(* allows it.                                                              *)
(***************************************************************************)
EXTENDS Naturals, FiniteSets

CONSTANTS
  OnceItems,   \* point-in-time items taken before the window
  LogItems,    \* server_log items, taken after it
  Providers,   \* sampler providers
  Outputs,     \* sampler outputs, the sources of host charts
  ProviderOf,  \* the provider that declares an output
  Points,      \* scheduled points of the window
  MaxSessions  \* bound: database sessions a run may open

ASSUME SnapshotRunAssumption ==
  /\ ProviderOf \in [Outputs -> Providers]
  /\ OnceItems \cap LogItems = {}
  /\ Points \in Nat \ {0}
  /\ MaxSessions \in Nat \ {0}

Modes == {"remote-db-only", "local", "remote"}

(* What build_plan leaves planned.  Host charts are skipped in             *)
(* remote-db-only mode.                                                    *)
Plans ==
  {p \in [mode : Modes, once : SUBSET OnceItems, logs : SUBSET LogItems,
          charts : BOOLEAN, ends : BOOLEAN, outputs : SUBSET Outputs] :
     p.mode = "remote-db-only" => p.outputs = {}}

VARIABLES
  plan,       \* the plan of the run
  pc,         \* where the main task is suspended
  outcome,    \* how its try block ended, "none" while it has not
  session,    \* which session run.conn is, 0 when the plan needs none
  connOpen,   \* run.conn is not closed
  done,       \* items recorded
  endpoints,  \* endpoints collected
  point,      \* scheduled points passed
  taken,      \* samples taken at them
  sampler,    \* the sampler task
  provider,   \* the task of each provider
  result,     \* what each provider returned
  collected,  \* samples and errors the report has for each output
  ssh         \* the SSH transport

main  == <<done, endpoints, point, taken>>
host  == <<sampler, provider, result>>
conns == <<session, connOpen>>
vars  == <<plan, pc, outcome, main, conns, host, collected, ssh>>

Connected == plan.once # {} \/ plan.logs # {} \/ plan.charts \/ plan.ends

(* conn = run.conn, read once at the top of collect_snapshots.             *)
Captured == IF Connected THEN 1 ELSE 0

(* The providers one of whose outputs the plan asks for.                   *)
Selected == {ProviderOf[o] : o \in plan.outputs}

Results == [raised : BOOLEAN, samples : SUBSET Outputs, errors : SUBSET Outputs]

NoResult == [raised |-> FALSE, samples |-> {}, errors |-> {}]

Settled == sampler \in {"none", "done", "cancelled"}

Init ==
  /\ plan \in Plans
  /\ pc = "once" /\ outcome = "none"
  /\ session = (IF Connected THEN 1 ELSE 0)
  /\ connOpen = Connected
  /\ done = {} /\ endpoints = 0 /\ point = 0 /\ taken = 0
  /\ sampler = "none"
  /\ provider = [p \in Providers |-> "idle"]
  /\ result = [p \in Providers |-> NoResult]
  /\ collected = [o \in Outputs |-> {}]
  /\ ssh = (IF plan.mode = "remote" THEN "open" ELSE "none")

-----------------------------------------------------------------------------

(* An exception leaves the try block, or its return statement does.        *)
Unwind(how) ==
  /\ pc' = "drain"
  /\ outcome' = how

(* execute_with_database_reconnect returns: on the session it began on or, *)
(* after a loss, on a replacement.                                         *)
Moves == session < MaxSessions /\ session' = session + 1

Returns ==
  /\ connOpen' = TRUE
  /\ \/ connOpen /\ UNCHANGED session
     \/ Moves

(* It gives the database up, or refuses the replacement, or an exception   *)
(* of the operation that is not a disconnect goes through it.              *)
Raises ==
  /\ \E how \in {"unavailable", "identity", "raised"} : Unwind(how)
  /\ \/ connOpen' = FALSE /\ (Moves \/ UNCHANGED session)
     \/ outcome' = "raised" /\ UNCHANGED conns

(* An item, under the controller: what is not a PgDiagError becomes an     *)
(* error item.                                                             *)
Item(phase, items) ==
  /\ pc = phase
  /\ \E i \in items \ done :
       \/ /\ \/ Returns
             \/ connOpen' = FALSE /\ (Moves \/ UNCHANGED session)
          /\ done' = done \cup {i}
          /\ UNCHANGED <<pc, outcome>>
       \/ Raises /\ UNCHANGED done
  /\ UNCHANGED <<plan, endpoints, point, taken, host, collected, ssh>>

OnceDone ==
  /\ pc = "once" /\ plan.once = done
  /\ pc' = IF plan.ends THEN "start" ELSE "spawn"
  /\ UNCHANGED <<plan, outcome, main, conns, host, collected, ssh>>

(* _collect_window_endpoint, before and after the window.                  *)
Endpoint(phase, next) ==
  /\ pc = phase
  /\ \/ /\ Returns
        /\ endpoints' = endpoints + 1
        /\ pc' = next
        /\ UNCHANGED outcome
     \/ Raises /\ UNCHANGED endpoints
  /\ UNCHANGED <<plan, done, point, taken, host, collected, ssh>>

(* The sampler task is created when the plan has a host and outputs.  The  *)
(* window is skipped when nothing is to be collected in it.                *)
Spawn ==
  /\ pc = "spawn"
  /\ sampler' = IF plan.outputs # {} THEN "created" ELSE "none"
  /\ pc' = IF plan.charts \/ plan.ends \/ plan.outputs # {}
           THEN "window" ELSE "sampler"
  /\ UNCHANGED <<plan, outcome, main, conns, provider, result, collected, ssh>>

(* One scheduled point.  Any but the first may be skipped for lag.  With   *)
(* chart queries the batch runs under the reconnect controller; without    *)
(* them the empty batch opens a transaction on the captured session.       *)
Sample ==
  /\ pc = "window" /\ point < Points
  /\ \/ /\ IF plan.charts THEN Returns
           ELSE Captured = session /\ connOpen /\ UNCHANGED conns
        /\ point' = point + 1 /\ taken' = taken + 1
        /\ UNCHANGED <<pc, outcome>>
     \/ /\ plan.charts /\ Raises
        /\ UNCHANGED <<point, taken>>
     \/ /\ ~plan.charts /\ ~(Captured = session /\ connOpen)
        /\ Unwind("interface")
        /\ UNCHANGED <<point, taken, conns>>
  /\ UNCHANGED <<plan, done, endpoints, host, collected, ssh>>

SkipPoint ==
  /\ pc = "window" /\ point \in 1 .. Points - 1
  /\ point' = point + 1
  /\ UNCHANGED <<plan, pc, outcome, done, endpoints, taken, conns, host,
                 collected, ssh>>

WindowDone ==
  /\ pc = "window" /\ point = Points
  /\ pc' = IF plan.ends THEN "end" ELSE "sampler"
  /\ UNCHANGED <<plan, outcome, main, conns, host, collected, ssh>>

(* Mutant: a missing output is not reported.                               *)
CollectedAsReturned(o) ==
  LET r == result[ProviderOf[o]] IN
    IF r.raised THEN {"error"}
    ELSE (IF o \in r.samples THEN {"samples"} ELSE {})
           \cup (IF o \in r.errors THEN {"error"} ELSE {})

(* The sampler's evidence, once it is whole: an output the provider gave   *)
(* neither samples nor an error for is reported as an error.               *)
Collected(o) ==
  LET r == result[ProviderOf[o]] IN
    IF r.raised THEN {"error"}
    ELSE (IF o \in r.samples THEN {"samples"} ELSE {})
           \cup (IF o \in r.errors \/ o \notin r.samples THEN {"error"} ELSE {})

AwaitSampler ==
  /\ pc = "sampler" /\ sampler \in {"none", "done"}
  /\ collected' = [o \in Outputs |->
                     IF sampler = "done" /\ o \in plan.outputs
                     THEN Collected(o) ELSE {}]
  /\ pc' = "metrics"
  /\ UNCHANGED <<plan, outcome, main, conns, host, ssh>>

(* The main task was cancelled while it awaited the sampler: the           *)
(* cancellation went to the sampler first.                                 *)
AwaitCancelled ==
  /\ pc = "sampler" /\ sampler = "cancelled"
  /\ Unwind("cancelled")
  /\ UNCHANGED <<plan, main, conns, host, collected, ssh>>

(* Metric items, server log and its items, object DDL and the report:      *)
(* nothing here needs the sampler.  Metrics and the report run without an  *)
(* await.                                                                  *)
Metrics ==
  /\ pc = "metrics"
  /\ \/ pc' = "log" /\ UNCHANGED outcome
     \/ Unwind("raised")
  /\ UNCHANGED <<plan, main, conns, host, collected, ssh>>

ServerLog ==
  /\ pc = "log"
  /\ \/ pc' = "items" /\ UNCHANGED outcome
     \/ Unwind("raised")
  /\ UNCHANGED <<plan, main, conns, host, collected, ssh>>

ItemsDone ==
  /\ pc = "items" /\ plan.logs \subseteq done
  /\ pc' = "ddl"
  /\ UNCHANGED <<plan, outcome, main, conns, host, collected, ssh>>

Finish ==
  /\ pc = "ddl"
  /\ \E how \in {"report", "raised"} : Unwind(how)
  /\ UNCHANGED <<plan, main, conns, host, collected, ssh>>

-----------------------------------------------------------------------------

(* task.cancel() on the sampler: before its first step it just never runs, *)
(* later it passes the cancellation on to its providers.                   *)
CancelSampler ==
  /\ sampler' = CASE sampler = "created" -> "cancelled"
                  [] sampler = "running" -> "cancelling"
                  [] OTHER -> sampler
  /\ provider' = [p \in Providers |->
                    IF provider[p] = "running" THEN "stopping" ELSE provider[p]]
  /\ UNCHANGED result

(* Mutant: a cancelled sampler is never seen to have ended.                *)
DrainedIfDone ==
  /\ pc \in {"drain", "reap"} /\ sampler \in {"none", "done"}
  /\ pc' = "closeDb"
  /\ UNCHANGED <<plan, outcome, main, conns, host, collected, ssh>>

DrainExpiresUnreaped ==
  /\ pc = "drain" /\ ~Settled
  /\ CancelSampler
  /\ pc' = "closeDb"
  /\ UNCHANGED <<plan, outcome, main, conns, collected, ssh>>

(* The finally clause.                                                     *)
Drained ==
  /\ pc \in {"drain", "reap"} /\ Settled
  /\ pc' = "closeDb"
  /\ UNCHANGED <<plan, outcome, main, conns, host, collected, ssh>>

(* Five seconds were not enough, or the task is cancelled while it waits.  *)
DrainExpires ==
  /\ pc = "drain" /\ ~Settled
  /\ CancelSampler
  /\ pc' = "reap"
  /\ UNCHANGED <<plan, outcome, main, conns, collected, ssh>>

CloseDb ==
  /\ pc = "closeDb"
  /\ connOpen' = FALSE
  /\ pc' = "closeSsh"
  /\ UNCHANGED <<plan, outcome, main, session, host, collected, ssh>>

CloseSsh ==
  /\ pc = "closeSsh"
  /\ ssh' = IF ssh = "open" THEN "closed" ELSE ssh
  /\ pc' = "closed"
  /\ UNCHANGED <<plan, outcome, main, conns, host, collected>>

-----------------------------------------------------------------------------

(* The sampler task and its providers.                                     *)
SamplerStarts ==
  /\ sampler = "created"
  /\ sampler' = "running"
  /\ provider' = [p \in Providers |-> IF p \in Selected THEN "running" ELSE "idle"]
  /\ UNCHANGED <<plan, pc, outcome, main, conns, result, collected, ssh>>

(* A provider returns, raises or overruns its window; a cancelled one ends *)
(* with whatever it was doing when the cancellation reached it.            *)
ProviderEnds(p) ==
  /\ provider[p] \in {"running", "stopping"}
  /\ provider' = [provider EXCEPT ![p] = "ended"]
  /\ LET declared == {o \in Outputs : ProviderOf[o] = p} IN
       \/ \E S, E \in SUBSET declared :
            result' = [result EXCEPT ![p] =
                         [raised |-> FALSE, samples |-> S, errors |-> E]]
       \/ result' = [result EXCEPT ![p] = [NoResult EXCEPT !.raised = TRUE]]
  /\ UNCHANGED <<plan, pc, outcome, main, conns, sampler, collected, ssh>>

(* gather returns when the last provider has ended.                        *)
SamplerEnds ==
  /\ sampler \in {"running", "cancelling"}
  /\ \A p \in Selected : provider[p] = "ended"
  /\ sampler' = IF sampler = "running" THEN "done" ELSE "cancelled"
  /\ UNCHANGED <<plan, pc, outcome, main, conns, provider, result, collected, ssh>>

-----------------------------------------------------------------------------

SessionLost ==
  /\ connOpen /\ connOpen' = FALSE
  /\ UNCHANGED <<plan, pc, outcome, main, session, host, collected, ssh>>

(* CancelledError at an await of the main task.                            *)
CancelBody ==
  /\ \/ pc \in {"once", "start", "window", "end", "log", "items", "ddl"}
     \/ pc = "sampler" /\ Settled
  /\ Unwind("cancelled")
  /\ UNCHANGED <<plan, main, conns, host, collected, ssh>>

(* ... of an await on the sampler task itself: the cancellation goes to    *)
(* it, and the main task waits for it to end.                              *)
CancelAwait ==
  /\ pc \in {"sampler", "reap"} /\ ~Settled
  /\ CancelSampler
  /\ UNCHANGED <<plan, pc, outcome, main, conns, collected, ssh>>

(* ... in close_collection: what is being closed is terminated, what comes *)
(* after it is left.                                                       *)
CancelClose ==
  /\ pc \in {"closeDb", "closeSsh"}
  /\ connOpen' = FALSE
  /\ pc' = "closed"
  /\ UNCHANGED <<plan, outcome, main, session, host, collected, ssh>>

Main ==
  \/ Item("once", plan.once) \/ Item("items", plan.logs)
  \/ Endpoint("start", "spawn") \/ Endpoint("end", "sampler")
  \/ OnceDone \/ Spawn \/ Sample \/ SkipPoint \/ WindowDone
  \/ AwaitSampler \/ AwaitCancelled \/ Metrics \/ ServerLog
  \/ ItemsDone \/ Finish
  \/ Drained \/ DrainExpires \/ CloseDb \/ CloseSsh

Sampler == SamplerStarts \/ SamplerEnds

Cancel == CancelBody \/ CancelAwait \/ CancelClose

Next ==
  \/ Main \/ Sampler \/ Cancel \/ SessionLost
  \/ \E p \in Providers : ProviderEnds(p)

Spec == Init /\ [][Next]_vars

(* Every await of the main task is bounded, and wait_for bounds a provider *)
(* by the window and its grace period.  A cancelled provider ends at the   *)
(* latest with its own loop, which is finite: the stop of a command may    *)
(* take the cancellation for its own (SshCommand).                         *)
FairSpec ==
  /\ Spec
  /\ WF_vars(Main) /\ WF_vars(Sampler)
  /\ \A p \in Providers : WF_vars(ProviderEnds(p))

-----------------------------------------------------------------------------

TypeOK ==
  /\ plan \in Plans
  /\ pc \in {"once", "start", "spawn", "window", "end", "sampler", "metrics",
             "log", "items", "ddl", "drain", "reap", "closeDb", "closeSsh", "closed"}
  /\ outcome \in {"none", "report", "unavailable", "identity", "raised",
                  "interface", "cancelled"}
  /\ session \in 0 .. MaxSessions /\ connOpen \in BOOLEAN
  /\ done \in SUBSET (OnceItems \cup LogItems)
  /\ endpoints \in 0 .. 2
  /\ point \in 0 .. Points /\ taken \in 0 .. point
  /\ sampler \in {"none", "created", "running", "cancelling", "done", "cancelled"}
  /\ provider \in [Providers -> {"idle", "running", "stopping", "ended"}]
  /\ result \in [Providers -> Results]
  /\ collected \in [Outputs -> SUBSET {"samples", "error"}]
  /\ ssh \in {"none", "open", "closed"}

(* No host provider is running when close_collection begins, whatever was  *)
(* cancelled and however often: the transport is never closed under it and *)
(* no provider outlives the run.                                           *)
SamplersReaped ==
  pc \in {"closeDb", "closeSsh", "closed"} =>
    /\ Settled
    /\ \A p \in Providers : provider[p] \notin {"running", "stopping"}

(* A report accounts for everything that was planned: both endpoints or    *)
(* none, the first sample at least, every item, and samples or an error    *)
(* for every host output.  It is never built on a cancelled sampler.       *)
ReportAccounts ==
  outcome = "report" =>
    /\ done = plan.once \cup plan.logs
    /\ endpoints = (IF plan.ends THEN 2 ELSE 0)
    /\ plan.charts => taken > 0 /\ point = Points
    /\ \A o \in plan.outputs : collected[o] # {}
    /\ sampler # "cancelled"

(* In remote mode the database session runs through the tunnel: the        *)
(* transport is closed after it, and never first.                          *)
SessionInsideTunnel == plan.mode = "remote" /\ connOpen => ssh = "open"

(* A sampler or a provider that hangs, fails or is cancelled does not keep *)
(* the run from ending.                                                    *)
RunEnds == <>(pc = "closed")

=============================================================================

----------------------------- MODULE DbSession -----------------------------
(***************************************************************************)
(* The database session of a collection run (collection.py): operations    *)
(* run one after another on run.conn; when the session is lost the         *)
(* controller execute_with_database_reconnect closes it, opens a           *)
(* replacement, verifies that it leads to the same endpoint and repeats    *)
(* the whole operation on it.                                              *)
(*                                                                         *)
(* Every await of the code is a point where the session may be lost or the *)
(* task cancelled, so what runs between two awaits is one action.          *)
(***************************************************************************)
EXTENDS Endpoints, Sequences, Naturals

CONSTANTS
  ItemOps,      \* report items: a failure becomes an error item
  BatchOps,     \* samples and window endpoints: a failure ends the run
  NumQueries,   \* the queries of an operation
  MaxAttempts,  \* DATABASE_RECONNECT_ATTEMPTS
  FailFast      \* runtime_policy.fail_fast

ASSUME DbSessionAssumption ==
  /\ NumQueries \in Nat \ {0}
  /\ MaxAttempts \in Nat \ {0}
  /\ FailFast \in BOOLEAN
  /\ ItemOps \cap BatchOps = {}

Ops == ItemOps \cup BatchOps
Queries == 1 .. NumQueries

VARIABLES
  pc,         \* where the task is suspended
  op,         \* the operation under way: a set of at most one
  asked,      \* how many of its queries this attempt has executed
  got,        \* their answers, each stamped with its session
  attempt,    \* replacement attempts spent on the operation
  accepted,   \* the sessions run.conn has been, the last one is run.conn
  connOpen,   \* run.conn is not closed
  candidate,  \* a replacement opened and not yet verified: at most one
  candOpen,   \* ... and it is not closed
  strays,     \* open sessions that nothing refers to any more
  results,    \* the artifact: items, snapshots and endpoints
  texts,      \* the query ids that have a text in the artifact, each named
              \* by its first sighting: <<operation, query, session>>
  outcome     \* how the run ended, "none" while it has not

control == <<pc, op, attempt, outcome>>
batch   == <<asked, got>>
conns   == <<accepted, connOpen, candidate, candOpen, strays>>
vars    == <<control, batch, conns, results, texts>>

Current == Len(accepted)

TL == INSTANCE Timeline WITH
        lineage  <- accepted,
        recorded <- results,
        verdict  <- IF outcome = "none" THEN "open"
                    ELSE IF outcome = "report" THEN "report" ELSE "aborted"

-----------------------------------------------------------------------------

(* start_collection: the first session is open and its identity is known.  *)
Init ==
  /\ pc = "idle" /\ op = {} /\ attempt = 0 /\ outcome = "none"
  /\ asked = 0 /\ got = {}
  /\ accepted \in {<<s>> : s \in Session}
  /\ connOpen = TRUE
  /\ candidate = {} /\ candOpen = FALSE
  /\ strays = 0
  /\ results = [o \in Ops |-> TL!Pending]
  /\ texts = {}

(* The run leaves its try block: the report is written or an exception     *)
(* unwinds to the finally clause.                                          *)
End(how) ==
  /\ pc' = "ending"
  /\ outcome' = how

(* close_connection on run.conn, or on the candidate.                      *)
CloseConn == connOpen' = FALSE
DropCandidate == candidate' = {} /\ candOpen' = FALSE

(* Mutant: one attempt too few.                                           *)
NextAttemptOneLess(spent) ==
  IF spent >= MaxAttempts - 1
  THEN End("unavailable")
  ELSE pc' = "waiting" /\ UNCHANGED outcome

(* The attempt is over: wait for the next one unless it was the last.      *)
NextAttempt(spent) ==
  IF spent = MaxAttempts
  THEN End("unavailable")
  ELSE pc' = "waiting" /\ UNCHANGED outcome

(* Mutant: a repeated batch adds to the answers of the interrupted one.    *)
LeaveAnswers == asked' = 0 /\ UNCHANGED got

(* What an attempt has asked and got is local to it.                       *)
Leave == asked' = 0 /\ got' = {}

Begin(o) ==
  /\ pc = "idle"
  /\ results[o] = TL!Pending
  /\ op' = {o} /\ attempt' = 0
  /\ pc' = "running"
  /\ UNCHANGED <<outcome, batch, conns, results, texts>>

(* Mutant: a repeated batch is taken to be catalogued already.             *)
AskCataloguedOnce ==
  /\ pc = "running" /\ asked < NumQueries
  /\ asked' = asked + 1
  /\ \/ /\ connOpen
        /\ got' = got \cup {<<asked + 1, Current>>}
        /\ texts' = texts \cup
             {<<o, asked + 1, Current>> : o \in {p \in op \cap BatchOps : attempt = 0}}
     \/ UNCHANGED <<got, texts>>
  /\ UNCHANGED <<control, conns, results>>

(* One query in its own savepoint.  Its failure, and a closed session, are *)
(* caught and become an error item.  A batch catalogues the texts of an    *)
(* answer at once, while it may still be lost and repeated, and never      *)
(* again; an id keeps the first text it was given.                         *)
Ask ==
  /\ pc = "running" /\ asked < NumQueries
  /\ asked' = asked + 1
  /\ \/ /\ connOpen
        /\ got' = got \cup {<<asked + 1, Current>>}
        /\ texts' = texts \cup
             {<<o, asked + 1, Current>> : o \in op \cap BatchOps}
     \/ UNCHANGED <<got, texts>>
  /\ UNCHANGED <<control, conns, results>>

AllAnswered == \A q \in Queries : <<q, Current>> \in got

(* Mutant: the catalogue an item was given a copy of is not merged back.   *)
CatalogueUnmerged(o) == UNCHANGED texts

(* execute_and_record_report_item catalogues the texts of an item when it  *)
(* records it.                                                             *)
Catalogue(o) == texts' = texts \cup {<<p, a[1], a[2]>> : p \in {o} \cap ItemOps, a \in got}

(* The operation returned and the session is still open: its result goes   *)
(* into the artifact.  A batch keeps what was answered; an item that was   *)
(* not answered is an error item, which fail_fast turns into the end.      *)
Complete(o) ==
  /\ pc = "running" /\ op = {o} /\ asked = NumQueries /\ connOpen
  /\ LET failed == o \in ItemOps /\ ~AllAnswered IN
       /\ o \in BatchOps /\ FailFast => AllAnswered
       /\ results' = [results EXCEPT
                        ![o] = IF failed THEN TL!Errored ELSE TL!Data(got)]
       /\ IF failed THEN UNCHANGED texts ELSE Catalogue(o)
       /\ IF failed /\ FailFast
          THEN End("error")
          ELSE pc' = "idle" /\ UNCHANGED outcome
  /\ op' = {} /\ attempt' = 0 /\ Leave
  /\ UNCHANGED conns

(* An exception that is not a disconnect leaves the controller.  An item   *)
(* records it and the run goes on, unless it is a PgDiagError or           *)
(* fail_fast; for a batch it is the end.                                   *)
Escape(o) ==
  /\ \/ /\ o \in ItemOps
        /\ results' = [results EXCEPT ![o] = TL!Errored]
        /\ IF FailFast THEN End("error") ELSE pc' = "idle" /\ UNCHANGED outcome
     \/ End("error") /\ UNCHANGED results
  /\ op' = {} /\ attempt' = 0 /\ Leave

(* ... raised by the operation: a session opened by a retry is closed, the *)
(* one the operation began on is kept.                                     *)
Raise(o) ==
  /\ pc = "running" /\ op = {o} /\ connOpen
  /\ Escape(o)
  /\ connOpen' = (attempt = 0)
  /\ UNCHANGED <<accepted, candidate, candOpen, strays, texts>>

(* The attempt ends in a disconnect: the session was lost, or the          *)
(* exception looks like it.                                                *)
Lost ==
  /\ pc = "running"
  /\ CloseConn
  /\ NextAttempt(attempt)
  /\ Leave
  /\ UNCHANGED <<op, attempt, accepted, candidate, candOpen, strays, results,
                 texts>>

-----------------------------------------------------------------------------

(* Mutant: an attempt that opens a session is not counted.                 *)
OpenUncounted(s) ==
  /\ pc = "waiting"
  /\ candidate' = {s} /\ candOpen' = TRUE
  /\ pc' = "detecting"
  /\ UNCHANGED <<op, attempt, outcome, batch, accepted, connOpen, strays,
                 results, texts>>

(* After the delay, connector.open succeeds within its timeout.            *)
Open(s) ==
  /\ pc = "waiting"
  /\ attempt' = attempt + 1
  /\ candidate' = {s} /\ candOpen' = TRUE
  /\ pc' = "detecting"
  /\ UNCHANGED <<op, outcome, batch, accepted, connOpen, strays, results, texts>>

(* It fails, times out, or the session is not read-only.                   *)
OpenFails ==
  /\ pc = "waiting"
  /\ attempt' = attempt + 1
  /\ NextAttempt(attempt + 1)
  /\ UNCHANGED <<op, batch, conns, results, texts>>

(* The replacement is verified: it becomes run.conn, its identity the      *)
(* expected one, and the operation is repeated from the start.             *)
Adopt(s) ==
  /\ pc = "detecting" /\ candidate = {s}
  /\ Matches(accepted[Current], s)
  /\ strays' = strays + (IF connOpen THEN 1 ELSE 0)
  /\ accepted' = Append(accepted, s) /\ connOpen' = candOpen
  /\ DropCandidate
  /\ pc' = "running"
  /\ UNCHANGED <<op, attempt, outcome, batch, results, texts>>

(* Mutant: a refused replacement is not closed.                            *)
RejectOpen(s) ==
  /\ pc = "detecting" /\ candidate = {s}
  /\ ~Matches(accepted[Current], s)
  /\ candidate' = {} /\ UNCHANGED candOpen
  /\ End("identity")
  /\ UNCHANGED <<op, attempt, batch, accepted, connOpen, strays, results, texts>>

(* DatabaseIdentityChangedError.                                           *)
Reject(s) ==
  /\ pc = "detecting" /\ candidate = {s}
  /\ ~Matches(accepted[Current], s)
  /\ DropCandidate
  /\ End("identity")
  /\ UNCHANGED <<op, attempt, batch, accepted, connOpen, strays, results, texts>>

(* The replacement is lost before its identity is known.                   *)
DetectLost ==
  /\ pc = "detecting"
  /\ DropCandidate
  /\ NextAttempt(attempt)
  /\ UNCHANGED <<op, attempt, batch, accepted, connOpen, strays, results, texts>>

(* Reading the identity fails otherwise.                                   *)
DetectRaises(o) ==
  /\ pc = "detecting" /\ op = {o} /\ candOpen
  /\ DropCandidate
  /\ Escape(o)
  /\ UNCHANGED <<accepted, connOpen, strays, texts>>

-----------------------------------------------------------------------------

(* The server or the network ends a session, at any time.                  *)
Disconnect ==
  \/ connOpen /\ connOpen' = FALSE /\ UNCHANGED candOpen
  \/ candOpen /\ candOpen' = FALSE /\ UNCHANGED connOpen

SessionLost ==
  /\ pc # "closed"
  /\ Disconnect
  /\ UNCHANGED <<control, batch, accepted, candidate, strays, results, texts>>

(* CancelledError at an await: "except Exception" does not see it, so a    *)
(* replacement under verification is abandoned open.                       *)
Cancel ==
  /\ pc \in {"idle", "running", "waiting", "detecting"}
  /\ End("cancelled")
  /\ strays' = strays + (IF candOpen THEN 1 ELSE 0)
  /\ DropCandidate
  /\ op' = {} /\ attempt' = 0 /\ Leave
  /\ UNCHANGED <<accepted, connOpen, results, texts>>

(* Every operation is recorded: finish_collection writes the report.       *)
Finish ==
  /\ pc = "idle"
  /\ \A o \in Ops : results[o] # TL!Pending
  /\ End("report")
  /\ UNCHANGED <<op, attempt, batch, conns, results, texts>>

(* The finally clause: close_collection closes run.conn.                   *)
CloseCollection ==
  /\ pc = "ending"
  /\ pc' = "closed"
  /\ CloseConn
  /\ UNCHANGED <<op, attempt, outcome, batch, accepted, candidate, candOpen,
                 strays, results, texts>>

Controller ==
  \/ \E o \in Ops : Begin(o) \/ Complete(o) \/ Raise(o) \/ DetectRaises(o)
  \/ \E s \in Session : Open(s) \/ Adopt(s) \/ Reject(s)
  \/ Ask \/ Lost \/ OpenFails \/ DetectLost
  \/ Finish \/ CloseCollection

Next == Controller \/ SessionLost \/ Cancel

Spec == Init /\ [][Next]_vars

(* Every await of the controller is bounded (the statement timeout, the    *)
(* five seconds of a connect and of a close, the three of the delay), so   *)
(* it goes on for as long as it can.                                       *)
FairSpec == Spec /\ WF_vars(Controller)

-----------------------------------------------------------------------------

TypeOK ==
  /\ pc \in {"idle", "running", "waiting", "detecting", "ending", "closed"}
  /\ op \in SUBSET Ops
  /\ asked \in 0 .. NumQueries
  /\ got \in SUBSET (Queries \X {Current})
  /\ attempt \in 0 .. MaxAttempts
  /\ accepted \in Seq(Session) /\ accepted # <<>>
  /\ connOpen \in BOOLEAN /\ candOpen \in BOOLEAN
  /\ candidate \in SUBSET Session
  /\ strays \in Nat
  /\ results \in [Ops -> [status : {"pending", "error", "data"},
                         answers : SUBSET (Queries \X Nat)]]
  /\ texts \in SUBSET (Ops \X Queries \X Nat)
  /\ outcome \in {"none", "report", "unavailable", "identity", "error",
                  "cancelled"}

(* README.md: "an identity change stops the run instead of merging samples *)
(* from different PostgreSQL endpoints".  Every session of a run shows the *)
(* same role and, when all of them report an address, is on one server.    *)
OneEndpoint ==
  \A i, j \in DOMAIN accepted :
    /\ accepted[i].role = accepted[j].role
    /\ (\A k \in DOMAIN accepted : Address(accepted[k]) # NoAddress)
         => accepted[i].server = accepted[j].server

(* Whatever path the reconnect controller takes, no session is left open:  *)
(* one that is not run.conn is closed before the controller returns, and   *)
(* run.conn when the run ends.  A task cancelled while it verifies a       *)
(* replacement is the one exception, and leaves at most that one.          *)
NoSessionLeftOpen ==
  /\ strays > 0 => outcome = "cancelled" /\ strays = 1
  /\ pc \notin {"detecting"} => candidate = {} /\ ~candOpen
  /\ pc = "closed" => ~connOpen

(* The run gives the database up only after the last attempt, and reports  *)
(* only what is complete: an operation interrupted by a lost session is    *)
(* never skipped over.                                                     *)
GivesUpOnlyExhausted ==
  /\ outcome = "unavailable" => attempt = MaxAttempts /\ op # {}
  /\ outcome = "report" => \A b \in BatchOps : results[b].status = "data"

(* Every answer the report holds finds its text in the report's shared     *)
(* catalogue.  A batch catalogues as it asks, on whichever session it is   *)
(* repeated, and what it got on a lost one is dropped with the attempt; an *)
(* item catalogues when it is recorded.                                    *)
TextsResolve ==
  \A o \in Ops : \A a \in results[o].answers : <<o, a[1], a[2]>> \in texts

(* The timeline of the artifact: refinement of the abstract specification. *)
ImplementsTimeline == TL!TSpec

(* However often the sessions are lost, the run ends and is closed.        *)
Termination == <>(pc = "closed")

=============================================================================

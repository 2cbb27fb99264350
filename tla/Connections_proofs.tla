-------------------------- MODULE Connections_proofs --------------------------
(***************************************************************************)
(* What the collector is connected by.                                     *)
(*                                                                         *)
(* The database session and its replacement (DbSession), for any servers,  *)
(* operations, number of queries and number of attempts.                   *)
(*                                                                         *)
(* A command on the remote host (SshCommand), for every budget, grace and  *)
(* delay: a result is whole and within the budget, no task and no open     *)
(* channel is left behind, and over a prompt link KILL reaches the host    *)
(* only when the wrapper has already stopped its process group.            *)
(***************************************************************************)
EXTENDS DbSession, SshCommand, TLAPS

-----------------------------------------------------------------------------
(* DbSession.                                                              *)

(* The part of the type invariant that is not the type of one variable:    *)
(* what an attempt got comes from the current session, and an attempt that *)
(* is over has left nothing behind.                                        *)
Discarded == pc # "running" => asked = 0 /\ got = {}

(* Where the task is suspended tells what it holds.                        *)
Phases ==
  /\ pc \in {"ending", "closed"} <=> outcome # "none"
  /\ pc \in {"running", "waiting", "detecting"} => op # {}
  /\ pc \in {"waiting", "detecting"} => ~connOpen
  /\ pc = "waiting" => attempt < MaxAttempts
  /\ op \in {{}} \cup {{o} : o \in Ops}

IInv ==
  /\ TypeOK
  /\ Discarded
  /\ Phases
  /\ NoSessionLeftOpen

USE DbSessionAssumption, EndpointsAssumption

-----------------------------------------------------------------------------

LEMMA InitIInv == Init => IInv
<1> SUFFICES ASSUME Init PROVE IInv
  OBVIOUS
<1> USE DEF Init
<1>1. TypeOK
  <2>1. accepted \in Seq(Session) /\ accepted # <<>>
    <3>1. PICK s \in Session : accepted = <<s>>
      OBVIOUS
    <3>2. QED
      BY <3>1
  <2>2. results \in [Ops -> [status : {"pending", "error", "data"},
                            answers : SUBSET (Queries \X Nat)]]
    BY DEF TL!Pending
  <2>3. attempt \in 0 .. MaxAttempts /\ asked \in 0 .. NumQueries
    OBVIOUS
  <2>4. QED
    BY <2>1, <2>2, <2>3 DEF TypeOK
<1>2. Discarded /\ Phases /\ NoSessionLeftOpen
  BY DEF Discarded, Phases, NoSessionLeftOpen
<1>3. QED
  BY <1>1, <1>2 DEF IInv

(* One lemma per action: IInv is inductive.                                *)
LEMMA ResultTypes ==
  ASSUME TypeOK, NEW o \in Ops
  PROVE  /\ [results EXCEPT ![o] = TL!Errored]
              \in [Ops -> [status : {"pending", "error", "data"},
                          answers : SUBSET (Queries \X Nat)]]
         /\ [results EXCEPT ![o] = TL!Data(got)]
              \in [Ops -> [status : {"pending", "error", "data"},
                          answers : SUBSET (Queries \X Nat)]]
         /\ Current \in Nat
<1>1. Current \in Nat
  BY DEF TypeOK, Current
<1>2. got \in SUBSET (Queries \X Nat)
  BY <1>1 DEF TypeOK
<1>3. QED
  BY <1>1, <1>2 DEF TypeOK, TL!Errored, TL!Data

LEMMA BeginIInv == ASSUME IInv, NEW o \in Ops, Begin(o) PROVE IInv'
<1> USE DEF IInv, Begin, batch, conns
<1>1. TypeOK'
  BY DEF TypeOK, Current, Ops
<1>2. Discarded' /\ Phases' /\ NoSessionLeftOpen'
  BY DEF Discarded, Phases, NoSessionLeftOpen, TypeOK
<1>3. QED
  BY <1>1, <1>2

LEMMA AskIInv == ASSUME IInv, Ask PROVE IInv'
<1> USE DEF IInv, Ask, control, conns
<1>1. TypeOK'
  <2>1. asked' \in 0 .. NumQueries /\ asked + 1 \in Queries
    BY DEF TypeOK, Queries
  <2>2. Current' = Current /\ Current \in Nat
    BY DEF TypeOK, Current
  <2>3. got' \in SUBSET (Queries \X {Current})
    BY <2>1 DEF TypeOK
  <2>4. texts' \in SUBSET (Ops \X Queries \X Nat)
    BY <2>1, <2>2 DEF TypeOK
  <2>5. QED
    BY <2>1, <2>2, <2>3, <2>4 DEF TypeOK
<1>2. Discarded' /\ Phases' /\ NoSessionLeftOpen'
  BY DEF Discarded, Phases, NoSessionLeftOpen
<1>3. QED
  BY <1>1, <1>2

LEMMA CompleteIInv == ASSUME IInv, NEW o \in Ops, Complete(o) PROVE IInv'
<1> USE DEF IInv
<1> DEFINE failed == o \in ItemOps /\ ~AllAnswered
<1>1. UNCHANGED conns /\ attempt' = 0 /\ op' = {} /\ asked' = 0 /\ got' = {}
  BY DEF Complete, Leave
<1>2. results' = [results EXCEPT ![o] = IF failed THEN TL!Errored
                                        ELSE TL!Data(got)]
  BY DEF Complete
<1>3. \/ pc' = "ending" /\ outcome' = "error"
      \/ pc' = "idle" /\ UNCHANGED outcome
  BY DEF Complete, End
<1>4. texts' \in SUBSET (Ops \X Queries \X Nat)
  <2>1. \A a \in got : a[1] \in Queries /\ a[2] \in Nat
    BY ResultTypes DEF TypeOK
  <2>2. {<<p, a[1], a[2]>> : p \in {o} \cap ItemOps, a \in got} \in SUBSET (Ops \X Queries \X Nat)
    BY <2>1
  <2>3. texts' = texts \/ texts' = texts \cup {<<p, a[1], a[2]>> : p \in {o} \cap ItemOps, a \in got}
    BY DEF Complete, Catalogue
  <2>4. QED
    BY <2>2, <2>3 DEF TypeOK
<1>5. TypeOK'
  <2>1. results' \in [Ops -> [status : {"pending", "error", "data"},
                             answers : SUBSET (Queries \X Nat)]]
    BY <1>2, ResultTypes
  <2>2. QED
    BY <1>1, <1>3, <1>4, <2>1 DEF TypeOK, conns, Current
<1>6. Discarded' /\ Phases' /\ NoSessionLeftOpen'
  BY <1>1, <1>3 DEF Complete, Discarded, Phases, NoSessionLeftOpen, conns
<1>7. QED
  BY <1>5, <1>6

LEMMA EscapeTypes ==
  ASSUME TypeOK, NEW o \in Ops, Escape(o)
  PROVE  /\ attempt' = 0 /\ op' = {} /\ asked' = 0 /\ got' = {}
         /\ \/ pc' = "ending" /\ outcome' = "error"
            \/ pc' = "idle" /\ UNCHANGED outcome
         /\ results' \in [Ops -> [status : {"pending", "error", "data"},
                                  answers : SUBSET (Queries \X Nat)]]
<1>1. attempt' = 0 /\ op' = {} /\ asked' = 0 /\ got' = {}
  BY DEF Escape, Leave
<1>2. \/ pc' = "ending" /\ outcome' = "error"
      \/ pc' = "idle" /\ UNCHANGED outcome
  BY DEF Escape, End
<1>3. \/ results' = [results EXCEPT ![o] = TL!Errored]
      \/ results' = results
  BY DEF Escape
<1>4. QED
  BY <1>1, <1>2, <1>3, ResultTypes DEF TypeOK

LEMMA RaiseIInv == ASSUME IInv, NEW o \in Ops, Raise(o) PROVE IInv'
<1> USE DEF IInv
<1>1. Escape(o) /\ pc = "running" /\ connOpen' \in BOOLEAN
      /\ UNCHANGED <<accepted, candidate, candOpen, strays, texts>>
  BY DEF Raise
<1>2. TypeOK'
  BY <1>1, EscapeTypes DEF TypeOK, Current
<1>3. Discarded' /\ Phases' /\ NoSessionLeftOpen'
  BY <1>1, EscapeTypes DEF Discarded, Phases, NoSessionLeftOpen
<1>4. QED
  BY <1>2, <1>3

LEMMA LostIInv == ASSUME IInv, Lost PROVE IInv'
<1> USE DEF IInv
<1>1. /\ pc = "running" /\ connOpen' = FALSE /\ asked' = 0 /\ got' = {}
      /\ UNCHANGED <<op, attempt, accepted, candidate, candOpen, strays,
                     results, texts>>
      /\ \/ attempt = MaxAttempts /\ pc' = "ending" /\ outcome' = "unavailable"
         \/ attempt # MaxAttempts /\ pc' = "waiting" /\ UNCHANGED outcome
  BY DEF Lost, CloseConn, NextAttempt, End, Leave
<1>2. TypeOK'
  <2>1. /\ pc' \in {"idle", "running", "waiting", "detecting", "ending", "closed"}
        /\ outcome' \in {"none", "report", "unavailable", "identity", "error",
                         "cancelled"}
        /\ asked' \in 0 .. NumQueries /\ got' \in SUBSET (Queries \X {Current'})
    BY <1>1 DEF TypeOK
  <2>2. QED
    BY <1>1, <2>1 DEF TypeOK
<1>3. attempt # MaxAttempts => attempt < MaxAttempts
  BY DEF TypeOK
<1>4. Discarded' /\ Phases' /\ NoSessionLeftOpen'
  BY <1>1, <1>3 DEF Discarded, Phases, NoSessionLeftOpen
<1>5. QED
  BY <1>2, <1>4

LEMMA OpenIInv == ASSUME IInv, NEW s \in Session, Open(s) PROVE IInv'
<1> USE DEF IInv, Open, batch
<1>1. attempt' \in 0 .. MaxAttempts
  BY DEF TypeOK, Phases
<1>2. TypeOK'
  BY <1>1 DEF TypeOK, Current
<1>3. Discarded' /\ Phases' /\ NoSessionLeftOpen'
  BY DEF Discarded, Phases, NoSessionLeftOpen
<1>4. QED
  BY <1>2, <1>3

LEMMA OpenFailsIInv == ASSUME IInv, OpenFails PROVE IInv'
<1> USE DEF IInv
<1>1. /\ pc = "waiting" /\ attempt' = attempt + 1
      /\ UNCHANGED <<op, batch, conns, results, texts>>
      /\ \/ pc' = "ending" /\ outcome' = "unavailable"
         \/ attempt + 1 # MaxAttempts /\ pc' = "waiting" /\ UNCHANGED outcome
  BY DEF OpenFails, NextAttempt, End
<1>2. attempt' \in 0 .. MaxAttempts
  BY <1>1 DEF TypeOK, Phases
<1>3. TypeOK'
  BY <1>1, <1>2 DEF TypeOK, Current, batch, conns
<1>4. pc' = "waiting" => attempt' < MaxAttempts
  BY <1>1, <1>2
<1>5. Discarded' /\ Phases' /\ NoSessionLeftOpen'
  BY <1>1, <1>4 DEF Discarded, Phases, NoSessionLeftOpen, batch, conns
<1>6. QED
  BY <1>3, <1>5

LEMMA AdoptIInv == ASSUME IInv, NEW s \in Session, Adopt(s) PROVE IInv'
<1> USE DEF IInv
<1>1. /\ pc = "detecting" /\ ~connOpen /\ strays' = strays
      /\ accepted' = Append(accepted, s) /\ connOpen' = candOpen
      /\ candidate' = {} /\ candOpen' = FALSE /\ pc' = "running"
      /\ asked' = 0 /\ got' = {}
      /\ UNCHANGED <<op, attempt, outcome, results, texts>>
  <2>1. asked = 0 /\ got = {} /\ ~connOpen
    BY DEF Adopt, Discarded, Phases
  <2>2. QED
    BY <2>1 DEF Adopt, DropCandidate, batch, TypeOK
<1>2. accepted' \in Seq(Session) /\ accepted' # <<>>
  BY <1>1 DEF TypeOK
<1>3. TypeOK'
  <2>1. pc' \in {"idle", "running", "waiting", "detecting", "ending", "closed"}
        /\ asked' \in 0 .. NumQueries /\ got' \in SUBSET (Queries \X {Current'})
    BY <1>1
  <2>2. QED
    BY <1>1, <1>2, <2>1 DEF TypeOK
<1>4. Discarded' /\ Phases' /\ NoSessionLeftOpen'
  BY <1>1 DEF Discarded, Phases, NoSessionLeftOpen
<1>5. QED
  BY <1>3, <1>4

LEMMA RejectIInv == ASSUME IInv, NEW s \in Session, Reject(s) PROVE IInv'
<1> USE DEF IInv, Reject, DropCandidate, End, batch
<1>1. TypeOK'
  BY DEF TypeOK, Current
<1>2. Discarded' /\ Phases' /\ NoSessionLeftOpen'
  BY DEF Discarded, Phases, NoSessionLeftOpen
<1>3. QED
  BY <1>1, <1>2

LEMMA DetectLostIInv == ASSUME IInv, DetectLost PROVE IInv'
<1> USE DEF IInv
<1>1. /\ pc = "detecting" /\ candidate' = {} /\ candOpen' = FALSE
      /\ UNCHANGED <<op, attempt, batch, accepted, connOpen, strays, results,
                     texts>>
      /\ \/ attempt = MaxAttempts /\ pc' = "ending" /\ outcome' = "unavailable"
         \/ attempt # MaxAttempts /\ pc' = "waiting" /\ UNCHANGED outcome
  BY DEF DetectLost, DropCandidate, NextAttempt, End
<1>2. TypeOK'
  <2>1. /\ pc' \in {"idle", "running", "waiting", "detecting", "ending", "closed"}
        /\ outcome' \in {"none", "report", "unavailable", "identity", "error",
                         "cancelled"}
    BY <1>1 DEF TypeOK
  <2>2. QED
    BY <1>1, <2>1 DEF TypeOK, Current, batch
<1>3. attempt # MaxAttempts => attempt < MaxAttempts
  BY DEF TypeOK
<1>4. Discarded' /\ Phases' /\ NoSessionLeftOpen'
  BY <1>1, <1>3 DEF Discarded, Phases, NoSessionLeftOpen, batch
<1>5. QED
  BY <1>2, <1>4

LEMMA DetectRaisesIInv ==
  ASSUME IInv, NEW o \in Ops, DetectRaises(o) PROVE IInv'
<1> USE DEF IInv
<1>1. Escape(o) /\ pc = "detecting" /\ candidate' = {} /\ candOpen' = FALSE
      /\ UNCHANGED <<accepted, connOpen, strays, texts>>
  BY DEF DetectRaises, DropCandidate
<1>2. TypeOK'
  <2>1. got' \in SUBSET (Queries \X {Current'}) /\ candidate' \in SUBSET Session
        /\ asked' \in 0 .. NumQueries
        /\ op' \in SUBSET Ops /\ attempt' \in 0 .. MaxAttempts
    BY <1>1, EscapeTypes
  <2>2. /\ pc' \in {"idle", "running", "waiting", "detecting", "ending", "closed"}
        /\ outcome' \in {"none", "report", "unavailable", "identity", "error",
                         "cancelled"}
        /\ candOpen' = FALSE
    BY <1>1, EscapeTypes DEF TypeOK
  <2>3. QED
    BY <1>1, <2>1, <2>2, EscapeTypes DEF TypeOK
<1>3. Discarded' /\ Phases' /\ NoSessionLeftOpen'
  BY <1>1, EscapeTypes DEF Discarded, Phases, NoSessionLeftOpen
<1>4. QED
  BY <1>2, <1>3

LEMMA SessionLostIInv == ASSUME IInv, SessionLost PROVE IInv'
<1> USE DEF IInv, SessionLost, Disconnect, control, batch
<1>1. TypeOK'
  BY DEF TypeOK, Current
<1>2. Discarded' /\ Phases' /\ NoSessionLeftOpen'
  BY DEF Discarded, Phases, NoSessionLeftOpen
<1>3. QED
  BY <1>1, <1>2

(* The only action that abandons a session, and it ends the run.           *)
LEMMA CancelIInv == ASSUME IInv, Cancel PROVE IInv'
<1> USE DEF IInv, Cancel, DropCandidate, End, Leave
<1>1. strays = 0 /\ strays' \in {0, 1}
  BY DEF NoSessionLeftOpen, Phases, TypeOK
<1>2. TypeOK'
  <2>1. got' \in SUBSET (Queries \X {Current'}) /\ candidate' \in SUBSET Session
        /\ asked' \in 0 .. NumQueries /\ strays' \in Nat
        /\ op' \in SUBSET Ops /\ attempt' \in 0 .. MaxAttempts
    BY <1>1
  <2>2. pc' = "ending" /\ outcome' = "cancelled" /\ candOpen' = FALSE
        /\ UNCHANGED <<accepted, connOpen, results, texts>>
    OBVIOUS
  <2>3. QED
    BY <2>1, <2>2 DEF TypeOK
<1>3. Discarded' /\ Phases' /\ NoSessionLeftOpen'
  BY <1>1 DEF Discarded, Phases, NoSessionLeftOpen
<1>4. QED
  BY <1>2, <1>3

LEMMA FinishIInv == ASSUME IInv, Finish PROVE IInv'
<1> USE DEF IInv, Finish, End, batch, conns
<1>1. TypeOK'
  BY DEF TypeOK, Current
<1>2. Discarded' /\ Phases' /\ NoSessionLeftOpen'
  BY DEF Discarded, Phases, NoSessionLeftOpen
<1>3. QED
  BY <1>1, <1>2

LEMMA CloseCollectionIInv == ASSUME IInv, CloseCollection PROVE IInv'
<1> USE DEF IInv, CloseCollection, CloseConn, batch
<1>1. TypeOK'
  BY DEF TypeOK, Current
<1>2. Discarded' /\ Phases' /\ NoSessionLeftOpen'
  BY DEF Discarded, Phases, NoSessionLeftOpen
<1>3. QED
  BY <1>1, <1>2

LEMMA StutterIInv == ASSUME IInv, UNCHANGED vars PROVE IInv'
BY DEF IInv, vars, control, batch, conns, TypeOK, Current, Discarded, Phases,
       NoSessionLeftOpen

LEMMA NextIInv == ASSUME IInv, [Next]_vars PROVE IInv'
<1>1. CASE \E o \in Ops : Begin(o) \/ Complete(o) \/ Raise(o) \/ DetectRaises(o)
  BY <1>1, BeginIInv, CompleteIInv, RaiseIInv, DetectRaisesIInv
<1>2. CASE \E s \in Session : Open(s) \/ Adopt(s) \/ Reject(s)
  BY <1>2, OpenIInv, AdoptIInv, RejectIInv
<1>3. CASE Ask \/ Lost \/ OpenFails \/ DetectLost
  BY <1>3, AskIInv, LostIInv, OpenFailsIInv, DetectLostIInv
<1>4. CASE Finish \/ CloseCollection \/ SessionLost \/ Cancel
  BY <1>4, FinishIInv, CloseCollectionIInv, SessionLostIInv, CancelIInv
<1>5. CASE UNCHANGED vars
  BY <1>5, StutterIInv
<1>6. QED
  BY <1>1, <1>2, <1>3, <1>4, <1>5 DEF Next, Controller

(* The inductive invariant holds of every reachable state.                 *)
THEOREM Invariance == Spec => []IInv
<1>1. Init => IInv
  BY InitIInv
<1>2. IInv /\ [Next]_vars => IInv'
  BY NextIInv
<1>3. QED
  BY <1>1, <1>2, PTL DEF Spec

(* The variables keep their types: in particular an answer under way comes *)
(* from the session run.conn is, and attempts stay within the limit.       *)
THEOREM TypeCorrect == Spec => []TypeOK
<1>1. IInv => TypeOK
  BY DEF IInv
<1>2. QED
  BY <1>1, Invariance, PTL

(* No path through the reconnect controller (execute_with_database_        *)
(* reconnect, close_collection) leaves a session open, a task cancelled    *)
(* while it verifies a replacement excepted.                               *)
THEOREM SessionsClosed == Spec => []NoSessionLeftOpen
<1>1. IInv => NoSessionLeftOpen
  BY DEF IInv
<1>2. QED
  BY <1>1, Invariance, PTL

-----------------------------------------------------------------------------

(* One step of the chain of identities.                                    *)
LEMMA ChainStep ==
  ASSUME TypeOK, OneEndpoint, NEW s \in Session,
         Matches(accepted[Current], s), accepted' = Append(accepted, s)
  PROVE  OneEndpoint'
<1> DEFINE n == Len(accepted)
<1>1. n \in Nat \ {0} /\ DOMAIN accepted = 1 .. n /\ accepted \in [1 .. n -> Session]
  BY DEF TypeOK
<1>2. /\ DOMAIN accepted' = 1 .. (n + 1)
      /\ \A k \in 1 .. n : accepted'[k] = accepted[k]
      /\ accepted'[n + 1] = s
  BY <1>1 DEF TypeOK
<1>3. \A i \in 1 .. n : accepted[i].role = accepted[n].role
  BY <1>1 DEF OneEndpoint
<1>4. \A i \in 1 .. n + 1 : accepted'[i].role = s.role
  BY <1>1, <1>2, <1>3 DEF Matches, Current
<1>5. ASSUME \A k \in DOMAIN accepted' : Address(accepted'[k]) # NoAddress
      PROVE  \A i \in 1 .. n + 1 : accepted'[i].server = s.server
  <2>1. \A k \in 1 .. n : Address(accepted[k]) # NoAddress
    BY <1>2, <1>5
  <2>2. \A i \in 1 .. n : accepted[i].server = accepted[n].server
    BY <2>1, <1>1 DEF OneEndpoint
  <2>3. accepted[n].server = Address(accepted[n]) /\ s.server = Address(s)
    BY <1>5, <2>1, <1>1, <1>2 DEF Address
  <2>4. Address(accepted[n]) = Address(s)
    BY <1>5, <2>1, <1>1, <1>2 DEF Matches, Current
  <2>5. QED
    BY <1>1, <1>2, <2>2, <2>3, <2>4
<1>6. QED
  BY <1>2, <1>4, <1>5 DEF OneEndpoint

LEMMA NextOneEndpoint ==
  ASSUME TypeOK, OneEndpoint, [Next]_vars PROVE OneEndpoint'
<1>1. CASE \E s \in Session : Adopt(s)
  BY <1>1, ChainStep DEF Adopt
<1>2. CASE UNCHANGED accepted
  BY <1>2 DEF OneEndpoint
<1>3. UNCHANGED accepted \/ \E s \in Session : Adopt(s)
  BY DEF Next, Controller, vars, conns, Begin, Complete, Raise, DetectRaises,
         Open, Reject, Ask, Lost, OpenFails, DetectLost, Finish,
         CloseCollection, SessionLost, Cancel
<1>4. QED
  BY <1>1, <1>2, <1>3

(* Samples of different endpoints are never merged, however often and      *)
(* wherever the run reconnects, as long as the sessions report an address: *)
(* _verify_reconnected_database_identity against the latest identity is    *)
(* enough, by induction along the chain of sessions.                       *)
THEOREM EndpointsNeverMerge == Spec => []OneEndpoint
<1>1. Init => OneEndpoint
  <2> SUFFICES ASSUME Init PROVE OneEndpoint
    OBVIOUS
  <2>1. accepted \in {<<s>> : s \in Session}
    BY DEF Init
  <2>2. PICK s \in Session : accepted = <<s>>
    BY <2>1
  <2>3. DOMAIN accepted = {1}
    BY <2>2
  <2>4. QED
    BY <2>3 DEF OneEndpoint
<1>2. TypeOK /\ OneEndpoint /\ [Next]_vars => OneEndpoint'
  BY NextOneEndpoint
<1>3. QED
  BY <1>1, <1>2, TypeCorrect, PTL DEF Spec

-----------------------------------------------------------------------------

(* An operation is recorded once: what is under way has no result yet, and *)
(* a batch that has one has data.                                          *)
Ledger ==
  /\ \A o \in op : results[o] = TL!Pending
  /\ \A b \in BatchOps : results[b] # TL!Pending => results[b].status = "data"
  /\ GivesUpOnlyExhausted

(* What an action that leaves Escape does to the ledger.                   *)
LEMMA EscapeLedger ==
  ASSUME IInv, Ledger, NEW o \in Ops, Escape(o), outcome = "none"
  PROVE  Ledger'
<1>1. /\ op' = {}
      /\ outcome' \in {"none", "error"}
      /\ \/ o \in ItemOps /\ results' = [results EXCEPT ![o] = TL!Errored]
         \/ results' = results
  BY DEF Escape, End
<1>2. ASSUME NEW b \in BatchOps PROVE results'[b] = results[b]
  <2>1. DOMAIN results = Ops /\ b \in Ops /\ b \notin ItemOps
    BY DbSessionAssumption DEF Ops, IInv, TypeOK
  <2>2. QED
    BY <1>1, <2>1
<1>3. QED
  BY <1>1, <1>2 DEF Ledger, GivesUpOnlyExhausted

LEMMA CompleteLedger ==
  ASSUME IInv, Ledger, NEW o \in Ops, Complete(o) PROVE Ledger'
<1> DEFINE failed == o \in ItemOps /\ ~AllAnswered
<1>1. /\ op' = {}
      /\ outcome' \in {"none", "error"}
      /\ results' = [results EXCEPT ![o] = IF failed THEN TL!Errored
                                           ELSE TL!Data(got)]
  BY DEF Complete, End, IInv, Phases
<1>2. ASSUME NEW b \in BatchOps
      PROVE  results'[b] = results[b] \/ results'[b].status = "data"
  <2>1. b \in Ops /\ b \notin ItemOps /\ DOMAIN results = Ops
    BY DbSessionAssumption DEF Ops, IInv, TypeOK
  <2>2. CASE b = o
    BY <1>1, <2>1, <2>2 DEF TL!Data
  <2>3. CASE b # o
    BY <1>1, <2>1, <2>3
  <2>4. QED
    BY <2>2, <2>3
<1>3. QED
  BY <1>1, <1>2 DEF Ledger, GivesUpOnlyExhausted

LEMMA NextLedger == ASSUME IInv, Ledger, [Next]_vars PROVE Ledger'
<1> USE DEF Ledger, GivesUpOnlyExhausted
<1>1. ASSUME NEW o \in Ops, Begin(o) PROVE Ledger'
  BY <1>1 DEF Begin, IInv, Phases
<1>2. ASSUME NEW o \in Ops, Complete(o) PROVE Ledger'
  BY <1>2, CompleteLedger
<1>3. ASSUME NEW o \in Ops, Raise(o) \/ DetectRaises(o) PROVE Ledger'
  <2>1. Escape(o) /\ outcome = "none"
    BY <1>3 DEF Raise, DetectRaises, IInv, Phases
  <2>2. QED
    BY <2>1, EscapeLedger
<1>4. CASE Lost \/ DetectLost
  BY <1>4 DEF Lost, DetectLost, NextAttempt, End, IInv, Phases
<1>5. CASE OpenFails
  BY <1>5 DEF OpenFails, NextAttempt, End, IInv, Phases
<1>6. ASSUME NEW s \in Session, Open(s) \/ Adopt(s) \/ Reject(s) PROVE Ledger'
  BY <1>6 DEF Open, Adopt, Reject, End, IInv, Phases
<1>7. CASE Finish
  BY <1>7 DEF Finish, End, Ops
<1>8. CASE Ask \/ SessionLost \/ Cancel \/ CloseCollection \/ UNCHANGED vars
  BY <1>8 DEF Ask, SessionLost, Cancel, CloseCollection, End, control, vars
<1>9. QED
  BY <1>1, <1>2, <1>3, <1>4, <1>5, <1>6, <1>7, <1>8 DEF Next, Controller

THEOREM LedgerInvariance == Spec => []Ledger
<1>1. Init => Ledger
  BY DEF Init, Ledger, GivesUpOnlyExhausted, Ops
<1>2. IInv /\ Ledger /\ [Next]_vars => Ledger'
  BY NextLedger
<1>3. QED
  BY <1>1, <1>2, Invariance, PTL DEF Spec

(* DatabaseUnavailableError is raised only after the last attempt, and a   *)
(* report is written only with data for every sample and endpoint.         *)
THEOREM NeverPartial == Spec => []GivesUpOnlyExhausted
<1>1. Ledger => GivesUpOnlyExhausted
  BY DEF Ledger
<1>2. QED
  BY <1>1, LedgerInvariance, PTL

-----------------------------------------------------------------------------

(* What a batch got in its attempt is catalogued already, whichever        *)
(* attempt it is.                                                          *)
Catalogued ==
  \A o \in op \cap BatchOps : \A a \in got : <<o, a[1], a[2]>> \in texts

(* A query of a batch leaves its answer and the answer's texts at once.    *)
LEMMA AskCatalogues == ASSUME IInv, Catalogued, Ask PROVE Catalogued'
<1>1. /\ op' = op /\ texts \subseteq texts'
      /\ \/ got' = got
         \/ /\ got' = got \cup {<<asked + 1, Current>>}
            /\ texts' = texts \cup {<<o, asked + 1, Current>> : o \in op \cap BatchOps}
  BY DEF Ask, control
<1> SUFFICES ASSUME NEW o \in op \cap BatchOps, NEW a \in got' PROVE <<o, a[1], a[2]>> \in texts'
  BY <1>1 DEF Catalogued
<1>2. CASE a \in got
  BY <1>1, <1>2 DEF Catalogued
<1>3. CASE a \notin got
  <2>1. a = <<asked + 1, Current>>
    BY <1>1, <1>3
  <2>2. <<o, asked + 1, Current>> \in texts'
    BY <1>1, <1>3
  <2>3. QED
    BY <2>1, <2>2
<1>4. QED
  BY <1>2, <1>3

(* What is dropped with an attempt, or with its operation, leaves nothing  *)
(* to catalogue.                                                           *)
LEMMA NextCatalogued == ASSUME IInv, Catalogued, [Next]_vars PROVE Catalogued'
<1>1. CASE Ask
  BY <1>1, AskCatalogues
<1>2. CASE got' = {}
  BY <1>2 DEF Catalogued
<1>3. CASE UNCHANGED <<op, got, texts>>
  BY <1>3 DEF Catalogued
<1>4. ASSUME NEW o \in Ops, Begin(o) \/ Complete(o) \/ Raise(o) \/ DetectRaises(o)
      PROVE  got' = {}
  BY <1>4 DEF Begin, Complete, Raise, DetectRaises, Escape, Leave, IInv, Discarded, batch
<1>5. ASSUME NEW s \in Session, Open(s) \/ Adopt(s) \/ Reject(s)
      PROVE  UNCHANGED <<op, got, texts>>
  BY <1>5 DEF Open, Adopt, Reject, batch
<1>6. CASE Lost \/ Cancel
  BY <1>2, <1>6 DEF Lost, Cancel, Leave
<1>7. CASE OpenFails \/ DetectLost \/ Finish \/ CloseCollection \/ SessionLost \/ UNCHANGED vars
  BY <1>3, <1>7 DEF OpenFails, DetectLost, Finish, CloseCollection, SessionLost, vars, control, batch
<1>8. QED
  BY <1>1, <1>2, <1>3, <1>4, <1>5, <1>6, <1>7 DEF Next, Controller

(* What is recorded of an operation is what was recorded before, nothing,  *)
(* the answers of a batch, catalogued as they came, or those of an item,   *)
(* catalogued now.                                                         *)
LEMMA CompleteResolves ==
  ASSUME IInv, Catalogued, TextsResolve, NEW o \in Ops, Complete(o) PROVE TextsResolve'
<1> DEFINE failed == o \in ItemOps /\ ~AllAnswered
           added  == {<<p, a[1], a[2]>> : p \in {o} \cap ItemOps, a \in got}
<1>1. /\ results' = [results EXCEPT ![o] = IF failed THEN TL!Errored
                                           ELSE TL!Data(got)]
      /\ DOMAIN results = Ops /\ op = {o}
  BY DEF Complete, IInv, TypeOK
<1>2. texts' = (IF failed THEN texts ELSE texts \cup added)
  BY DEF Complete, Catalogue
<1>3. ASSUME ~failed, NEW a \in got PROVE <<o, a[1], a[2]>> \in texts'
  <2>1. CASE o \in BatchOps
    BY <1>1, <1>2, <1>3, <2>1 DEF Catalogued
  <2>2. CASE o \in ItemOps
    <3>1. <<o, a[1], a[2]>> \in added
      BY <1>3, <2>2
    <3>2. QED
      BY <1>2, <1>3, <3>1
  <2>3. QED
    BY <2>1, <2>2 DEF Ops
<1>4. ASSUME NEW p \in Ops, NEW a \in results'[p].answers
      PROVE  <<p, a[1], a[2]>> \in texts'
  <2>1. CASE p # o
    BY <1>1, <1>2, <1>4, <2>1 DEF TextsResolve
  <2>2. CASE p = o /\ failed
    BY <1>1, <1>4, <2>2 DEF TL!Errored
  <2>3. CASE p = o /\ ~failed
    <3>1. a \in got
      BY <1>1, <1>4, <2>3 DEF TL!Data
    <3>2. QED
      BY <1>3, <2>3, <3>1
  <2>4. QED
    BY <2>1, <2>2, <2>3
<1>5. QED
  BY <1>4 DEF TextsResolve

LEMMA EscapeResolves ==
  ASSUME IInv, TextsResolve, NEW o \in Ops, Escape(o), UNCHANGED texts
  PROVE  TextsResolve'
<1>1. /\ \/ results' = [results EXCEPT ![o] = TL!Errored]
         \/ results' = results
      /\ DOMAIN results = Ops
  BY DEF Escape, IInv, TypeOK
<1>2. \A p \in Ops : results'[p].answers \subseteq results[p].answers
  BY <1>1 DEF TL!Errored
<1>3. QED
  BY <1>2 DEF TextsResolve

LEMMA NextResolves ==
  ASSUME IInv, Catalogued, TextsResolve, [Next]_vars PROVE TextsResolve'
<1>1. ASSUME NEW o \in Ops, Complete(o) PROVE TextsResolve'
  BY <1>1, CompleteResolves
<1>2. ASSUME NEW o \in Ops, Raise(o) \/ DetectRaises(o) PROVE TextsResolve'
  BY <1>2, EscapeResolves DEF Raise, DetectRaises
<1>3. CASE UNCHANGED results /\ texts \subseteq texts'
  BY <1>3 DEF TextsResolve
<1>4. CASE Ask
  <2>1. UNCHANGED results /\ texts \subseteq texts'
    BY <1>4 DEF Ask
  <2>2. QED
    BY <2>1, <1>3
<1>5. ASSUME NEW o \in Ops, Begin(o) PROVE TextsResolve'
  BY <1>3, <1>5 DEF Begin
<1>6. ASSUME NEW s \in Session, Open(s) \/ Adopt(s) \/ Reject(s)
      PROVE TextsResolve'
  BY <1>3, <1>6 DEF Open, Adopt, Reject
<1>7. CASE \/ Lost \/ OpenFails \/ DetectLost \/ Finish \/ CloseCollection
           \/ SessionLost \/ Cancel \/ UNCHANGED vars
  BY <1>3, <1>7 DEF Lost, OpenFails, DetectLost, Finish, CloseCollection,
                    SessionLost, Cancel, vars
<1>8. QED
  BY <1>1, <1>2, <1>4, <1>5, <1>6, <1>7 DEF Next, Controller

(* However often a batch is interrupted and repeated, every answer of the  *)
(* artifact finds its texts in the catalogue: those of a batch by what     *)
(* each query of each attempt adds (_execute_query_batch), those of an     *)
(* item by what is merged when it is recorded                              *)
(* (execute_and_record_report_item).                                       *)
THEOREM Resolves == Spec => []TextsResolve
<1>1. Init => Catalogued /\ TextsResolve
  BY DEF Init, Catalogued, TextsResolve, TL!Pending
<1>2. IInv /\ Catalogued /\ TextsResolve /\ [Next]_vars => Catalogued' /\ TextsResolve'
  BY NextCatalogued, NextResolves
<1>3. QED
  BY <1>1, <1>2, Invariance, PTL DEF Spec

-----------------------------------------------------------------------------

(* The refinement, step by step.  After the outcome is known nothing of    *)
(* the abstract state changes.                                             *)
LEMMA StepEnds ==
  ASSUME outcome = "none", UNCHANGED <<accepted, results>>,
         outcome' \in {"none", "unavailable", "identity", "error", "cancelled"}
  PROVE  [TL!TNext]_(TL!tvars)
BY DEF TL!TNext, TL!Abort, TL!tvars

LEMMA StepEscapes ==
  ASSUME IInv, Ledger, NEW o \in Ops, op = {o}, outcome = "none", Escape(o),
         UNCHANGED accepted
  PROVE  [TL!TNext]_(TL!tvars)
<1>1. CASE results' = results
  BY <1>1, StepEnds DEF Escape, End
<1>2. CASE /\ o \in ItemOps
           /\ results' = [results EXCEPT ![o] = TL!Errored]
           /\ outcome' \in {"none", "error"}
  <2>1. results[o] = TL!Pending
    BY DEF Ledger
  <2>2. CASE outcome' = "none"
    BY <1>2, <2>1, <2>2 DEF TL!TNext, TL!Record, TL!tvars, TL!Ops, Ops
  <2>3. CASE outcome' = "error"
    BY <1>2, <2>1, <2>3 DEF TL!TNext, TL!Abort, TL!tvars
  <2>4. QED
    BY <1>2, <2>2, <2>3
<1>3. QED
  BY <1>1, <1>2 DEF Escape, End

LEMMA StepCompletes ==
  ASSUME IInv, Ledger, NEW o \in Ops, Complete(o)
  PROVE  [TL!TNext]_(TL!tvars)
<1> DEFINE failed == o \in ItemOps /\ ~AllAnswered
<1>1. /\ results[o] = TL!Pending /\ outcome = "none" /\ UNCHANGED accepted
      /\ results' = [results EXCEPT ![o] = IF failed THEN TL!Errored
                                           ELSE TL!Data(got)]
      /\ outcome' = "none" \/ (failed /\ outcome' = "error")
  <2>1. results[o] = TL!Pending /\ outcome = "none" /\ UNCHANGED accepted
    BY DEF Complete, IInv, Phases, Ledger, conns
  <2>2. results' = [results EXCEPT ![o] = IF failed THEN TL!Errored
                                           ELSE TL!Data(got)]
    BY DEF Complete
  <2>3. outcome' = "none" \/ (failed /\ outcome' = "error")
    BY <2>1 DEF Complete, End
  <2>4. QED
    BY <2>1, <2>2, <2>3
<1>2. got \in SUBSET (Queries \X {Len(accepted)})
  BY DEF IInv, TypeOK, Current
<1>3. CASE ~failed
  BY <1>1, <1>2, <1>3 DEF TL!TNext, TL!Record, TL!tvars, TL!Ops, Ops
<1>4. CASE failed /\ outcome' = "none"
  BY <1>1, <1>4 DEF TL!TNext, TL!Record, TL!tvars, TL!Ops, Ops
<1>5. CASE failed /\ outcome' = "error"
  BY <1>1, <1>5 DEF TL!TNext, TL!Abort, TL!tvars
<1>6. QED
  BY <1>1, <1>3, <1>4, <1>5

LEMMA StepRefines ==
  ASSUME IInv, Ledger, [Next]_vars PROVE [TL!TNext]_(TL!tvars)
<1>1. ASSUME NEW o \in Ops, Begin(o) PROVE UNCHANGED TL!tvars
  BY <1>1 DEF Begin, conns, TL!tvars
<1>2. ASSUME NEW o \in Ops, Complete(o) PROVE [TL!TNext]_(TL!tvars)
  BY <1>2, StepCompletes
<1>3. ASSUME NEW o \in Ops, Raise(o) \/ DetectRaises(o)
      PROVE  [TL!TNext]_(TL!tvars)
  <2>1. Escape(o) /\ op = {o} /\ outcome = "none" /\ UNCHANGED accepted
    BY <1>3 DEF Raise, DetectRaises, IInv, Phases
  <2>2. QED
    BY <2>1, StepEscapes
<1>4. CASE Lost \/ DetectLost \/ OpenFails
  <2>1. outcome = "none" /\ UNCHANGED <<accepted, results>>
        /\ outcome' \in {"none", "unavailable"}
    BY <1>4 DEF Lost, DetectLost, OpenFails, NextAttempt, End, IInv, Phases, conns
  <2>2. QED
    BY <2>1, StepEnds
<1>5. ASSUME NEW s \in Session, Open(s) PROVE UNCHANGED TL!tvars
  BY <1>5 DEF Open, TL!tvars
<1>6. ASSUME NEW s \in Session, Reject(s) PROVE [TL!TNext]_(TL!tvars)
  <2>1. outcome = "none" /\ UNCHANGED <<accepted, results>> /\ outcome' = "identity"
    BY <1>6 DEF Reject, End, IInv, Phases
  <2>2. QED
    BY <2>1, StepEnds
<1>7. ASSUME NEW s \in Session, Adopt(s) PROVE [TL!TNext]_(TL!tvars)
  <2>1. /\ outcome = "none" /\ UNCHANGED <<outcome, results>>
        /\ Matches(accepted[Len(accepted)], s) /\ accepted' = Append(accepted, s)
    BY <1>7 DEF Adopt, IInv, Phases, Current
  <2>2. TL!Matches(accepted[Len(accepted)], s) /\ s \in TL!Session
    BY <2>1 DEF Matches, TL!Matches, Session, TL!Session, Address, TL!Address
  <2>3. QED
    BY <2>1, <2>2 DEF TL!TNext, TL!Switch
<1>8. CASE Cancel
  <2>1. outcome = "none" /\ UNCHANGED <<accepted, results>> /\ outcome' = "cancelled"
    BY <1>8 DEF Cancel, End, IInv, Phases
  <2>2. QED
    BY <2>1, StepEnds
<1>9. CASE Finish
  <2>1. outcome = "none" /\ outcome' = "report" /\ UNCHANGED <<accepted, results>>
        /\ \A o \in Ops : results[o] # TL!Pending
    BY <1>9 DEF Finish, End, IInv, Phases, conns
  <2>2. QED
    BY <2>1 DEF TL!TNext, TL!Report, TL!Ops, Ops
<1>10. CASE Ask \/ SessionLost \/ CloseCollection \/ UNCHANGED vars
  BY <1>10 DEF Ask, SessionLost, CloseCollection, control, conns, vars, TL!tvars
<1>11. QED
  BY <1>1, <1>2, <1>3, <1>4, <1>5, <1>6, <1>7, <1>8, <1>9, <1>10
  DEF Next, Controller

(* The collector implements the abstract timeline: the artifact it builds  *)
(* through any sequence of losses, retries, errors and cancellations is    *)
(* one the abstract specification allows.                                  *)
THEOREM Refinement == Spec => ImplementsTimeline
<1>1. Init => TL!TInit
  <2> SUFFICES ASSUME Init PROVE TL!TInit
    OBVIOUS
  <2>1. accepted \in {<<s>> : s \in TL!Session}
    BY DEF Init, Session, TL!Session
  <2>2. results = [o \in TL!Ops |-> TL!Pending]
    BY DEF Init, Ops, TL!Ops
  <2>3. QED
    BY <2>1, <2>2 DEF Init, TL!TInit
<1>2. IInv /\ Ledger /\ [Next]_vars => [TL!TNext]_(TL!tvars)
  BY StepRefines
<1>3. QED
  BY <1>1, <1>2, Invariance, LedgerInvariance, PTL
  DEF Spec, ImplementsTimeline, TL!TSpec

-----------------------------------------------------------------------------
(* SshCommand.                                                             *)

(* What a reader has kept was charged and fits; a reader that is done has  *)
(* read everything, and a task is done or failed only with the channel.    *)
OutputInv ==
  /\ Total(kept) <= size /\ Total(kept) <= Limit
  /\ task["wait"] = "done" => ~ChannelOpen
  /\ \A s \in Streams : task[s] = "done" => chan = "closed" /\ kept[s] = sent[s]
  /\ returns = "result" => \A t \in Tasks : task[t] = "done"

(* Where the call is: its tasks exist once it has its process, none runs   *)
(* when it returns, and each stage of the stop has made its request.       *)
CallInv ==
  /\ phase = "start" => stage = 0 /\ returns = "none" /\ \A t \in Tasks : task[t] = "none"
  /\ phase = "gather" => stage = 0
  /\ phase = "stop" => stage \in Stages
  /\ phase = "returned" => \A t \in Tasks : task[t] # "running"
  /\ \A k \in Stages : travel[k] = "unsent" <=> k > stage
  /\ phase \in {"reap", "returned"} /\ task["wait"] # "none" => ~ChannelOpen \/ stage = 3
  /\ chan = "opening" => task["wait"] = "none"

(* The wrapper, when nothing was early, hurried or late: the time since    *)
(* TERM was sent is at least Grace - grace, so that TERM has arrived and   *)
(* the wrapper has done with it before the stage can expire.               *)
HostInv ==
  /\ shell = "none" <=> group = "none"
  /\ stage > 0 => shell # "none"
  /\ phase \in {"gather", "stop", "reap"} => shell # "none"
  /\ lapse = {} =>
       /\ shell = "dead" => group = "gone"
       /\ travel[1] = "sent" => stage = 1 /\ Grace - grace <= age[1]
       /\ travel[1] = "arrived" => shell \in {"napping", "dead"}
       /\ shell = "napping" => stage = 1 /\ Grace - grace <= MaxDelay + Sleep - nap
       /\ stage > 1 => shell = "dead"

CommandInv == CommandTypeOK /\ OutputInv /\ CallInv /\ HostInv

LEMMA CommandInitInv == CommandInit => CommandInv
<1> SUFFICES ASSUME CommandInit PROVE CommandInv
  OBVIOUS
<1> USE SshCommandAssumption DEF CommandInit, Tasks, Streams, Stages
<1>1. CommandTypeOK
  BY DEF CommandTypeOK
<1>2. OutputInv
  BY DEF OutputInv, Total
<1>3. CallInv
  BY DEF CallInv
<1>4. HostInv
  BY DEF HostInv
<1>5. QED
  BY <1>1, <1>2, <1>3, <1>4 DEF CommandInv

(* Every step keeps the types.                                             *)
LEMMA TypeStep == ASSUME CommandTypeOK, CallInv, [CommandNext]_commandVars PROVE CommandTypeOK'
<1> USE SshCommandAssumption DEF CommandTypeOK, CallInv, Tasks, Streams, Stages
<1>1. CASE Started
  BY <1>1 DEF Started, call, output, wire, host, kinds
<1>2. CASE GatherReturns
  BY <1>2 DEF GatherReturns, call, output, wire, host, kinds
<1>3. CASE GatherRaises
  BY <1>3 DEF GatherRaises, BeginStage, call, output, wire, host, kinds
<1>4. CASE \E how \in {"timeout", "cancelled"} : GatherStops(how)
  BY <1>4 DEF GatherStops, BeginStage, Cancelled, call, output, wire, host, kinds
<1>5. CASE StopEnds
  BY <1>5 DEF StopEnds, call, output, wire, host, kinds
<1>6. CASE StageExpires
  BY <1>6 DEF StageExpires, Onward, BeginStage, call, output, wire, host, kinds
<1>7. CASE Reap
  BY <1>7 DEF Reap, Cancelled, call, output, wire, host, kinds
<1>8. CASE CancelStart
  BY <1>8 DEF CancelStart, call, output, wire, host, kinds
<1>9. CASE CancelStop
  BY <1>9 DEF CancelStop, Onward, BeginStage, call, output, wire, host, kinds
<1>10. CASE CancelReap
  BY <1>10 DEF CancelReap, Cancelled, call, output, wire, host, kinds
<1>11. CASE WaitEnds
  BY <1>11 DEF WaitEnds, call, output, wire, host, kinds
<1>12. CASE \E s \in Streams : Read(s)
  BY <1>12 DEF Read, call, output, wire, host, kinds
<1>13. CASE \E s \in Streams : ReadEnds(s)
  BY <1>13 DEF ReadEnds, call, output, wire, host, kinds
<1>14. CASE Spawn
  BY <1>14 DEF Spawn, call, output, wire, host, kinds
<1>15. CASE Arm
  BY <1>15 DEF Arm, call, output, wire, host, kinds
<1>16. CASE ShellEnds
  BY <1>16 DEF ShellEnds, call, output, wire, host, kinds
<1>17. CASE WrapperKills
  BY <1>17 DEF WrapperKills, call, output, wire, host, kinds
<1>18. CASE Term
  BY <1>18 DEF Term, Arrives, call, output, wire, host, kinds
<1>19. CASE Kill
  BY <1>19 DEF Kill, Arrives, call, output, wire, host, kinds
<1>20. CASE GroupEnds
  BY <1>20 DEF GroupEnds, call, output, wire, host, kinds
<1>21. CASE \E s \in Streams : Write(s)
  BY <1>21 DEF Write, call, output, wire, host, kinds
<1>22. CASE Refused
  BY <1>22 DEF Refused, call, output, wire, host, kinds
<1>23. CASE Close
  BY <1>23 DEF Close, Arrives, call, output, wire, host, kinds
<1>24. CASE ServerCloses
  BY <1>24 DEF ServerCloses, call, output, wire, host, kinds
<1>25. CASE ConnectionLost
  BY <1>25 DEF ConnectionLost, call, output, wire, host, kinds
<1>26. CASE Tick
  BY <1>26 DEF Tick, Overdue, call, output, wire, host, kinds
<1>27. CASE UNCHANGED commandVars
  BY <1>27 DEF commandVars, call, output, wire, host, kinds
<1>28. QED
  BY <1>1, <1>2, <1>3, <1>4, <1>5, <1>6, <1>7, <1>8, <1>9, <1>10, <1>11, <1>12, <1>13, <1>14, <1>15, <1>16, <1>17, <1>18, <1>19, <1>20, <1>21, <1>22, <1>23, <1>24, <1>25, <1>26, <1>27
  DEF CommandNext, Call, CallCancelled, Readers, Wrapper, Link

(* Every step keeps what is read and kept in order: Read charges before it *)
(* keeps, and a closed channel is written to no more.                      *)
LEMMA OutputStep == ASSUME CommandTypeOK, CallInv, OutputInv, [CommandNext]_commandVars PROVE OutputInv'
<1> USE SshCommandAssumption DEF CommandTypeOK, CallInv, OutputInv, Tasks, Streams, Total, ChannelOpen
<1>1. CASE Started
  BY <1>1 DEF Started, call, output, wire, host, kinds
<1>2. CASE GatherReturns
  BY <1>2 DEF GatherReturns, call, output, wire, host, kinds
<1>3. CASE GatherRaises
  BY <1>3 DEF GatherRaises, BeginStage, call, output, wire, host, kinds
<1>4. CASE \E how \in {"timeout", "cancelled"} : GatherStops(how)
  BY <1>4 DEF GatherStops, BeginStage, Cancelled, call, output, wire, host, kinds
<1>5. CASE StopEnds
  BY <1>5 DEF StopEnds, call, output, wire, host, kinds
<1>6. CASE StageExpires
  BY <1>6 DEF StageExpires, Onward, BeginStage, call, output, wire, host, kinds
<1>7. CASE Reap
  BY <1>7 DEF Reap, Cancelled, call, output, wire, host, kinds
<1>8. CASE CancelStart
  BY <1>8 DEF CancelStart, call, output, wire, host, kinds
<1>9. CASE CancelStop
  BY <1>9 DEF CancelStop, Onward, BeginStage, call, output, wire, host, kinds
<1>10. CASE CancelReap
  BY <1>10 DEF CancelReap, Cancelled, call, output, wire, host, kinds
<1>11. CASE WaitEnds
  BY <1>11 DEF WaitEnds, call, output, wire, host, kinds
<1>12. CASE \E s \in Streams : Read(s)
  BY <1>12 DEF Read, call, output, wire, host, kinds
<1>13. CASE \E s \in Streams : ReadEnds(s)
  BY <1>13 DEF ReadEnds, call, output, wire, host, kinds
<1>14. CASE Spawn
  BY <1>14 DEF Spawn, call, output, wire, host, kinds
<1>15. CASE Arm
  BY <1>15 DEF Arm, call, output, wire, host, kinds
<1>16. CASE ShellEnds
  BY <1>16 DEF ShellEnds, call, output, wire, host, kinds
<1>17. CASE WrapperKills
  BY <1>17 DEF WrapperKills, call, output, wire, host, kinds
<1>18. CASE Term
  BY <1>18 DEF Term, Arrives, call, output, wire, host, kinds
<1>19. CASE Kill
  BY <1>19 DEF Kill, Arrives, call, output, wire, host, kinds
<1>20. CASE GroupEnds
  BY <1>20 DEF GroupEnds, call, output, wire, host, kinds
<1>21. CASE \E s \in Streams : Write(s)
  BY <1>21 DEF Write, call, output, wire, host, kinds
<1>22. CASE Refused
  BY <1>22 DEF Refused, call, output, wire, host, kinds
<1>23. CASE Close
  BY <1>23 DEF Close, Arrives, call, output, wire, host, kinds
<1>24. CASE ServerCloses
  BY <1>24 DEF ServerCloses, call, output, wire, host, kinds
<1>25. CASE ConnectionLost
  BY <1>25 DEF ConnectionLost, call, output, wire, host, kinds
<1>26. CASE Tick
  BY <1>26 DEF Tick, Overdue, call, output, wire, host, kinds
<1>27. CASE UNCHANGED commandVars
  BY <1>27 DEF commandVars, call, output, wire, host, kinds
<1>28. QED
  BY <1>1, <1>2, <1>3, <1>4, <1>5, <1>6, <1>7, <1>8, <1>9, <1>10, <1>11, <1>12, <1>13, <1>14, <1>15, <1>16, <1>17, <1>18, <1>19, <1>20, <1>21, <1>22, <1>23, <1>24, <1>25, <1>26, <1>27
  DEF CommandNext, Call, CallCancelled, Readers, Wrapper, Link

(* Every step keeps the order of the call: each stage of the stop makes    *)
(* its request, interrupted or not.                                        *)
LEMMA CallStep == ASSUME CommandTypeOK, OutputInv, CallInv, [CommandNext]_commandVars PROVE CallInv'
<1> USE SshCommandAssumption DEF CommandTypeOK, OutputInv, CallInv, Tasks, Stages, ChannelOpen
<1>1. CASE Started
  BY <1>1 DEF Started, call, output, wire, host, kinds
<1>2. CASE GatherReturns
  BY <1>2 DEF GatherReturns, call, output, wire, host, kinds
<1>3. CASE GatherRaises
  BY <1>3 DEF GatherRaises, BeginStage, call, output, wire, host, kinds
<1>4. CASE \E how \in {"timeout", "cancelled"} : GatherStops(how)
  BY <1>4 DEF GatherStops, BeginStage, Cancelled, call, output, wire, host, kinds
<1>5. CASE StopEnds
  BY <1>5 DEF StopEnds, call, output, wire, host, kinds
<1>6. CASE StageExpires
  BY <1>6 DEF StageExpires, Onward, BeginStage, call, output, wire, host, kinds
<1>7. CASE Reap
  BY <1>7 DEF Reap, Cancelled, call, output, wire, host, kinds
<1>8. CASE CancelStart
  BY <1>8 DEF CancelStart, call, output, wire, host, kinds
<1>9. CASE CancelStop
  BY <1>9 DEF CancelStop, Onward, BeginStage, call, output, wire, host, kinds
<1>10. CASE CancelReap
  BY <1>10 DEF CancelReap, Cancelled, call, output, wire, host, kinds
<1>11. CASE WaitEnds
  BY <1>11 DEF WaitEnds, call, output, wire, host, kinds
<1>12. CASE \E s \in Streams : Read(s)
  BY <1>12 DEF Read, call, output, wire, host, kinds
<1>13. CASE \E s \in Streams : ReadEnds(s)
  BY <1>13 DEF ReadEnds, call, output, wire, host, kinds
<1>14. CASE Spawn
  BY <1>14 DEF Spawn, call, output, wire, host, kinds
<1>15. CASE Arm
  BY <1>15 DEF Arm, call, output, wire, host, kinds
<1>16. CASE ShellEnds
  BY <1>16 DEF ShellEnds, call, output, wire, host, kinds
<1>17. CASE WrapperKills
  BY <1>17 DEF WrapperKills, call, output, wire, host, kinds
<1>18. CASE Term
  BY <1>18 DEF Term, Arrives, call, output, wire, host, kinds
<1>19. CASE Kill
  BY <1>19 DEF Kill, Arrives, call, output, wire, host, kinds
<1>20. CASE GroupEnds
  BY <1>20 DEF GroupEnds, call, output, wire, host, kinds
<1>21. CASE \E s \in Streams : Write(s)
  BY <1>21 DEF Write, call, output, wire, host, kinds
<1>22. CASE Refused
  BY <1>22 DEF Refused, call, output, wire, host, kinds
<1>23. CASE Close
  BY <1>23 DEF Close, Arrives, call, output, wire, host, kinds
<1>24. CASE ServerCloses
  BY <1>24 DEF ServerCloses, call, output, wire, host, kinds
<1>25. CASE ConnectionLost
  BY <1>25 DEF ConnectionLost, call, output, wire, host, kinds
<1>26. CASE Tick
  BY <1>26 DEF Tick, Overdue, call, output, wire, host, kinds
<1>27. CASE UNCHANGED commandVars
  BY <1>27 DEF commandVars, call, output, wire, host, kinds
<1>28. QED
  BY <1>1, <1>2, <1>3, <1>4, <1>5, <1>6, <1>7, <1>8, <1>9, <1>10, <1>11, <1>12, <1>13, <1>14, <1>15, <1>16, <1>17, <1>18, <1>19, <1>20, <1>21, <1>22, <1>23, <1>24, <1>25, <1>26, <1>27
  DEF CommandNext, Call, CallCancelled, Readers, Wrapper, Link

(* Every step keeps the race with KILL won: a stage that has expired gave  *)
(* TERM the time to arrive and the wrapper the time to sleep.              *)
LEMMA HostStep == ASSUME CommandTypeOK, CallInv, HostInv, [CommandNext]_commandVars PROVE HostInv'
<1> USE SshCommandAssumption DEF CommandTypeOK, CallInv, HostInv, Stages, ChannelOpen
<1>1. CASE Started
  BY <1>1 DEF Started, call, output, wire, host, kinds
<1>2. CASE GatherReturns
  BY <1>2 DEF GatherReturns, call, output, wire, host, kinds
<1>3. CASE GatherRaises
  BY <1>3 DEF GatherRaises, BeginStage, call, output, wire, host, kinds
<1>4. CASE \E how \in {"timeout", "cancelled"} : GatherStops(how)
  BY <1>4 DEF GatherStops, BeginStage, Cancelled, call, output, wire, host, kinds
<1>5. CASE StopEnds
  BY <1>5 DEF StopEnds, call, output, wire, host, kinds
<1>6. CASE StageExpires
  <2>1. stage \in Stages /\ grace = 0 /\ travel[1] # "unsent"
    BY <1>6 DEF StageExpires
  <2>2. lapse = {} => travel[1] = "arrived"
    <3>1. age[1] <= MaxDelay /\ Grace > MaxDelay
      BY PromptAssumption
    <3>2. QED
      BY <2>1, <3>1
  <2>3. lapse = {} => shell = "dead"
    <3>1. MaxDelay + Sleep - nap < Grace
      BY PromptAssumption
    <3>2. QED
      BY <2>1, <2>2, <3>1
  <2>4. QED
    BY <1>6, <2>1, <2>2, <2>3
    DEF StageExpires, Onward, BeginStage, call, output, wire, host, kinds
<1>7. CASE Reap
  BY <1>7 DEF Reap, Cancelled, call, output, wire, host, kinds
<1>8. CASE CancelStart
  BY <1>8 DEF CancelStart, call, output, wire, host, kinds
<1>9. CASE CancelStop
  BY <1>9 DEF CancelStop, Onward, BeginStage, call, output, wire, host, kinds
<1>10. CASE CancelReap
  BY <1>10 DEF CancelReap, Cancelled, call, output, wire, host, kinds
<1>11. CASE WaitEnds
  BY <1>11 DEF WaitEnds, call, output, wire, host, kinds
<1>12. CASE \E s \in Streams : Read(s)
  BY <1>12 DEF Read, call, output, wire, host, kinds
<1>13. CASE \E s \in Streams : ReadEnds(s)
  BY <1>13 DEF ReadEnds, call, output, wire, host, kinds
<1>14. CASE Spawn
  BY <1>14 DEF Spawn, call, output, wire, host, kinds
<1>15. CASE Arm
  BY <1>15 DEF Arm, call, output, wire, host, kinds
<1>16. CASE ShellEnds
  BY <1>16 DEF ShellEnds, call, output, wire, host, kinds
<1>17. CASE WrapperKills
  BY <1>17 DEF WrapperKills, call, output, wire, host, kinds
<1>18. CASE Term
  BY <1>18 DEF Term, Arrives, call, output, wire, host, kinds
<1>19. CASE Kill
  BY <1>19 DEF Kill, Arrives, call, output, wire, host, kinds
<1>20. CASE GroupEnds
  BY <1>20 DEF GroupEnds, call, output, wire, host, kinds
<1>21. CASE \E s \in Streams : Write(s)
  BY <1>21 DEF Write, call, output, wire, host, kinds
<1>22. CASE Refused
  BY <1>22 DEF Refused, call, output, wire, host, kinds
<1>23. CASE Close
  BY <1>23 DEF Close, Arrives, call, output, wire, host, kinds
<1>24. CASE ServerCloses
  BY <1>24 DEF ServerCloses, call, output, wire, host, kinds
<1>25. CASE ConnectionLost
  BY <1>25 DEF ConnectionLost, call, output, wire, host, kinds
<1>26. CASE Tick
  BY <1>26 DEF Tick, Overdue, call, output, wire, host, kinds
<1>27. CASE UNCHANGED commandVars
  BY <1>27 DEF commandVars, call, output, wire, host, kinds
<1>28. QED
  BY <1>1, <1>2, <1>3, <1>4, <1>5, <1>6, <1>7, <1>8, <1>9, <1>10, <1>11, <1>12, <1>13, <1>14, <1>15, <1>16, <1>17, <1>18, <1>19, <1>20, <1>21, <1>22, <1>23, <1>24, <1>25, <1>26, <1>27
  DEF CommandNext, Call, CallCancelled, Readers, Wrapper, Link

LEMMA Inductive == CommandSpec => []CommandInv
<1>1. CommandInv /\ [CommandNext]_commandVars => CommandInv'
  BY TypeStep, OutputStep, CallStep, HostStep DEF CommandInv
<1>2. QED
  BY <1>1, CommandInitInv, PTL DEF CommandSpec

(* Type correctness of a command, for every budget, grace and delay.       *)
THEOREM CommandTypeCorrect == CommandSpec => []CommandTypeOK
<1>1. CommandInv => CommandTypeOK
  BY DEF CommandInv
<1>2. QED
  BY <1>1, Inductive, PTL

(* A result is all that the script wrote, within the shared budget         *)
(* (_OutputBudget, _read_bounded).                                         *)
THEOREM Whole == CommandSpec => []ResultWhole
<1>1. CommandInv => ResultWhole
  <2> SUFFICES ASSUME CommandInv, returns = "result" PROVE kept = sent /\ Total(kept) <= Limit
    BY DEF ResultWhole
  <2>1. \A s \in Streams : kept[s] = sent[s]
    BY DEF CommandInv, OutputInv, Tasks
  <2>2. kept = sent
    BY <2>1 DEF CommandInv, CommandTypeOK
  <2>3. QED
    BY <2>2 DEF CommandInv, OutputInv
<1>2. QED
  BY <1>1, Inductive, PTL

(* Whatever is cancelled and however often, a call that returns has no     *)
(* task running and has closed its channel or told the host to (_run,      *)
(* _stop_remote_process).                                                  *)
THEOREM Released == CommandSpec => [](NothingLeft /\ ChannelReleased)
<1>1. CommandInv => NothingLeft
  BY DEF CommandInv, CallInv, NothingLeft
<1>2. CommandInv => ChannelReleased
  BY DEF CommandInv, CallInv, ChannelReleased, Stages
<1>3. QED
  BY <1>1, <1>2, Inductive, PTL

(* Over a prompt link an uninterrupted stop leaves no process of the       *)
(* script: the wrapper is dead only when its group is gone.                *)
THEOREM Killed == CommandSpec => []GroupKilled
<1>1. CommandInv => GroupKilled
  BY DEF CommandInv, HostInv, GroupKilled
<1>2. QED
  BY <1>1, Inductive, PTL

===============================================================================

------------------------------ MODULE Timeline ------------------------------
(***************************************************************************)
(* What the collector promises about the data of one run, whatever happens *)
(* to the connections: the answers recorded for an operation all come from *)
(* one session, the sessions of a run form a chain in which each one       *)
(* matches the one before it, a recorded answer is never replaced, and a   *)
(* report exists only when every operation has been recorded.              *)
(***************************************************************************)
EXTENDS Endpoints, Sequences, Naturals

CONSTANTS
  ItemOps,    \* operations whose failure becomes an error item of the report
  BatchOps,   \* operations whose failure ends the run: samples and endpoints
  Queries     \* the queries of an operation

Ops == ItemOps \cup BatchOps

VARIABLES
  lineage,    \* the sessions the run has worked on, in order
  recorded,   \* the answers of each operation
  verdict     \* "open", "report" or "aborted"

tvars == <<lineage, recorded, verdict>>

Pending == [status |-> "pending", answers |-> {}]
Errored == [status |-> "error",   answers |-> {}]
Data(A) == [status |-> "data",    answers |-> A]

TInit ==
  /\ lineage \in {<<s>> : s \in Session}
  /\ recorded = [o \in Ops |-> Pending]
  /\ verdict = "open"

(* The run moves to another session.                                       *)
Switch ==
  /\ verdict = "open"
  /\ \E s \in Session :
       /\ Matches(lineage[Len(lineage)], s)
       /\ lineage' = Append(lineage, s)
  /\ UNCHANGED <<recorded, verdict>>

(* An operation's answers, each stamped with the session that gave it.     *)
Record(o) ==
  /\ verdict = "open"
  /\ recorded[o] = Pending
  /\ \/ \E A \in SUBSET (Queries \X {Len(lineage)}) :
          recorded' = [recorded EXCEPT ![o] = Data(A)]
     \/ /\ o \in ItemOps
        /\ recorded' = [recorded EXCEPT ![o] = Errored]
  /\ UNCHANGED <<lineage, verdict>>

Report ==
  /\ verdict = "open"
  /\ \A o \in Ops : recorded[o] # Pending
  /\ verdict' = "report"
  /\ UNCHANGED <<lineage, recorded>>

(* The run is given up; under fail_fast the item it stops at is recorded   *)
(* first.                                                                  *)
Abort ==
  /\ verdict = "open"
  /\ verdict' = "aborted"
  /\ \/ UNCHANGED recorded
     \/ \E o \in ItemOps :
          /\ recorded[o] = Pending
          /\ recorded' = [recorded EXCEPT ![o] = Errored]
  /\ UNCHANGED lineage

TNext == Switch \/ (\E o \in Ops : Record(o)) \/ Report \/ Abort

TSpec == TInit /\ [][TNext]_tvars

=============================================================================

------------------------ MODULE SnapshotsMode_proofs ------------------------
(***************************************************************************)
(* The snapshots mode: the invariants of a run (SnapshotRun), for every    *)
(* plan, and of its sampling loop and schedule (SampleWindow), for every   *)
(* window the limits accept, and however late the loop and its batches     *)
(* run.  The two modules share no state and are proved about one after the *)
(* other.                                                                  *)
(***************************************************************************)
EXTENDS SnapshotRun, SampleWindow, TLAPS

-----------------------------------------------------------------------------
(* SnapshotRun.                                                            *)

USE SnapshotRunAssumption

Body == {"once", "start", "spawn", "window", "end", "sampler", "metrics",
         "log", "items", "ddl"}

Window == {"start", "spawn", "window", "end", "sampler", "metrics", "log"}

(* The host side: a provider at work has a sampler that waits for it.      *)
HostInv ==
  /\ \A p \in Providers :
       provider[p] \in {"running", "stopping"} =>
         p \in Selected /\ sampler \in {"running", "cancelling"}
  /\ pc \in {"once", "start", "spawn"} => sampler = "none"
  /\ pc \in {"closeDb", "closeSsh", "closed"} => Settled

(* What is closed, and in which order.                                     *)
TunnelInv ==
  /\ pc \in {"closeSsh", "closed"} => ~connOpen
  /\ plan.mode = "remote" /\ pc # "closed" => ssh = "open"

(* What the body has collected when it gets to a phase.                    *)
PhaseInv ==
  /\ pc \in Body => outcome = "none"
  /\ pc = "once" => done \subseteq plan.once
  /\ pc \in Window => done = plan.once
  /\ pc = "items" => plan.once \subseteq done /\ done \subseteq plan.once \cup plan.logs
  /\ pc = "ddl" => done = plan.once \cup plan.logs
  /\ pc \in {"start", "end"} => plan.ends
  /\ pc \in {"once", "start"} => endpoints = 0
  /\ pc \in {"spawn", "window", "end"} => endpoints = (IF plan.ends THEN 1 ELSE 0)
  /\ pc \in {"sampler", "metrics", "log", "items", "ddl"}
       => endpoints = (IF plan.ends THEN 2 ELSE 0)
  /\ pc \in {"once", "start", "spawn"} => point = 0 /\ taken = 0
  /\ point > 0 => taken > 0
  /\ pc \in {"end", "sampler", "metrics", "log", "items", "ddl"} /\ plan.charts
       => point = Points
  /\ pc \in {"window", "end", "sampler"} /\ plan.outputs # {} => sampler # "none"
  /\ pc \in {"metrics", "log", "items", "ddl"} =>
       /\ \A o \in plan.outputs : collected[o] # {}
       /\ sampler \in {"none", "done"}

Accounted ==
  /\ ReportAccounts
  /\ outcome = "report" => sampler \in {"none", "done"}

IInv == TypeOK /\ HostInv /\ TunnelInv /\ PhaseInv /\ Accounted

-----------------------------------------------------------------------------

LEMMA InitIInv == Init => IInv
<1> SUFFICES ASSUME Init PROVE IInv
  OBVIOUS
<1>1. TypeOK
  BY DEF Init, TypeOK, Plans, Modes, Connected, NoResult, Results
<1>2. HostInv
  BY DEF Init, HostInv
<1>3. TunnelInv
  BY DEF Init, TunnelInv
<1>4. PhaseInv /\ Accounted
  BY DEF Init, PhaseInv, Accounted, ReportAccounts, Body, Window
<1>5. QED
  BY <1>1, <1>2, <1>3, <1>4 DEF IInv

(* What an operation under the reconnect controller leaves behind.         *)
LEMMA StaysOrMoves ==
  ASSUME TypeOK, Moves \/ UNCHANGED session
  PROVE  session' \in 0 .. MaxSessions
<1>1. CASE Moves
  BY <1>1 DEF TypeOK, Moves
<1>2. CASE UNCHANGED session
  BY <1>2 DEF TypeOK
<1>3. QED
  BY <1>1, <1>2

LEMMA ReturnsType ==
  ASSUME TypeOK, Returns
  PROVE  session' \in 0 .. MaxSessions /\ connOpen' \in BOOLEAN
BY DEF TypeOK, Returns, Moves

LEMMA RaisesType ==
  ASSUME TypeOK, Raises
  PROVE  /\ session' \in 0 .. MaxSessions /\ connOpen' \in BOOLEAN
         /\ pc' = "drain"
         /\ outcome' \in {"unavailable", "identity", "raised"}
<1>1. PICK how \in {"unavailable", "identity", "raised"} : Unwind(how)
  BY DEF Raises
<1>2. pc' = "drain" /\ outcome' \in {"unavailable", "identity", "raised"}
  BY <1>1 DEF Unwind
<1>3. CASE connOpen' = FALSE /\ (Moves \/ UNCHANGED session)
  <2>1. session' \in 0 .. MaxSessions
    BY <1>3, StaysOrMoves
  <2>2. QED
    BY <1>2, <1>3, <2>1
<1>4. CASE UNCHANGED conns
  BY <1>2, <1>4 DEF TypeOK, conns
<1>5. QED
  BY <1>3, <1>4 DEF Raises

(* Every step keeps the types.                                             *)
LEMMA TypeStep == IInv /\ [Next]_vars => TypeOK'
<1> SUFFICES ASSUME IInv, [Next]_vars PROVE TypeOK'
  OBVIOUS
<1> USE DEF IInv
<1>1. CASE Item("once", plan.once)
  <2>1. PICK i \in plan.once \ done :
          \/ /\ \/ Returns
                \/ connOpen' = FALSE /\ (Moves \/ UNCHANGED session)
             /\ done' = done \cup {i}
             /\ UNCHANGED <<pc, outcome>>
          \/ Raises /\ UNCHANGED done
    BY <1>1 DEF Item
  <2>2. i \in OnceItems \cup LogItems
    BY DEF TypeOK, Plans
  <2>3. done' \in SUBSET (OnceItems \cup LogItems)
    BY <2>1, <2>2 DEF TypeOK
  <2>4. /\ session' \in 0 .. MaxSessions /\ connOpen' \in BOOLEAN
        /\ pc' \in {"once", "drain"}
        /\ outcome' \in {outcome, "unavailable", "identity", "raised"}
    <3>1. CASE Raises
      BY <1>1, <3>1, RaisesType DEF Item, TypeOK
    <3>2. CASE Returns /\ UNCHANGED <<pc, outcome>>
      BY <1>1, <3>2, ReturnsType DEF Item, TypeOK
    <3>3. CASE /\ connOpen' = FALSE /\ (Moves \/ UNCHANGED session)
               /\ UNCHANGED <<pc, outcome>>
      BY <1>1, <3>3, StaysOrMoves DEF Item, TypeOK
    <3>4. QED
      BY <2>1, <3>1, <3>2, <3>3
  <2>5. QED
    BY <1>1, <2>3, <2>4 DEF Item, TypeOK, host
<1>2. CASE Item("items", plan.logs)
  <2>1. PICK i \in plan.logs \ done :
          \/ /\ \/ Returns
                \/ connOpen' = FALSE /\ (Moves \/ UNCHANGED session)
             /\ done' = done \cup {i}
             /\ UNCHANGED <<pc, outcome>>
          \/ Raises /\ UNCHANGED done
    BY <1>2 DEF Item
  <2>2. i \in OnceItems \cup LogItems
    BY DEF TypeOK, Plans
  <2>3. done' \in SUBSET (OnceItems \cup LogItems)
    BY <2>1, <2>2 DEF TypeOK
  <2>4. /\ session' \in 0 .. MaxSessions /\ connOpen' \in BOOLEAN
        /\ pc' \in {"items", "drain"}
        /\ outcome' \in {outcome, "unavailable", "identity", "raised"}
    <3>1. CASE Raises
      BY <1>2, <3>1, RaisesType DEF Item, TypeOK
    <3>2. CASE Returns /\ UNCHANGED <<pc, outcome>>
      BY <1>2, <3>2, ReturnsType DEF Item, TypeOK
    <3>3. CASE /\ connOpen' = FALSE /\ (Moves \/ UNCHANGED session)
               /\ UNCHANGED <<pc, outcome>>
      BY <1>2, <3>3, StaysOrMoves DEF Item, TypeOK
    <3>4. QED
      BY <2>1, <3>1, <3>2, <3>3
  <2>5. QED
    BY <1>2, <2>3, <2>4 DEF Item, TypeOK, host
<1>3. CASE Endpoint("start", "spawn")
  <2>1. /\ session' \in 0 .. MaxSessions /\ connOpen' \in BOOLEAN
        /\ pc' \in {"spawn", "drain"} /\ endpoints' \in 0 .. 2
        /\ outcome' \in {outcome, "unavailable", "identity", "raised"}
    <3>1. CASE Raises
      BY <1>3, <3>1, RaisesType DEF Endpoint, TypeOK
    <3>2. CASE ~Raises
      BY <1>3, <3>2, ReturnsType DEF Endpoint, TypeOK, PhaseInv
    <3>3. QED
      BY <3>1, <3>2
  <2>2. QED
    BY <1>3, <2>1 DEF Endpoint, TypeOK, host
<1>4. CASE Endpoint("end", "sampler")
  <2>1. /\ session' \in 0 .. MaxSessions /\ connOpen' \in BOOLEAN
        /\ pc' \in {"sampler", "drain"} /\ endpoints' \in 0 .. 2
        /\ outcome' \in {outcome, "unavailable", "identity", "raised"}
    <3>1. CASE Raises
      BY <1>4, <3>1, RaisesType DEF Endpoint, TypeOK
    <3>2. CASE ~Raises
      BY <1>4, <3>2, ReturnsType DEF Endpoint, TypeOK, PhaseInv
    <3>3. QED
      BY <3>1, <3>2
  <2>2. QED
    BY <1>4, <2>1 DEF Endpoint, TypeOK, host
<1>5. CASE OnceDone
  BY <1>5 DEF OnceDone, TypeOK, main, conns, host
<1>6. CASE Spawn
  BY <1>6 DEF Spawn, TypeOK, main, conns
<1>7. CASE Sample
  <2>1. /\ session' \in 0 .. MaxSessions /\ connOpen' \in BOOLEAN
        /\ pc' \in {"window", "drain"}
        /\ outcome' \in {outcome, "unavailable", "identity", "raised", "interface"}
    <3>1. CASE plan.charts /\ Raises
      BY <1>7, <3>1, RaisesType DEF Sample
    <3>2. CASE plan.charts /\ ~Raises
      BY <1>7, <3>2, ReturnsType DEF Sample
    <3>3. CASE ~plan.charts
      BY <1>7, <3>3 DEF Sample, Unwind, TypeOK, conns
    <3>4. QED
      BY <3>1, <3>2, <3>3
  <2>2. point' \in 0 .. Points /\ taken' \in 0 .. point'
    BY <1>7 DEF Sample, TypeOK
  <2>3. QED
    BY <1>7, <2>1, <2>2 DEF Sample, TypeOK, host
<1>8. CASE SkipPoint
  BY <1>8 DEF SkipPoint, TypeOK, conns, host
<1>9. CASE WindowDone
  BY <1>9 DEF WindowDone, TypeOK, main, conns, host
<1>10. CASE AwaitSampler
  BY <1>10 DEF AwaitSampler, TypeOK, Collected, main, conns, host
<1>11. CASE AwaitCancelled
  BY <1>11 DEF AwaitCancelled, TypeOK, Unwind, main, conns, host
<1>12. CASE Metrics
  BY <1>12 DEF Metrics, TypeOK, Unwind, main, conns, host
<1>13. CASE ServerLog
  BY <1>13 DEF ServerLog, TypeOK, Unwind, main, conns, host
<1>14. CASE ItemsDone
  BY <1>14 DEF ItemsDone, TypeOK, main, conns, host
<1>15. CASE Finish
  BY <1>15 DEF Finish, TypeOK, Unwind, main, conns, host
<1>16. CASE Drained
  BY <1>16 DEF Drained, TypeOK, Settled, main, conns, host
<1>17. CASE DrainExpires
  BY <1>17 DEF DrainExpires, TypeOK, Settled, CancelSampler, main, conns
<1>18. CASE CloseDb
  BY <1>18 DEF CloseDb, TypeOK, main, host
<1>19. CASE CloseSsh
  BY <1>19 DEF CloseSsh, TypeOK, main, conns, host
<1>20. CASE SamplerStarts
  BY <1>20 DEF SamplerStarts, TypeOK, Selected, main, conns
<1>21. CASE SamplerEnds
  BY <1>21 DEF SamplerEnds, TypeOK, Selected, main, conns
<1>22. CASE \E p \in Providers : ProviderEnds(p)
  <2>1. PICK p \in Providers : ProviderEnds(p)
    BY <1>22
  <2>2. provider' \in [Providers -> {"idle", "running", "stopping", "ended"}]
    BY <2>1 DEF ProviderEnds, TypeOK
  <2>3. PICK r \in Results : result' = [result EXCEPT ![p] = r]
    <3>1. CASE \E S, E \in SUBSET {o \in Outputs : ProviderOf[o] = p} :
                 result' = [result EXCEPT ![p] =
                              [raised |-> FALSE, samples |-> S, errors |-> E]]
      BY <3>1 DEF Results
    <3>2. CASE result' = [result EXCEPT ![p] = [NoResult EXCEPT !.raised = TRUE]]
      <4>1. [NoResult EXCEPT !.raised = TRUE] \in Results
        BY DEF NoResult, Results
      <4>2. QED
        BY <3>2, <4>1
    <3>3. QED
      BY <2>1, <3>1, <3>2 DEF ProviderEnds
  <2>4. result' \in [Providers -> Results]
    BY <2>3 DEF TypeOK
  <2>5. QED
    BY <2>1, <2>2, <2>4 DEF ProviderEnds, TypeOK, main, conns
<1>23. CASE SessionLost
  <2>1. connOpen' \in BOOLEAN
    BY <1>23 DEF SessionLost
  <2>2. UNCHANGED <<plan, pc, outcome, done, endpoints, point, taken, session,
                    sampler, provider, result, collected, ssh>>
    BY <1>23 DEF SessionLost, main, host
  <2>3. QED
    BY <2>1, <2>2 DEF TypeOK
<1>24. CASE CancelBody
  BY <1>24 DEF CancelBody, TypeOK, Settled, Unwind, main, conns, host
<1>25. CASE CancelAwait
  BY <1>25 DEF CancelAwait, TypeOK, Settled, CancelSampler, main, conns
<1>26. CASE CancelClose
  BY <1>26 DEF CancelClose, TypeOK, main, host
<1>27. CASE UNCHANGED vars
  BY <1>27 DEF vars, main, host, conns, TypeOK
<1>28. QED
  BY <1>1, <1>2, <1>3, <1>4, <1>5, <1>6, <1>7, <1>8, <1>9, <1>10, <1>11,
     <1>12, <1>13, <1>14, <1>15, <1>16, <1>17, <1>18, <1>19, <1>20, <1>21,
     <1>22, <1>23, <1>24, <1>25, <1>26, <1>27 DEF Next, Main, Sampler, Cancel

(* Every step leaves providers at work only under a sampler that waits.    *)
LEMMA HostStep == IInv /\ [Next]_vars => HostInv'
<1> SUFFICES ASSUME IInv, [Next]_vars PROVE HostInv'
  OBVIOUS
<1> USE DEF IInv
<1>1. CASE Item("once", plan.once)
  BY <1>1 DEF Item, HostInv, TypeOK, Returns, Moves, Raises, Unwind, conns,
     host, Settled, Selected
<1>2. CASE Item("items", plan.logs)
  BY <1>2 DEF Item, HostInv, TypeOK, Returns, Moves, Raises, Unwind, conns,
     host, Settled, Selected
<1>3. CASE Endpoint("start", "spawn")
  BY <1>3 DEF Endpoint, HostInv, TypeOK, Returns, Moves, Raises, Unwind,
     conns, host, Settled, Selected
<1>4. CASE Endpoint("end", "sampler")
  BY <1>4 DEF Endpoint, HostInv, TypeOK, Returns, Moves, Raises, Unwind,
     conns, host, Settled, Selected
<1>5. CASE OnceDone
  BY <1>5 DEF OnceDone, HostInv, TypeOK, main, conns, host, Settled, Selected
<1>6. CASE Spawn
  BY <1>6 DEF Spawn, HostInv, TypeOK, main, conns, Settled, Selected
<1>7. CASE Sample
  BY <1>7 DEF Sample, HostInv, TypeOK, Returns, Moves, Captured, Connected,
     conns, Raises, Unwind, host, Settled, Selected
<1>8. CASE SkipPoint
  BY <1>8 DEF SkipPoint, HostInv, TypeOK, conns, host, Settled, Selected
<1>9. CASE WindowDone
  BY <1>9 DEF WindowDone, HostInv, TypeOK, main, conns, host, Settled,
     Selected
<1>10. CASE AwaitSampler
  BY <1>10 DEF AwaitSampler, HostInv, TypeOK, Collected, main, conns, host,
     Settled, Selected
<1>11. CASE AwaitCancelled
  BY <1>11 DEF AwaitCancelled, HostInv, TypeOK, Unwind, main, conns, host,
     Settled, Selected
<1>12. CASE Metrics
  BY <1>12 DEF Metrics, HostInv, TypeOK, Unwind, main, conns, host, Settled,
     Selected
<1>13. CASE ServerLog
  BY <1>13 DEF ServerLog, HostInv, TypeOK, Unwind, main, conns, host, Settled,
     Selected
<1>14. CASE ItemsDone
  BY <1>14 DEF ItemsDone, HostInv, TypeOK, main, conns, host, Settled,
     Selected
<1>15. CASE Finish
  BY <1>15 DEF Finish, HostInv, TypeOK, Unwind, main, conns, host, Settled,
     Selected
<1>16. CASE Drained
  BY <1>16 DEF Drained, HostInv, TypeOK, Settled, main, conns, host, Selected
<1>17. CASE DrainExpires
  BY <1>17 DEF DrainExpires, HostInv, TypeOK, Settled, CancelSampler, main,
     conns, Selected
<1>18. CASE CloseDb
  BY <1>18 DEF CloseDb, HostInv, TypeOK, main, host, Settled, Selected
<1>19. CASE CloseSsh
  BY <1>19 DEF CloseSsh, HostInv, TypeOK, main, conns, host, Settled, Selected
<1>20. CASE SamplerStarts
  BY <1>20 DEF SamplerStarts, HostInv, TypeOK, Selected, main, conns, Settled
<1>21. CASE SamplerEnds
  BY <1>21 DEF SamplerEnds, HostInv, TypeOK, Selected, main, conns, Settled
<1>22. CASE \E p \in Providers : ProviderEnds(p)
  BY <1>22 DEF ProviderEnds, HostInv, TypeOK, NoResult, main, conns, Settled,
     Selected
<1>23. CASE SessionLost
  BY <1>23 DEF SessionLost, HostInv, TypeOK, main, host, Settled, Selected
<1>24. CASE CancelBody
  BY <1>24 DEF CancelBody, HostInv, TypeOK, Settled, Unwind, main, conns,
     host, Selected
<1>25. CASE CancelAwait
  BY <1>25 DEF CancelAwait, HostInv, TypeOK, Settled, CancelSampler, main,
     conns, Selected
<1>26. CASE CancelClose
  BY <1>26 DEF CancelClose, HostInv, TypeOK, main, host, Settled, Selected
<1>27. CASE UNCHANGED vars
  BY <1>27 DEF vars, main, host, conns, HostInv, TypeOK, Settled, Selected
<1>28. QED
  BY <1>1, <1>2, <1>3, <1>4, <1>5, <1>6, <1>7, <1>8, <1>9, <1>10, <1>11,
     <1>12, <1>13, <1>14, <1>15, <1>16, <1>17, <1>18, <1>19, <1>20, <1>21,
     <1>22, <1>23, <1>24, <1>25, <1>26, <1>27 DEF Next, Main, Sampler, Cancel

(* Every step closes the session before the transport.                     *)
LEMMA TunnelStep == IInv /\ [Next]_vars => TunnelInv'
<1> SUFFICES ASSUME IInv, [Next]_vars PROVE TunnelInv'
  OBVIOUS
<1> USE DEF IInv
<1>1. CASE Item("once", plan.once)
  BY <1>1 DEF Item, TunnelInv, TypeOK, Returns, Moves, Raises, Unwind, conns,
     host
<1>2. CASE Item("items", plan.logs)
  BY <1>2 DEF Item, TunnelInv, TypeOK, Returns, Moves, Raises, Unwind, conns,
     host
<1>3. CASE Endpoint("start", "spawn")
  BY <1>3 DEF Endpoint, TunnelInv, TypeOK, Returns, Moves, Raises, Unwind,
     conns, host
<1>4. CASE Endpoint("end", "sampler")
  BY <1>4 DEF Endpoint, TunnelInv, TypeOK, Returns, Moves, Raises, Unwind,
     conns, host
<1>5. CASE OnceDone
  BY <1>5 DEF OnceDone, TunnelInv, TypeOK, main, conns, host
<1>6. CASE Spawn
  BY <1>6 DEF Spawn, TunnelInv, TypeOK, main, conns
<1>7. CASE Sample
  BY <1>7 DEF Sample, TunnelInv, TypeOK, Returns, Moves, Captured, Connected,
     conns, Raises, Unwind, host
<1>8. CASE SkipPoint
  BY <1>8 DEF SkipPoint, TunnelInv, TypeOK, conns, host
<1>9. CASE WindowDone
  BY <1>9 DEF WindowDone, TunnelInv, TypeOK, main, conns, host
<1>10. CASE AwaitSampler
  BY <1>10 DEF AwaitSampler, TunnelInv, TypeOK, Collected, main, conns, host
<1>11. CASE AwaitCancelled
  BY <1>11 DEF AwaitCancelled, TunnelInv, TypeOK, Unwind, main, conns, host
<1>12. CASE Metrics
  BY <1>12 DEF Metrics, TunnelInv, TypeOK, Unwind, main, conns, host
<1>13. CASE ServerLog
  BY <1>13 DEF ServerLog, TunnelInv, TypeOK, Unwind, main, conns, host
<1>14. CASE ItemsDone
  BY <1>14 DEF ItemsDone, TunnelInv, TypeOK, main, conns, host
<1>15. CASE Finish
  BY <1>15 DEF Finish, TunnelInv, TypeOK, Unwind, main, conns, host
<1>16. CASE Drained
  BY <1>16 DEF Drained, TunnelInv, TypeOK, Settled, main, conns, host
<1>17. CASE DrainExpires
  BY <1>17 DEF DrainExpires, TunnelInv, TypeOK, Settled, CancelSampler, main,
     conns
<1>18. CASE CloseDb
  BY <1>18 DEF CloseDb, TunnelInv, TypeOK, main, host
<1>19. CASE CloseSsh
  BY <1>19 DEF CloseSsh, TunnelInv, TypeOK, main, conns, host
<1>20. CASE SamplerStarts
  BY <1>20 DEF SamplerStarts, TunnelInv, TypeOK, Selected, main, conns
<1>21. CASE SamplerEnds
  BY <1>21 DEF SamplerEnds, TunnelInv, TypeOK, Selected, main, conns
<1>22. CASE \E p \in Providers : ProviderEnds(p)
  BY <1>22 DEF ProviderEnds, TunnelInv, TypeOK, NoResult, main, conns
<1>23. CASE SessionLost
  BY <1>23 DEF SessionLost, TunnelInv, TypeOK, main, host
<1>24. CASE CancelBody
  BY <1>24 DEF CancelBody, TunnelInv, TypeOK, Settled, Unwind, main, conns,
     host
<1>25. CASE CancelAwait
  BY <1>25 DEF CancelAwait, TunnelInv, TypeOK, Settled, CancelSampler, main,
     conns
<1>26. CASE CancelClose
  BY <1>26 DEF CancelClose, TunnelInv, TypeOK, main, host
<1>27. CASE UNCHANGED vars
  BY <1>27 DEF vars, main, host, conns, TunnelInv, TypeOK
<1>28. QED
  BY <1>1, <1>2, <1>3, <1>4, <1>5, <1>6, <1>7, <1>8, <1>9, <1>10, <1>11,
     <1>12, <1>13, <1>14, <1>15, <1>16, <1>17, <1>18, <1>19, <1>20, <1>21,
     <1>22, <1>23, <1>24, <1>25, <1>26, <1>27 DEF Next, Main, Sampler, Cancel

(* Every step passes a phase with what the phase is to collect.            *)
LEMMA PhaseStep == IInv /\ [Next]_vars => PhaseInv' /\ Accounted'
<1> SUFFICES ASSUME IInv, [Next]_vars PROVE PhaseInv' /\ Accounted'
  OBVIOUS
<1> USE DEF IInv
<1>1. CASE Item("once", plan.once)
  BY <1>1 DEF Item, PhaseInv, Accounted, ReportAccounts, TypeOK, Body, Window,
     HostInv, Returns, Moves, Raises, Unwind, conns, host, Settled
<1>2. CASE Item("items", plan.logs)
  BY <1>2 DEF Item, PhaseInv, Accounted, ReportAccounts, TypeOK, Body, Window,
     HostInv, Returns, Moves, Raises, Unwind, conns, host, Settled
<1>3. CASE Endpoint("start", "spawn")
  BY <1>3 DEF Endpoint, PhaseInv, Accounted, ReportAccounts, TypeOK, Body,
     Window, HostInv, Returns, Moves, Raises, Unwind, conns, host, Settled
<1>4. CASE Endpoint("end", "sampler")
  BY <1>4 DEF Endpoint, PhaseInv, Accounted, ReportAccounts, TypeOK, Body,
     Window, HostInv, Returns, Moves, Raises, Unwind, conns, host, Settled
<1>5. CASE OnceDone
  BY <1>5 DEF OnceDone, PhaseInv, Accounted, ReportAccounts, TypeOK, Body,
     Window, HostInv, main, conns, host, Settled
<1>6. CASE Spawn
  BY <1>6 DEF Spawn, PhaseInv, Accounted, ReportAccounts, TypeOK, Body,
     Window, HostInv, main, conns, Settled
<1>7. CASE Sample
  BY <1>7 DEF Sample, PhaseInv, Accounted, ReportAccounts, TypeOK, Body,
     Window, HostInv, Returns, Moves, Captured, Connected, conns, Raises,
     Unwind, host, Settled
<1>8. CASE SkipPoint
  BY <1>8 DEF SkipPoint, PhaseInv, Accounted, ReportAccounts, TypeOK, Body,
     Window, HostInv, conns, host, Settled
<1>9. CASE WindowDone
  BY <1>9 DEF WindowDone, PhaseInv, Accounted, ReportAccounts, TypeOK, Body,
     Window, HostInv, main, conns, host, Settled
<1>10. CASE AwaitSampler
  <2>1. ASSUME NEW o \in plan.outputs PROVE collected'[o] # {}
    <3>1. o \in Outputs /\ sampler = "done"
      BY <1>10 DEF AwaitSampler, TypeOK, Plans, PhaseInv
    <3>2. collected'[o] = Collected(o)
      BY <1>10, <3>1 DEF AwaitSampler
    <3>3. Collected(o) # {}
      BY DEF Collected
    <3>4. QED
      BY <3>2, <3>3
  <2>2. QED
    BY <1>10, <2>1 DEF AwaitSampler, PhaseInv, Accounted, ReportAccounts, TypeOK,
       Body, Window, main, conns, host
<1>11. CASE AwaitCancelled
  BY <1>11 DEF AwaitCancelled, PhaseInv, Accounted, ReportAccounts, TypeOK,
     Body, Window, HostInv, Unwind, main, conns, host, Settled
<1>12. CASE Metrics
  BY <1>12 DEF Metrics, PhaseInv, Accounted, ReportAccounts, TypeOK, Body,
     Window, HostInv, Unwind, main, conns, host, Settled
<1>13. CASE ServerLog
  BY <1>13 DEF ServerLog, PhaseInv, Accounted, ReportAccounts, TypeOK, Body,
     Window, HostInv, Unwind, main, conns, host, Settled
<1>14. CASE ItemsDone
  BY <1>14 DEF ItemsDone, PhaseInv, Accounted, ReportAccounts, TypeOK, Body,
     Window, HostInv, main, conns, host, Settled
<1>15. CASE Finish
  BY <1>15 DEF Finish, PhaseInv, Accounted, ReportAccounts, TypeOK, Body,
     Window, HostInv, Unwind, main, conns, host, Settled
<1>16. CASE Drained
  BY <1>16 DEF Drained, PhaseInv, Accounted, ReportAccounts, TypeOK, Body,
     Window, HostInv, Settled, main, conns, host
<1>17. CASE DrainExpires
  BY <1>17 DEF DrainExpires, PhaseInv, Accounted, ReportAccounts, TypeOK,
     Body, Window, HostInv, Settled, CancelSampler, main, conns
<1>18. CASE CloseDb
  BY <1>18 DEF CloseDb, PhaseInv, Accounted, ReportAccounts, TypeOK, Body,
     Window, HostInv, main, host, Settled
<1>19. CASE CloseSsh
  BY <1>19 DEF CloseSsh, PhaseInv, Accounted, ReportAccounts, TypeOK, Body,
     Window, HostInv, main, conns, host, Settled
<1>20. CASE SamplerStarts
  BY <1>20 DEF SamplerStarts, PhaseInv, Accounted, ReportAccounts, TypeOK,
     Body, Window, HostInv, Selected, main, conns, Settled
<1>21. CASE SamplerEnds
  BY <1>21 DEF SamplerEnds, PhaseInv, Accounted, ReportAccounts, TypeOK, Body,
     Window, HostInv, Selected, main, conns, Settled
<1>22. CASE \E p \in Providers : ProviderEnds(p)
  BY <1>22 DEF ProviderEnds, PhaseInv, Accounted, ReportAccounts, TypeOK,
     Body, Window, HostInv, NoResult, main, conns, Settled
<1>23. CASE SessionLost
  BY <1>23 DEF SessionLost, PhaseInv, Accounted, ReportAccounts, TypeOK, Body,
     Window, HostInv, main, host, Settled
<1>24. CASE CancelBody
  BY <1>24 DEF CancelBody, PhaseInv, Accounted, ReportAccounts, TypeOK, Body,
     Window, HostInv, Settled, Unwind, main, conns, host
<1>25. CASE CancelAwait
  BY <1>25 DEF CancelAwait, PhaseInv, Accounted, ReportAccounts, TypeOK, Body,
     Window, HostInv, Settled, CancelSampler, main, conns
<1>26. CASE CancelClose
  BY <1>26 DEF CancelClose, PhaseInv, Accounted, ReportAccounts, TypeOK, Body,
     Window, HostInv, main, host, Settled
<1>27. CASE UNCHANGED vars
  BY <1>27 DEF vars, main, host, conns, PhaseInv, Accounted, ReportAccounts,
     TypeOK, Body, Window, HostInv
<1>28. QED
  BY <1>1, <1>2, <1>3, <1>4, <1>5, <1>6, <1>7, <1>8, <1>9, <1>10, <1>11,
     <1>12, <1>13, <1>14, <1>15, <1>16, <1>17, <1>18, <1>19, <1>20, <1>21,
     <1>22, <1>23, <1>24, <1>25, <1>26, <1>27 DEF Next, Main, Sampler, Cancel

THEOREM Invariance == Spec => []IInv
<1>1. IInv /\ [Next]_vars => IInv'
  BY TypeStep, HostStep, TunnelStep, PhaseStep DEF IInv
<1>2. QED
  BY <1>1, InitIInv, PTL DEF Spec

(* Every variable keeps its type, for any number of providers and points.  *)
THEOREM TypeCorrect == Spec => []TypeOK
<1>1. IInv => TypeOK
  BY DEF IInv
<1>2. QED
  BY <1>1, Invariance, PTL

(* No provider is at work when close_collection begins or afterwards,      *)
(* whatever was cancelled and whenever.                                    *)
THEOREM Reaped == Spec => []SamplersReaped
<1>1. IInv => SamplersReaped
  BY DEF IInv, HostInv, SamplersReaped, Settled
<1>2. QED
  BY <1>1, Invariance, PTL

(* The session never outlives the tunnel it runs through.                  *)
THEOREM InsideTunnel == Spec => []SessionInsideTunnel
<1>1. IInv => SessionInsideTunnel
  BY DEF IInv, TunnelInv, SessionInsideTunnel
<1>2. QED
  BY <1>1, Invariance, PTL

(* Every report accounts for all that its plan asked for.                  *)
THEOREM Accounts == Spec => []ReportAccounts
<1>1. IInv => ReportAccounts
  BY DEF IInv, Accounted
<1>2. QED
  BY <1>1, Invariance, PTL

HIDE SnapshotRunAssumption

-----------------------------------------------------------------------------
(* SampleWindow.                                                           *)

USE ScheduleAssumption, SampleWindowAssumption

(* Division, in the form the arithmetic below needs.                       *)
LEMMA Division ==
  ASSUME NEW a \in Nat, NEW b \in Nat \ {0}
  PROVE  /\ a \div b \in Nat
         /\ (a \div b) * b <= a
         /\ a < (a \div b + 1) * b
OBVIOUS

LEMMA Multiples ==
  ASSUME NEW a \in Nat, NEW b \in Nat, NEW i \in Nat \ {0}, a < b
  PROVE  a * i + i <= b * i
OBVIOUS

(* The schedule, point by point.                                           *)
LEMMA OffsetsAre ==
  ASSUME NEW d \in Nat, NEW i \in Nat \ {0}
  PROVE  /\ Offsets(d, i) \in Seq(Nat)
         /\ Len(Offsets(d, i)) = d \div i + (IF (d \div i) * i = d THEN 1 ELSE 2)
         /\ \A k \in 0 .. Len(Offsets(d, i)) - 1 :
              Offsets(d, i)[k + 1] = IF k <= d \div i THEN k * i ELSE d
<1> DEFINE n == d \div i
           regular == [k \in 1 .. n + 1 |-> (k - 1) * i]
<1>1. n \in Nat
  BY Division
<1>2. regular \in Seq(Nat) /\ Len(regular) = n + 1
      /\ \A k \in 0 .. n : regular[k + 1] = k * i
  BY <1>1
<1>3. CASE n * i = d
  <2>1. Offsets(d, i) = regular
    BY <1>3 DEF Offsets
  <2>2. QED
    BY <2>1, <1>1, <1>2, <1>3
<1>4. CASE n * i # d
  <2>1. Offsets(d, i) = Append(regular, d)
    BY <1>4 DEF Offsets
  <2> HIDE DEF regular, n
  <2>2. /\ Append(regular, d) \in Seq(Nat)
        /\ Len(Append(regular, d)) = n + 2
        /\ \A k \in 0 .. n : Append(regular, d)[k + 1] = k * i
        /\ Append(regular, d)[n + 2] = d
    BY <1>1, <1>2
  <2>3. Len(Offsets(d, i)) = n + 2
    BY <2>1, <2>2
  <2>4. ASSUME NEW k \in 0 .. n + 1
        PROVE  Offsets(d, i)[k + 1] = IF k <= n THEN k * i ELSE d
    <3>1. CASE k <= n
      BY <2>1, <2>2, <1>1, <3>1
    <3>2. CASE k = n + 1
      BY <2>1, <2>2, <1>1, <3>2
    <3>3. QED
      BY <3>1, <3>2, <1>1
  <2>5. Len(Offsets(d, i)) - 1 = n + 1
    BY <2>3, <1>1
  <2>6. QED
    BY <2>1, <2>2, <2>3, <2>4, <2>5, <1>4 DEF n
<1>5. QED
  BY <1>3, <1>4

(* A point that is a multiple of the interval inside the window is due at  *)
(* that multiple; the one that is not is due at its end.                   *)
LEMMA TargetIs ==
  ASSUME NEW d \in Nat, NEW i \in Nat \ {0},
         NEW k \in 0 .. Len(Offsets(d, i)) - 1
  PROVE  /\ k * i <= d => Offsets(d, i)[k + 1] = k * i
         /\ k * i > d  => Offsets(d, i)[k + 1] = d
         /\ Offsets(d, i)[k + 1] <= d
<1>1. Offsets(d, i)[k + 1] = IF k <= d \div i THEN k * i ELSE d
  BY OffsetsAre
<1>2. k \in Nat /\ d \div i \in Nat
  BY Division, OffsetsAre
<1>3. k <= d \div i => k * i <= d
  <2> SUFFICES ASSUME k <= d \div i PROVE k * i <= d
    OBVIOUS
  <2>1. k * i <= (d \div i) * i
    BY <1>2
  <2>2. QED
    BY <2>1, <1>2, Division
<1>4. k > d \div i => k * i > d
  <2> SUFFICES ASSUME k > d \div i PROVE k * i > d
    OBVIOUS
  <2>1. (d \div i + 1) * i <= k * i
    BY <1>2
  <2>2. QED
    BY <2>1, <1>2, Division
<1>5. QED
  BY <1>1, <1>2, <1>3, <1>4

-----------------------------------------------------------------------------

(* validate_snapshots_window: more points than MaxCount exactly when the   *)
(* interval does not divide the window into MaxCount - 1 parts or fewer.   *)
LEMMA CountLimit ==
  ASSUME NEW d \in Nat \ {0}, NEW i \in Nat \ {0}
  PROVE  SampleCount(d, i) <= MaxCount <=> d <= (MaxCount - 1) * i
<1> DEFINE n == d \div i
           m == MaxCount - 1
<1>1. n \in Nat /\ n * i <= d /\ d < (n + 1) * i /\ m \in Nat \ {0}
  BY Division
<1>2. SampleCount(d, i) = n + (IF n * i = d THEN 1 ELSE 2)
  BY OffsetsAre DEF SampleCount
<1> HIDE DEF n, m
<1>3. CASE n < m
  <2>1. n * i + i <= m * i
    BY <1>1, <1>3, Multiples
  <2>2. d <= m * i
    BY <1>1, <2>1
  <2>3. QED
    BY <1>1, <1>2, <1>3, <2>2 DEF m
<1>4. CASE n = m
  BY <1>1, <1>2, <1>4 DEF m
<1>5. CASE n > m
  <2>1. m * i + i <= n * i
    BY <1>1, <1>5, Multiples
  <2>2. d > m * i
    BY <1>1, <2>1
  <2>3. QED
    BY <1>1, <1>2, <1>5, <2>2 DEF m
<1>6. QED
  BY <1>1, <1>3, <1>4, <1>5

LEMMA Ceiling ==
  ASSUME NEW d \in Nat \ {0}, NEW m \in Nat \ {0}
  PROVE  /\ CeilDiv(d, m) \in Nat \ {0}
         /\ d <= m * CeilDiv(d, m)
         /\ \A i \in Nat : i < CeilDiv(d, m) => m * i < d
<1> DEFINE c == CeilDiv(d, m)
<1>1. /\ c \in Nat /\ c * m <= d + m - 1 /\ d + m - 1 < (c + 1) * m
  <2>1. d + m - 1 \in Nat
    OBVIOUS
  <2>2. QED
    BY <2>1, Division DEF CeilDiv
<1> HIDE DEF c
<1>2. d <= m * c /\ c # 0
  BY <1>1
<1>3. ASSUME NEW i \in Nat, i < c PROVE m * i < d
  <2>1. i * m + m <= c * m
    BY <1>1, <1>3, Multiples
  <2>2. QED
    BY <1>1, <2>1
<1>4. QED
  BY <1>1, <1>2, <1>3 DEF c

(* min_interval_for_snapshot_limit is right: with the suggested interval   *)
(* the window has at most MaxCount points, with any smaller one more.      *)
THEOREM AdviceSound ==
  ASSUME NEW d \in Nat \ {0}
  PROVE  LET advised == SuggestedInterval(d) IN
           /\ SampleCount(d, advised) <= MaxCount
           /\ \A i \in MinInterval .. advised - 1 : SampleCount(d, i) > MaxCount
<1> DEFINE m == MaxCount - 1
           c == CeilDiv(d, m)
           advised == SuggestedInterval(d)
<1>1. m \in Nat \ {0}
  OBVIOUS
<1>2. c \in Nat \ {0} /\ d <= m * c /\ \A i \in Nat : i < c => m * i < d
  BY <1>1, Ceiling
<1>3. advised = IF c > MinInterval THEN c ELSE MinInterval
  BY DEF SuggestedInterval
<1>4. SampleCount(d, advised) <= MaxCount
  <2>1. advised \in Nat \ {0} /\ c <= advised
    BY <1>2, <1>3
  <2> HIDE DEF m, c, advised
  <2>2. d <= m * advised
    BY <1>1, <1>2, <2>1
  <2>3. QED
    BY <2>1, <2>2, CountLimit DEF m
<1>5. ASSUME NEW i \in MinInterval .. advised - 1
      PROVE  SampleCount(d, i) > MaxCount
  <2>1. i \in Nat \ {0} /\ i < c
    BY <1>2, <1>3
  <2>2. m * i < d
    BY <1>2, <2>1
  <2>3. SampleCount(d, i) \in Nat
    BY <2>1, OffsetsAre, Division DEF SampleCount
  <2>4. QED
    BY <2>1, <2>2, <2>3, CountLimit
<1>6. QED
  BY <1>4, <1>5

-----------------------------------------------------------------------------

(* What the loop has taken and passed so far.                              *)
Shape ==
  /\ Len(samples) + skipped = index + (IF stage = "batch" THEN 1 ELSE 0)
  /\ stage = "batch" => index < Len(Targets)
  /\ index = 0 /\ stage = "loop" => now = 0 /\ samples = <<>>
  /\ index > 0 \/ stage = "batch" => samples # <<>> /\ samples[1].point = 0

(* A sample of a regular point begins within the tolerance of its time.    *)
Timely(s) ==
  /\ s.began <= s.time /\ s.time <= now
  /\ s.point <= index /\ (stage # "batch" => s.point < index)
  /\ s.point * interval <= duration =>
       /\ s.point * interval <= s.began
       /\ s.began <= s.point * interval + LagTolerance

Ordered(s, next) == s.point < next.point /\ s.time <= next.began

WindowInv ==
  /\ WindowTypeOK
  /\ Shape
  /\ \A j \in 1 .. Len(samples) : Timely(samples[j])
  /\ \A j \in 1 .. Len(samples) - 1 : Ordered(samples[j], samples[j + 1])

LEMMA WindowFacts ==
  ASSUME Accepted(duration, interval)
  PROVE  /\ duration \in Nat \ {0} /\ interval \in Nat \ {0}
         /\ interval <= duration
         /\ Targets \in Seq(Nat) /\ Len(Targets) \in Nat \ {0}
         /\ \A k \in 0 .. Len(Targets) - 1 :
              /\ Target(k) \in Nat /\ Target(k) <= duration
              /\ k * interval <= duration => Target(k) = k * interval
<1>1. /\ duration \in Nat \ {0} /\ interval \in Nat \ {0}
      /\ interval <= duration
  BY DEF Accepted, InRange
<1>2. Targets \in Seq(Nat) /\ Len(Targets) \in Nat \ {0}
  <2>1. duration \div interval \in Nat
    BY <1>1, Division
  <2>2. Targets \in Seq(Nat)
        /\ Len(Targets) = duration \div interval
              + (IF (duration \div interval) * interval = duration THEN 1 ELSE 2)
    BY <1>1, OffsetsAre DEF Targets
  <2>3. QED
    BY <2>1, <2>2
<1>3. ASSUME NEW k \in 0 .. Len(Targets) - 1
      PROVE  /\ Target(k) \in Nat /\ Target(k) <= duration
             /\ k * interval <= duration => Target(k) = k * interval
  <2>1. k + 1 \in 1 .. Len(Targets)
    BY <1>2
  <2>2. Target(k) \in Nat
    BY <1>2, <2>1 DEF Target
  <2>3. QED
    BY <1>1, <2>2, TargetIs DEF Target, Targets
<1>4. QED
  BY <1>1, <1>2, <1>3

LEMMA WindowInitInv == WindowInit => WindowInv
<1> SUFFICES ASSUME WindowInit PROVE WindowInv
  OBVIOUS
<1>1. /\ Accepted(duration, interval) /\ now = 0 /\ index = 0 /\ stage = "loop"
      /\ samples = <<>> /\ skipped = 0 /\ retries = 0 /\ Len(samples) = 0
  BY DEF WindowInit
<1>2. WindowTypeOK
  BY <1>1, WindowFacts DEF WindowTypeOK
<1>3. Shape
  BY <1>1 DEF Shape
<1>4. QED
  BY <1>1, <1>2, <1>3 DEF WindowInv

(* The time the task reaches a point.                                      *)
LEMMA WakesInTime ==
  ASSUME WindowTypeOK, index < Len(Targets), NEW t \in WakeTimes
  PROVE  t \in Nat /\ t >= now /\ t >= Target(index)
<1>1. now \in Nat /\ Target(index) \in Nat
  BY WindowFacts DEF WindowTypeOK
<1>2. QED
  BY <1>1 DEF WakeTimes

LEMMA SkipIInv == ASSUME WindowInv, SkipTarget PROVE WindowInv'
<1>1. PICK t \in WakeTimes : TooLate(t) /\ now' = t
  BY DEF SkipTarget
<1>2. /\ stage = "loop" /\ index < Len(Targets) /\ index > 0
      /\ index' = index + 1 /\ skipped' = skipped + 1
      /\ UNCHANGED <<duration, interval, stage, samples, retries>>
  BY <1>1 DEF SkipTarget, TooLate, window
<1>3. now' \in Nat /\ now' >= now
  BY <1>1, <1>2, WakesInTime DEF WindowInv
<1>4. Targets' = Targets /\ Accepted(duration, interval)' /\ Len(Targets) \in Nat
  BY <1>2, WindowFacts DEF Targets, Accepted, InRange, SampleCount, WindowInv, WindowTypeOK
<1>5. WindowTypeOK'
  BY <1>2, <1>3, <1>4 DEF WindowInv, WindowTypeOK
<1>6. Shape'
  <2>1. Len(samples) \in Nat /\ skipped \in Nat /\ index \in Nat
    BY DEF WindowInv, WindowTypeOK
  <2>2. samples # <<>> /\ samples[1].point = 0
    BY <1>2 DEF WindowInv, Shape
  <2>4. Len(samples) + skipped = index
    BY <1>2, <2>1 DEF WindowInv, Shape
  <2>3. QED
    BY <1>2, <2>1, <2>2, <2>4 DEF Shape
<1>7. ASSUME NEW j \in 1 .. Len(samples) PROVE Timely(samples[j])'
  <2>1. samples[j] \in SampleTaken /\ Timely(samples[j])
    <3>1. samples \in Seq(SampleTaken)
      BY DEF WindowInv, WindowTypeOK
    <3>2. QED
      BY <3>1 DEF WindowInv
  <2>2. now \in Nat /\ index \in Nat
    BY DEF WindowInv, WindowTypeOK
  <2>3. samples'[j] = samples[j] /\ index' = index + 1 /\ stage' = "loop" /\ stage = "loop"
        /\ duration' = duration /\ interval' = interval
    BY <1>2
  <2>4. QED
    BY <1>3, <2>1, <2>2, <2>3 DEF Timely, SampleTaken
<1>8. QED
  BY <1>2, <1>5, <1>6, <1>7 DEF WindowInv, Ordered

LEMMA StartIInv == ASSUME WindowInv, StartBatch PROVE WindowInv'
<1>1. PICK t \in WakeTimes :
         /\ ~TooLate(t) /\ now' = t
         /\ samples' = Append(samples, [point |-> index, began |-> t, time |-> t])
  BY DEF StartBatch
<1> DEFINE n == Len(samples)
           new == [point |-> index, began |-> t, time |-> t]
<1>2. /\ stage = "loop" /\ index < Len(Targets) /\ stage' = "batch"
      /\ UNCHANGED <<duration, interval, index, skipped, retries>>
  BY DEF StartBatch, window
<1>3. now' = t /\ t \in Nat /\ t >= now /\ t >= Target(index)
  BY <1>1, <1>2, WakesInTime DEF WindowInv
<1>4. Targets' = Targets /\ Accepted(duration, interval)'
  BY <1>2 DEF Targets, Accepted, InRange, SampleCount, WindowInv, WindowTypeOK
<1>5. index \in Nat /\ duration \in Nat /\ interval \in Nat \ {0} /\ now \in Nat
      /\ (index * interval <= duration => Target(index) = index * interval)
  BY <1>2, WindowFacts DEF WindowInv, WindowTypeOK
<1>15. samples \in Seq(SampleTaken) /\ new \in SampleTaken
  BY <1>3, <1>5 DEF WindowInv, WindowTypeOK, SampleTaken
<1> HIDE DEF new
<1>6. /\ samples \in Seq(SampleTaken) /\ n \in Nat /\ new \in SampleTaken
      /\ samples' \in Seq(SampleTaken) /\ Len(samples') = n + 1
      /\ \A j \in 1 .. n : samples'[j] = samples[j] /\ samples[j] \in SampleTaken
      /\ samples'[n + 1] = new
  BY <1>1, <1>15 DEF new
<1>7. WindowTypeOK'
  BY <1>2, <1>3, <1>4, <1>6 DEF WindowInv, WindowTypeOK, SampleTaken
<1>8. index * interval <= duration =>
        index * interval <= t /\ t <= index * interval + LagTolerance
  <2>1. index * interval <= duration => t <= index * interval + LagTolerance
    <3>1. CASE index = 0
      <4>1. now = 0 /\ Target(0) = 0
        BY <1>2, <1>5, <3>1 DEF WindowInv, Shape
      <4>2. t = 0
        BY <1>1, <1>5, <3>1, <4>1 DEF WakeTimes
      <4>3. QED
        BY <1>5, <3>1, <4>2 DEF LagTolerance
    <3>2. CASE index > 0
      BY <1>1, <1>3, <1>5, <3>2 DEF TooLate, LagTolerance
    <3>3. QED
      BY <1>5, <3>1, <3>2
  <2>2. QED
    BY <1>3, <1>5, <2>1
<1>9. ASSUME NEW j \in 1 .. n
      PROVE  /\ Timely(samples[j])'
             /\ samples[j].point < index /\ samples[j].time <= now
  <2>1. Timely(samples[j]) /\ samples[j] \in SampleTaken
    BY <1>6 DEF WindowInv
  <2>2. samples[j].point < index /\ samples[j].time <= now
    BY <1>2, <2>1 DEF Timely
  <2>3. samples'[j] = samples[j]
    BY <1>6
  <2>4. QED
    BY <1>2, <1>3, <1>5, <2>1, <2>2, <2>3 DEF Timely, SampleTaken, LagTolerance
<1>10. Shape'
  <2>1. Len(samples') + skipped' = index' + 1
    BY <1>2, <1>6 DEF WindowInv, Shape, WindowTypeOK
  <2>2. samples' # <<>> /\ samples'[1].point = 0
    <3>1. CASE n = 0
      <4>3. samples = <<>>
        BY <1>6, <3>1
      <4>1. index = 0
        BY <1>2, <1>5, <4>3 DEF WindowInv, Shape
      <4>2. samples'[1] = new /\ Len(samples') = 1 /\ samples' \in Seq(SampleTaken)
        BY <1>6, <3>1
      <4>4. new.point = 0
        BY <4>1 DEF new
      <4>5. samples' # <<>>
        <5>1. ASSUME NEW u, Len(u) = 1 PROVE u # << >>
          BY <5>1
        <5>2. Len(samples') = 1
          BY <4>2
        <5>3. QED
          BY <5>1, <5>2
      <4>6. QED
        BY <4>2, <4>4, <4>5
    <3>2. CASE n > 0
      <4>1. samples # <<>>
        BY <1>6, <3>2
      <4>2. samples[1].point = 0
        BY <1>2, <1>5, <4>1 DEF WindowInv, Shape
      <4>3. samples'[1] = samples[1] /\ samples' # <<>>
        BY <1>6, <3>2
      <4>4. QED
        BY <4>2, <4>3
    <3>3. n = 0 \/ n > 0
      BY <1>6
    <3>4. QED
      BY <3>1, <3>2, <3>3
  <2>3. QED
    BY <1>2, <1>4, <2>1, <2>2 DEF Shape
<1>11. ASSUME NEW j \in 1 .. n PROVE Ordered(samples'[j], samples'[j + 1])
  <2>1. CASE j < n
    <3>1. j \in 1 .. n - 1 /\ j + 1 \in 1 .. n
      BY <1>6, <2>1
    <3>2. Ordered(samples[j], samples[j + 1])
      BY <3>1 DEF WindowInv
    <3>3. QED
      BY <1>6, <3>1, <3>2
  <2>2. CASE j = n
    <3>1. samples'[j].point < index /\ samples'[j].time <= now
      BY <1>6, <1>9
    <3>2. samples'[j] \in SampleTaken
      BY <1>6
    <3>3. /\ samples'[j].point \in Nat /\ samples'[j].time \in Nat
          /\ samples'[j + 1] = new
      BY <1>6, <2>2, <3>2 DEF SampleTaken
    <3> HIDE DEF new
    <3>4. new.point = index /\ new.began = t
      BY DEF new
    <3>5. QED
      BY <1>3, <1>5, <3>1, <3>3, <3>4 DEF Ordered
  <2>3. QED
    BY <1>6, <2>1, <2>2
<1>12. \A j \in 1 .. Len(samples') : Timely(samples[j])'
  <2> SUFFICES ASSUME NEW j \in 1 .. Len(samples') PROVE Timely(samples[j])'
    OBVIOUS
  <2>1. CASE j = n + 1
    <3>1. /\ samples'[j].began = t /\ samples'[j].time = t
          /\ samples'[j].point = index
      BY <1>6, <2>1 DEF new
    <3>2. QED
      BY <1>2, <1>3, <1>5, <1>8, <3>1 DEF Timely, LagTolerance
  <2>2. CASE j \in 1 .. n
    BY <1>9, <2>2
  <2>3. QED
    BY <1>6, <2>1, <2>2
<1>13. \A j \in 1 .. Len(samples') - 1 : Ordered(samples[j], samples[j + 1])'
  BY <1>6, <1>11 DEF Ordered
<1>14. QED
  BY <1>7, <1>10, <1>12, <1>13 DEF WindowInv

LEMMA RepeatIInv == ASSUME WindowInv, RepeatBatch PROVE WindowInv'
<1>1. PICK t \in now .. now + MaxOutage :
         now' = t /\ samples' = [samples EXCEPT ![Len(samples)].time = t]
  BY DEF RepeatBatch
<1> DEFINE n == Len(samples)
<1>2. /\ stage = "batch" /\ retries < MaxRetries /\ retries' = retries + 1
      /\ UNCHANGED <<duration, interval, index, stage, skipped>>
  BY DEF RepeatBatch, window
<1>3. now \in Nat /\ t \in Nat /\ t >= now /\ samples \in Seq(SampleTaken)
      /\ samples # <<>>
  BY <1>2 DEF WindowInv, WindowTypeOK, Shape
<1>4. n \in Nat \ {0}
  BY <1>3
<1>5. /\ samples' \in Seq(SampleTaken) /\ Len(samples') = n
      /\ \A j \in 1 .. n :
           /\ samples[j] \in SampleTaken
           /\ samples'[j].point = samples[j].point
           /\ samples'[j].began = samples[j].began
           /\ samples'[j].time = IF j = n THEN t ELSE samples[j].time
  <2> DEFINE later == [samples[n] EXCEPT !.time = t]
  <2>1. samples[n] \in SampleTaken
    BY <1>3, <1>4
  <2>2. later \in SampleTaken /\ later.time = t /\ later.point = samples[n].point
        /\ later.began = samples[n].began
    BY <1>3, <2>1 DEF SampleTaken
  <2>3. samples' = [samples EXCEPT ![n] = later]
    BY <1>1
  <2> HIDE DEF later
  <2>4. /\ samples' \in Seq(SampleTaken) /\ Len(samples') = n
        /\ \A j \in 1 .. n : /\ samples[j] \in SampleTaken
                            /\ samples'[j] = IF j = n THEN later ELSE samples[j]
    BY <1>3, <1>4, <2>2, <2>3
  <2>5. QED
    BY <2>2, <2>4
<1>6. Targets' = Targets /\ Accepted(duration, interval)'
  BY <1>2 DEF Targets, Accepted, InRange, SampleCount, WindowInv, WindowTypeOK
<1>7. WindowTypeOK'
  <2>1. now' \in Nat /\ stage' \in {"loop", "batch", "done"}
    BY <1>1, <1>2, <1>3
  <2>2. retries' \in 0 .. MaxRetries
    BY <1>2, SampleWindowAssumption DEF WindowInv, WindowTypeOK
  <2>3. index' \in 0 .. Len(Targets')
    BY <1>2, <1>6 DEF WindowInv, WindowTypeOK
  <2>4. skipped' \in 0 .. index'
    BY <1>2 DEF WindowInv, WindowTypeOK
  <2>5. QED
    BY <1>5, <1>6, <2>1, <2>2, <2>3, <2>4 DEF WindowTypeOK
<1>8. Shape'
  <2>1. samples' # <<>>
    BY <1>4, <1>5
  <2>2. samples'[1].point = samples[1].point /\ samples[1].point = 0
    BY <1>2, <1>4, <1>5 DEF WindowInv, Shape
  <2>3. QED
    BY <1>2, <1>5, <1>6, <2>1, <2>2 DEF WindowInv, Shape
<1>9. ASSUME NEW j \in 1 .. n PROVE Timely(samples[j])'
  <2>1. samples[j] \in SampleTaken /\ Timely(samples[j])
    BY <1>5 DEF WindowInv
  <2>2. samples'[j].time <= t /\ samples'[j].began <= samples'[j].time
    <3>1. samples[j].began \in Nat /\ samples[j].time \in Nat
          /\ samples[j].began <= samples[j].time /\ samples[j].time <= now
      BY <2>1 DEF Timely, SampleTaken
    <3>2. /\ samples'[j].began = samples[j].began
          /\ samples'[j].time = t \/ samples'[j].time = samples[j].time
      BY <1>5
    <3>3. QED
      BY <1>3, <3>1, <3>2
  <2>3. QED
    BY <1>1, <1>2, <1>5, <2>1, <2>2 DEF Timely, LagTolerance
<1>10. ASSUME NEW j \in 1 .. n - 1 PROVE Ordered(samples[j], samples[j + 1])'
  <2>1. Ordered(samples[j], samples[j + 1])
    BY DEF WindowInv
  <2>2. j \in 1 .. n /\ j + 1 \in 1 .. n /\ j # n
    BY <1>4
  <2>3. QED
    BY <1>5, <2>1, <2>2 DEF Ordered
<1>11. QED
  BY <1>5, <1>7, <1>8, <1>9, <1>10 DEF WindowInv

(* The steps that leave the samples alone and do not go back in time.      *)
LEMMA KeepsSamples ==
  ASSUME WindowInv, UNCHANGED <<duration, interval, samples>>,
         now' \in Nat, now' >= now, index' \in Nat, index' >= index,
         stage = "batch" => index' > index
  PROVE  /\ Targets' = Targets /\ Accepted(duration, interval)'
         /\ \A j \in 1 .. Len(samples') : Timely(samples[j])'
         /\ \A j \in 1 .. Len(samples') - 1 : Ordered(samples[j], samples[j + 1])'
<1>1. Targets' = Targets /\ Accepted(duration, interval)'
  BY DEF Targets, Accepted, InRange, SampleCount, WindowInv, WindowTypeOK
<1>2. ASSUME NEW j \in 1 .. Len(samples) PROVE Timely(samples[j])'
  <2>1. samples[j] \in SampleTaken /\ Timely(samples[j])
    <3>1. samples \in Seq(SampleTaken)
      BY DEF WindowInv, WindowTypeOK
    <3>2. QED
      BY <3>1 DEF WindowInv
  <2>2. now \in Nat /\ index \in Nat
    BY DEF WindowInv, WindowTypeOK
  <2>3. samples'[j] = samples[j] /\ duration' = duration /\ interval' = interval
    OBVIOUS
  <2>4. samples[j].point < index'
    BY <2>1, <2>2 DEF Timely, SampleTaken
  <2>5. QED
    BY <2>1, <2>2, <2>3, <2>4 DEF Timely, SampleTaken
<1>3. QED
  BY <1>1, <1>2 DEF WindowInv, Ordered

LEMMA EndIInv == ASSUME WindowInv, EndBatch PROVE WindowInv'
<1>1. /\ stage = "batch" /\ stage' = "loop" /\ index' = index + 1
      /\ UNCHANGED <<duration, interval, samples, skipped, retries>>
  BY DEF EndBatch, window
<1>2. now' \in Nat /\ now' >= now /\ index \in Nat /\ index < Len(Targets)
      /\ Len(Targets) \in Nat /\ skipped \in 0 .. index
  BY <1>1, WindowFacts DEF EndBatch, WindowInv, WindowTypeOK, Shape
<1>3. /\ Targets' = Targets /\ Accepted(duration, interval)'
      /\ \A j \in 1 .. Len(samples') : Timely(samples[j])'
      /\ \A j \in 1 .. Len(samples') - 1 : Ordered(samples[j], samples[j + 1])'
  BY <1>1, <1>2, KeepsSamples
<1>4. WindowTypeOK'
  BY <1>1, <1>2, <1>3 DEF WindowInv, WindowTypeOK
<1>5. Shape'
  <2>1. Len(samples) + skipped = index + 1 /\ samples # <<>>
        /\ samples[1].point = 0
    BY <1>1 DEF WindowInv, Shape
  <2>2. QED
    BY <1>1, <1>2, <2>1 DEF Shape
<1>6. QED
  BY <1>3, <1>4, <1>5 DEF WindowInv

LEMMA DoneIInv == ASSUME WindowInv, Done PROVE WindowInv'
<1>1. /\ stage = "loop" /\ index = Len(Targets) /\ stage' = "done"
      /\ UNCHANGED <<duration, interval, now, index, samples, skipped, retries>>
  BY DEF Done, window
<1>2. now \in Nat /\ index \in Nat
  BY DEF WindowInv, WindowTypeOK
<1>3. /\ Targets' = Targets /\ Accepted(duration, interval)'
      /\ \A j \in 1 .. Len(samples) : Timely(samples[j])'
  <2>1. Targets' = Targets /\ Accepted(duration, interval)'
    BY <1>1 DEF Targets, Accepted, InRange, SampleCount, WindowInv, WindowTypeOK
  <2>2. QED
    BY <1>1, <2>1 DEF WindowInv, Timely
<1>4. WindowTypeOK'
  BY <1>1, <1>3 DEF WindowInv, WindowTypeOK
<1>5. Shape'
  BY <1>1 DEF WindowInv, Shape
<1>6. QED
  BY <1>1, <1>3, <1>4, <1>5 DEF WindowInv, Ordered

(* The invariant is inductive.                                             *)
LEMMA NextIInv == WindowInv /\ [WindowNext]_windowVars => WindowInv'
<1> SUFFICES ASSUME WindowInv, [WindowNext]_windowVars PROVE WindowInv'
  OBVIOUS
<1>1. CASE SkipTarget
  BY <1>1, SkipIInv
<1>2. CASE StartBatch
  BY <1>2, StartIInv
<1>3. CASE RepeatBatch
  BY <1>3, RepeatIInv
<1>4. CASE EndBatch
  BY <1>4, EndIInv
<1>5. CASE Done
  BY <1>5, DoneIInv
<1>6. CASE UNCHANGED windowVars
  <2>1. UNCHANGED <<duration, interval, now, index, stage, samples, skipped, retries>>
    BY <1>6 DEF windowVars, window
  <2>2. Targets' = Targets /\ Accepted(duration, interval)'
    BY <2>1 DEF Targets, Accepted, InRange, SampleCount, WindowInv, WindowTypeOK
  <2>3. WindowTypeOK' /\ Shape'
    BY <2>1, <2>2 DEF WindowInv, WindowTypeOK, Shape
  <2>4. QED
    BY <2>1, <2>3 DEF WindowInv, Ordered, Timely
<1>7. QED
  BY <1>1, <1>2, <1>3, <1>4, <1>5, <1>6 DEF WindowNext

THEOREM WindowInvariance == WindowSpec => []WindowInv
<1>1. QED
  BY WindowInitInv, NextIInv, PTL DEF WindowSpec

(* Every variable keeps its type, however many points a window has.        *)
THEOREM WindowTypeCorrect == WindowSpec => []WindowTypeOK
<1>1. WindowInv => WindowTypeOK
  BY DEF WindowInv
<1>2. QED
  BY <1>1, WindowInvariance, PTL

(* No backlog, for every window and any lateness: the samples of two       *)
(* regular points are an interval less the tolerance apart at least, and   *)
(* no sample begins before the one before it was taken.                    *)
THEOREM Backlog == WindowSpec => []NoBacklog
<1>1. WindowInv => NoBacklog
  <2> SUFFICES ASSUME WindowInv, NEW j \in 1 .. Len(samples) - 1
               PROVE  /\ samples[j].point < samples[j + 1].point
                      /\ samples[j].time <= samples[j + 1].began
                      /\ samples[j + 1].point * interval <= duration
                           => samples[j + 1].began
                                >= samples[j].began + interval - LagTolerance
    BY DEF NoBacklog
  <2> DEFINE s == samples[j]
             next == samples[j + 1]
  <2>1. s \in SampleTaken /\ next \in SampleTaken
    BY DEF WindowInv, WindowTypeOK
  <2>2. Timely(s) /\ Timely(next) /\ Ordered(s, next)
    <3>1. samples \in Seq(SampleTaken)
      BY DEF WindowInv, WindowTypeOK
    <3>2. j \in 1 .. Len(samples) /\ j + 1 \in 1 .. Len(samples)
      BY <3>1
    <3>3. QED
      BY <3>2 DEF WindowInv
  <2>3. interval \in Nat \ {0} /\ duration \in Nat
    BY WindowFacts DEF WindowInv, WindowTypeOK
  <2>4. s.point \in Nat /\ next.point \in Nat /\ s.began \in Nat
        /\ next.began \in Nat
    BY <2>1 DEF SampleTaken
  <2>5. s.point < next.point /\ s.time <= next.began
    BY <2>2 DEF Ordered
  <2>6. ASSUME next.point * interval <= duration
        PROVE  next.began >= s.began + interval - LagTolerance
    <3>1. s.point * interval + interval <= next.point * interval
      BY <2>3, <2>4, <2>5, Multiples
    <3>2. s.began <= s.point * interval + LagTolerance
      BY <2>2, <2>3, <2>4, <2>6, <3>1 DEF Timely, LagTolerance
    <3>3. next.point * interval <= next.began
      BY <2>2, <2>6 DEF Timely
    <3>4. s.point * interval \in Nat /\ next.point * interval \in Nat
      BY <2>3, <2>4
    <3>5. ASSUME NEW a \in Nat, NEW b \in Nat, NEW p \in Nat, NEW q \in Nat,
                 NEW i \in Nat, a + i <= b, p <= a + 1, b <= q
          PROVE  q >= p + i - 1
      BY <3>5
    <3>6. QED
      BY <2>3, <2>4, <3>1, <3>2, <3>3, <3>4, <3>5 DEF LagTolerance
  <2>7. QED
    BY <2>5, <2>6
<1>2. QED
  BY <1>1, WindowInvariance, PTL

(* Every scheduled point the loop passed was sampled or counted, and the   *)
(* first one was sampled.                                                  *)
THEOREM PointsAccounted == WindowSpec => []AllAccounted
<1>1. WindowInv => AllAccounted
  BY DEF WindowInv, Shape, AllAccounted
<1>2. QED
  BY <1>1, WindowInvariance, PTL

(* Every accepted window has a usable schedule.                            *)
THEOREM SchedulesSound == WindowSpec => []ScheduleSound
<1>1. WindowInv => ScheduleSound
  <2> SUFFICES ASSUME Accepted(duration, interval) PROVE ScheduleSound
    BY DEF WindowInv, WindowTypeOK
  <2> DEFINE n == duration \div interval
             last == Len(Targets) - 1
  <2>1. /\ duration \in Nat \ {0} /\ interval \in Nat \ {0}
        /\ Targets \in Seq(Nat)
    BY WindowFacts
  <2>2. /\ n \in Nat /\ n * interval <= duration
        /\ duration < (n + 1) * interval
    BY <2>1, Division
  <2>3. /\ last = n + (IF n * interval = duration THEN 0 ELSE 1)
        /\ \A k \in 0 .. last :
             Targets[k + 1] = IF k <= n THEN k * interval ELSE duration
    <3>1. /\ Len(Targets) = n + (IF n * interval = duration THEN 1 ELSE 2)
          /\ \A k \in 0 .. last :
               Targets[k + 1] = IF k <= n THEN k * interval ELSE duration
      <4>1. duration \in Nat
        BY <2>1
      <4>2. QED
        BY <2>1, <4>1, OffsetsAre DEF Targets
    <3> HIDE DEF n
    <3>2. QED
      BY <2>2, <3>1
  <2> HIDE DEF n, last
  <2>4. Targets[1] = 0
    <3>1. Targets[0 + 1] = 0 * interval
      BY <2>2, <2>3
    <3>2. QED
      BY <2>1, <3>1
  <2>5. Targets[last + 1] = duration
    BY <2>2, <2>3
  <2>6. ASSUME NEW k \in 0 .. last - 1
        PROVE  Targets[k + 1] < Targets[k + 2]
    <3>1. k \in 0 .. last /\ k + 1 \in 0 .. last /\ k <= n
      BY <2>2, <2>3
    <3>2. /\ Targets[k + 1] = k * interval
          /\ Targets[k + 2] = IF k + 1 <= n THEN (k + 1) * interval ELSE duration
      BY <2>2, <2>3, <3>1
    <3>3. CASE k + 1 <= n
      BY <2>1, <3>1, <3>2, <3>3
    <3>4. CASE k = n
      BY <2>1, <2>2, <2>3, <3>1, <3>2, <3>4
    <3>5. QED
      BY <2>2, <3>1, <3>3, <3>4
  <2>7. Len(Targets) <= MaxCount
    BY DEF Accepted, SampleCount, Targets
  <2>8. Len(Targets) = last + 1 /\ last \in Nat
    BY <2>1, <2>2, <2>3 DEF last
  <2>9. ASSUME NEW k \in 1 .. Len(Targets) - 1
        PROVE  Targets[k] < Targets[k + 1]
    <3>1. k - 1 \in 0 .. last - 1
      BY <2>8
    <3>2. Targets[(k - 1) + 1] < Targets[(k - 1) + 2]
      BY <2>6, <3>1
    <3>3. QED
      BY <2>8, <3>2
  <2>10. QED
    BY <2>4, <2>5, <2>7, <2>8, <2>9 DEF ScheduleSound
<1>2. QED
  BY <1>1, WindowInvariance, PTL

(* The interval the message suggests is the smallest that is accepted.     *)
THEOREM AdviceCorrect == WindowSpec => []AdviceWorks
<1>1. WindowInv => AdviceWorks
  <2> SUFFICES ASSUME Accepted(duration, interval) PROVE AdviceWorks
    BY DEF WindowInv, WindowTypeOK
  <2>1. duration \in Nat \ {0}
    BY WindowFacts
  <2>2. QED
    BY <2>1, AdviceSound DEF AdviceWorks
<1>2. QED
  BY <1>1, WindowInvariance, PTL

-----------------------------------------------------------------------------

(* How far past its end a window can be: a batch starts before it, and the *)
(* outages so far and one batch come on top.                               *)
Overrun ==
  /\ stage = "batch" => now <= duration + LagTolerance + retries * MaxOutage
  /\ now <= duration + LagTolerance + MaxBatch + MaxLate + retries * MaxOutage

LEMMA Outages ==
  ASSUME NEW r \in Nat, NEW k \in Nat
  PROVE  r * k \in Nat /\ (r + 1) * k = r * k + k
OBVIOUS

LEMMA NextOverrun == WindowInv /\ Overrun /\ [WindowNext]_windowVars => Overrun'
<1> SUFFICES ASSUME WindowInv, Overrun, [WindowNext]_windowVars PROVE Overrun'
  OBVIOUS
<1> DEFINE o == retries * MaxOutage
<1>1. /\ duration \in Nat /\ now \in Nat /\ retries \in Nat /\ o \in Nat
      /\ WindowTypeOK
  BY WindowFacts, Outages DEF WindowInv, WindowTypeOK
<1> HIDE DEF o
<1>2. /\ stage = "batch" => now <= duration + 1 + o
      /\ now <= duration + 1 + MaxBatch + MaxLate + o
  BY DEF Overrun, LagTolerance, o
<1>3. ASSUME NEW t \in WakeTimes, index < Len(Targets)
      PROVE  /\ t \in Nat /\ t >= now
             /\ t <= duration + 1 + MaxBatch + MaxLate + o
             /\ index = 0 /\ stage = "loop" => t = 0
  <2>1. Target(index) \in Nat /\ Target(index) <= duration /\ index \in Nat
        /\ (index * interval <= duration => Target(index) = index * interval)
        /\ interval \in Nat
    BY <1>1, <1>3, WindowFacts DEF WindowTypeOK
  <2>2. t \in Nat /\ t >= now /\ t <= duration + 1 + MaxBatch + MaxLate + o
    BY <1>1, <1>2, <2>1 DEF WakeTimes
  <2>3. ASSUME index = 0, stage = "loop" PROVE t = 0
    <3>1. now = 0 /\ Target(0) = 0
      BY <1>1, <2>1, <2>3 DEF WindowInv, Shape
    <3>2. QED
      BY <2>3, <3>1 DEF WakeTimes
  <2>4. QED
    BY <2>2, <2>3
<1>4. CASE SkipTarget
  <2>1. /\ now' <= duration + 1 + MaxBatch + MaxLate + o /\ stage' = "loop"
        /\ UNCHANGED <<duration, retries>>
    BY <1>3, <1>4 DEF SkipTarget, window
  <2>2. QED
    BY <2>1 DEF Overrun, LagTolerance, o
<1>5. CASE StartBatch
  <2>1. PICK t \in WakeTimes : ~TooLate(t) /\ now' = t
    BY <1>5 DEF StartBatch
  <2>2. stage = "loop" /\ index < Len(Targets) /\ UNCHANGED <<duration, retries>>
    BY <1>5 DEF StartBatch, window
  <2>3. index \in Nat /\ t \in Nat
    BY <1>1, <1>3, <2>2 DEF WindowTypeOK
  <2>4. t <= duration + 1
    BY <1>1, <1>3, <2>1, <2>2, <2>3 DEF TooLate, LagTolerance
  <2>5. /\ now' <= duration + 1 + o
        /\ now' <= duration + 1 + MaxBatch + MaxLate + o
    BY <1>1, <2>1, <2>3, <2>4
  <2>6. QED
    BY <2>2, <2>5 DEF Overrun, LagTolerance, o
<1>6. CASE RepeatBatch
  <2>1. /\ now' \in now .. now + MaxOutage /\ retries' = retries + 1
        /\ stage = "batch" /\ UNCHANGED duration
    BY <1>6 DEF RepeatBatch, window
  <2>2. retries' * MaxOutage = o + MaxOutage
    BY <1>1, <2>1, Outages DEF o
  <2>3. /\ now' <= duration + 1 + (o + MaxOutage)
        /\ now' <= duration + 1 + MaxBatch + MaxLate + (o + MaxOutage)
    BY <1>1, <1>2, <2>1
  <2>4. QED
    BY <2>1, <2>2, <2>3 DEF Overrun, LagTolerance
<1>7. CASE EndBatch
  <2>1. /\ now' \in now .. now + MaxBatch /\ stage = "batch" /\ stage' = "loop"
        /\ UNCHANGED <<duration, retries>>
    BY <1>7 DEF EndBatch, window
  <2>2. now' <= duration + 1 + MaxBatch + MaxLate + o
    BY <1>1, <1>2, <2>1
  <2>3. QED
    BY <2>1, <2>2 DEF Overrun, LagTolerance, o
<1>8. CASE Done
  BY <1>2, <1>8 DEF Done, window, Overrun, LagTolerance, o
<1>9. CASE UNCHANGED windowVars
  BY <1>9 DEF windowVars, window, Overrun
<1>10. QED
  BY <1>4, <1>5, <1>6, <1>7, <1>8, <1>9 DEF WindowNext

(* A window ends with at most one batch, one late wake-up and the outages  *)
(* past its end.                                                           *)
THEOREM OverrunIsBounded == WindowSpec => []OverrunBounded
<1>1. WindowInit => Overrun
  <2> SUFFICES ASSUME WindowInit PROVE Overrun
    OBVIOUS
  <2>1. now = 0 /\ retries = 0 /\ stage = "loop" /\ duration \in Nat
    BY WindowFacts DEF WindowInit
  <2>2. retries * MaxOutage = 0
    BY <2>1
  <2>3. QED
    BY <2>1, <2>2 DEF Overrun, LagTolerance
<1>2. WindowInv /\ Overrun => OverrunBounded
  <2> SUFFICES ASSUME WindowInv, Overrun PROVE OverrunBounded
    OBVIOUS
  <2>1. retries \in 0 .. MaxRetries /\ duration \in Nat /\ now \in Nat
    BY WindowFacts DEF WindowInv, WindowTypeOK
  <2>2. retries * MaxOutage <= MaxRetries * MaxOutage
        /\ retries * MaxOutage \in Nat /\ MaxRetries * MaxOutage \in Nat
    BY <2>1
  <2>3. QED
    BY <2>1, <2>2 DEF Overrun, OverrunBounded, LagTolerance
<1>3. QED
  BY <1>1, <1>2, NextOverrun, WindowInvariance, PTL DEF WindowSpec

=============================================================================

----------------------------- MODULE SshCommand -----------------------------
(***************************************************************************)
(* One script run on the host through the SSH transport                    *)
(* (SshTransport._run): three tasks wait for the channel and read its two  *)
(* streams into one output budget, until the command ends, its time is up, *)
(* it writes too much, or the caller is cancelled.  A command that did not *)
(* end is stopped in three stages, each with a grace of its own: TERM,     *)
(* KILL, closing the channel.  On the host a wrapper runs the script in a  *)
(* process group of its own and stops that group when it gets TERM.  (The  *)
(* host has setsid; without it the wrapper signals the child alone.)       *)
(*                                                                         *)
(* Time is counted in ticks, a script's output in chunks.                  *)
(***************************************************************************)
EXTENDS Integers, FiniteSets

CONSTANTS
  Limit,     \* chunks in the output budget
  MaxSent,   \* bound: chunks the script writes to a stream
  Grace,     \* ticks a stage of the stop waits for the channel to close
  Sleep,     \* ticks the wrapper leaves the group between TERM and KILL
  MaxDelay   \* ticks a signal takes to the host over a prompt link

ASSUME SshCommandAssumption ==
  Limit \in Nat /\ MaxSent \in Nat /\ Grace \in Nat /\ Sleep \in Nat /\ MaxDelay \in Nat

(* What a prompt link is: REMOTE_PROCESS_STOP_GRACE_SECONDS is longer than *)
(* a signal and the wrapper's sleep take together.                         *)
ASSUME PromptAssumption == MaxDelay + Sleep < Grace

Streams == {"stdout", "stderr"}
Tasks == Streams \cup {"wait"}
Stages == 1 .. 3   \* terminate, kill, close

VARIABLES
  phase,    \* "start", "gather", "stop", "reap" or "returned"
  returns,  \* how the call ends, "none" while that is open
  stage,    \* how many stages of the stop have begun
  grace,    \* ticks left of the stage
  task,     \* the tasks of the call
  size,     \* _OutputBudget.size
  kept,     \* chunks in each reader's list
  chan,     \* the channel: "opening", "open", "closed", "lost" or "refused"
  travel,   \* the request of each stage: "unsent", "sent" or "arrived"
  age,      \* ticks it has been on its way
  shell,    \* the wrapper: "none", "starting", "armed", "napping" or "dead"
  nap,      \* ticks left of its sleep
  group,    \* the script's process group: "none", "running" or "gone"
  stubborn, \* it ignores TERM
  holds,    \* it keeps the channel's streams open
  sent,     \* chunks written to each stream
  lapse     \* history: why the wrapper may not have reached its group

call   == <<phase, returns, stage, grace>>
output == <<task, size, kept>>
wire   == <<travel, age>>
host   == <<shell, nap, group, sent>>
kinds  == <<stubborn, holds>>
commandVars == <<call, output, chan, wire, host, kinds, lapse>>

CommandInit ==
  /\ phase = "start" /\ returns = "none" /\ stage = 0 /\ grace = 0
  /\ task = [t \in Tasks |-> "none"] /\ size = 0 /\ kept = [s \in Streams |-> 0]
  /\ chan = "opening"
  /\ travel = [k \in Stages |-> "unsent"] /\ age = [k \in Stages |-> 0]
  /\ shell = "none" /\ nap = 0 /\ group = "none" /\ sent = [s \in Streams |-> 0]
  /\ stubborn \in BOOLEAN /\ holds \in BOOLEAN
  /\ lapse = {}

-----------------------------------------------------------------------------
(* The call.                                                               *)

(* create_process: answered, failed, or cancelled before the answer.       *)
Started ==
  /\ phase = "start" /\ shell # "none" /\ chan = "opening"
  /\ phase' = "gather" /\ chan' = "open"
  /\ task' = [t \in Tasks |-> "running"]
  /\ UNCHANGED <<returns, stage, grace, size, kept, wire, host, kinds, lapse>>

Refused ==
  /\ phase = "start"
  /\ phase' = "returned" /\ returns' = "refused"
  /\ chan' = IF shell = "none" THEN "refused" ELSE "lost"
  /\ UNCHANGED <<stage, grace, output, wire, host, kinds, lapse>>

CancelStart ==
  /\ phase = "start"
  /\ phase' = "returned" /\ returns' = "cancelled"
  /\ UNCHANGED <<stage, grace, output, chan, wire, host, kinds, lapse>>

ChannelOpen == chan \in {"open", "opening"}
Total(f) == f["stdout"] + f["stderr"]

(* Mutant: each stream has a budget of its own.                            *)
ReadOwnBudget(s) ==
  /\ task[s] = "running" /\ kept[s] < sent[s]
  /\ size' = size + 1
  /\ IF kept[s] = Limit
       THEN task' = [task EXCEPT ![s] = "failed"] /\ UNCHANGED kept
       ELSE kept' = [kept EXCEPT ![s] = @ + 1] /\ UNCHANGED task
  /\ UNCHANGED <<call, chan, wire, host, kinds, lapse>>

(* _read_bounded: a chunk is charged to the budget of both streams first.  *)
Read(s) ==
  /\ task[s] = "running" /\ kept[s] < sent[s]
  /\ size' = size + 1
  /\ IF size' > Limit
       THEN task' = [task EXCEPT ![s] = "failed"] /\ UNCHANGED kept
       ELSE kept' = [kept EXCEPT ![s] = @ + 1] /\ UNCHANGED task
  /\ UNCHANGED <<call, chan, wire, host, kinds, lapse>>

(* The end of the stream, or of the connection.                            *)
ReadEnds(s) ==
  /\ task[s] = "running"
  /\ \/ chan = "closed" /\ kept[s] = sent[s] /\ task' = [task EXCEPT ![s] = "done"]
     \/ chan = "lost" /\ task' = [task EXCEPT ![s] = "failed"]
  /\ UNCHANGED <<call, size, kept, chan, wire, host, kinds, lapse>>

WaitEnds ==
  /\ task["wait"] = "running" /\ ~ChannelOpen
  /\ task' = [task EXCEPT !["wait"] = "done"]
  /\ UNCHANGED <<call, size, kept, chan, wire, host, kinds, lapse>>

Cancelled(ts) == [t \in Tasks |-> IF t \in ts /\ task[t] = "running"
                                    THEN "cancelled" ELSE task[t]]

GatherReturns ==
  /\ phase = "gather" /\ \A t \in Tasks : task[t] = "done"
  /\ phase' = "reap" /\ returns' = "result"
  /\ UNCHANGED <<stage, grace, output, chan, wire, host, kinds, lapse>>

(* A stage of _stop_remote_process begins: its request is on its way.      *)
BeginStage(k) ==
  /\ phase' = "stop" /\ stage' = k /\ grace' = Grace
  /\ travel' = [travel EXCEPT ![k] = "sent"] /\ UNCHANGED age

(* The first task to fail ends the gather and leaves the others running;   *)
(* the timeout and a cancellation cancel them all.                         *)
GatherRaises ==
  /\ phase = "gather" /\ \E t \in Tasks : task[t] = "failed"
  /\ returns' = "failed"
  /\ BeginStage(1)
  /\ UNCHANGED <<output, chan, host, kinds, lapse>>

GatherStops(how) ==
  /\ phase = "gather"
  /\ returns' = how
  /\ task' = Cancelled(Tasks)
  /\ BeginStage(1)
  /\ UNCHANGED <<size, kept, chan, host, kinds, lapse>>

(* The channel has closed: _stop_remote_process returns.                   *)
StopEnds ==
  /\ phase = "stop" /\ ~ChannelOpen
  /\ phase' = "reap"
  /\ UNCHANGED <<returns, stage, grace, output, chan, wire, host, kinds, lapse>>

(* Mutant: the last stage is repeated until the channel closes.            *)
OnwardForever == BeginStage(IF stage = 3 THEN 3 ELSE stage + 1)

Onward == IF stage = 3 THEN phase' = "reap" /\ UNCHANGED <<stage, grace, wire>>
                       ELSE BeginStage(stage + 1)

StageExpires ==
  /\ phase = "stop" /\ grace = 0
  /\ Onward
  /\ UNCHANGED <<returns, output, chan, host, kinds, lapse>>

(* A cancellation of the stop ends its stage and is not raised again.      *)
CancelStop ==
  /\ phase = "stop"
  /\ Onward
  /\ lapse' = lapse \cup {"hurried"}
  /\ UNCHANGED <<returns, output, chan, host, kinds>>

(* Mutant: only the readers are reaped.                                    *)
ReapReaders ==
  /\ phase = "reap"
  /\ phase' = "returned"
  /\ task' = Cancelled(Streams)
  /\ UNCHANGED <<returns, stage, grace, size, kept, chan, wire, host, kinds, lapse>>

(* The finally clause: tasks that still run are cancelled and awaited.     *)
Reap ==
  /\ phase = "reap"
  /\ phase' = "returned"
  /\ task' = Cancelled(Tasks)
  /\ UNCHANGED <<returns, stage, grace, size, kept, chan, wire, host, kinds, lapse>>

CancelReap ==
  /\ phase = "reap"
  /\ phase' = "returned" /\ returns' = "cancelled"
  /\ task' = Cancelled(Tasks)
  /\ UNCHANGED <<stage, grace, size, kept, chan, wire, host, kinds, lapse>>

-----------------------------------------------------------------------------
(* The host.                                                               *)

(* The server runs the wrapper, which starts the script, and then sets its *)
(* trap.                                                                   *)
Spawn ==
  /\ shell = "none" /\ chan = "opening"
  /\ shell' = "starting" /\ group' = "running"
  /\ UNCHANGED <<call, output, chan, wire, nap, sent, kinds, lapse>>

Arm ==
  /\ shell = "starting" /\ shell' = "armed"
  /\ UNCHANGED <<call, output, chan, wire, nap, group, sent, kinds, lapse>>

Write(s) ==
  /\ group = "running" /\ ChannelOpen /\ sent[s] < MaxSent
  /\ sent' = [sent EXCEPT ![s] = @ + 1]
  /\ UNCHANGED <<call, output, chan, wire, shell, nap, group, kinds, lapse>>

GroupEnds ==
  /\ group = "running" /\ group' = "gone"
  /\ UNCHANGED <<call, output, chan, wire, shell, nap, sent, kinds, lapse>>

(* wait "$child" returns.                                                  *)
ShellEnds ==
  /\ shell \in {"starting", "armed"} /\ group = "gone"
  /\ shell' = "dead"
  /\ UNCHANGED <<call, output, chan, wire, nap, group, sent, kinds, lapse>>

(* The channel's requests arrive in their order.                           *)
Arrives(k) ==
  /\ travel[k] = "sent" /\ chan # "lost"
  /\ \A j \in Stages : j < k => travel[j] = "arrived"
  /\ travel' = [travel EXCEPT ![k] = "arrived"] /\ age' = [age EXCEPT ![k] = 0]
  /\ UNCHANGED <<call, output, kinds, sent>>

(* terminate_group, or the death of a wrapper that has no trap yet.        *)
Term ==
  /\ Arrives(1)
  /\ CASE shell = "starting" -> /\ shell' = "dead"
                                /\ lapse' = lapse \cup {"early"}
                                /\ UNCHANGED <<group, nap>>
       [] shell = "armed"    -> /\ shell' = "napping" /\ nap' = Sleep
                                /\ group' = IF stubborn THEN group ELSE "gone"
                                /\ UNCHANGED lapse
       [] OTHER              -> UNCHANGED <<shell, nap, group, lapse>>
  /\ UNCHANGED chan

Kill ==
  /\ Arrives(2)
  /\ shell' = "dead"
  /\ UNCHANGED <<nap, group, chan, lapse>>

Close ==
  /\ Arrives(3)
  /\ chan' = IF chan = "open" THEN "closed" ELSE chan
  /\ UNCHANGED <<shell, nap, group, lapse>>

(* Mutant: the wrapper leaves the group to TERM.                           *)
WrapperLeaves ==
  /\ shell = "napping" /\ nap = 0
  /\ shell' = "dead" /\ group' = group
  /\ UNCHANGED <<call, output, chan, wire, nap, sent, kinds, lapse>>

WrapperKills ==
  /\ shell = "napping" /\ nap = 0
  /\ shell' = "dead" /\ group' = "gone"
  /\ UNCHANGED <<call, output, chan, wire, nap, sent, kinds, lapse>>

(* The server closes the channel when the wrapper is dead and no process   *)
(* holds its streams.                                                      *)
ServerCloses ==
  /\ chan = "open" /\ shell = "dead" /\ (group = "gone" \/ ~holds)
  /\ chan' = "closed"
  /\ UNCHANGED <<call, output, wire, host, kinds, lapse>>

ConnectionLost ==
  /\ chan = "open" /\ chan' = "lost"
  /\ UNCHANGED <<call, output, wire, host, kinds, lapse>>

(* A tick.  The link and the host may be slow, and so may the event loop,  *)
(* whose stage is over when grace is 0 and not before.                     *)
Overdue ==
  \/ \E k \in Stages : travel[k] = "sent" /\ age[k] = MaxDelay
  \/ shell = "napping" /\ nap = 0

Tick ==
  /\ stage > 0
  /\ age' = [k \in Stages |-> IF travel[k] = "sent" /\ age[k] < MaxDelay
                                THEN age[k] + 1 ELSE age[k]]
  /\ nap' = IF nap > 0 THEN nap - 1 ELSE 0
  /\ grace' = IF grace > 0 THEN grace - 1 ELSE 0
  /\ lapse' = IF Overdue THEN lapse \cup {"late"} ELSE lapse
  /\ UNCHANGED <<phase, returns, stage, output, chan, travel, shell, group, sent, kinds>>

-----------------------------------------------------------------------------

Call ==
  \/ Started \/ GatherReturns \/ GatherRaises \/ GatherStops("timeout")
  \/ StopEnds \/ StageExpires \/ Reap

CallCancelled == CancelStart \/ GatherStops("cancelled") \/ CancelStop \/ CancelReap

Readers == WaitEnds \/ \E s \in Streams : Read(s) \/ ReadEnds(s)

Wrapper ==
  \/ Spawn \/ Arm \/ ShellEnds \/ WrapperKills \/ Term \/ Kill
  \/ GroupEnds \/ \E s \in Streams : Write(s)

Link == Refused \/ Close \/ ServerCloses \/ ConnectionLost

CommandNext == Call \/ CallCancelled \/ Readers \/ Wrapper \/ Link \/ Tick

CommandSpec == CommandInit /\ [][CommandNext]_commandVars

(* The event loop runs a call that can go on, timers included, and time    *)
(* passes.  Nothing is assumed of the host, the link or the caller, and    *)
(* nothing of create_process, which has no timeout.                        *)
CommandFairSpec == CommandSpec /\ WF_commandVars(Call) /\ WF_commandVars(Tick)

-----------------------------------------------------------------------------

CommandTypeOK ==
  /\ phase \in {"start", "gather", "stop", "reap", "returned"}
  /\ returns \in {"none", "result", "failed", "timeout", "cancelled", "refused"}
  /\ stage \in 0 .. 3 /\ grace \in 0 .. Grace
  /\ task \in [Tasks -> {"none", "running", "done", "failed", "cancelled"}]
  /\ size \in Nat /\ kept \in [Streams -> Nat] /\ sent \in [Streams -> 0 .. MaxSent]
  /\ chan \in {"opening", "open", "closed", "lost", "refused"}
  /\ travel \in [Stages -> {"unsent", "sent", "arrived"}]
  /\ age \in [Stages -> 0 .. MaxDelay]
  /\ shell \in {"none", "starting", "armed", "napping", "dead"}
  /\ nap \in 0 .. Sleep
  /\ group \in {"none", "running", "gone"}
  /\ stubborn \in BOOLEAN /\ holds \in BOOLEAN
  /\ lapse \in SUBSET {"early", "hurried", "late"}

(* A command's result is all that the script wrote to both streams, and no *)
(* more than the budget they share: nothing is cut off in silence.         *)
ResultWhole == returns = "result" => kept = sent /\ Total(kept) <= Limit

(* A call leaves no task behind, however it ends: not the other reader and *)
(* the waiter when one reader fails, not when the stop is cancelled.       *)
NothingLeft == phase = "returned" => \A t \in Tasks : task[t] # "running"

(* A call that got its process returns when the channel has closed or has  *)
(* been told to: no cancellation skips the last stage of the stop.         *)
ChannelReleased ==
  phase = "returned" /\ task["wait"] # "none" => ~ChannelOpen \/ travel[3] # "unsent"

(* Over a prompt link, the wrapper dies only with the script's whole group *)
(* gone, also when the group ignores TERM: KILL does not overtake it.      *)
(* Excepted are a wrapper that has no trap yet and a stop cut short.       *)
GroupKilled == shell = "dead" /\ lapse = {} => group = "gone"

(* A command that has started to be waited for returns, whatever the host, *)
(* the link and the caller do.                                             *)
CallReturns == phase = "gather" ~> phase = "returned"

=============================================================================

---------------------------- MODULE LocalSource ----------------------------
(***************************************************************************)
(* An item whose source is a program on the collector's own host.          *)
(*                                                                         *)
(*   "script"   a shell item: run_local_process is called from the event   *)
(*              loop, which waits for it (executors/shell.py);             *)
(*   "command"  a command of a Python item: run_local_process runs in a    *)
(*              thread, and the item that waits for it can be cancelled    *)
(*              while the thread goes on (host_access.LocalHostAccess);    *)
(*   "worker"   a blocking Python source: a forked process sends its       *)
(*              pickled answer as one frame (executors/python.py).         *)
(*                                                                         *)
(* The program is the leader of a process group of its own and may start a *)
(* helper, which may leave the group.  Either may ignore SIGTERM, and a    *)
(* killed process may take a while to go.  Signals are delivered at once.  *)
(***************************************************************************)
EXTENDS Integers

CONSTANTS
    Frame       \* how many pieces the output arrives in

ASSUME LocalSourceAssumption == Frame \in Nat \ {0, 1}

VARIABLES
    kind,       \* "script" | "command" | "worker"
    stubborn,   \* the processes that ignore SIGTERM
    leader,     \* "forked" (no group yet) | "running" | "killed" | "zombie" | "reaped"
    code,       \* how the leader ended: an exit code, -1 for a signal or a crash
    helper,     \* "none" | "running" | "gone"
    grouped,    \* the helper is in the leader's group
    clings,     \* the helper holds the output open
    sent,       \* pieces written by the leader
    got,        \* pieces read by the collector
    call,       \* the call: "reading", the stages of stopping, "ended"
    outcome,    \* what the call returns
    item,       \* what the report says: "pending" until the item is stored
    cut         \* an interruption has ended the call in the middle of its stop

localVars == <<kind, stubborn, leader, code, helper, grouped, clings, sent, got, call, outcome,
               item, cut>>

Worker == kind = "worker"
Unset == 99

LocalInit ==
    /\ kind \in {"script", "command", "worker"}
    /\ stubborn \in SUBSET {"leader", "helper"}
    \* Popen returns when the new session exists; Process.start() returns after fork.
    /\ leader = IF Worker THEN "forked" ELSE "running"
    /\ code = Unset
    /\ helper = "none" /\ grouped = TRUE /\ clings = TRUE
    /\ sent = 0 /\ got = 0
    /\ call = "reading" /\ outcome = "none" /\ item = "pending"
    /\ cut = FALSE

---------------------------------------------------------------------------
(* The processes *)

Alive == leader \in {"forked", "running"}
Collector == <<call, outcome, item, got, cut>>

\* os.setsid() in the child.
Setsid ==
    /\ leader = "forked"
    /\ leader' = "running"
    /\ UNCHANGED <<kind, stubborn, code, helper, grouped, clings, sent, Collector>>

StartHelper ==
    /\ leader = "running" /\ helper = "none"
    /\ helper' = "running"
    /\ grouped' \in BOOLEAN /\ clings' \in BOOLEAN
    /\ UNCHANGED <<kind, stubborn, leader, code, sent, Collector>>

\* One more piece of the output, as long as the collector reads.
Send ==
    /\ leader = "running" /\ sent < Frame
    /\ call \in {"reading", "grace", "killing", "last"}
    /\ sent' = sent + 1
    /\ UNCHANGED <<kind, stubborn, leader, code, helper, grouped, clings, Collector>>

\* The leader ends, with all its output, with part of it, or by a crash.
Exit ==
    /\ \/ leader = "running" /\ code' \in {0, 1, 3}
       \/ Alive /\ code' = -1
       \/ leader = "killed" /\ code' = -1
    /\ leader' = "zombie"
    /\ UNCHANGED <<kind, stubborn, helper, grouped, clings, sent, Collector>>

HelperEnds ==
    /\ helper = "running"
    /\ helper' = "gone"
    /\ UNCHANGED <<kind, stubborn, leader, code, grouped, clings, sent, Collector>>

---------------------------------------------------------------------------
(* Signals *)

HelperInGroup == helper = "running" /\ grouped

\* A group exists as long as it has a member; a zombie that was not waited for is one.
GroupOfLeader == leader \in {"running", "killed", "zombie"}

\* A plausible slip: the group is taken to be gone with its leader.
LeaderExists == GroupOfLeader

GroupExists == GroupOfLeader \/ HelperInGroup

\* SIGTERM to the members that do not ignore it.
Term(members) ==
    /\ IF "leader" \in members /\ Alive /\ "leader" \notin stubborn
       THEN leader' = "zombie" /\ code' = -1
       ELSE UNCHANGED <<leader, code>>
    /\ helper' = IF "helper" \in members /\ helper = "running" /\ "helper" \notin stubborn
                 THEN "gone" ELSE helper

\* SIGKILL: the helper goes, the leader as soon as the kernel lets it.
Kill(members) ==
    /\ leader' = IF "leader" \in members /\ Alive THEN "killed" ELSE leader
    /\ helper' = IF "helper" \in members /\ helper = "running" THEN "gone" ELSE helper
    /\ UNCHANGED code

Group == {"leader"} \cup (IF grouped THEN {"helper"} ELSE {})

\* A plausible slip: the process is signalled, not its group.
KillLeader == {"leader"}

\* killpg, at the end of the grace period.
KillGroup == Group

---------------------------------------------------------------------------
(* Items *)

\* execute_shell_item and execute_python_item: the report's word for the outcome.
Reported(o) ==
    CASE o = "timeout" -> "timeout"
      [] o = "raised" -> "error"
      [] o = "interrupted" -> "none"      \* the whole run is
      [] o = "value" /\ kind = "script" ->
            IF code = 3 THEN "unsupported"
            ELSE IF code # 0 THEN "error"
            ELSE IF sent = 0 THEN "empty" ELSE "ok"
      [] OTHER -> "ok"

\* The call ends: the item is stored, unless it was given up before.
Ends(o) ==
    /\ call' = "ended" /\ outcome' = o
    /\ item' = IF item = "pending" THEN Reported(o) ELSE item

---------------------------------------------------------------------------
(* run_local_process *)

\* communicate() is through: every holder of the output has closed it, and the
\* leader has been waited for.
Finished ==
    /\ leader = "zombie" \/ leader = "reaped"
    /\ helper = "running" => ~clings

Reap == leader' = "reaped" /\ got' = sent

Completes ==
    /\ ~Worker /\ call = "reading"
    /\ Finished /\ Reap
    /\ Ends("value")
    /\ UNCHANGED <<kind, stubborn, code, helper, grouped, clings, sent, cut>>

\* The timeout expires, or, in the event loop, an interrupt arrives:
\* _stop_process_group.
StopGroup(o) ==
    /\ ~Worker /\ call = "reading"
    /\ outcome' = o
    /\ IF GroupExists THEN Term(Group) ELSE UNCHANGED <<leader, code, helper>>
    /\ call' = "grace"
    /\ UNCHANGED <<kind, stubborn, grouped, clings, sent, got, item, cut>>

TimesOut == StopGroup("timeout")
Interrupted == kind = "script" /\ StopGroup("interrupted")

\* communicate() for a grace period: it ends, or its time is up.
Grace ==
    /\ call = "grace"
    /\ \/ Finished /\ Reap
       \/ UNCHANGED <<leader, got>>
    /\ call' = "check"
    /\ UNCHANGED <<kind, stubborn, code, helper, grouped, clings, sent, outcome, item, cut>>

\* Whoever is left in the group is killed.
Check ==
    /\ call = "check"
    /\ IF GroupExists
       THEN /\ Kill(KillGroup)
            /\ call' = "killing"
            /\ UNCHANGED <<outcome, item>>
       ELSE /\ Ends(outcome)
            /\ UNCHANGED <<leader, code, helper>>
    /\ UNCHANGED <<kind, stubborn, grouped, clings, sent, got, cut>>

Killing ==
    /\ call = "killing"
    /\ \/ Finished /\ Reap /\ Ends(outcome)
       \/ /\ call' = "last"       \* process.kill(), then communicate() without a limit
          /\ leader' = IF Alive THEN "killed" ELSE leader
          /\ UNCHANGED <<got, outcome, item>>
    /\ UNCHANGED <<kind, stubborn, code, helper, grouped, clings, sent, cut>>

Last ==
    /\ call = "last"
    /\ Finished /\ Reap
    /\ Ends(outcome)
    /\ UNCHANGED <<kind, stubborn, code, helper, grouped, clings, sent, cut>>

\* A second interruption, or the first one during the stop of a program that ran out
\* of time, is a KeyboardInterrupt in communicate() or in join(): no except clause of
\* the stop catches it, and the call ends where it is.
CutShort ==
    /\ \/ kind = "script" /\ call \in {"grace", "check", "killing", "last"}
       \/ Worker /\ call \in {"joining", "rejoining"}
    /\ cut' = TRUE
    /\ Ends("interrupted")
    /\ UNCHANGED <<kind, stubborn, leader, code, helper, grouped, clings, sent, got>>

\* asyncio.wait_for gives the Python item up: its thread goes on.
GivenUp ==
    /\ kind = "command" /\ item = "pending" /\ call # "ended"
    /\ item' = "timeout"
    /\ UNCHANGED <<kind, stubborn, leader, code, helper, grouped, clings, sent, got, call, outcome,
                   cut>>

---------------------------------------------------------------------------
(* _run_sync_process *)

\* _terminate_process_group: nothing for a process that has ended; before setsid the
\* group does not exist yet and the process itself is signalled.
Terminate ==
    IF ~Alive THEN UNCHANGED <<leader, code, helper>>
    ELSE IF leader = "running" THEN Term(Group) ELSE Term({"leader"})

\* A plausible slip: a process without a group is left alone.
ForceGroupOnly == IF leader = "running" THEN Kill(Group) ELSE UNCHANGED <<leader, code, helper>>

ForceTerminate ==
    IF ~Alive THEN UNCHANGED <<leader, code, helper>>
    ELSE IF leader = "running" THEN Kill(Group) ELSE Kill({"leader"})

Receive ==
    /\ Worker /\ call = "reading" /\ got < sent
    /\ got' = got + 1
    /\ UNCHANGED <<kind, stubborn, leader, code, helper, grouped, clings, sent, call, outcome,
                   item, cut>>

\* The end of the output: nobody can write any more and everything was read.
EndOfOutput ==
    /\ ~Alive /\ leader # "killed" /\ got = sent
    /\ helper = "running" => ~clings

\* A plausible slip: what arrived before the end of the output is taken for the answer.
AnswerOrEnd == got = Frame \/ EndOfOutput

\* readexactly(size): the frame is complete, whoever still holds the pipe.  The
\* frame is an answer or the error the source raised.
AnswerArrived == got = Frame

Whole ==
    /\ Worker /\ call = "reading" /\ AnswerArrived
    /\ outcome' \in {"value", "raised"}
    /\ call' = "joining"
    /\ UNCHANGED <<kind, stubborn, leader, code, helper, grouped, clings, sent, got, item, cut>>

\* The output ends within the frame: IncompleteReadError.
Short ==
    /\ Worker /\ call = "reading" /\ EndOfOutput /\ ~AnswerArrived
    /\ outcome' = "raised"
    /\ Terminate
    /\ call' = "joining"
    /\ UNCHANGED <<kind, stubborn, grouped, clings, sent, got, item, cut>>

\* The item's timeout, or a cancellation, reaches the reader.
Expires ==
    /\ Worker /\ call = "reading"
    /\ outcome' = "timeout"
    /\ Terminate
    /\ call' = "joining"
    /\ UNCHANGED <<kind, stubborn, grouped, clings, sent, got, item, cut>>

\* join(0.2): the child has ended, or it is killed.
Join ==
    /\ call = "joining"
    /\ \/ /\ leader = "zombie"
          /\ leader' = "reaped"
          /\ Ends(outcome)
          /\ UNCHANGED <<code, helper>>
       \/ /\ leader # "zombie"
          /\ ForceTerminate
          /\ call' = "rejoining"
          /\ UNCHANGED <<outcome, item>>
    /\ UNCHANGED <<kind, stubborn, grouped, clings, sent, got, cut>>

\* The second join may give up on a child that is still going.
Rejoin ==
    /\ call = "rejoining"
    /\ leader' = IF leader = "zombie" THEN "reaped" ELSE leader
    /\ Ends(outcome)
    /\ UNCHANGED <<kind, stubborn, code, helper, grouped, clings, sent, got, cut>>

---------------------------------------------------------------------------
LocalNext ==
    \/ Setsid \/ StartHelper \/ Send \/ Exit \/ HelperEnds
    \/ Completes \/ TimesOut \/ Interrupted \/ Grace \/ Check \/ Killing \/ Last \/ CutShort
    \/ GivenUp
    \/ Receive \/ Whole \/ Short \/ Expires \/ Join \/ Rejoin

\* Time passes, so every wait with a limit ends; the kernel delivers what it was asked to.
Fairness ==
    /\ WF_localVars(Completes \/ TimesOut) /\ WF_localVars(Grace) /\ WF_localVars(Check)
    /\ WF_localVars(Killing) /\ WF_localVars(Last)
    /\ WF_localVars(Whole \/ Short \/ Expires) /\ WF_localVars(Join) /\ WF_localVars(Rejoin)
    /\ WF_localVars(leader = "killed" /\ Exit)

LocalSpec == LocalInit /\ [][LocalNext]_localVars /\ Fairness

---------------------------------------------------------------------------
(* Properties *)

\* What an item reports as its answer is all of it: a command's output is complete,
\* with nobody left to add to it, and the command ended by itself with status 0; a
\* worker's frame arrived to its last piece, however the worker ended afterwards.
AnswerWhole ==
    /\ kind = "script" /\ item = "ok" =>
          code = 0 /\ got = sent /\ sent > 0 /\ ~(helper = "running" /\ clings)
    /\ kind = "command" /\ item = "ok" => got = sent /\ leader = "reaped"
    /\ Worker /\ item = "ok" => got = Frame

\* When a command that timed out or was interrupted is reported, nothing of its
\* process group runs any more, whether it ignored SIGTERM, died before its helper or
\* left a helper that no longer holds the output; when the call of a worker is over,
\* in any way, the worker does not run any more, even if it was stopped before it
\* had a group of its own (a process that was killed is gone as soon as the kernel
\* lets it).  The exception is an interruption in the middle of the stop, which nothing
\* finishes: it leaves what ignores SIGTERM, or was started by what does, and a worker
\* that had sent its answer and not ended yet.
GroupStopped ==
    call = "ended" =>
        /\ ~cut /\ Worker => ~Alive
        /\ ~cut /\ ~Worker /\ outcome # "value" => ~Alive /\ ~HelperInGroup
        /\ cut /\ Alive => "leader" \in stubborn \/ (Worker /\ got = Frame)
        /\ cut /\ ~Worker /\ HelperInGroup => stubborn # {}

\* A process that left the group and holds the output open for ever.
HeldOpen == helper = "running" /\ clings /\ ~grouped

\* Every call ends, the thread of an item that was given up as well, unless a process
\* that left the group holds the output open for ever.
CallEnds == <>(call = "ended") \/ <>[]HeldOpen
=============================================================================

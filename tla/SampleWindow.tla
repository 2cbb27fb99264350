---------------------------- MODULE SampleWindow ----------------------------
(***************************************************************************)
(* The sampling loop of a snapshot window (_collect_db_samples): it sleeps *)
(* until the next scheduled point, skips a point it reached too late, and  *)
(* runs the batch of chart queries otherwise.  Time is in whole seconds;   *)
(* a batch takes as long as it takes, a lost session makes it start again, *)
(* and the event loop may be late to wake the task.                        *)
(***************************************************************************)
EXTENDS Schedule

CONSTANTS
  MaxBatch,   \* bound: seconds a batch takes
  MaxLate,    \* bound: seconds the event loop is late by
  MaxOutage,  \* bound: seconds until a lost session is replaced
  MaxRetries  \* bound: lost sessions in a window

ASSUME SampleWindowAssumption ==
  MaxBatch \in Nat /\ MaxLate \in Nat /\ MaxOutage \in Nat /\ MaxRetries \in Nat

VARIABLES
  duration, interval,  \* the window
  now,      \* the clock, from the start of the loop
  index,    \* scheduled points passed
  stage,    \* "loop", "batch" or "done"
  samples,  \* the samples taken: their point, when they began, their time
  skipped,  \* points skipped
  retries   \* batches repeated on a replacement session

window == <<duration, interval>>
windowVars == <<window, now, index, stage, samples, skipped, retries>>

(* max(0.1, min(interval / 4, 1.0)): intervals are never under five.       *)
LagTolerance == 1

Targets == Offsets(duration, interval)
Target(k) == Targets[k + 1]

WindowInit ==
  /\ duration \in MinDuration .. MaxDuration
  /\ interval \in MinInterval .. MaxInterval
  /\ Accepted(duration, interval)
  /\ now = 0 /\ index = 0
  /\ stage = "loop"
  /\ samples = <<>> /\ skipped = 0 /\ retries = 0

(* When the task goes on to the next point: at once if it is due already,  *)
(* and after a sleep, which may last longer than asked, if it is not.      *)
WakeTimes ==
  IF Target(index) > now THEN Target(index) .. Target(index) + MaxLate
                         ELSE {now}

(* Mutants: only the end of the window counts; nothing is ever too late.   *)
TooLateAtEnd(t) == index > 0 /\ t > duration + LagTolerance

NeverTooLate(t) == t < 0

(* The point was reached too late: past the end of the window or by more   *)
(* than the tolerance.                                                     *)
TooLate(t) ==
  /\ index > 0
  /\ \/ t > duration + LagTolerance
     \/ t - Target(index) > LagTolerance

(* Mutant: a skipped point is passed and not counted.                      *)
SkipTargetUncounted ==
  /\ stage = "loop" /\ index < Len(Targets)
  /\ \E t \in WakeTimes : TooLate(t) /\ now' = t
  /\ index' = index + 1
  /\ UNCHANGED <<window, stage, samples, skipped, retries>>

SkipTarget ==
  /\ stage = "loop" /\ index < Len(Targets)
  /\ \E t \in WakeTimes :
       /\ TooLate(t)
       /\ now' = t
  /\ index' = index + 1 /\ skipped' = skipped + 1
  /\ UNCHANGED <<window, stage, samples, retries>>

StartBatch ==
  /\ stage = "loop" /\ index < Len(Targets)
  /\ \E t \in WakeTimes :
       /\ ~TooLate(t)
       /\ now' = t
       /\ samples' = Append(samples, [point |-> index, began |-> t, time |-> t])
  /\ stage' = "batch"
  /\ UNCHANGED <<window, index, skipped, retries>>

(* The session is lost: the batch is repeated, and its snapshot carries    *)
(* the time of the attempt that completes.                                 *)
RepeatBatch ==
  /\ stage = "batch" /\ retries < MaxRetries
  /\ \E t \in now .. now + MaxOutage :
       /\ now' = t
       /\ samples' = [samples EXCEPT ![Len(samples)].time = t]
  /\ retries' = retries + 1
  /\ UNCHANGED <<window, index, stage, skipped>>

EndBatch ==
  /\ stage = "batch"
  /\ now' \in now .. now + MaxBatch
  /\ stage' = "loop" /\ index' = index + 1
  /\ UNCHANGED <<window, samples, skipped, retries>>

Done ==
  /\ stage = "loop" /\ index = Len(Targets)
  /\ stage' = "done"
  /\ UNCHANGED <<window, now, index, samples, skipped, retries>>

WindowNext == SkipTarget \/ StartBatch \/ RepeatBatch \/ EndBatch \/ Done

WindowSpec == WindowInit /\ [][WindowNext]_windowVars

-----------------------------------------------------------------------------

SampleTaken == [point : Nat, began : Nat, time : Nat]

WindowTypeOK ==
  /\ Accepted(duration, interval)
  /\ now \in Nat
  /\ index \in 0 .. Len(Targets)
  /\ stage \in {"loop", "batch", "done"}
  /\ samples \in Seq(SampleTaken)
  /\ skipped \in 0 .. index
  /\ retries \in 0 .. MaxRetries

(* The accepted schedule is usable: it starts with the window, ends with   *)
(* it, never goes back and has at most MaxCount points.                    *)
ScheduleSound ==
  /\ Targets[1] = 0 /\ Targets[Len(Targets)] = duration
  /\ \A k \in 1 .. Len(Targets) - 1 : Targets[k] < Targets[k + 1]
  /\ Len(Targets) <= MaxCount

(* A refused window becomes an accepted one with the interval the message  *)
(* suggests, and with no smaller one.                                      *)
AdviceWorks ==
  LET advised == SuggestedInterval(duration) IN
    /\ SampleCount(duration, advised) <= MaxCount
    /\ \A i \in MinInterval .. advised - 1 : SampleCount(duration, i) > MaxCount

(* README.md: "Slow chart queries do not create a backlog": however long   *)
(* batches take, two regular points are never sampled closer together than *)
(* the interval less the tolerance, and the samples are in time order.     *)
NoBacklog ==
  \A j \in 1 .. Len(samples) - 1 :
    LET s == samples[j]  next == samples[j + 1] IN
      /\ s.point < next.point /\ s.time <= next.began
      /\ next.point * interval <= duration
           => next.began >= s.began + interval - LagTolerance

(* Every point passed was sampled or counted as skipped, the first always  *)
(* sampled.                                                                *)
AllAccounted ==
  /\ Len(samples) + skipped = index + (IF stage = "batch" THEN 1 ELSE 0)
  /\ index > 0 => samples[1].point = 0

(* The window is not overrun by more than one batch, whatever was late:    *)
(* a batch that starts after the window is never started.                  *)
OverrunBounded ==
  stage = "done" => now <= duration + LagTolerance + MaxBatch + MaxLate
                          + MaxRetries * MaxOutage

=============================================================================

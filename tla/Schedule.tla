------------------------------ MODULE Schedule ------------------------------
(***************************************************************************)
(* The schedule of a snapshot window (runtime_config.py), in whole         *)
(* seconds: which points are sampled, which windows are accepted, and the  *)
(* interval the command suggests for one that is refused.                  *)
(***************************************************************************)
EXTENDS Integers, Sequences

CONSTANTS
  MinDuration, MaxDuration,  \* SNAPSHOTS_MIN_DURATION_SECONDS, ..._MAX_...
  MinInterval, MaxInterval,  \* SNAPSHOTS_MIN_INTERVAL_SECONDS, ..._MAX_...
  MaxCount                   \* SNAPSHOTS_MAX_SAMPLE_COUNT

ASSUME ScheduleAssumption ==
  /\ MinDuration \in Nat \ {0} /\ MaxDuration \in Nat
  /\ MinInterval \in Nat \ {0} /\ MaxInterval \in Nat
  /\ MaxCount \in Nat \ {0, 1}

(* Every interval, and the end of the window when it is not one of them.   *)
Offsets(duration, interval) ==
  LET regular == [k \in 1 .. duration \div interval + 1 |-> (k - 1) * interval]
  IN IF (duration \div interval) * interval = duration
     THEN regular
     ELSE Append(regular, duration)

SampleCount(duration, interval) == Len(Offsets(duration, interval))

CeilDiv(a, b) == (a + b - 1) \div b

(* min_interval_for_snapshot_limit                                         *)
SuggestedInterval(duration) ==
  LET required == CeilDiv(duration, MaxCount - 1)
  IN IF required > MinInterval THEN required ELSE MinInterval

(* validate_snapshots_window has nothing to say.                           *)
InRange(duration, interval) ==
  /\ duration \in MinDuration .. MaxDuration
  /\ interval \in MinInterval .. MaxInterval
  /\ interval <= duration

Accepted(duration, interval) ==
  /\ InRange(duration, interval)
  /\ SampleCount(duration, interval) <= MaxCount

=============================================================================

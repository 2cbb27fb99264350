------------------------------ MODULE LogsRun ------------------------------
(***************************************************************************)
(* A run in logs mode (collect_logs): one deadline over starting,          *)
(* collecting, a worker process that writes the report, the removal of its *)
(* temporary files and the closing of the connection.  The run is ended    *)
(* from outside by the alarm of its wait_for, some time before the         *)
(* deadline, or by a cancellation; a worker that is ended so is sent TERM, *)
(* then KILL, and is given up when a stalled file system holds it.         *)
(***************************************************************************)
EXTENDS Integers

CONSTANTS
  Soft,        \* when the wait_for of collect_logs gives up
  Deadline,    \* LOGS_REPORT_WALLCLOCK_SECONDS
  StopMax,     \* bound: to stop a remote command or a worker in the collection
  JoinMax,     \* the two joins of _run_sync_process
  CleanupMax,  \* limit on the removal of temporary files
  CloseMax     \* limit on close_collection

ASSUME LogsRunAssumption ==
  /\ Soft \in Nat /\ Deadline \in Nat /\ StopMax \in Nat /\ JoinMax \in Nat
  /\ CleanupMax \in Nat /\ CloseMax \in Nat /\ JoinMax <= StopMax
  /\ Soft + StopMax + CleanupMax + JoinMax <= Deadline

Files == {"html", "json"}

VARIABLES
  formats,  \* the files the run is to write
  remote,   \* it has an SSH connection
  phase,       \* "start", "undo", "collect", "publish", "clean", "close" or "ended"
  now,      \* the clock, from the first phase that is bounded on
  armed,    \* the alarm has not gone off
  outcome,  \* "none", "report", "error", "cancelled" or "deadline"
  writer,   \* "none", "run", "blocked", "doomed", "done", "failed" or "gone"
  new,      \* files replaced by this run
  temps,    \* files whose temporary file exists
  closing,  \* ssh.close() has begun
  gaps      \* history: what kept the removal from being complete

disk == <<writer, new, temps>>
runVars == <<formats, remote, phase, now, armed, outcome, disk, closing, gaps>>

RunInit ==
  /\ formats \in SUBSET Files \ {{}} /\ remote \in BOOLEAN
  /\ phase = "start" /\ now = 0 /\ armed = TRUE /\ outcome = "none"
  /\ writer = "none" /\ new = {} /\ temps = {}
  /\ closing = FALSE /\ gaps = {}

Least(a, b) == IF a < b THEN a ELSE b

(* Until the alarm goes off nothing that ends by itself ends after it.     *)
EndsBy(t) == now' \in now .. t /\ (armed => now' <= Soft)

(* The alarm, late when a worker was being joined, or a cancellation; what *)
(* it stops takes up to d.                                                 *)
Alarm(d) ==
  /\ armed /\ armed' = FALSE /\ outcome' = "deadline"
  /\ IF now < Soft THEN now' \in Soft .. Soft + d ELSE now' \in now .. now + d

Cancel(d) ==
  /\ outcome' = "cancelled" /\ UNCHANGED armed
  /\ IF armed /\ now < Soft THEN now' \in now .. Soft + d ELSE now' \in now .. now + d

Interrupt(d) == Alarm(d) \/ Cancel(d)

-----------------------------------------------------------------------------
(* Collecting.                                                             *)

(* start_collection closes what it has opened when it fails; it has not    *)
(* necessarily opened it then.                                             *)
RunStart ==
  /\ phase = "start"
  /\ \/ phase' = "collect" /\ UNCHANGED <<now, armed, outcome>>
     \/ phase' = "undo" /\ outcome' = "error" /\ EndsBy(Soft) /\ UNCHANGED armed
     \/ phase' = "undo" /\ Interrupt(StopMax)
  /\ UNCHANGED <<formats, remote, disk, closing, gaps>>

CloseLimit == Least(CloseMax, Deadline - now)

(* Without a connection there is nothing to wait for.                      *)
Closes(limit) == IF remote THEN EndsBy(now + limit) ELSE now' = now

Undo ==
  /\ phase = "undo"
  /\ phase' = "ended" /\ closing' = remote
  /\ \/ Closes(CloseLimit) /\ UNCHANGED <<armed, outcome>>
     \/ remote /\ Interrupt(0)
  /\ UNCHANGED <<formats, remote, disk, gaps>>

(* The log phase, the items and the DDL; then the writer is started.       *)
Collect ==
  /\ phase = "collect"
  /\ \/ phase' = "publish" /\ writer' = "run" /\ UNCHANGED <<now, armed, outcome>>
     \/ phase' = "clean" /\ outcome' = "error" /\ EndsBy(Soft) /\ UNCHANGED <<armed, writer>>
     \/ phase' = "clean" /\ Interrupt(StopMax) /\ UNCHANGED writer
  /\ UNCHANGED <<formats, remote, new, temps, closing, gaps>>

-----------------------------------------------------------------------------
(* The writer: finish_collection in a process of its own.                  *)

Writing == IF "html" \in formats \ new THEN "html" ELSE "json"

CreateTemp ==
  /\ Writing \in formats \ (new \cup temps)
  /\ temps' = temps \cup {Writing} /\ UNCHANGED new

Replace ==
  /\ Writing \in temps
  /\ temps' = temps \ {Writing} /\ new' = new \cup {Writing}

Write ==
  /\ writer = "run"
  /\ CreateTemp \/ Replace
  /\ UNCHANGED <<formats, remote, phase, now, armed, outcome, writer, closing, gaps>>

(* The report is invalid, or a call of the file system fails.              *)
WriteFails ==
  /\ writer = "run" /\ writer' = "failed" /\ temps' = {}
  /\ UNCHANGED <<formats, remote, phase, now, armed, outcome, new, closing, gaps>>

(* Mutant: the worker answers before its last file is in place.            *)
WriteEndsEarly ==
  /\ writer = "run" /\ Writing \in temps /\ writer' = "done"
  /\ UNCHANGED <<formats, remote, phase, now, armed, outcome, new, temps, closing, gaps>>

WriteEnds ==
  /\ writer = "run" /\ new = formats /\ writer' = "done"
  /\ UNCHANGED <<formats, remote, phase, now, armed, outcome, new, temps, closing, gaps>>

(* The file system stalls in a call of the writer, or goes on.             *)
Stall ==
  /\ \/ writer = "run" /\ writer' = "blocked"
     \/ writer = "blocked" /\ writer' = "run"
  /\ UNCHANGED <<formats, remote, phase, now, armed, outcome, new, temps, closing, gaps>>

(* A killed process that was in a call: it ends after the call has had its *)
(* effect, or without it.                                                  *)
DoomedEnds ==
  /\ writer = "doomed" /\ writer' = "gone"
  /\ CreateTemp \/ Replace \/ UNCHANGED <<new, temps>>
  /\ UNCHANGED <<formats, remote, phase, now, armed, outcome, closing, gaps>>

(* run_blocking returns or raises what the writer answered.                *)
Publish ==
  /\ phase = "publish" /\ writer \in {"done", "failed"}
  /\ phase' = "clean" /\ writer' = "gone"
  /\ outcome' = IF writer = "done" THEN "report" ELSE "error"
  /\ EndsBy(Soft)
  /\ UNCHANGED <<formats, remote, armed, new, temps, closing, gaps>>

(* Mutant: the writer is left to itself.                                   *)
PublishLeaves ==
  /\ phase = "publish" /\ phase' = "clean"
  /\ Interrupt(JoinMax)
  /\ UNCHANGED <<formats, remote, disk, closing, gaps>>

(* An interrupted writer is killed, and given up when it does not die.     *)
PublishStops ==
  /\ phase = "publish" /\ phase' = "clean"
  /\ Interrupt(JoinMax)
  /\ writer' = IF writer = "blocked" THEN "doomed" ELSE "gone"
  /\ gaps' = IF writer = "blocked" THEN gaps \cup {"stalled"} ELSE gaps
  /\ UNCHANGED <<formats, remote, new, temps, closing>>

-----------------------------------------------------------------------------
(* The finally clauses.                                                    *)

CleanupLimit == Least(CleanupMax, Deadline - now)

Clean ==
  /\ phase = "clean" /\ phase' = "close"
  /\ temps' = {}
  /\ EndsBy(now + CleanupLimit)
  /\ UNCHANGED <<formats, remote, armed, outcome, writer, new, closing, gaps>>

(* A file could not be removed, the removal took too long, or it was       *)
(* interrupted: what it had removed stays removed.                         *)
CleanFails ==
  /\ phase = "clean" /\ phase' = "close"
  /\ temps' \in SUBSET temps /\ gaps' = gaps \cup {"unfinished"}
  /\ \/ outcome' = "error" /\ EndsBy(now + CleanupLimit) /\ UNCHANGED armed
     \/ /\ outcome' = "deadline" /\ UNCHANGED armed
        /\ armed => now + CleanupLimit <= Soft
        /\ now' \in now + CleanupLimit .. now + CleanupLimit + JoinMax
     \/ Interrupt(JoinMax)
  /\ UNCHANGED <<formats, remote, writer, new, closing>>

(* Mutant: the close has a limit of its own.                               *)
CloseOwnLimit ==
  /\ phase = "close" /\ phase' = "ended" /\ closing' = remote
  /\ Closes(CloseMax)
  /\ UNCHANGED <<formats, remote, armed, outcome, disk, gaps>>

Close ==
  /\ phase = "close" /\ phase' = "ended" /\ closing' = remote
  /\ Closes(CloseLimit)
  /\ UNCHANGED <<formats, remote, armed, outcome, disk, gaps>>

CloseFails ==
  /\ phase = "close" /\ phase' = "ended" /\ remote /\ closing' = TRUE
  /\ \/ /\ outcome' = "deadline" /\ now' = now + CloseLimit /\ UNCHANGED armed
        /\ armed => now' <= Soft
     \/ Interrupt(0)
  /\ UNCHANGED <<formats, remote, disk, gaps>>

Writer == Write \/ WriteFails \/ WriteEnds

Run == RunStart \/ Undo \/ Collect \/ Publish \/ PublishStops \/ Clean \/ CleanFails
         \/ Close \/ CloseFails

RunNext == Run \/ Writer \/ Stall \/ DoomedEnds

RunSpec == RunInit /\ [][RunNext]_runVars

-----------------------------------------------------------------------------

TypeOK ==
  /\ formats \in SUBSET Files \ {{}} /\ remote \in BOOLEAN
  /\ phase \in {"start", "undo", "collect", "publish", "clean", "close", "ended"}
  /\ now \in Nat /\ armed \in BOOLEAN
  /\ outcome \in {"none", "report", "error", "cancelled", "deadline"}
  /\ writer \in {"none", "run", "blocked", "doomed", "done", "failed", "gone"}
  /\ new \in SUBSET formats /\ temps \in SUBSET formats
  /\ closing \in BOOLEAN /\ gaps \in SUBSET {"stalled", "unfinished"}

(* A run returns its report only with every file of it in place, nothing   *)
(* of the writer left and the connection told to close.                    *)
ReportInPlace ==
  phase = "ended" /\ outcome = "report" =>
    /\ new = formats /\ temps = {} /\ writer = "gone"
    /\ remote => closing

(* The run ends by its deadline, the stopping and cleaning included.       *)
EndsByDeadline == now <= Deadline

(* No temporary file outlives the run, however it ends, unless the removal *)
(* itself failed or the file system held the writer.                       *)
TempsRemoved == phase = "ended" /\ gaps = {} => temps = {}

(* The files are not touched once the run has ended.                       *)
FilesSettled ==
  [][phase = "ended" /\ "stalled" \notin gaps => UNCHANGED <<new, temps>>]_runVars

=============================================================================

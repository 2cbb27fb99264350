------------------------------ MODULE LogScan ------------------------------
(***************************************************************************)
(* The scan of the csvlog window (logscan/phase.py, sources.py,            *)
(* harvester.py, rle.py): the log files are listed, then opened, read      *)
(* record by record, checked and committed one after the other, newest     *)
(* first, while the server appends to them, removes, recreates and         *)
(* truncates them.  The records of the committed files are parsed, merged  *)
(* and put into one window whose coverage says whether anything is missing.*)
(*                                                                         *)
(* A record is its time and its kind; the time is unique, so it also names *)
(* the record.  A byte is a record, a frame costs one unit of the wire     *)
(* budget.  Whether the files are read here or by a script on the host is  *)
(* the variable transport: the script opens a file by name a second time,  *)
(* after it has noted its identity.                                        *)
(***************************************************************************)
EXTENDS Integers, Sequences, FiniteSets, SequencesExt

CONSTANTS
    Names,          \* names of csv files, in the order of rotation
    Kinds,          \* kinds of records
    Wanted,         \* kinds a recall clause matches
    Preserved,      \* kinds whose every time stamp is kept
    PrintOf,          \* fingerprint of a kind
    InitialRecords, \* records on disk before the scan
    MaxServer,      \* bound: steps of the server during the scan
    From,           \* the window starts here
    CandidateCaps,  \* the values of MAX_CANDIDATE_FILES considered
    ScanBudget,     \* scan_budget_bytes, in records
    WireBudgets,    \* the values of wire_budget_bytes considered, in frames
    Gap             \* SERIES_GAP_SECONDS

ASSUME LogScanAssumption ==
    /\ IsFiniteSet(Names) /\ Names = 1..Cardinality(Names) /\ Names # {} /\ Wanted # {}
    /\ Wanted \subseteq Kinds /\ Preserved \subseteq Wanted
    /\ {InitialRecords, MaxServer, From, ScanBudget, Gap} \subseteq Nat
    /\ CandidateCaps \union WireBudgets \subseteq Nat

VARIABLES
    names,      \* names[n]: the inode behind the name, 0 for none
    content,    \* content[i]: the records of inode i, oldest first
    clock,      \* time of the last record
    steps,      \* steps the server has taken
    transport,  \* "local" or "remote"
    pc, t0, cands, at,  \* phase, end of the window, candidates, the file being read
    file,       \* the open file: its inode when it was opened, the inode read,
                \* its size when opened, the position, whether its end is torn
    run,        \* the run being collected by PhysicalRle
    staged,     \* runs of the open file, not yet committed
    series,     \* committed runs
    wire,       \* what is left of the wire budget (WIRE_LEFT)
    scanned, stop, stats,
    frames,     \* what the script on the host has written
    window,     \* the records of the report
    listed,     \* history: the records of every file when it was listed
    blind       \* history: committed files whose name was reused without a trace

server == <<names, content, clock, steps>>
read == <<file, run, staged, series, wire, scanned, stop, stats, frames>>
vars == <<names, content, clock, steps, transport, pc, t0, cands, at, file, run, staged,
          series, wire, scanned, stop, stats, frames, window, listed, blind>>

NoRun == [kind |-> "none", last |-> 0, recs |-> {}, count |-> 0]
NoFile == [ino |-> 0, src |-> 0, size |-> 0, pos |-> 0, torn |-> FALSE]
NoStats == [read |-> 0, vanished |-> 0, unreadable |-> 0, dropped |-> 0, reasons |-> {}]
NoWindow == [status |-> "none", records |-> {}, complete |-> FALSE]

Inodes == 1..(Cardinality(Names) + MaxServer)
Exists(n) == names[n] # 0
\* The logical records [ts, kind] that the lines of the file n make.
RecordsOf(n) == IF Exists(n) THEN content[names[n]] ELSE <<>>
LastTime(n) == IF RecordsOf(n) = <<>> THEN 0 ELSE Last(RecordsOf(n)).ts

-----------------------------------------------------------------------------
(* The server: the log files it writes while they are scanned.             *)

\* A record is appended, after the window: it need not be of more than one kind.
Append1(n) ==
    /\ Exists(n)
    /\ content' = [content EXCEPT ![names[n]] =
                     Append(@, [ts |-> clock + 1, kind |-> CHOOSE k \in Wanted : TRUE])]
    /\ clock' = clock + 1
    /\ UNCHANGED names

\* Retention removes a file.
Delete(n) ==
    /\ Exists(n)
    /\ names' = [names EXCEPT ![n] = 0]
    /\ UNCHANGED <<content, clock>>

\* A rotation opens a name that is free: a new inode, or one given back, which the
\* file system does not do while a reader holds it open.
Free(i) == content[i] = <<>> /\ i # file.src /\ \A n \in Names : names[n] # i
Create(n) ==
    /\ ~Exists(n)
    /\ \E i \in Inodes : /\ Free(i) /\ \A j \in Inodes : Free(j) => i <= j
                         /\ names' = [names EXCEPT ![n] = i]
    /\ UNCHANGED <<content, clock>>

\* log_truncate_on_rotation: a rotation that comes back to a name empties the file in place.
Truncate(n) ==
    /\ Exists(n) /\ RecordsOf(n) # <<>>
    /\ content' = [content EXCEPT ![names[n]] = <<>>]
    /\ UNCHANGED <<names, clock>>

Server ==
    /\ pc \in {"next", "read", "check"} /\ steps < MaxServer
    /\ steps' = steps + 1
    /\ \E n \in Names : Append1(n) \/ Delete(n) \/ Create(n) \/ Truncate(n)
    /\ UNCHANGED <<transport, pc, t0, cands, at, read, window, listed, blind>>

-----------------------------------------------------------------------------
(* Discovery: pg_ls_logdir() with a flag the server computes.              *)

Current == CHOOSE n \in Names : Exists(n) /\ \A m \in Names : LastTime(m) <= LastTime(n)
InWindow(n) == Exists(n) /\ (LastTime(n) >= From \/ n = Current)

\* The sequences that hold each member of a finite set once.
Enumerations(S) == Bijection(1..Cardinality(S), S)

\* order by modification desc: files of one time come in any order.
NewestFirst(S) ==
    {rows \in Enumerations(S) :
        \A i, k \in DOMAIN rows : i <= k => LastTime(rows[k]) <= LastTime(rows[i])}

\* _collect up to the scan: the rows, the flag for an overflow, the first candidates.
List ==
    /\ pc = "list" /\ \E n \in Names : InWindow(n)
    /\ \E cap \in CandidateCaps, rows \in NewestFirst({n \in Names : InWindow(n)}) :
       LET over == Len(rows) > cap
       IN  /\ cands' = SubSeq(rows, 1, IF over THEN cap ELSE Len(rows))
           /\ stats' = [stats EXCEPT !.reasons = IF over THEN {"candidate_limit"} ELSE {}]
    /\ t0' = clock /\ at' = 1 /\ pc' = "next"
    /\ listed' = [n \in Names |-> RecordsOf(n)]
    /\ UNCHANGED <<server, transport, file, run, staged, series, wire, scanned, stop, frames,
                   window, blind>>

\* _PhaseUnavailable, an exception or the limit of the phase: a marker, no window.
PhaseEnds(status) ==
    /\ pc' = "done" /\ window' = [NoWindow EXCEPT !.status = status]
    /\ UNCHANGED <<server, transport, t0, cands, at, read, listed, blind>>
NotListed == pc = "list" /\ PhaseEnds("unavailable")
Fails == pc \in {"list", "next", "read", "check"} /\ PhaseEnds("error")

-----------------------------------------------------------------------------
(* One candidate after the other.                                          *)

\* The frames of the script; CAPS and DONE enclose them.
Frame(f, a, b) == [f |-> f, a |-> a, b |-> b]
Says(fs) == frames' = IF transport = "remote" THEN frames \o fs ELSE frames
Stat(n) == IF Exists(n) THEN Frame("FILE_END", names[n], Len(RecordsOf(n)))
           ELSE Frame("FILE_END", 0, 0)

\* The host lacks a tool: CAPS says so.
NotCapable == pc = "next" /\ transport = "remote" /\ at = 1 /\ PhaseEnds("unavailable")

NextFile == at' = at + 1 /\ pc' = "next"
Over == at > Len(cands) \/ stop

\* The cooperative deadline is tested before each file, by both transports.
DeadlineHit ==
    /\ pc = "next" /\ ~Over
    /\ stop' = TRUE /\ stats' = [stats EXCEPT !.reasons = @ \union {"time_limit"}]
    /\ UNCHANGED <<server, transport, pc, t0, cands, at, file, run, staged, series, wire,
                   scanned, frames, window, listed, blind>>

Skip(field, reason) ==
    /\ stats' = [stats EXCEPT ![field] = @ + 1, !.reasons = @ \union {reason}]
    /\ UNCHANGED <<server, transport, t0, cands, run, staged, series, wire, scanned, stop,
                   window, listed, blind>>

\* _open_candidate, or the script's test of the name.
Vanished ==
    /\ pc = "next" /\ ~Over /\ ~Exists(cands[at])
    /\ NextFile /\ Skip("vanished", "rotation_race") /\ UNCHANGED file
    /\ Says(<<Frame("ERR", "vanished", 0)>>)
Unreadable ==
    /\ pc = "next" /\ ~Over /\ Exists(cands[at])
    /\ NextFile /\ Skip("unreadable", "unreadable") /\ UNCHANGED file
    /\ Says(<<Frame("ERR", "symlink", 0)>>)

\* _find_window_start, for the oldest candidate only: a position whose first
\* record is older than the window, or the beginning.
Starts(recs) ==
    {0} \union IF at = Len(cands)
               THEN {k \in 1..(Len(recs) - 1) : recs[k + 1].ts < From} ELSE {}

\* The scan budget keeps the newest part of a file.
TailStart(start, size) == IF size - start > ScanBudget - scanned THEN size - (ScanBudget - scanned)
                     ELSE start

Open ==
    /\ pc = "next" /\ ~Over /\ Exists(cands[at])
    /\ LET ino == names[cands[at]]
           size == Len(content[ino])
       IN  IF scanned >= ScanBudget \/ wire - 1 <= 0
           THEN /\ stop' = TRUE
                /\ wire' = IF scanned >= ScanBudget THEN wire ELSE wire - 1
                /\ stats' = [stats EXCEPT !.reasons = @ \union
                               {IF scanned >= ScanBudget THEN "scan_limit" ELSE "return_limit"}]
                /\ UNCHANGED <<pc, file, frames>>
           ELSE \E start \in Starts(content[ino]), torn \in BOOLEAN :
                /\ file' = [ino |-> ino, src |-> IF transport = "local" THEN ino ELSE 0,
                            size |-> size, pos |-> TailStart(start, size), torn |-> torn]
                /\ stats' = [stats EXCEPT !.reasons = IF TailStart(start, size) = start THEN @
                                                      ELSE @ \union {"scan_limit"}]
                /\ wire' = wire - 1
                /\ pc' = "read" /\ UNCHANGED stop
                /\ Says(<<Frame("FILE", ino, size)>>)
    /\ run' = NoRun /\ staged' = <<>>
    \* history: the name was recreated or emptied between the listing and here
    /\ blind' = IF IsPrefix(listed[cands[at]], RecordsOf(cands[at])) THEN blind
                ELSE blind \union {cands[at]}
    /\ UNCHANGED <<server, transport, t0, cands, at, series, scanned, window, listed>>

\* The script's tail opens the name again.
TailOpens ==
    /\ pc = "read" /\ file.src = 0 /\ file.pos < file.size /\ Exists(cands[at])
    /\ file' = [file EXCEPT !.src = names[cands[at]]]
    /\ UNCHANGED <<server, transport, pc, t0, cands, at, run, staged, series, wire, scanned,
                   stop, stats, frames, window, listed, blind>>

\* OSError in the middle of a file, or the producer's status on the side channel.
ReadError ==
    /\ pc = "read" /\ NextFile /\ Skip("unreadable", "unreadable") /\ file' = NoFile
    /\ Says(<<Frame("ERR", "producer", 0), Stat(cands[at])>>)

-----------------------------------------------------------------------------
(* PhysicalRle and the wire budget.                                        *)

\* A mutant: chart events are collapsed like any other record.
JoinsAny(k, n) == run.count > 0 /\ run.kind = k /\ n = run.last + 1

Joins(k, n) == run.count > 0 /\ run.kind = k /\ k \notin Preserved /\ n = run.last + 1

\* _emit: the cost of a run is tested before it is kept.
Fits == wire >= 1
Flushed == IF run.count > 0 /\ Fits THEN <<run>> ELSE <<>>
Refused == run.count > 0 /\ ~Fits
Runs == [i \in 1..Len(Flushed) |-> Frame("RUN", Flushed[i], 0)]
Flush(dropped) ==
    /\ staged' = staged \o Flushed
    /\ wire' = wire - Len(Flushed)
    /\ stop' = (stop \/ Refused)
    /\ stats' = [stats EXCEPT !.dropped = @ + dropped,
                              !.reasons = IF Refused THEN @ \union {"return_limit"} ELSE @]

\* A matched record of the window joins the run or ends it.
Feed(r, n) ==
    IF Joins(r.kind, n)
    THEN /\ run' = [run EXCEPT !.last = n, !.recs = @ \union {r.ts}, !.count = @ + 1]
         /\ UNCHANGED <<staged, wire, stop, stats, frames>>
    ELSE /\ Flush(0) /\ Says(Runs)
         /\ run' = [kind |-> r.kind, last |-> n, recs |-> {r.ts}, count |-> 1]

\* A recall clause matches it and its time is in the window.
Requested(r) == r.kind \in Wanted /\ r.ts \in From..t0

\* One record of the range seen at open; the file may have become shorter.
ReadRecord ==
    /\ pc = "read" /\ file.src # 0 /\ ~stop
    /\ file.pos < file.size /\ file.pos < Len(content[file.src])
    /\ LET r == content[file.src][file.pos + 1]
       IN  IF Requested(r) THEN Feed(r, file.pos + 1)
           ELSE UNCHANGED <<run, staged, wire, stop, stats, frames>>
    /\ file' = [file EXCEPT !.pos = @ + 1]
    /\ scanned' = scanned + 1
    /\ UNCHANGED <<server, transport, pc, t0, cands, at, series, window, listed, blind>>

\* The local source tests its deadline between two chunks.
DeadlineInFile ==
    /\ pc = "read" /\ transport = "local" /\ ~stop /\ file.pos < file.size
    /\ stop' = TRUE /\ stats' = [stats EXCEPT !.reasons = @ \union {"time_limit"}]
    /\ UNCHANGED <<server, transport, pc, t0, cands, at, file, run, staged, series, wire,
                   scanned, frames, window, listed, blind>>

\* The end of the range: an unterminated tail is dropped, the last run is flushed;
\* neither when a limit has stopped the scan before the end.
EndRange ==
    /\ pc = "read"
    /\ \/ stop \/ file.pos >= file.size
       \/ file.src # 0 /\ file.pos >= Len(content[file.src])
    /\ pc' = "check"
    /\ LET torn == IF file.torn /\ ~stop THEN 1 ELSE 0
           meta == Frame("META", torn, Refused \/ stop)
       IN  /\ IF stop THEN Says(<<meta>>) /\ UNCHANGED <<staged, wire, stop, stats>>
              ELSE Flush(IF transport = "local" THEN torn ELSE 0) /\ Says(Append(Runs, meta))
           /\ file' = [file EXCEPT !.torn = torn = 1]
    /\ run' = NoRun
    /\ UNCHANGED <<server, transport, t0, cands, at, series, scanned, window, listed, blind>>

-----------------------------------------------------------------------------
(* _identity_intact, and FILE_END of the script: what was read is committed *)
(* only when the name still leads to the inode and it has not shrunk.       *)

\* A mutant: a file that has shrunk under its name is trusted.
IntactInode == names[cands[at]] = file.ino \/ (transport = "remote" /\ file.size = 0)

Intact ==
    \/ names[cands[at]] = file.ino /\ Len(content[file.ino]) >= file.size
    \/ transport = "remote" /\ file.size = 0    \* no second stat for an empty range

\* History: the name leads to the inode that was opened, which has not become shorter
\* since, and yet does not hold what was listed: truncated and grown again.
Regrown ==
    /\ names[cands[at]] = file.ino /\ Len(content[file.ino]) >= file.size
    /\ ~IsPrefix(listed[cands[at]], content[file.ino])

Check ==
    /\ pc = "check" /\ NextFile
    /\ series' = IF Intact THEN series \o staged ELSE series
    /\ stats' = IF Intact
                THEN [stats EXCEPT !.read = @ + 1,
                        \* the lines dropped on the host count when their file does
                        !.dropped = IF transport = "remote" /\ file.torn THEN @ + 1 ELSE @]
                ELSE [stats EXCEPT !.vanished = @ + 1, !.reasons = @ \union {"rotation_race"}]
    /\ staged' = <<>> /\ file' = NoFile
    /\ blind' = IF Regrown THEN blind \union {cands[at]} ELSE blind
    /\ Says(<<IF file.size = 0 THEN Frame("FILE_END", file.ino, 0) ELSE Stat(cands[at])>>)
    /\ UNCHANGED <<server, transport, t0, cands, run, wire, scanned, stop, window, listed>>

-----------------------------------------------------------------------------
(* parse_output: the frames of one file are staged until FILE_END proves   *)
(* that they can be trusted.                                               *)

NoBlock == [file |-> <<>>, staged |-> <<>>, dropped |-> 0, hit |-> FALSE, failed |-> "no"]
Account(st, s) == [read |-> st.read, vanished |-> st.vanished, unreadable |-> st.unreadable,
                   dropped |-> st.dropped, reasons |-> st.reasons, series |-> s]

\* A mutant: only the inode is compared.
CommitInode(b, res, ino, size) ==
    IF b.failed = "no" /\ b.file[1] = ino
    THEN [res EXCEPT !.series = @ \o b.staged, !.read = @ + 1, !.dropped = @ + b.dropped]
    ELSE [res EXCEPT !.vanished = @ + 1, !.reasons = @ \union {"rotation_race"}]

\* _commit: identity by inode, and the file has not shrunk.
Commit(b, res, ino, size) ==
    CASE b.failed # "no" ->
           [res EXCEPT !.unreadable = @ + 1, !.reasons = @ \union {"unreadable"}]
      [] b.failed = "no" /\ b.file[1] = ino /\ b.file[2] <= size ->
           [res EXCEPT !.series = @ \o b.staged, !.read = @ + 1, !.dropped = @ + b.dropped,
                       !.reasons = IF b.hit THEN @ \union {"return_limit"} ELSE @]
      [] OTHER -> [res EXCEPT !.vanished = @ + 1, !.reasons = @ \union {"rotation_race"}]

\* One frame: the block it belongs to and the result so far.
ParseFrame(s, fr) ==
    LET b == s[1]  res == s[2]
    IN  CASE fr.f = "FILE" -> <<[b EXCEPT !.file = <<fr.a, fr.b>>], res>>
          [] fr.f = "RUN" -> <<[b EXCEPT !.staged = Append(@, fr.a)], res>>
          [] fr.f = "META" -> <<[b EXCEPT !.dropped = @ + fr.a, !.hit = fr.b], res>>
          [] fr.f = "FILE_END" -> <<NoBlock, Commit(b, res, fr.a, fr.b)>>
          [] fr.f = "ERR" /\ b.file # <<>> -> <<[b EXCEPT !.failed = fr.a], res>>
          [] fr.f = "ERR" /\ b.file = <<>> /\ fr.a = "vanished" ->
               <<b, [res EXCEPT !.vanished = @ + 1, !.reasons = @ \union {"rotation_race"}]>>
          [] OTHER -> <<b, [res EXCEPT !.unreadable = @ + 1, !.reasons = @ \union {"unreadable"}]>>

\* The whole output; DONE carries the limits the script has hit.
Parse(fs, limits) ==
    LET res == FoldLeft(ParseFrame, <<NoBlock, Account(NoStats, <<>>)>>, fs)[2]
    IN  [res EXCEPT !.reasons = @ \union limits]

-----------------------------------------------------------------------------
(* _build_window: parse, sort, merge, and say what is missing.             *)

First(s) == CHOOSE t \in s.recs : \A u \in s.recs : t <= u
LastOf(s) == CHOOSE t \in s.recs : \A u \in s.recs : u <= t

\* merge_client_series with _can_merge_client_records: neighbours of one fingerprint.
CanMerge(h, s) ==
    /\ PrintOf[h.kind] = PrintOf[s.kind] /\ {h.kind, s.kind} \cap Preserved = {}
    /\ First(s) - LastOf(h) \in 0..Gap
Merged(h, s) == [h EXCEPT !.recs = @ \union s.recs, !.count = @ + s.count]
MergeInto(out, s) ==
    IF out # <<>> /\ CanMerge(Last(out), s)
    THEN [out EXCEPT ![Len(out)] = Merged(@, s)] ELSE Append(out, s)
MergeSeries(seq) == FoldLeft(MergeInto, <<>>, seq)

\* ranking_complete: any loss forfeits it.
Complete(st) == /\ st.reasons = {} /\ st.vanished = 0 /\ st.unreadable = 0 /\ st.dropped = 0

\* _record_from_series returns nothing for a run whose record cannot be parsed.
Parsed(bad) == {series[i] : i \in (1..Len(series)) \ bad}

\* records.sort: by the first time of each.
Chronological(S) ==
    {seq \in Enumerations(S) :
        \A i, k \in DOMAIN seq : i <= k => First(seq[i]) <= First(seq[k])}

BuildWindow ==
    /\ pc = "next" /\ Over
    /\ pc' = "done"
    /\ \E bad \in SUBSET (1..Len(series)) : \E seq \in Chronological(Parsed(bad)) :
         LET st == IF bad = {} THEN stats
                   ELSE [stats EXCEPT !.reasons = @ \union {"parse_errors"},
                                      !.dropped = @ + Cardinality(bad)]
         IN  /\ stats' = st
             /\ window' = IF stats.read = 0 THEN [NoWindow EXCEPT !.status = "unavailable"]
                          ELSE [status |-> "collected", complete |-> Complete(st),
                                records |-> ToSet(MergeSeries(seq))]
    /\ UNCHANGED <<server, transport, t0, cands, at, file, run, staged, series, wire, scanned,
                   stop, frames, listed, blind>>

-----------------------------------------------------------------------------
\* The server rotated through Names: an older name holds older records.
Init ==
    /\ \E cut \in [Names -> 0..InitialRecords], kinds \in [1..InitialRecords -> Kinds] :
         LET upto(n) == IF n = 0 THEN 0 ELSE cut[n]
         IN  /\ \A m, n \in Names : m <= n => upto(m) <= upto(n)
             /\ upto(Cardinality(Names)) = InitialRecords
             /\ names = [n \in Names |-> n]
             /\ content = [i \in Inodes |->
                  IF i \in Names
                  THEN [j \in 1..(cut[i] - upto(i - 1)) |->
                          [ts |-> upto(i - 1) + j, kind |-> kinds[upto(i - 1) + j]]]
                  ELSE <<>>]
    /\ clock = InitialRecords /\ steps = 0
    /\ transport \in {"local", "remote"}
    /\ pc = "list" /\ t0 = 0 /\ cands = <<>> /\ at = 0
    /\ file = NoFile /\ run = NoRun /\ staged = <<>> /\ series = <<>>
    /\ wire \in {w - 1 : w \in WireBudgets} /\ scanned = 0 /\ stop = FALSE /\ stats = NoStats
    /\ frames = <<>> /\ window = NoWindow
    /\ listed = [n \in Names |-> <<>>] /\ blind = {}

Scan == \/ List \/ NotListed \/ NotCapable \/ DeadlineHit \/ Vanished \/ Unreadable
        \/ Open \/ TailOpens \/ ReadError \/ ReadRecord \/ DeadlineInFile \/ EndRange
        \/ Check \/ BuildWindow
Next == Server \/ Scan \/ Fails
Spec == Init /\ [][Next]_vars

-----------------------------------------------------------------------------
\* What the server had written when the window was fixed: the records of all files.
Written(n) == {r \in ToSet(listed[n]) : Requested(r)}
Counted == UNION {w.recs : w \in window.records}

\* A record of the window stands for as many occurrences as were merged into it,
\* all of one fingerprint, and no occurrence is in two of them: neither the
\* physical runs nor the merged series count an occurrence twice or mix records.
WindowTrue ==
    \A w \in window.records :
      /\ w.count = Cardinality(w.recs)
      /\ w.kind \in Preserved => w.count = 1
      /\ \A v \in window.records : v # w => v.recs \cap w.recs = {}
      /\ \A n \in Names \ blind : \A r \in Written(n) :
           r.ts \in w.recs => PrintOf[r.kind] = PrintOf[w.kind]

\* A window that calls itself complete holds every requested record that was in a log
\* file when the files were listed, whatever the server did since, except those of a
\* file whose name was reused without a trace.
CompleteMeansAll ==
    window.complete => \A n \in Names \ blind : {r.ts : r \in Written(n)} \subseteq Counted

\* What the collector reads out of the script's frames is what the host has read: the
\* same runs of the same files, and the same account of what is missing.
ParserAgrees ==
    LET limits == stats.reasons \cap {"scan_limit", "return_limit", "time_limit"}
    IN  (pc = "next" /\ transport = "remote" /\ Over) =>
          Parse(frames, limits) =
            Account([stats EXCEPT !.reasons = @ \ {"candidate_limit"}], series)

=============================================================================

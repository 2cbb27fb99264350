---------------------------- MODULE LogDirectory ----------------------------
(***************************************************************************)
(* Discovery of the log files in logs mode (logscan/directory.py,          *)
(* records.py, clock.py): there is no database, so the csv files of a      *)
(* directory are probed at their ends, the dates the window depends on are *)
(* verified from the first byte within a budget, and the window ends at    *)
(* the newest record.                                                      *)
(*                                                                         *)
(* A file is a sequence of lines.  A line has the date it begins with      *)
(* (0: none) and says whether its number of quotes is odd; a record is a   *)
(* line that begins outside quotes up to the first one that ends outside   *)
(* them, so a date inside a message looks like a record to a probe that    *)
(* starts inside the quotes.  Sizes and budgets are in lines.  Dates are   *)
(* absolute; Wall gives what the log shows, with one change of the offset. *)
(***************************************************************************)
EXTENDS Integers, Sequences, FiniteSets, SequencesExt, FiniteSetsExt, Sorting

CONSTANTS
    Names,           \* names of csv files: numbers, for the order of equal dates
    Contents,        \* the files considered: [lines, torn], torn: the last line has no end
    TailProbe,       \* TAIL_PROBE_BYTES
    MaxProbe,        \* MAX_PROBE_BYTES
    MaxFiles,        \* MAX_PROBE_FILES
    VerifyBudget,    \* VERIFY_BUDGET_BYTES
    MaxCandidates,   \* MAX_CANDIDATE_FILES
    Depth,           \* depth of the window
    Change,          \* the offset of the log's zone changes here,
    Shifts           \* by one of these: -1 is the end of summer time

\* A line, as discovery looks at it.
Line == [date : Nat, odd : BOOLEAN]

ASSUME LogDirectoryAssumption ==
    /\ Contents \subseteq [lines : Seq(Line), torn : BOOLEAN]
    /\ \A c \in Contents : c.torn => c.lines # <<>>
    /\ Names \subseteq Nat /\ IsFiniteSet(Names) /\ Shifts \subseteq Int
    /\ {TailProbe, MaxProbe, MaxFiles, VerifyBudget, MaxCandidates, Depth, Change} \subseteq Nat \ {0}

VARIABLES
    disk,       \* disk[n]: the file of name n; NoFile when there is none
    shift,      \* the change of the offset
    clock,      \* what is known of it: a "zone", a "fixed" offset of each date, "unknown"
    pc,
    files,      \* DiscoveryState.files: the probed files
    unreadable, \* names that could not be probed
    truncated,  \* listing_truncated
    todo,       \* files still to be verified, in this order
    verified,   \* names verified so far
    bytes,      \* verify_bytes
    reasons,
    found,      \* the DirectoryWindow
    probed,     \* history: the disk when it was probed
    tested      \* history: the anchor when the files to be left out were chosen

discovery == <<files, unreadable, truncated, todo, verified, bytes, reasons, found, probed, tested>>
directory == <<disk, shift, clock, pc, discovery>>

NoFile == [lines |-> <<>>, torn |-> FALSE]
NoWindow == [status |-> "none", anchor |-> 0, from |-> 0, to |-> 0, cands |-> <<>>]

-----------------------------------------------------------------------------
(* Records by the parity of quotes.                                        *)

\* A line is read with the quotes open or not; start is the date of an open record, -1: none.
NextLine(acc, line, end) ==
    LET open == IF acc.odd THEN acc.start ELSE line.date
        odd  == acc.odd # line.odd
    IN  [odd |-> odd, start |-> open,
         recs |-> IF ~odd /\ open # -1 THEN Append(acc.recs, [date |-> open, end |-> end])
                  ELSE acc.recs]

\* complete_records over the lines from a position on, the quotes taken as closed there.
\* The line a chunk begins with starts no record, its quotes count.
Whole(f) == IF f.torn THEN Len(f.lines) - 1 ELSE Len(f.lines)
Before(offset) == IF offset = 0 THEN 0 ELSE offset + 1
FirstState(f, offset) ==
    [odd |-> offset > 0 /\ offset < Whole(f) /\ f.lines[offset + 1].odd, start |-> -1, recs |-> <<>>]
Reading(f, offset) ==
    LET read[i \in 0..Whole(f)] ==
          IF i <= Before(offset) THEN FirstState(f, offset) ELSE NextLine(read[i - 1], f.lines[i], i)
    IN  read
CompleteRecords(f, offset) == Reading(f, offset)[Whole(f)]

LastDate(recs) ==
    LET dated == {i \in DOMAIN recs : recs[i].date # 0}
    IN  IF dated = {} THEN 0 ELSE recs[Max(dated)].date

\* parse_tail: consistent when the quotes are closed at the end, trusted when the last
\* record ends with the file and every record begins with a date.
ParseTail(f, offset) ==
    LET parsed == CompleteRecords(f, offset)
        recs   == parsed.recs
    IN  [last |-> LastDate(recs), consistent |-> ~parsed.odd,
         trusted |-> /\ ~parsed.odd /\ recs # <<>> /\ Last(recs).end = Len(f.lines)
                     /\ \A i \in DOMAIN recs : recs[i].date # 0]

\* What the file really holds: it begins outside quotes.
TrueRecords(f) == CompleteRecords(f, 0).recs
TrueLast(f) == LastDate(TrueRecords(f))

\* A log is written in the order of time.
ASSUME ChronologyAssumption ==
    \A c \in Contents : \A i, j \in DOMAIN TrueRecords(c) :
        (i < j /\ TrueRecords(c)[j].date # 0) => TrueRecords(c)[i].date <= TrueRecords(c)[j].date

\* The chunk is doubled until the parse is consistent, begins the file, or is at its cap.
Chunk[k \in 0..MaxProbe] == IF k = 0 THEN TailProbe ELSE 2 * Chunk[k - 1]
Skipped(f, size) == IF size >= Len(f.lines) THEN 0 ELSE Len(f.lines) - size
Conclusive(f, size) ==
    LET parsed == ParseTail(f, Skipped(f, size))
    IN  Skipped(f, size) = 0 \/ (parsed.consistent /\ parsed.last # 0)
TailSize(f) == Chunk[Min({k \in 0..MaxProbe : Conclusive(f, Chunk[k]) \/ Chunk[k] >= MaxProbe})]
ProbeTail(f, size) ==
    LET parsed == ParseTail(f, Skipped(f, size))
    IN  IF Conclusive(f, size)
        THEN [last |-> parsed.last, determined |-> TRUE, exact |-> Skipped(f, size) = 0,
              trusted |-> Skipped(f, size) = 0 \/ parsed.trusted]
        ELSE [last |-> 0, determined |-> FALSE, exact |-> FALSE, trusted |-> FALSE]

\* The layout is known when the first record is whole within the head and begins with a date.
Layout(f) ==
    LET head == SubSeq(f.lines, 1, Min({MaxProbe, Len(f.lines)}))
        recs == TrueRecords([lines |-> head, torn |-> f.torn /\ Len(head) = Len(f.lines)])
    IN  recs # <<>> /\ recs[1].date # 0

ProbeFile(n, f) ==
    LET tail == ProbeTail(f, TailSize(f))
    IN  [name |-> n, size |-> Len(f.lines), last |-> tail.last, determined |-> tail.determined,
         exact |-> tail.exact, trusted |-> tail.trusted, layout |-> Layout(f)]

-----------------------------------------------------------------------------
(* The log's clock.                                                        *)

Offset(a) == IF a >= Change THEN shift ELSE 0
Wall(a) == a + Offset(a)
\* offset_for a wall-clock time without a suffix: the first of two.
OffsetOfWall(w) == IF w >= Change /\ w - shift >= Change THEN shift ELSE 0
\* to_absolute, with the date's own suffix; without a clock the wall-clock time stands for it.
OrderKey(f) == IF clock = "unknown" THEN Wall(f.last) ELSE f.last
Newer(f, g) == OrderKey(f) > OrderKey(g) \/ (OrderKey(f) = OrderKey(g) /\ f.name > g.name)

Apart(a, b) == IF a < b THEN b - a ELSE a - b
\* Mutant: the bounds are not widened across a change of the offset.
WindowBoundsNaive(anchor) == [from |-> Wall(anchor) - Depth, to |-> Wall(anchor)]
WindowBounds(anchor) ==
    LET naive == Wall(anchor) - Depth
        local == IF clock = "zone" THEN Wall(anchor - Depth) ELSE naive
        wider == IF clock = "zone" THEN Apart(OffsetOfWall(local), Offset(anchor)) ELSE 0
    IN  [from |-> Min({local, naive}) - wider, to |-> Wall(anchor) + wider]

-----------------------------------------------------------------------------
(* The disk: a file is removed, or grows by a record that is newer than all. *)

NewDate == 1 + Max({0} \union {line.date : line \in UNION {ToSet(disk[n].lines) : n \in Names}})
Vanish(n) == disk[n] # NoFile /\ disk' = [disk EXCEPT ![n] = NoFile]
Grow(n) ==
    /\ disk[n] # NoFile /\ ~disk[n].torn /\ ~CompleteRecords(disk[n], 0).odd
    /\ disk' = [disk EXCEPT ![n].lines = Append(@, [date |-> NewDate, odd |-> FALSE])]
\* Bound: one change between the probe and the verification.
Disk ==
    /\ pc \in {"undetermined", "newest", "excluded"} /\ disk = probed
    /\ \E n \in Names : Vanish(n) \/ Grow(n)
    /\ UNCHANGED <<shift, clock, pc, discovery>>

-----------------------------------------------------------------------------
(* The probe.                                                              *)

Ends(status) ==
    /\ pc' = "done" /\ found' = [found EXCEPT !.status = status]
    /\ UNCHANGED <<disk, shift, clock, files, unreadable, truncated, todo, verified, bytes, reasons,
                   probed, tested>>

\* No directory, no permission, a host without the tools.
ProbeFails == pc = "probe" /\ Ends("unavailable")
\* Past the probe a malformed answer or the deadline ends the phase with an error.
Fails == pc \in {"undetermined", "newest", "excluded"} /\ Ends("error")

\* Which files come first is a matter of modification times, which prove nothing.
Probe ==
    /\ pc = "probe"
    /\ LET entries == {n \in Names : disk[n] # NoFile}
           over    == Cardinality(entries) > MaxFiles
       IN  \E P \in kSubset(IF over THEN MaxFiles ELSE Cardinality(entries), entries), U \in SUBSET entries :
             /\ files' = {ProbeFile(n, disk[n]) : n \in P \ U}
             /\ unreadable' = P \intersect U
             /\ truncated' = over
    /\ pc' = "undetermined" /\ probed' = disk
    /\ todo' = SetToSeq({f \in files' : ~f.determined /\ f.size > 0})
    /\ UNCHANGED <<disk, shift, clock, verified, bytes, reasons, found, tested>>

-----------------------------------------------------------------------------
(* The verification.                                                       *)

DatedFiles == {f \in files : f.last # 0}
IsNewest(f) == f \in DatedFiles /\ \A g \in DatedFiles \ {f} : Newer(f, g)
NewestFile == CHOOSE f \in DatedFiles : IsNewest(f)
ByDate(S) == Sorted(S, [f \in S |-> <<-OrderKey(f), -f.name>>])

Exact(f) == [f EXCEPT !.last = TrueLast(disk[f.name]), !.determined = TRUE,
                      !.exact = TRUE, !.trusted = TRUE]

\* _verify within the budget: the exact date, or an error that removes the file.
Verify(f) ==
    /\ bytes + f.size <= VerifyBudget
    /\ verified' = verified \union {f.name}
    /\ \/ /\ disk[f.name] # NoFile
          /\ files' = {IF g.name = f.name THEN Exact(g) ELSE g : g \in files}
          /\ bytes' = bytes + Len(disk[f.name].lines)
          /\ UNCHANGED reasons
       \/ /\ files' = {g \in files : g.name # f.name}
          /\ reasons' = reasons \union {"files_unreadable"}
          /\ UNCHANGED bytes
\* _verify over the budget.
Unverified(f) ==
    /\ bytes + f.size > VerifyBudget
    /\ reasons' = reasons \union {"discovery_incomplete"}
    /\ UNCHANGED <<files, bytes, verified>>

Verification == UNCHANGED <<disk, shift, clock, unreadable, truncated, found, probed>>

\* First the files without a date: they may hold records newer than all.
VerifyUndetermined ==
    /\ pc = "undetermined" /\ todo # <<>>
    /\ Verify(todo[1]) \/ Unverified(todo[1])
    /\ todo' = SubSeq(todo, 2, Len(todo)) /\ pc' = pc
    /\ UNCHANGED tested /\ Verification
UndeterminedDone ==
    /\ pc = "undetermined" /\ todo = <<>> /\ pc' = "newest"
    /\ UNCHANGED <<files, todo, verified, bytes, reasons, tested>> /\ Verification

\* Mutant: what is newest after the first verification is taken for it.
VerifyNewestOnce ==
    /\ pc = "newest"
    /\ \E f \in DatedFiles :
          /\ IsNewest(f) /\ f.name \notin verified
          /\ Verify(f) \/ Unverified(f)
    /\ pc' = "anchor"
    /\ UNCHANGED <<todo, tested>> /\ Verification

\* Then the newest one, until the newest is verified.
VerifyNewest ==
    /\ pc = "newest"
    /\ \E f \in DatedFiles :
          /\ IsNewest(f) /\ f.name \notin verified
          /\ \/ Verify(f) /\ pc' = pc
             \/ Unverified(f) /\ pc' = "anchor"
    /\ UNCHANGED <<todo, tested>> /\ Verification

\* The files that would be excluded on a date that is neither exact nor trusted.
Excluded(newest) ==
    {f \in DatedFiles \ {newest} :
        Wall(f.last) < WindowBounds(newest.last).from /\ ~f.exact /\ ~f.trusted}
NewestDone ==
    /\ \/ pc = "anchor"
       \/ pc = "newest" /\ \A f \in DatedFiles : IsNewest(f) => f.name \in verified
    /\ pc' = "excluded"
    /\ IF DatedFiles = {} THEN todo' = <<>> /\ tested' = tested
       ELSE /\ tested' = NewestFile.last
            /\ todo' = ByDate(Excluded(NewestFile))
    /\ UNCHANGED <<files, verified, bytes, reasons>> /\ Verification

\* Past the budget the remaining ones stay excluded.
VerifyExcluded ==
    /\ pc = "excluded" /\ todo # <<>>
    /\ \/ Verify(todo[1]) /\ todo' = SubSeq(todo, 2, Len(todo))
       \/ Unverified(todo[1]) /\ todo' = <<>>
    /\ pc' = pc /\ UNCHANGED tested /\ Verification

-----------------------------------------------------------------------------
(* The window.                                                             *)

Undetermined == {f \in files : ~f.determined /\ f.size > 0}
Inside(from) == {f \in DatedFiles : Wall(f.last) >= from}

NoDate == pc = "excluded" /\ todo = <<>> /\ DatedFiles = {} /\ Ends("unavailable")
NoLayout ==
    /\ pc = "excluded" /\ todo = <<>> /\ DatedFiles # {}
    /\ \A f \in DatedFiles : ~f.layout
    /\ Ends("unavailable")

Resolve ==
    /\ pc = "excluded" /\ todo = <<>> /\ \E f \in DatedFiles : f.layout
    /\ LET bounds == WindowBounds(NewestFile.last)
           all    == SetToSeq(Undetermined) \o ByDate(Inside(bounds.from))
           over   == Len(all) > MaxCandidates
       IN  /\ found' = [status |-> "resolved", anchor |-> NewestFile.last,
                        from |-> bounds.from, to |-> bounds.to,
                        cands |-> [i \in 1..Min({MaxCandidates, Len(all)}) |-> all[i].name]]
           /\ reasons' = reasons
                \union (IF Undetermined # {} THEN {"discovery_incomplete"} ELSE {})
                \union (IF unreadable # {} THEN {"files_unreadable"} ELSE {})
                \union (IF truncated \/ over THEN {"candidate_limit_hit"} ELSE {})
    /\ pc' = "done"
    /\ UNCHANGED <<disk, shift, clock, files, unreadable, truncated, todo, verified, bytes, probed, tested>>

DirectoryInit ==
    /\ disk \in [Names -> Contents \union {NoFile}]
    /\ shift \in Shifts /\ clock \in {"zone", "fixed", "unknown"}
    /\ pc = "probe" /\ files = {} /\ unreadable = {} /\ truncated = FALSE /\ todo = <<>>
    /\ verified = {} /\ bytes = 0 /\ reasons = {} /\ found = NoWindow /\ probed = disk
    /\ tested = 0

DirectoryNext == \/ Disk \/ ProbeFails \/ Fails \/ Probe \/ VerifyUndetermined \/ UndeterminedDone
                 \/ VerifyNewest \/ NewestDone \/ VerifyExcluded \/ NoDate \/ NoLayout \/ Resolve

DirectorySpec == DirectoryInit /\ [][DirectoryNext]_directory

-----------------------------------------------------------------------------
(* Properties.                                                             *)

Resolved == found.status = "resolved"
TimesKnown == clock = "zone" \/ shift = 0

\* The tail of a file was taken for whole and dated although it begins inside quotes
\* and the file ends inside a record.
Misled(f) == f.trusted /\ ~f.exact /\ f.last # TrueLast(probed[f.name])

\* The window ends at a record: a date inside a message never moves it, however a tail was
\* parsed, unless discovery says that it is incomplete.
AnchorReal ==
    Resolved /\ "discovery_incomplete" \notin reasons =>
        \E n \in Names : \E f \in {probed[n], disk[n]} : TrueLast(f) = found.anchor

\* A file that was inside the window by an unproved date when files were left out; the window
\* then moved on, because a file that was to be left out proved newer than all.
Overtaken(f) == ~f.exact /\ ~f.trusted /\ found.anchor # tested

\* A discovery that reports nothing has not lost a record of the window: each file that
\* holds one when it is probed is a candidate, and the bounds of the scan contain the
\* record's wall-clock time across a change of the offset.  Only a tail that looks whole
\* while the file ends inside a record can hide one, and a window that moves on.
Found(n, r) == /\ n \in ToSet(found.cands)
               /\ found.from <= Wall(r.date) /\ Wall(r.date) <= found.to
WindowRecords(n) == {r \in ToSet(TrueRecords(probed[n])) :
                        r.date # 0 /\ found.anchor - Depth <= r.date /\ r.date <= found.anchor}
NothingHidden ==
    Resolved /\ reasons = {} /\ TimesKnown =>
        \A n \in Names : \/ \E f \in files : f.name = n /\ (Misled(f) \/ Overtaken(f))
                         \/ \A r \in WindowRecords(n) : Found(n, r)

=============================================================================

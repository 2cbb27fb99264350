------------------------ MODULE ReportCommand_proofs ------------------------
(***************************************************************************)
(* What TLAPS proves of ReportCommand, for any number of items, any        *)
(* definitions of them and any filters.                                    *)
(***************************************************************************)
EXTENDS ReportCommand, TLAPS

Opening == {"arguments", "ssh", "tunnel", "database", "verify", "identify", "plan"}
Places ==
  Opening \cup {"items", "finish", "html", "json", "written", "failed", "interrupted", "exited"}

TypeOK ==
  /\ content \in [Items -> Definitions]
  /\ args \in [mode : {"one_shot", "snapshots", "logs"},
               collection : {"local", "remote", "remote_db_only"},
               filter : Selections, formats : (SUBSET Formats) \ {{}},
               options : SUBSET {"db", "ssh"}, depth : BOOLEAN, sound : BOOLEAN]
  /\ old \in {None, "sound", "foreign"}
  /\ failFast \in BOOLEAN /\ hurried \in BOOLEAN
  /\ full \in BOOLEAN /\ samples \in {None, "clean", "failed"}
  /\ pc \in Places
  /\ ssh \in {"none", "open", "tunnel", "closed"}
  /\ conn \in {"none", "unverified", "open", "closed"}
  /\ files \in [Formats -> {"none", "old", "new"}]

New == {f \in Formats : files[f] = "new"}

(* Which connections there are at each place of the run.                   *)
ReadyForDatabase == RequiresDatabase /\ ssh = (IF RequiresSsh THEN "tunnel" ELSE "none")

LinkInv ==
  /\ pc \in {"arguments", "ssh"} => ssh = "none" /\ conn = "none"
  /\ pc = "tunnel" => RequiresSsh /\ RequiresDatabase /\ ssh = "open" /\ conn = "none"
  /\ pc = "database" => ReadyForDatabase /\ conn = "none"
  /\ pc = "verify" => ReadyForDatabase /\ conn = "unverified"
  /\ pc = "identify" => ReadyForDatabase /\ conn = "open"
  /\ pc \in {"plan", "items"} =>
       IF RequiresDatabase THEN ReadyForDatabase /\ conn = "open"
       ELSE conn = "none" /\ ssh = (IF RequiresSsh THEN "open" ELSE "none")
  /\ conn = "unverified" => pc = "verify"
  /\ pc = "exited" => conn \in {"none", "closed"} /\ (ssh \in {"none", "closed"} \/ hurried)

(* What is executed was planned, from a pack that was validated.           *)
WorkInv ==
  /\ pc \notin {"arguments", "exited"} => Valid
  /\ Mode = "logs" => ~NotOnHost
  /\ pc \in Opening => current = Idle
  /\ pc = "items" =>
       /\ todo \subseteq Executed
       /\ current # Idle =>
            /\ current \in [item : todo, source : {"own", "fallback"}]
            /\ current.source = "fallback" => PlannedFallback(current.item) # {}

(* The files at each place, and the errors recorded.                       *)
FilesInv ==
  /\ New \subseteq args.formats
  /\ pc \in Opening \cup {"items", "finish", "html", "interrupted"} => New = {}
  /\ pc = "json" => New = args.formats \cap {"html"}
  /\ pc = "written" => New = args.formats
  /\ pc = "failed" => New # args.formats
  /\ pc \in Opening => ~HasErrors
  /\ failFast /\ pc \notin {"failed", "interrupted", "exited"} => ~HasErrors
  /\ failFast /\ HasErrors => New = {}

(* What an exit status says.                                               *)
ExitInv ==
  pc = "exited" =>
    /\ exit \in {0, 1, 2, 130}
    /\ exit = 0 => New = args.formats /\ ~HasErrors
    /\ exit = 2 => New = {} /\ conn = "none" /\ ssh = "none"
    /\ New = args.formats => exit = (IF HasErrors THEN 1 ELSE 0) \/ hurried

IInv == TypeOK /\ LinkInv /\ WorkInv /\ FilesInv /\ ExitInv

-----------------------------------------------------------------------------

LEMMA InitIInv == Init => IInv
<1> SUFFICES ASSUME Init PROVE IInv
  OBVIOUS
<1>1. TypeOK
  BY DEF Init, TypeOK, Places, Opening, Formats, None
<1>2. LinkInv
  BY DEF Init, LinkInv
<1>3. WorkInv
  BY DEF Init, WorkInv
<1>4. New = {} /\ ~HasErrors
  BY DEF Init, New, HasErrors, Formats, None
<1>5. FilesInv /\ ExitInv
  BY <1>4 DEF Init, FilesInv, ExitInv
<1>6. QED
  BY <1>1, <1>2, <1>3, <1>5 DEF IInv

(* What depends on the content and the arguments only does not change.     *)
LEMMA GivenKept ==
  ASSUME UNCHANGED given
  PROVE  /\ RequiresDatabase' = RequiresDatabase /\ RequiresSsh' = RequiresSsh
         /\ Valid' = Valid /\ Mode' = Mode /\ NotOnHost' = NotOnHost
         /\ \A i : PlannedFallback(i)' = PlannedFallback(i)
<1> USE DEF given
<1>1. Mode' = Mode /\ NotOnHost' = NotOnHost /\ \A i : Selected(i)' = Selected(i)
  BY DEF Mode, NotOnHost, Selected
<1>2. \A i : ModeTargets(i)' = ModeTargets(i) /\ Executes(i)' = Executes(i)
  BY <1>1 DEF ModeTargets, Executes
<1>3. \A t : Requiring(t)' = Requiring(t)
  BY <1>1, <1>2 DEF Requiring
<1>4. RequiresDatabase' = RequiresDatabase
  BY <1>1, <1>3 DEF RequiresDatabase
<1>5. RequiresSsh' = RequiresSsh
  BY <1>3, <1>4 DEF RequiresSsh
<1>6. Valid' = Valid
  BY DEF Valid
<1>7. \A i : PlannedFallback(i)' = PlannedFallback(i)
  BY <1>1 DEF PlannedFallback
<1>8. QED
  BY <1>1, <1>4, <1>5, <1>6, <1>7

(* The plan depends on the server besides.                                 *)
LEMMA PlanKept ==
  ASSUME UNCHANGED <<given, server>>
  PROVE  Executed' = Executed
<1> USE DEF given
<1>1. Mode' = Mode /\ NotOnHost' = NotOnHost /\ \A i : Selected(i)' = Selected(i)
  BY DEF Mode, NotOnHost, Selected
<1>2. \A d : SourceStatus(d)' = SourceStatus(d)
  BY <1>1 DEF SourceStatus, QueryStatus, ScriptStatus, PythonStatus, MetricStatus
<1>3. \A i : PlanStatus(i)' = PlanStatus(i)
  BY <1>1, <1>2 DEF PlanStatus
<1>4. QED
  BY <1>1, <1>3 DEF Executed

(* Types.                                                                  *)
LEMMA NextTypeOK == TypeOK /\ [Next]_vars => TypeOK'
<1> SUFFICES ASSUME TypeOK, [Next]_vars PROVE TypeOK'
  OBVIOUS
<1> USE DEF TypeOK, Places, Opening, given, session, work, answers
<1>1. CASE Arguments
  <2>1. UNCHANGED <<content, args, old, ssh, conn, hurried, full, samples, files>>
    BY <1>1 DEF Arguments
  <2>2. pc' \in Places /\ failFast' \in BOOLEAN
    BY <1>1 DEF Arguments, Exits
  <2>3. QED
    BY <2>1, <2>2
<1>2. CASE OpenSsh
  BY <1>2 DEF OpenSsh, Fails, Formats
<1>3. CASE OpenTunnel
  BY <1>3 DEF OpenTunnel, Fails, Formats
<1>4. CASE Connect
  BY <1>4 DEF Connect, Fails, Formats
<1>5. CASE Verify
  BY <1>5 DEF Verify, Fails, Formats
<1>6. CASE Identify
  BY <1>6 DEF Identify, Fails, Formats
<1>7. CASE Plan
  BY <1>7 DEF Plan, Formats
<1>8. CASE Begin
  BY <1>8 DEF Begin, Formats
<1>9. CASE Execute
  <2>1. full' \in BOOLEAN
    <3>1. PICK o \in Ends : full' \in {full, full \/ (o = "ok" /\ content[current.item].log)}
      BY <1>9, Zenon DEF Execute
    <3>2. QED
      BY <3>1, Zenon
  <2>2. /\ UNCHANGED <<content, args, old, failFast, hurried, ssh, conn, samples, files>>
        /\ pc' \in {pc, "failed"}
    BY <1>9 DEF Execute, Record, Fails
  <2>3. QED
    BY <2>1, <2>2
<1>9a. CASE Sample
  BY <1>9a DEF Sample, Fails, Formats
<1>10. CASE Abandon
  BY <1>10 DEF Abandon, Fails, Formats
<1>11. CASE ObjectDdl
  BY <1>11 DEF ObjectDdl, Formats
<1>12. CASE Finish
  BY <1>12 DEF Finish, Fails, Formats
<1>13. CASE WriteFiles
  BY <1>13 DEF WriteFiles, Write, Fails, Formats
<1>14. CASE Close
  BY <1>14 DEF Close, Exits, Closed, Formats
<1>15. CASE Interrupt
  BY <1>15 DEF Interrupt, Formats
<1>16. CASE InterruptClosing
  BY <1>16 DEF InterruptClosing, Exits, Closed, Formats
<1>17. CASE UNCHANGED vars
  BY <1>17 DEF vars
<1>18. QED
  BY <1>1, <1>2, <1>3, <1>4, <1>5, <1>6, <1>7, <1>8, <1>9, <1>9a, <1>10, <1>11, <1>12, <1>13, <1>14, <1>15, <1>16, <1>17 DEF Next

(* The connections at each place.                                          *)
LEMMA NextLinkInv == TypeOK /\ LinkInv /\ [Next]_vars => LinkInv'
<1> SUFFICES ASSUME TypeOK, LinkInv, [Next]_vars PROVE LinkInv'
  OBVIOUS
<1>0. UNCHANGED given
  BY DEF Next, vars, Arguments, OpenSsh, OpenTunnel, Connect, Verify, Identify, Plan, Begin,
     Execute, Sample, Abandon, ObjectDdl, Finish, WriteFiles, Write, Close, Interrupt, InterruptClosing
<1>a. RequiresDatabase' = RequiresDatabase /\ RequiresSsh' = RequiresSsh
  BY <1>0, GivenKept
<1> USE <1>a DEF LinkInv, ReadyForDatabase, TypeOK, Places, Opening, session
<1>1. CASE Arguments
  BY <1>1 DEF Arguments, Exits
<1>2. CASE OpenSsh
  BY <1>2 DEF OpenSsh, Fails
<1>3. CASE OpenTunnel
  BY <1>3 DEF OpenTunnel, Fails
<1>4. CASE Connect
  BY <1>4 DEF Connect, Fails
<1>5. CASE Verify
  BY <1>5 DEF Verify, Fails
<1>6. CASE Identify
  BY <1>6 DEF Identify, Fails
<1>7. CASE Plan
  BY <1>7 DEF Plan
<1>8. CASE Begin
  BY <1>8 DEF Begin
<1>9. CASE Execute
  BY <1>9 DEF Execute, Record, Fails
<1>9a. CASE Sample
  BY <1>9a DEF Sample, Fails
<1>10. CASE Abandon
  BY <1>10 DEF Abandon, Fails
<1>11. CASE ObjectDdl
  BY <1>11 DEF ObjectDdl
<1>12. CASE Finish
  BY <1>12 DEF Finish, Fails
<1>13. CASE WriteFiles
  BY <1>13 DEF WriteFiles, Write, Fails
<1>14. CASE Close
  BY <1>14 DEF Close, Exits, Closed
<1>15. CASE Interrupt
  BY <1>15 DEF Interrupt
<1>16. CASE InterruptClosing
  BY <1>16 DEF InterruptClosing, Exits, Closed
<1>17. CASE UNCHANGED vars
  BY <1>17 DEF vars
<1>18. QED
  BY <1>1, <1>2, <1>3, <1>4, <1>5, <1>6, <1>7, <1>8, <1>9, <1>9a, <1>10, <1>11, <1>12, <1>13, <1>14, <1>15, <1>16, <1>17 DEF Next

(* What is to be done, and the pack it comes from.                         *)
LEMMA NextWorkInv == TypeOK /\ WorkInv /\ [Next]_vars => WorkInv'
<1> SUFFICES ASSUME TypeOK, WorkInv, [Next]_vars PROVE WorkInv'
  OBVIOUS
<1>0. UNCHANGED given
  BY DEF Next, vars, Arguments, OpenSsh, OpenTunnel, Connect, Verify, Identify, Plan, Begin,
     Execute, Sample, Abandon, ObjectDdl, Finish, WriteFiles, Write, Close, Interrupt, InterruptClosing
<1>a. /\ Valid' = Valid /\ Mode' = Mode /\ NotOnHost' = NotOnHost
      /\ \A i : PlannedFallback(i)' = PlannedFallback(i)
  BY <1>0, GivenKept
<1>b. UNCHANGED server => Executed' = Executed
  BY <1>0, PlanKept
<1> USE <1>a, <1>b DEF WorkInv, TypeOK, Places, Opening, work, answers
<1>1. CASE Arguments
  BY <1>1 DEF Arguments, Exits
<1>2. CASE OpenSsh
  BY <1>2 DEF OpenSsh, Fails
<1>3. CASE OpenTunnel
  BY <1>3 DEF OpenTunnel, Fails
<1>4. CASE Connect
  BY <1>4 DEF Connect, Fails
<1>5. CASE Verify
  BY <1>5 DEF Verify, Fails
<1>6. CASE Identify
  BY <1>6 DEF Identify, Fails
<1>7. CASE Plan
  BY <1>7 DEF Plan
<1>8. CASE Begin
  BY <1>8 DEF Begin
<1>9. CASE Execute
  <2>1. pc = "items" /\ current # Idle /\ UNCHANGED server
    BY <1>9 DEF Execute
  <2>2. PICK o \in Ends :
          IF FallsBack(o)
            THEN /\ current' = [current EXCEPT !.source = "fallback"]
                 /\ UNCHANGED <<pc, exit, todo, report>>
            ELSE Record(StatusOf(o))
    BY <1>9 DEF Execute
  <2>3. CASE FallsBack(o)
    <3>1. /\ current' \in [item : todo, source : {"own", "fallback"}]
          /\ current'.source = "fallback" /\ current'.item = current.item
          /\ UNCHANGED <<pc, todo>>
      BY <2>1, <2>2, <2>3
    <3>2. PlannedFallback(current.item) # {}
      BY <2>3 DEF FallsBack
    <3>3. QED
      BY <2>1, <3>1, <3>2
  <2>4. CASE ~FallsBack(o)
    BY <2>1, <2>2, <2>4 DEF Record, Fails
  <2>5. QED
    BY <2>3, <2>4
<1>9a. CASE Sample
  BY <1>9a DEF Sample, Fails
<1>10. CASE Abandon
  BY <1>10 DEF Abandon, Fails
<1>11. CASE ObjectDdl
  BY <1>11 DEF ObjectDdl
<1>12. CASE Finish
  BY <1>12 DEF Finish, Fails
<1>13. CASE WriteFiles
  BY <1>13 DEF WriteFiles, Write, Fails
<1>14. CASE Close
  BY <1>14 DEF Close, Exits
<1>15. CASE Interrupt
  BY <1>15 DEF Interrupt
<1>16. CASE InterruptClosing
  BY <1>16 DEF InterruptClosing, Exits
<1>17. CASE UNCHANGED vars
  BY <1>17 DEF vars
<1>18. QED
  BY <1>1, <1>2, <1>3, <1>4, <1>5, <1>6, <1>7, <1>8, <1>9, <1>9a, <1>10, <1>11, <1>12, <1>13, <1>14, <1>15, <1>16, <1>17 DEF Next

(* What is recorded of an item is an error when the run fails fast.        *)
LEMMA RecordErrors ==
  ASSUME NEW status, Record(status), UNCHANGED samples, failFast
  PROVE  /\ ~HasErrors => (HasErrors' => pc' = "failed")
         /\ pc' \in {pc, "failed"}
<1>1. CASE status = "error"
  BY <1>1 DEF Record, Stops, Fails
<1>2. CASE status # "error"
  <2>1. ASSUME ~HasErrors PROVE ~HasErrors'
    BY <1>2, <2>1 DEF Record, HasErrors
  <2>2. QED
    BY <2>1 DEF Record, Fails
<1>3. QED
  BY <1>1, <1>2

(* Files and errors.                                                       *)
LEMMA NextFilesInv == TypeOK /\ FilesInv /\ [Next]_vars => FilesInv'
<1> SUFFICES ASSUME TypeOK, FilesInv, [Next]_vars PROVE FilesInv'
  OBVIOUS
<1>a. UNCHANGED files => New' = New
  BY DEF New
<1>b. UNCHANGED <<report, samples>> => HasErrors' = HasErrors
  BY DEF HasErrors
<1>c. args.formats # {} /\ args.formats \subseteq Formats /\ New \subseteq Formats
  <2>1. args.formats \in (SUBSET Formats) \ {{}}
    BY DEF TypeOK
  <2>2. args.formats # {} /\ args.formats \subseteq Formats
    BY <2>1, Zenon
  <2>3. New \subseteq Formats
    BY DEF New
  <2>4. QED
    BY <2>2, <2>3
<1> USE <1>a, <1>b, <1>c DEF FilesInv, TypeOK, Places, Opening, work, answers, given
<1>1. CASE Arguments
  <2>1. /\ pc = "arguments" /\ pc' \in {"ssh", "exited"}
        /\ UNCHANGED <<files, report, samples, args>>
    BY <1>1 DEF Arguments, Exits
  <2>2. QED
    BY <2>1
<1>2. CASE OpenSsh
  BY <1>2 DEF OpenSsh, Fails
<1>3. CASE OpenTunnel
  BY <1>3 DEF OpenTunnel, Fails
<1>4. CASE Connect
  BY <1>4 DEF Connect, Fails
<1>5. CASE Verify
  BY <1>5 DEF Verify, Fails
<1>6. CASE Identify
  BY <1>6 DEF Identify, Fails
<1>7. CASE Plan
  BY <1>7 DEF Plan
<1>8. CASE Begin
  BY <1>8 DEF Begin
<1>9. CASE Execute
  <2>1. pc = "items" /\ UNCHANGED <<files, args, failFast, samples>>
    BY <1>9 DEF Execute
  <2>2. CASE UNCHANGED <<pc, report>>
    BY <2>1, <2>2
  <2>3. ASSUME NEW status, Record(status) PROVE FilesInv'
    <3>1. pc' \in {pc, "failed"}
      BY <2>3 DEF Record, Fails
    <3>2. CASE failFast
      BY <2>1, <2>3, <3>1, <3>2, RecordErrors
    <3>3. CASE ~failFast
      BY <2>1, <3>1, <3>3
    <3>4. QED
      BY <3>2, <3>3
  <2>4. QED
    BY <1>9, <2>2, <2>3 DEF Execute
<1>9a. CASE Sample
  <2>1. pc = "items" /\ pc' \in {"items", "failed"} /\ UNCHANGED <<files, args, failFast, report>>
    BY <1>9a DEF Sample, Fails
  <2>2. HasErrors' => HasErrors \/ ~failFast \/ pc' = "failed"
    BY <1>9a DEF Sample, HasErrors, Stops, Fails
  <2>3. QED
    BY <2>1, <2>2
<1>10. CASE Abandon
  BY <1>10 DEF Abandon, Fails
<1>11. CASE ObjectDdl
  BY <1>11 DEF ObjectDdl
<1>12. CASE Finish
  <2>1. ~HasErrors => ~HasErrors'
    BY <1>12 DEF Finish, Kept, HasErrors
  <2>2. QED
    BY <1>12, <2>1 DEF Finish, Fails
<1>13. CASE WriteFiles
  <2>1. ASSUME Write("html", "json") PROVE FilesInv'
    <3>1. CASE UNCHANGED files
      BY <2>1, <3>1 DEF Write, Fails, New
    <3>2. CASE "html" \in args.formats /\ files' = [files EXCEPT !["html"] = "new"]
      <4>1. New' = New \cup {"html"}
        BY <3>2 DEF New, Formats
      <4>2. pc = "html" /\ New = {} /\ UNCHANGED <<args, failFast, report, samples>>
        BY <2>1 DEF Write
      <4>3. pc' = "json"
        BY <2>1, <4>1, <4>2 DEF Write
      <4>4. New' = args.formats \cap {"html"}
        BY <3>2, <4>1, <4>2
      <4>5. QED
        BY <4>2, <4>3, <4>4
    <3>3. QED
      BY <2>1, <3>1, <3>2 DEF Write
  <2>2. ASSUME Write("json", "written") PROVE FilesInv'
    <3>1. CASE UNCHANGED files
      BY <2>2, <3>1 DEF Write, Fails, New, Formats
    <3>2. CASE "json" \in args.formats /\ files' = [files EXCEPT !["json"] = "new"]
      <4>1. New' = New \cup {"json"}
        BY <3>2 DEF New, Formats
      <4>2. QED
        BY <2>2, <3>2, <4>1 DEF Write, Fails, Formats
    <3>3. QED
      BY <2>2, <3>1, <3>2 DEF Write
  <2>3. QED
    BY <1>13, <2>1, <2>2 DEF WriteFiles
<1>14. CASE Close
  BY <1>14 DEF Close, Exits
<1>15. CASE Interrupt
  BY <1>15 DEF Interrupt
<1>16. CASE InterruptClosing
  BY <1>16 DEF InterruptClosing, Exits
<1>17. CASE UNCHANGED vars
  BY <1>17 DEF vars
<1>18. QED
  BY <1>1, <1>2, <1>3, <1>4, <1>5, <1>6, <1>7, <1>8, <1>9, <1>9a, <1>10, <1>11, <1>12, <1>13, <1>14, <1>15, <1>16, <1>17 DEF Next

(* The end.                                                                *)
LEMMA NextExitInv == IInv /\ [Next]_vars => ExitInv'
<1> SUFFICES ASSUME IInv, [Next]_vars PROVE ExitInv'
  OBVIOUS
<1> USE DEF IInv
<1>a. UNCHANGED files => New' = New
  BY DEF New
<1>b. UNCHANGED <<report, samples>> => HasErrors' = HasErrors
  BY DEF HasErrors
<1>c. pc \in Places
  BY DEF TypeOK
<1>d. args.formats # {}
  <2>1. args.formats \in (SUBSET Formats) \ {{}}
    BY DEF TypeOK
  <2>2. QED
    BY <2>1, Zenon
<1>1. CASE Arguments
  <2>1. /\ UNCHANGED <<files, report, samples, args, conn, ssh>>
        /\ New = {} /\ ~HasErrors /\ conn = "none" /\ ssh = "none"
    BY <1>1 DEF Arguments, FilesInv, LinkInv, session, work, answers, given, Opening
  <2>2. pc' = "ssh" \/ exit' \in {1, 2}
    BY <1>1 DEF Arguments, Exits
  <2>3. QED
    BY <1>a, <1>b, <1>d, <2>1, <2>2 DEF ExitInv
<1>2. CASE Close
  <2>1. /\ UNCHANGED <<files, report, samples, args, hurried>> /\ pc' = "exited" /\ exit' = ExitStatus
        /\ pc \in {"written", "failed", "interrupted"}
    BY <1>2 DEF Close, Exits, work, answers, given
  <2>2. CASE pc = "written"
    <3>1. exit' = (IF HasErrors THEN 1 ELSE 0) /\ New = args.formats
      BY <2>1, <2>2 DEF ExitStatus, FilesInv
    <3>2. QED
      BY <1>a, <1>b, <2>1, <3>1 DEF ExitInv
  <2>3. CASE pc = "failed"
    <3>1. exit' = 1 /\ New # args.formats
      BY <2>1, <2>3 DEF ExitStatus, FilesInv
    <3>2. QED
      BY <1>a, <1>b, <2>1, <3>1 DEF ExitInv
  <2>4. CASE pc = "interrupted"
    <3>1. exit' = 130 /\ New = {}
      BY <2>1, <2>4 DEF ExitStatus, FilesInv
    <3>2. QED
      BY <1>a, <1>b, <1>d, <2>1, <3>1 DEF ExitInv
  <2>5. QED
    BY <2>1, <2>2, <2>3, <2>4
<1>3. CASE InterruptClosing
  BY <1>3 DEF InterruptClosing, Exits, ExitInv
<1>4. CASE UNCHANGED vars
  BY <1>a, <1>b, <1>4 DEF vars, given, session, work, answers, ExitInv
<1>5. ASSUME OpenSsh \/ OpenTunnel \/ Connect \/ Verify \/ Identify \/ Plan \/ Begin \/ Execute
             \/ Sample \/ Abandon \/ ObjectDdl \/ Finish \/ WriteFiles \/ Interrupt
      PROVE  pc' # "exited"
  BY <1>5 DEF OpenSsh, OpenTunnel, Connect, Verify, Identify, Plan, Begin, Execute, Record,
     Sample, Abandon, ObjectDdl, Finish, WriteFiles, Write, Interrupt, Fails
<1>6. QED
  BY <1>1, <1>2, <1>3, <1>4, <1>5 DEF Next, ExitInv

LEMMA NextIInv == IInv /\ [Next]_vars => IInv'
  BY NextTypeOK, NextLinkInv, NextWorkInv, NextFilesInv, NextExitInv DEF IInv

(* The inductive invariant: connections, work and files of each place (the  *)
(* whole command, cmd_one_shot to close_collection).                       *)
THEOREM Inductive == Spec => []IInv
<1>1. Init => IInv
  BY InitIInv
<1>2. IInv /\ [Next]_vars => IInv'
  BY NextIInv
<1>3. QED
  BY <1>1, <1>2, PTL DEF Spec

-----------------------------------------------------------------------------

(* What is open behind a command that has ended: nothing, or a transport   *)
(* whose closing was interrupted (close_collection).                       *)
THEOREM NothingOpen == Spec => []ClosedAtExit
<1>1. IInv => ClosedAtExit
  BY DEF IInv, LinkInv, ClosedAtExit
<1>2. QED
  BY <1>1, Inductive, PTL

(* What the exit status and the orchestrator's envelope say of the files   *)
(* is so (_run_machine, finish_collection, raise_if_fail_fast).            *)
THEOREM ExitTrue == Spec => []ExitTells
<1>1. IInv => ExitTells
  <2> SUFFICES ASSUME IInv, pc = "exited" PROVE ExitTells
    BY DEF ExitTells
  <2> DEFINE wrong == samples = "failed" \/ \E i \in DOMAIN report : report[i] = "error"
  <2>1. wrong <=> HasErrors
    BY DEF HasErrors
  <2>2. /\ exit \in {0, 1, 2, 130} /\ New \subseteq args.formats
        /\ exit = 0 => New = args.formats /\ ~HasErrors
        /\ exit = 2 => New = {} /\ {conn, ssh} = {"none"}
        /\ New = args.formats => exit = (IF HasErrors THEN 1 ELSE 0) \/ hurried
        /\ failFast /\ HasErrors => New = {}
    BY DEF IInv, ExitInv, FilesInv
  <2>3. Unreadable => old = "foreign" /\ New \subseteq {"html"} /\ "json" \in args.formats
    BY DEF Unreadable, Listed, New, Formats
  <2>4. exit = 0 => ~Unreadable
    BY <2>2, <2>3
  <2>5. exit = 0 <=> MachineStatus = "succeeded"
    BY <2>2, <2>4 DEF MachineStatus
  <2>6. MachineStatus = "failed" => New = {} \/ (New = {"html"} /\ old = "foreign")
    <3>1. CASE Unreadable
      BY <2>3, <3>1
    <3>2. CASE ~Unreadable
      <4>1. MachineStatus = "failed" => exit = 2 \/ Listed = {}
        BY <2>2, <3>2 DEF MachineStatus
      <4>2. Listed = {} => New = {}
        BY <2>2 DEF Listed, New
      <4>3. QED
        BY <2>2, <4>1, <4>2
    <3>3. QED
      BY <3>1, <3>2
  <2>7. QED
    BY <2>1, <2>2, <2>5, <2>6 DEF ExitTells, New
<1>2. QED
  BY <1>1, Inductive, PTL

-----------------------------------------------------------------------------

(* The plan does not ask for less than the connections were chosen for: an *)
(* item that is executed was counted as one that requires its target.      *)
LEMMA Targeted ==
  ASSUME TypeOK, Valid, Mode # "logs",
         NEW i \in Executed, NEW t \in content[i].targets,
         t = "db" \/ args.collection = "remote"
  PROVE  i \in Requiring(t)
<1> DEFINE d == content[i]
<1>1. i \in Items /\ Selected(i) /\ PlanStatus(i) # "skipped"
  BY DEF Executed
<1>2. d \in Definitions /\ Declared(d) /\ SourceValid(d)
  BY <1>1, DefinitionsAssumption DEF TypeOK, Valid
<1>3. SourceStatus(d) # "skipped" /\ ModeTargets(i) = d.targets
  BY <1>1 DEF PlanStatus, ModeTargets
<1>4. ~(d.kind = "metric" /\ Mode = "one_shot")
  BY <1>3 DEF SourceStatus, MetricStatus
<1>5. ASSUME NotOnHost, "host" \in d.targets PROVE t # "db"
  <2>1. CASE d.kind = "query"
    BY <1>2, <1>5, <2>1 DEF SourceValid, QueryValid
  <2>2. CASE d.kind = "script"
    BY <1>2, <2>2 DEF SourceValid, ScriptValid
  <2>3. CASE d.kind = "python"
    BY <1>2, <1>3, <1>5, <2>3 DEF SourceValid, PythonValid, SourceStatus, PythonStatus, Declared
  <2>4. CASE d.kind = "metric"
    BY <1>2, <1>3, <1>5, <2>4 DEF SourceValid, MetricValid, SourceStatus, MetricStatus, Declared
  <2>5. QED
    BY <1>2, <2>1, <2>2, <2>3, <2>4 DEF Declared, Kinds
<1>6. args.collection = "remote" => ~NotOnHost
  BY DEF NotOnHost
<1>7. Executes(i)
  BY <1>3, <1>4, <1>5, <1>6 DEF Executes
<1>8. QED
  BY <1>1, <1>3, <1>7 DEF Requiring

(* An item, or its fallback, is executed only with all it targets at hand  *)
(* (normalize_requested_item_ids, collection_requirements, build_plan,     *)
(* start_collection).                                                      *)
THEOREM AtHand == Spec => []Served
<1>1. IInv => Served
  <2> DEFINE d == Definition(current)
             i == current.item
             targets == IF Mode = "logs" THEN {"host"} ELSE d.targets
  <2> SUFFICES ASSUME IInv, pc = "items", current # Idle
               PROVE  /\ "db" \in targets => conn = "open"
                      /\ args.collection = "remote" =>
                           ssh \in {"tunnel"} \cup (IF "db" \in targets THEN {} ELSE {"open"})
    BY DEF Served
  <2>1. /\ TypeOK /\ Valid /\ (Mode = "logs" => ~NotOnHost)
        /\ i \in Executed /\ current.source \in {"own", "fallback"}
        /\ current.source = "fallback" => PlannedFallback(i) # {}
    BY DEF IInv, WorkInv
  <2>2. IF RequiresDatabase THEN ReadyForDatabase /\ conn = "open"
        ELSE conn = "none" /\ ssh = (IF RequiresSsh THEN "open" ELSE "none")
    BY DEF IInv, LinkInv
  <2>3. i \in Items /\ SourceValid(content[i]) /\ FallbackValid(content[i])
    BY <2>1 DEF Executed, Valid
  <2>4. content[i].targets # {}
    BY <2>3 DEF SourceValid, TargetsValid
  <2>5. CASE Mode = "logs"
    <3>1. Requiring("host") # {}
      <4>1. i \in Requiring("host")
        BY <2>1, <2>5 DEF Executed, PlanStatus, Requiring, Executes, ModeTargets
      <4>2. QED
        BY <4>1
    <3>2. args.collection = "remote" => RequiresSsh
      BY <3>1 DEF RequiresSsh
    <3>3. QED
      BY <2>2, <2>5, <3>2 DEF ReadyForDatabase
  <2>6. CASE Mode # "logs"
    <3>1. d.targets \subseteq content[i].targets
      <4>1. CASE current.source = "own"
        BY <4>1 DEF Definition
      <4>2. CASE current.source = "fallback"
        <5>1. PlannedFallback(i) = content[i].fallback
          BY <2>6 DEF PlannedFallback
        <5>2. d \in content[i].fallback
          BY <2>1, <4>2, <5>1 DEF Definition
        <5>3. QED
          BY <2>3, <5>2 DEF FallbackValid
      <4>3. QED
        BY <2>1, <4>1, <4>2
    <3>2. ASSUME NEW t \in content[i].targets, t = "db" \/ args.collection = "remote"
          PROVE  i \in Requiring(t)
      BY <2>1, <2>6, <3>2, Targeted
    <3>3. "db" \in targets => RequiresDatabase
      BY <2>6, <3>1, <3>2 DEF RequiresDatabase
    <3>4. ASSUME args.collection = "remote" PROVE RequiresSsh
      <4>1. PICK t \in content[i].targets : t \in {"host", "db"}
        BY <2>3, <2>4 DEF SourceValid, TargetsValid
      <4>2. i \in Requiring(t)
        BY <3>2, <3>4
      <4>3. QED
        BY <3>4, <4>1, <4>2 DEF RequiresSsh, RequiresDatabase
    <3>5. QED
      BY <2>2, <3>3, <3>4 DEF ReadyForDatabase
  <2>7. QED
    BY <2>5, <2>6
<1>2. QED
  BY <1>1, Inductive, PTL

-----------------------------------------------------------------------------
(* The answers.                                                            *)

(* Every script says that it runs on the server's host only, which the     *)
(* validator does not ask for.                                             *)
ScriptsLocal == \A d \in Definitions : d.kind = "script" => d.localOnly

Skipped == {i \in DOMAIN report : report[i] = "skipped"}
Statuses == {"ok", "error", "unsupported", "skipped", "limited"}
Declining == {i \in Items : MayDecline(i)}

AnswerInv ==
  /\ pc \notin {"arguments", "exited"} => ~EmptySelection
  /\ pc \in Opening => DOMAIN report = {}
  /\ pc = "items" => Executed = todo \cup DOMAIN report
  /\ pc = "finish" => Executed = DOMAIN report
  /\ pc \in {"items", "finish"} =>
       /\ \A i \in DOMAIN report : report[i] \in Statuses
       /\ ScriptsLocal => Skipped \subseteq Declining
  /\ ScriptsLocal /\ pc \in {"html", "json", "written"} =>
       DOMAIN report \subseteq Executed /\ Executed \ DOMAIN report \subseteq Declining

(* A source that has to leave the host alone is not on it.                 *)
LEMMA OffHost ==
  ASSUME NEW d, Declared(d), SourceValid(d), d.kind = "script" => d.localOnly,
         NotOnHost, "host" \in d.targets
  PROVE  SourceStatus(d) = "skipped"
<1>1. CASE d.kind = "query"
  BY <1>1 DEF SourceValid, QueryValid
<1>2. CASE d.kind = "script"
  BY <1>2 DEF SourceStatus, ScriptStatus
<1>3. CASE d.kind = "python"
  BY <1>3 DEF SourceValid, PythonValid, SourceStatus, PythonStatus
<1>4. CASE d.kind = "metric"
  <2>1. d.localOnly
    BY <1>4 DEF SourceValid, MetricValid, Declared
  <2>2. QED
    BY <1>4, <2>1 DEF SourceStatus, MetricStatus
<1>5. QED
  BY <1>1, <1>2, <1>3, <1>4 DEF Declared, Kinds

(* And one that is left out is on it, or a chart outside snapshots.        *)
LEMMA OnHost ==
  ASSUME NEW d, Declared(d), SourceValid(d), SourceStatus(d) = "skipped"
  PROVE  (NotOnHost /\ "host" \in d.targets) \/ (d.kind = "metric" /\ Mode = "one_shot")
<1>1. CASE d.kind = "query"
  BY <1>1 DEF SourceStatus, QueryStatus
<1>2. CASE d.kind = "script"
  BY <1>2 DEF SourceStatus, ScriptStatus, SourceValid, ScriptValid
<1>3. CASE d.kind = "python"
  BY <1>3 DEF SourceStatus, PythonStatus, SourceValid, PythonValid
<1>4. CASE d.kind = "metric"
  BY <1>4 DEF SourceStatus, MetricStatus, SourceValid, MetricValid
<1>5. QED
  BY <1>1, <1>2, <1>3, <1>4 DEF Declared, Kinds

(* What is selected and applies is what is executed.                       *)
LEMMA PlanAgrees ==
  ASSUME TypeOK, Valid, ScriptsLocal, Mode = "logs" => ~NotOnHost
  PROVE  Executed = {i \in Items : Selected(i) /\ Executes(i)}
<1> SUFFICES ASSUME NEW i \in Items PROVE PlanStatus(i) # "skipped" <=> Executes(i)
  BY DEF Executed
<1> DEFINE d == content[i]
<1>1. d \in Definitions /\ Declared(d) /\ SourceValid(d) /\ (d.kind = "script" => d.localOnly)
  BY DefinitionsAssumption DEF TypeOK, Valid, ScriptsLocal
<1>2. CASE Mode = "logs"
  <2>1. d.log => SourceStatus(d) # "skipped"
    BY <1>1, <1>2, OnHost
  <2>2. QED
    BY <1>2, <2>1 DEF PlanStatus, Executes
<1>3. CASE Mode # "logs"
  <2>1. PlanStatus(i) = SourceStatus(d) /\ ModeTargets(i) = d.targets
    BY <1>3 DEF PlanStatus, ModeTargets
  <2>2. NotOnHost /\ "host" \in d.targets => SourceStatus(d) = "skipped"
    BY <1>1, OffHost
  <2>3. d.kind = "metric" /\ Mode = "one_shot" => SourceStatus(d) = "skipped"
    BY DEF SourceStatus, MetricStatus
  <2>4. SourceStatus(d) = "skipped" =>
          (NotOnHost /\ "host" \in d.targets) \/ (d.kind = "metric" /\ Mode = "one_shot")
    BY <1>1, OnHost
  <2>5. QED
    BY <1>3, <2>1, <2>2, <2>3, <2>4 DEF Executes
<1>4. QED
  BY <1>2, <1>3

(* An item is not answered by a source, a fallback included, that is left  *)
(* out.                                                                    *)
LEMMA Answers ==
  ASSUME TypeOK, WorkInv, ScriptsLocal, pc = "items", current # Idle
  PROVE  SourceStatus(Definition(current)) # "skipped"
<1> DEFINE i == current.item
           d == content[i]
<1>1. i \in Items /\ PlanStatus(i) # "skipped" /\ current.source \in {"own", "fallback"}
  BY DEF WorkInv, Executed
<1>2. SourceStatus(d) # "skipped"
  BY <1>1 DEF PlanStatus
<1>3. CASE current.source = "own"
  BY <1>2, <1>3 DEF Definition
<1>4. CASE current.source = "fallback"
  <2>1. PlannedFallback(i) # {}
    BY <1>4 DEF WorkInv
  <2>2. PlannedFallback(i) = d.fallback
    BY <2>1 DEF PlannedFallback
  <2>3. PICK f \in d.fallback : f = Definition(current)
    BY <1>4, <2>1, <2>2 DEF Definition
  <2>4. /\ d \in Definitions /\ Declared(d) /\ SourceValid(d) /\ (d.kind = "script" => d.localOnly)
        /\ Declared(f) /\ SourceValid(f) /\ f.kind # "metric" /\ f.targets \subseteq d.targets
    <3>1. d \in Definitions /\ Valid
      BY <1>1 DEF TypeOK, WorkInv
    <3>2. Declared(d) /\ Declared(f) /\ (d.kind = "script" => d.localOnly)
      BY <2>3, <3>1, DefinitionsAssumption DEF ScriptsLocal
    <3>3. SourceValid(d) /\ FallbackValid(d)
      BY <1>1, <3>1 DEF Valid
    <3>4. QED
      BY <2>3, <3>1, <3>2, <3>3 DEF FallbackValid, FallbackItemValid
  <2>5. SourceStatus(f) = "skipped" => NotOnHost /\ "host" \in f.targets
    BY <2>4, OnHost
  <2>6. NotOnHost /\ "host" \in f.targets => SourceStatus(d) = "skipped"
    BY <2>4, OffHost
  <2>7. QED
    BY <1>2, <2>3, <2>5, <2>6
<1>5. QED
  BY <1>1, <1>3, <1>4

(* The source that is executed is one that was declared.                   *)
LEMMA DeclaredSource ==
  ASSUME TypeOK, WorkInv, pc = "items", current # Idle
  PROVE  Declared(Definition(current))
<1>1. content[current.item] \in Definitions /\ current.source \in {"own", "fallback"}
  BY DEF WorkInv, Executed, TypeOK
<1>2. CASE current.source = "own"
  BY <1>1, <1>2, DefinitionsAssumption DEF Definition
<1>3. CASE current.source = "fallback"
  <2>1. PlannedFallback(current.item) # {}
    BY <1>3 DEF WorkInv
  <2>2. Definition(current) \in content[current.item].fallback
    BY <1>3, <2>1 DEF Definition, PlannedFallback
  <2>3. QED
    BY <1>1, <2>2, DefinitionsAssumption
<1>4. QED
  BY <1>1, <1>2, <1>3

(* What answers "skipped" is a Python source, and not of a log that was    *)
(* asked for.                                                              *)
LEMMA Declines ==
  ASSUME TypeOK, WorkInv, ScriptsLocal, pc = "items", current # Idle,
         NEW o \in Ends, o = "skipped"
  PROVE  current.item \in Declining
<1> DEFINE d == Definition(current)
<1>1. d.kind \in Kinds
  BY DeclaredSource DEF Declared
<1>2. "skipped" \notin TriggersOf(d.kind)
  BY <1>1 DEF TriggersOf, Kinds
<1>3. o \in Outcomes(d) /\ SourceStatus(d) # "skipped"
  BY Answers DEF Ends
<1>4. d.kind = "python" /\ o \in PythonAnswers(d)
  BY <1>2, <1>3 DEF Outcomes
<1>5. ~(d.log /\ args.depth)
  BY <1>4 DEF PythonAnswers
<1>6. d \in {content[current.item]} \cup PlannedFallback(current.item)
  <2>1. CASE current.source = "own"
    BY <2>1 DEF Definition
  <2>2. CASE current.source # "own"
    BY <2>2 DEF Definition, WorkInv
  <2>3. QED
    BY <2>1, <2>2
<1>7. current.item \in Items
  BY DEF WorkInv, Executed
<1>8. QED
  BY <1>4, <1>5, <1>6, <1>7 DEF Declining, MayDecline

LEMMA InitAnswerInv == Init => AnswerInv
  BY DEF Init, AnswerInv, Opening

LEMMA NextAnswerInv == IInv /\ AnswerInv /\ [Next]_vars => AnswerInv'
<1> SUFFICES ASSUME IInv, AnswerInv, [Next]_vars PROVE AnswerInv'
  OBVIOUS
<1>0. UNCHANGED given
  BY DEF Next, vars, Arguments, OpenSsh, OpenTunnel, Connect, Verify, Identify, Plan, Begin,
     Execute, Sample, Abandon, ObjectDdl, Finish, WriteFiles, Write, Close, Interrupt, InterruptClosing
<1>a. UNCHANGED server => Executed' = Executed
  BY <1>0, PlanKept
<1>b. EmptySelection' = EmptySelection
  <2>1. Mode' = Mode /\ \A t : Requiring(t)' = Requiring(t)
    BY <1>0 DEF given, Mode, Requiring, Selected, Executes, ModeTargets, NotOnHost
  <2>2. QED
    BY <1>0, <2>1 DEF EmptySelection, given
<1>c. UNCHANGED report => Skipped' = Skipped
  BY DEF Skipped
<1>f. Declining' = Declining
  BY <1>0, GivenKept DEF Declining, MayDecline, given
<1>d. pc \in Places
  BY DEF IInv, TypeOK
<1> USE <1>a, <1>b, <1>c, <1>d, <1>f DEF AnswerInv, Places, Opening, work, answers
<1>1. CASE Arguments
  <2>1. pc = "arguments" /\ UNCHANGED <<report, server>>
    BY <1>1 DEF Arguments
  <2>2. pc' = "exited" \/ (pc' = "ssh" /\ ~EmptySelection)
    BY <1>1 DEF Arguments, Exits, Refused
  <2>3. QED
    BY <2>1, <2>2
<1>2. CASE OpenSsh
  BY <1>2 DEF OpenSsh, Fails
<1>3. CASE OpenTunnel
  BY <1>3 DEF OpenTunnel, Fails
<1>4. CASE Connect
  BY <1>4 DEF Connect, Fails
<1>5. CASE Verify
  BY <1>5 DEF Verify, Fails
<1>6. CASE Identify
  BY <1>6 DEF Identify, Fails
<1>7. CASE Plan
  BY <1>7 DEF Plan, Skipped
<1>8. CASE Begin
  BY <1>8 DEF Begin
<1>9. CASE Execute
  <2>1. pc = "items" /\ current # Idle /\ UNCHANGED server /\ current.item \in todo
    BY <1>9 DEF Execute, IInv, WorkInv
  <2>2. PICK o \in Ends :
          IF FallsBack(o)
            THEN /\ current' = [current EXCEPT !.source = "fallback"]
                 /\ UNCHANGED <<pc, exit, todo, report>>
            ELSE Record(StatusOf(o))
    BY <1>9 DEF Execute
  <2>3. CASE FallsBack(o)
    BY <2>1, <2>2, <2>3
  <2>4. CASE ~FallsBack(o)
    <3>1. /\ DOMAIN report' = DOMAIN report \cup {current.item}
          /\ \A i \in DOMAIN report' :
               report'[i] = IF i = current.item THEN StatusOf(o) ELSE report[i]
          /\ todo' = todo \ {current.item} /\ pc' \in {pc, "failed"}
      BY <2>2, <2>4 DEF Record, Fails
    <3>2. StatusOf(o) \in Statuses /\ (StatusOf(o) = "skipped" => o = "skipped")
      BY DEF StatusOf, Statuses
    <3>3. ScriptsLocal /\ StatusOf(o) = "skipped" => current.item \in Declining
      BY <2>1, <3>2, Declines DEF IInv
    <3>4. ScriptsLocal => Skipped' \subseteq Declining
      BY <2>1, <3>1, <3>3 DEF Skipped
    <3>5. todo' \cup DOMAIN report' = todo \cup DOMAIN report
      BY <2>1, <3>1
    <3>6. \A i \in DOMAIN report' : report'[i] \in Statuses
      BY <2>1, <3>1, <3>2
    <3>7. QED
      BY <2>1, <3>1, <3>4, <3>5, <3>6
  <2>5. QED
    BY <2>3, <2>4
<1>9a. CASE Sample
  BY <1>9a DEF Sample, Fails
<1>10. CASE Abandon
  BY <1>10 DEF Abandon, Fails
<1>11. CASE ObjectDdl
  BY <1>11 DEF ObjectDdl
<1>12. CASE Finish
  <2>1. pc = "finish" /\ pc' \in {"html", "failed"} /\ UNCHANGED server /\ report' = Kept
    BY <1>12 DEF Finish, Fails
  <2>2. ASSUME ScriptsLocal
        PROVE  DOMAIN report' \subseteq Executed /\ Executed \ DOMAIN report' \subseteq Declining
    <3>1. DOMAIN report' = Executed \ Inapplicable
      BY <2>1 DEF Kept
    <3>2. Inapplicable \cap Executed \subseteq Skipped
      BY <2>1 DEF Inapplicable, Executed, Skipped
    <3>3. QED
      BY <2>1, <2>2, <3>1, <3>2
  <2>3. QED
    BY <2>1, <2>2
<1>13. CASE WriteFiles
  BY <1>13 DEF WriteFiles, Write, Fails
<1>14. CASE Close
  BY <1>14 DEF Close, Exits
<1>15. CASE Interrupt
  BY <1>15 DEF Interrupt
<1>16. CASE InterruptClosing
  BY <1>16 DEF InterruptClosing, Exits
<1>17. CASE UNCHANGED vars
  BY <1>17 DEF vars
<1>18. QED
  BY <1>1, <1>2, <1>3, <1>4, <1>5, <1>6, <1>7, <1>8, <1>9, <1>9a, <1>10, <1>11, <1>12, <1>13, <1>14, <1>15, <1>16, <1>17 DEF Next

(* Where every script says that it runs on the host only, a report that    *)
(* is written answers for the selected items that apply and no other, is   *)
(* silent on those only that may decline, and its own validation never     *)
(* refuses it (build_plan, execute_and_record_report_item,                 *)
(* omit_skipped_report_items, validate_artifact).                          *)
THEOREM Answered == Spec => [](ScriptsLocal => EveryItemAnswered)
<1>1. Init => AnswerInv
  BY InitAnswerInv
<1>2. IInv /\ AnswerInv /\ [Next]_vars => AnswerInv'
  BY NextAnswerInv
<1>3. IInv /\ AnswerInv => (ScriptsLocal => EveryItemAnswered)
  <2> SUFFICES ASSUME IInv, AnswerInv, ScriptsLocal PROVE EveryItemAnswered
    OBVIOUS
  <2>1. ASSUME pc = "finish" PROVE ArtifactValid
    <3>1. Referenced \subseteq DOMAIN Kept
      BY <2>1 DEF AnswerInv, Referenced, InSections, Inapplicable, Executed, Kept
    <3>2. \A i \in DOMAIN Kept : ItemValid(Kept[i])
      BY <2>1 DEF AnswerInv, Kept, Inapplicable, ItemValid, Statuses
    <3>3. QED
      BY <3>1, <3>2 DEF ArtifactValid
  <2>2. ASSUME pc = "written"
        PROVE  LET applying == {i \in Items : Selected(i) /\ Executes(i)}
               IN  /\ DOMAIN report \subseteq applying
                   /\ \A i \in applying \ DOMAIN report : MayDecline(i)
                   /\ args.filter # NoFilter => applying # {}
    <3>1. Executed = {i \in Items : Selected(i) /\ Executes(i)}
      BY <2>2, PlanAgrees DEF IInv, WorkInv
    <3>2. DOMAIN report \subseteq Executed /\ \A i \in Executed \ DOMAIN report : MayDecline(i)
      BY <2>2 DEF AnswerInv, Declining
    <3>3. ~EmptySelection
      BY <2>2 DEF AnswerInv
    <3>4. QED
      BY <3>1, <3>2, <3>3 DEF EmptySelection, Requiring
  <2>3. QED
    BY <2>1, <2>2 DEF EveryItemAnswered
<1>4. QED
  BY <1>1, <1>2, <1>3, Inductive, PTL DEF Spec
=============================================================================

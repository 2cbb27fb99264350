-------------------------- MODULE MCReportCommand --------------------------
(* Two items of every kind the validator tells apart, sound and not.       *)
EXTENDS ReportCommand

Source(kind, targets, localOnly, query) ==
  [kind |-> kind, targets |-> targets, localOnly |-> localOnly, query |-> query,
   log |-> FALSE, fallback |-> {}, on |-> {}]

Query  == Source("query", {"db"}, FALSE, "q")
Script == Source("script", {"host"}, TRUE, "")
Python(targets, localOnly) == Source("python", targets, localOnly, "")

With(d, fallback, on) == [d EXCEPT !.fallback = {fallback}, !.on = on]

OnServerLog(d) == [d EXCEPT !.log = TRUE]

Sound ==
  {Query, Script, Python({"host", "db"}, TRUE),
   Source("metric", {"db"}, FALSE, "q"), Source("metric", {"host"}, TRUE, ""),
   OnServerLog(Python({"db"}, FALSE)),
   With(Query, Python({"db"}, FALSE), {"statement_timeout"}),
   With(Python({"host", "db"}, TRUE), Query, {"python_timeout"})}

Unsound ==
  {Python({"host"}, FALSE), With(Script, Python({"db"}, FALSE), {"shell_timeout"}),
   With(Query, With(Query, Query, {"lock_timeout"}), {"statement_timeout"})}

MCDefinitions == Sound \cup Unsound

(* None of them, one, both, and one that does not exist.                   *)
MCSelections == {NoFilter, {}, {1}, Items, {1, Count + 1}}

=============================================================================

----------------------------- MODULE Endpoints -----------------------------
(***************************************************************************)
(* The PostgreSQL endpoint behind a session, as the collector sees it:     *)
(* what detect_runtime_context reads when a session opens, and the         *)
(* comparison _verify_reconnected_database_identity makes.                 *)
(*                                                                         *)
(* current_database, server_version_num and in_recovery are never NULL and *)
(* are compared alike: one value, the role, stands for the three.  The     *)
(* address, inet_server_addr(), is NULL over a Unix socket, so it is kept  *)
(* apart.                                                                  *)
(***************************************************************************)

CONSTANTS
  Servers,   \* the servers the collector's address can lead to
  Roles,     \* (database name, server version, recovery role) a server shows
  Paths,     \* how the last hop reaches the server: "tcp", "socket"
  NoAddress  \* the NULL of inet_server_addr()

ASSUME EndpointsAssumption ==
  /\ Paths \subseteq {"tcp", "socket"}
  /\ NoAddress \notin Servers

Session == [server : Servers, role : Roles, path : Paths]

(* The address a session reports.                                          *)
Address(s) == IF s.path = "tcp" THEN s.server ELSE NoAddress

(* Mutant: the addresses are not compared.                                 *)
MatchesRoleOnly(expected, actual) == expected.role = actual.role

(* A replacement is accepted against the expected identity: a field that   *)
(* either side does not know is skipped.                                   *)
Matches(expected, actual) ==
  /\ expected.role = actual.role
  /\ \/ Address(expected) = NoAddress
     \/ Address(actual) = NoAddress
     \/ Address(expected) = Address(actual)

=============================================================================

---------------------------- MODULE MCDbSession ----------------------------
(* Small instances of DbSession for TLC.                                   *)
EXTENDS DbSession

CONSTANTS sA, sB, primary, standby, item, start

TwoServers == {sA, sB}
TwoRoles == {primary, standby}
OneItem == {item}
OneBatch == {start}

=============================================================================

--------------------------- MODULE MCSnapshotRun ---------------------------
(* Small instances of SnapshotRun for TLC.                                 *)
EXTENDS SnapshotRun

CONSTANTS settings, errors, linux, backends, cpu, procs

MCOnceItems == {settings}
MCLogItems == {errors}
MCProviders == {linux, backends}
MCOutputs == {cpu, procs}
MCProviderOf == [o \in MCOutputs |-> IF o = procs THEN backends ELSE linux]

=============================================================================

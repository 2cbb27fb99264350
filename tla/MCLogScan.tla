----------------------------- MODULE MCLogScan -----------------------------
EXTENDS LogScan

CONSTANTS a1, a2, p, x, fpA, fpP, fpX

\* Two kinds of one fingerprint, one whose time stamps are kept, one nobody asked for.
MCKinds == {a1, a2, p, x}
MCWanted == {a1, a2, p}
MCPreserved == {p}
MCPrintOf == (a1 :> fpA) @@ (a2 :> fpA) @@ (p :> fpP) @@ (x :> fpX)

=============================================================================

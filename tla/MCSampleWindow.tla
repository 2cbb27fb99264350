--------------------------- MODULE MCSampleWindow ---------------------------
(* Small instances of SampleWindow for TLC.                                *)
EXTENDS SampleWindow
=============================================================================

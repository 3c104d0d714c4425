--------------------------- MODULE MCSimpleLogger ---------------------------
(***************************************************************************)
(* Small instances of SimpleLogger for TLC.                                *)
(***************************************************************************)
EXTENDS SimpleLogger

CONSTANTS p, q, flusher, main
=============================================================================

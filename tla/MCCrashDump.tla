---------------------------- MODULE MCCrashDump ----------------------------
(* CrashDump with Main, another thread, either of which may crash, and the  *)
(* flusher; and LogText with buffers of a few characters.                  *)
EXTENDS CrashDump

CONSTANTS main, t1, flusher

MCThreads == {main, t1}
=============================================================================

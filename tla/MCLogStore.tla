----------------------------- MODULE MCLogStore -----------------------------
(***************************************************************************)
(* Small instances of the log store and its readers for TLC.  A call of the  *)
(* reader meets at most two maps; the WAL, which it does not see, is empty *)
(* then.                                                                   *)
(***************************************************************************)
EXTENDS LogStoreThreads

CONSTANTS a, b

Bounded == Cardinality(seen) <= 2 /\ (rd # Idle => wal = <<>>)
=============================================================================

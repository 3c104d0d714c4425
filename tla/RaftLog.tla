------------------------------ MODULE RaftLog ------------------------------
(***************************************************************************)
(* What NuRaft expects of a log store: a sequence of entries and the index  *)
(* of the first one.  inmem_log_store is shown to implement it.             *)
(***************************************************************************)
EXTENDS Integers, Sequences

CONSTANTS
    Entries,    \* what a log may hold
    First       \* the index at which the log of this process begins

VARIABLES
    first,      \* the index of the first entry
    entries,    \* the entries
    installing  \* whether a pack is being installed

logVars == <<first, entries, installing>>

LogInit == first = First /\ entries = <<>> /\ installing = FALSE

\* A new entry at the end.
Extend(e) ==
    /\ ~installing /\ entries' = Append(entries, e)
    /\ UNCHANGED <<first, installing>>

\* A new entry in place of the i-th one and all that follow.
Replace(i, e) ==
    /\ ~installing /\ entries' = Append(SubSeq(entries, 1, i - 1), e)
    /\ UNCHANGED <<first, installing>>

\* Entries go at the front, as many as the first index moves, or all.
Discard ==
    /\ ~installing /\ first' \in Nat /\ first' >= first
    /\ entries' = SubSeq(entries, first' - first + 1, Len(entries))
    /\ UNCHANGED installing

Begin == ~installing /\ installing' = TRUE /\ UNCHANGED <<first, entries>>

\* An entry of a pack takes the i-th place, or the one after the last; what
\* follows stays.
Install(i, e, more) ==
    /\ installing /\ installing' = more
    /\ entries' = IF i = Len(entries) + 1 THEN Append(entries, e) ELSE [entries EXCEPT ![i] = e]
    /\ UNCHANGED first

LogNext ==
    \/ \E e \in Entries : Extend(e)
    \/ \E e \in Entries, i \in 1 .. Len(entries) + 1 : Replace(i, e)
    \/ \E e \in Entries, i \in 1 .. Len(entries) + 1, more \in BOOLEAN : Install(i, e, more)
    \/ Begin \/ Discard

LogSpec == LogInit /\ [][LogNext]_logVars
=============================================================================

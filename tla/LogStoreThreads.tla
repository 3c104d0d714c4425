-------------------------- MODULE LogStoreThreads --------------------------
(***************************************************************************)
(* inmem_log_store with a thread that reads while entries are written       *)
(* (NuRaft's commit and append threads do).  Every critical section under    *)
(* logs_lock_ is a step.                                                   *)
(*                                                                         *)
(* The makefile does not define NDEBUG: where a read asserts that an index   *)
(* is there and it is not, the process ends.  The emulation of a slow disk   *)
(* is left out: set_disk_delay has no caller, so that last_durable_index is  *)
(* next_slot() - 1 and what flush() stores is never read.                   *)
(***************************************************************************)
EXTENDS InMemLogStore

VARIABLES
    rd,         \* the reader: its call, the loop over from .. to, what it has read
    seen        \* bookkeeping: the maps there have been during the call

reader == <<rd, seen>>
tvars == <<vars, reader>>

Idle == [op |-> "idle", from |-> 0, at |-> 0, to |-> 0, got |-> <<>>]

TInit == Init /\ rd = Idle /\ seen = {}

\* The process is still there.
Runs == rd.op # "aborted"

-----------------------------------------------------------------------------
(* The writers.                                                            *)

\* The maps a reader may have met, and whether a pack was being stored.
Met == seen' = IF rd.op = "idle" \/ rd.at > rd.to THEN seen
              ELSE seen \cup {[map |-> logs', packing |-> packing # <<>>]}

Write == Next /\ UNCHANGED rd /\ Met

-----------------------------------------------------------------------------
(* The reader.                                                             *)

Begin(op, from, to) ==
    /\ rd.op = "idle"
    /\ rd' = [op |-> op, from |-> from, at |-> from, to |-> to, got |-> <<>>]
    /\ seen' = {[map |-> logs, packing |-> packing # <<>>]}
    /\ UNCHANGED vars

\* last_entry, its first section: next_slot().
Last_entry == Begin("last", Next_slot - 1, Next_slot - 1)

\* Slip: end is read, too.
Log_entriesPast(from, to) ==
    from \in start_idx .. to /\ to < Next_slot /\ Begin("range", from, to + 1)

\* log_entries and log_entries_ext, for indexes that are there.
Log_entries(from, to) == from \in start_idx .. to /\ to < Next_slot /\ Begin("range", from, to)

\* pack, for indexes that are there.
Pack(from, to) == from \in start_idx .. to /\ to < Next_slot /\ Begin("pack", from, to)

Loops == {"range", "pack"}
InLoops == rd.op \in Loops \cup {"last"} /\ rd.at <= rd.to

\* last_entry falls back on the dummy; entry_at and term_at are its second section.
Read(i) == <<EntryAt(logs, i)>>

\* One round of the loop: find, under the lock, and make_clone or serialize.  The
\* batch size hint of log_entries_ext may end the loop after any entry.
ReadOne ==
    /\ InLoops /\ (rd.op \in Loops => rd.at \in DOMAIN logs)
    /\ \E to \in {rd.to} \cup (IF rd.op = "range" THEN {rd.at} ELSE {}) :
        rd' = [rd EXCEPT !.got = @ \o Read(rd.at), !.at = @ + 1, !.to = to]
    /\ UNCHANGED <<vars, seen>>

\* The assertions of the loops; the one of pack is about the null entry that
\* logs_[ii] has just put into the map.
Abort ==
    /\ InLoops /\ rd.op \in Loops /\ rd.at \notin DOMAIN logs
    /\ rd' = [rd EXCEPT !.op = "aborted"]
    /\ UNCHANGED <<vars, seen>>

Finished == rd.op \in Loops \cup {"last"} /\ rd.at > rd.to

Return == Finished /\ rd' = Idle /\ seen' = {} /\ UNCHANGED vars

-----------------------------------------------------------------------------

TNext ==
    /\ Runs
    /\ \/ Write
       \/ Last_entry
       \/ \E from, to \in 1 .. MaxIndex : Log_entries(from, to) \/ Pack(from, to)
       \/ ReadOne \/ Abort \/ Return

TSpec == TInit /\ [][TNext]_tvars

-----------------------------------------------------------------------------

At(l, i) == IF i \in DOMAIN l THEN {l[i]} ELSE {}
LastIn(l) == LET top == CHOOSE i \in DOMAIN l : \A j \in DOMAIN l : j <= i IN l[top]

\* A call of last_entry: it takes the lock twice.  What it returns was the last
\* entry at some time during the call, or it is the dummy, and then the index it
\* had computed was cut off in between, or an entry that a pack has put there
\* meanwhile.
LastEntrySound ==
    \/ rd.got[1] \in {LastIn(s.map) : s \in seen}
    \/ /\ rd.got[1] = Dummy
       /\ \E s, r \in seen : rd.to \in DOMAIN s.map \ DOMAIN r.map
    \/ \E s \in seen : s.packing /\ rd.got[1] \in At(s.map, rd.to)

\* A call of log_entries or pack: it takes the lock once for every index.  The k-th
\* entry it returns was at the k-th index at some time during the call.
RangeSound ==
    \A i \in rd.from .. rd.to :
        \E s \in seen : rd.got[i - rd.from + 1] \in At(s.map, i)

\* A reader gets what was in the log during its call, whatever was appended,
\* overwritten, compacted or installed between two of its sections: see the two
\* definitions above for what last_entry, log_entries and pack may return.  An
\* assertion ends the process only if the index was there in the call and was cut
\* off or compacted meanwhile.
ReadsSound ==
    /\ Finished => IF rd.op = "last" THEN LastEntrySound ELSE RangeSound
    /\ ~Runs => \E s, r \in seen : rd.at \in DOMAIN s.map \ DOMAIN r.map
=============================================================================

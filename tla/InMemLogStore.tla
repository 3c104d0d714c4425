--------------------------- MODULE InMemLogStore ---------------------------
(***************************************************************************)
(* nuraft::inmem_log_store as a component of its own: the map of entries   *)
(* and the lines it writes to the WAL.  (Threads that read it meanwhile are *)
(* in LogStoreThreads.)                                                    *)
(*                                                                         *)
(* Its caller (NuRaft, external) is assumed to write at an index the log   *)
(* already has or at the next free one, and to install packs there too.    *)
(***************************************************************************)
EXTENDS LogStoreOps, Sequences

CONSTANTS
    StartIndexID,   \* VectorDatabase::getStartIndexID() at construction
    Vals,           \* contents of app_log entries
    MaxIndex,       \* bound on log indexes
    MaxWal,         \* bound on the number of WAL lines
    MaxPack         \* bound on the entries in one pack

ASSUME LogStoreAssumption ==
    /\ StartIndexID \in Nat /\ MaxIndex \in Nat /\ MaxWal \in Nat /\ MaxPack \in Nat

VARIABLES
    logs,       \* logs_
    start_idx,  \* start_idx_
    wal,        \* lines written through writeWALLogWithID
    packing,    \* apply_pack in progress: the entries still to be stored
    packAt,     \* ... and the index of the next one
    unlogged    \* indexes whose entry came in a pack

store == <<logs, start_idx>>
pack == <<packing, packAt>>
vars == <<logs, start_idx, wal, packing, packAt, unlogged>>

AppEntry(v) == [kind |-> "app", val |-> v]
ConfEntry == [kind |-> "conf"]
Entry == {AppEntry(v) : v \in Vals} \cup {ConfEntry}

Next_slot == NextSlot(start_idx, logs)

Init ==
    /\ logs = EmptyLogs /\ start_idx = StartOf(StartIndexID)
    /\ wal = <<>>
    /\ packing = <<>> /\ packAt = 0
    /\ unlogged = {}

\* writeWALLogWithID, for application entries only.
WriteWAL(idx, e) ==
    IF e.kind = "app"
    THEN Len(wal) < MaxWal /\ wal' = Append(wal, [id |-> idx, val |-> e.val])
    ELSE UNCHANGED wal

Append_(e) ==
    /\ packing = <<>> /\ Next_slot <= MaxIndex
    /\ logs' = Appended(start_idx, logs, e)
    /\ WriteWAL(Next_slot, e)
    /\ unlogged' = unlogged \ {Next_slot}
    /\ UNCHANGED <<start_idx, pack>>

\* Slip: write_at forgets the WAL.
Write_atUnlogged(idx, e) ==
    /\ packing = <<>> /\ idx \in start_idx .. Next_slot /\ idx <= MaxIndex
    /\ logs' = WrittenAt(logs, idx, e)
    /\ unlogged' = {i \in unlogged : i < idx}
    /\ UNCHANGED <<start_idx, wal, pack>>

Write_at(idx, e) ==
    /\ packing = <<>> /\ idx \in start_idx .. Next_slot /\ idx <= MaxIndex
    /\ logs' = WrittenAt(logs, idx, e)
    /\ WriteWAL(idx, e)
    /\ unlogged' = {i \in unlogged : i < idx}
    /\ UNCHANGED <<start_idx, pack>>

\* apply_pack: the entries are stored one by one, each under the lock, and
\* start_idx_ is set from the map at the end.  No line of the WAL is written.
Apply_pack(idx, entries) ==
    /\ packing = <<>> /\ entries # <<>>
    /\ idx \in start_idx .. Next_slot /\ idx + Len(entries) - 1 <= MaxIndex
    /\ packing' = entries /\ packAt' = idx
    /\ UNCHANGED <<store, wal, unlogged>>

PackEntry ==
    /\ packing # <<>>
    /\ logs' = Put(logs, packAt, Head(packing))
    /\ start_idx' = IF Tail(packing) = <<>> THEN FirstIndex(logs') ELSE start_idx
    /\ packing' = Tail(packing) /\ packAt' = packAt + 1
    /\ unlogged' = unlogged \cup {packAt}
    /\ UNCHANGED wal

Compact(last) ==
    /\ packing = <<>>
    /\ logs' = Compacted(start_idx, logs, last)
    /\ start_idx' = CompactedStart(start_idx, last)
    /\ UNCHANGED <<wal, pack, unlogged>>

\* What apply_pack can find in its buffer: num_logs entries.
Packs == UNION {[1 .. n -> Entry] : n \in 1 .. MaxPack}

Next ==
    \/ \E e \in Entry : Append_(e) \/ \E idx \in 1 .. MaxIndex : Write_at(idx, e)
    \/ \E idx \in 1 .. MaxIndex, p \in Packs : Apply_pack(idx, p)
    \/ PackEntry
    \/ \E last \in 1 .. MaxIndex : Compact(last)

Spec == Init /\ [][Next]_vars

-----------------------------------------------------------------------------

\* The map always has its dummy entry at 0 and real entries elsewhere, and
\* start_idx_ is never 0.
TypeOK ==
    /\ DOMAIN logs \subseteq Nat /\ 0 \in DOMAIN logs
    /\ logs[0] = Dummy
    /\ \A i \in DOMAIN logs \ {0} : logs[i] \in Entry
    /\ start_idx \in Nat \ {0}
    /\ packing \in Seq(Entry) /\ packAt \in Nat

\* The indexes in the map are exactly start_idx_ .. next_slot() - 1 and the
\* dummy.  next_slot(), append() and last_entry() compute indexes from the
\* size of the map, which is only right if there is never a gap and never a
\* key below start_idx_; compact() has to move start_idx_ "even though nothing
\* has been erased", and apply_pack() to reset it, for this.
Contiguous == DOMAIN logs = {0} \cup (start_idx .. Next_slot - 1)

\* The last WAL line for an index holds what the log holds there, for every
\* application entry that did not arrive in a pack: replaying the WAL rebuilds
\* the log, overwritten entries included.
WalMirrorsLog ==
    \A i \in DOMAIN logs \ (unlogged \cup {0}) :
        logs[i].kind = "app" =>
            \E p \in DOMAIN wal :
                /\ wal[p] = [id |-> i, val |-> logs[i].val]
                /\ \A q \in DOMAIN wal : q > p => wal[q].id # i

\* The map without its dummy, from start_idx_ on, is the log as NuRaft sees it:
\* every operation on the map does to that sequence what RaftLog says.
LogOf == [i \in 1 .. Next_slot - start_idx |-> logs[start_idx + i - 1]]
RaftLogOf == INSTANCE RaftLog WITH
    Entries <- Entry, First <- StartIndexID + 1,
    first <- start_idx, entries <- LogOf, installing <- packing # <<>>
ImplementsRaftLog == RaftLogOf!LogSpec
=============================================================================

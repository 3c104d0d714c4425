---------------------------- MODULE LogStoreOps ----------------------------
(***************************************************************************)
(* The index arithmetic of nuraft::inmem_log_store (in_memory_log_store.cpp)*)
(* as operators on its two fields: logs, the std::map logs_ from log index *)
(* to entry, and start, the field start_idx_.  The map always holds a dummy *)
(* entry under key 0, which the size-based arithmetic subtracts again.     *)
(***************************************************************************)
EXTENDS Integers, FiniteSets

\* The dummy entry the constructor stores at index 0.
Dummy == [kind |-> "dummy"]

\* inmem_log_store::inmem_log_store: only the dummy entry.
EmptyLogs == [i \in {0} |-> Dummy]

\* Slip: the first index is the last one of the previous process.
StartAtLast(startIndexID) == startIndexID

\* start_idx_(vector_database->getStartIndexID() + 1)
StartOf(startIndexID) == startIndexID + 1

\* next_slot(): start_idx_ + logs_.size() - 1, "Exclude the dummy entry."
NextSlot(start, logs) == start + Cardinality(DOMAIN logs) - 1

\* logs_[idx] = e on a std::map: insert or overwrite.
Put(logs, idx, e) ==
    [i \in DOMAIN logs \cup {idx} |-> IF i = idx THEN e ELSE logs[i]]

\* find(idx), and the dummy entry when it is not there (entry_at, term_at).
EntryAt(logs, idx) == IF idx \in DOMAIN logs THEN logs[idx] ELSE logs[0]

\* Slip: the dummy entry is counted.
AppendedAfter(start, logs, e) == Put(logs, NextSlot(start, logs) + 1, e)

\* append(): the entry goes to the slot that next_slot() names.
Appended(start, logs, e) == Put(logs, NextSlot(start, logs), e)

\* write_at(): erase every key >= index, then store the entry there.
Below(logs, idx) == [i \in {j \in DOMAIN logs : j < idx} |-> logs[i]]
\* Slip: what follows the index stays.
WrittenOver(logs, idx, e) == Put(logs, idx, e)
WrittenAt(logs, idx, e) == Put(Below(logs, idx), idx, e)

\* compact(): erase start_idx_ .. last; start_idx_ moves even if nothing was
\* erased.
Compacted(start, logs, last) ==
    [i \in {j \in DOMAIN logs : ~(start <= j /\ j <= last)} |-> logs[i]]
CompactedStart(start, last) == IF start <= last THEN last + 1 ELSE start

\* The last part of apply_pack(): start_idx_ becomes the first key above the
\* dummy, or 1 when there is none.
FirstIndex(logs) ==
    LET keys == {i \in DOMAIN logs : i > 0}
    IN  IF keys = {} THEN 1 ELSE CHOOSE i \in keys : \A j \in keys : i <= j
=============================================================================

--------------------------- MODULE LogStoreProofs ---------------------------
(***************************************************************************)
(* For every number of entries, packs and compactions: the arithmetic that *)
(* inmem_log_store does with the size of its map is right, a reader that    *)
(* takes the lock more than once gets what was in the log during its call, *)
(* the store is a log as NuRaft expects it (RaftLog), and the WAL mirrors  *)
(* it.                                                                     *)
(***************************************************************************)
EXTENDS LogStoreThreads, LogStoreLemmas, SequenceTheorems, TLAPS

\* The inductive invariant: no gaps, and an apply_pack that is under way
\* stores its next entry at a key of the interval or right after it.
PackInRange == packing # <<>> => packAt \in start_idx .. Next_slot
StoreInv ==
    /\ TypeOK
    /\ \E n \in Nat : Spans(logs, start_idx, n)
    /\ PackInRange

LEMMA InitStore == Init => StoreInv
<1> SUFFICES ASSUME Init PROVE StoreInv
  OBVIOUS
<1> USE LogStoreAssumption DEF Init
<1>1. TypeOK
  BY DEF TypeOK, EmptyLogs, StartOf, Dummy
<1>2. Spans(logs, start_idx, StartIndexID)
  BY DEF Spans, EmptyLogs, StartOf
<1>3. PackInRange
  BY DEF PackInRange
<1>q. QED BY <1>1, <1>2, <1>3 DEF StoreInv

\* Each operation keeps the invariant.
LEMMA NextStore == StoreInv /\ [Next]_vars => StoreInv'
<1> SUFFICES ASSUME StoreInv, [Next]_vars PROVE StoreInv'
  OBVIOUS
<1> USE LogStoreAssumption
<1>0. PICK n \in Nat : Spans(logs, start_idx, n)
  BY DEF StoreInv
<1>s. Next_slot = n + 1
  BY <1>0, NextSlotOfSpan DEF Next_slot
<1>t. TypeOK /\ PackInRange /\ start_idx \in Nat \ {0} /\ n \in Nat
  BY DEF StoreInv, TypeOK
<1>1. ASSUME NEW e \in Entry, Append_(e) PROVE StoreInv'
  <2>1. logs' = Put(logs, n + 1, e) /\ UNCHANGED <<start_idx, packing, packAt>>
    BY <1>1, <1>s DEF Append_, Appended, Next_slot, pack
  <2>2. Spans(logs', start_idx', n + 1)
    <3>1. n + 1 \in start_idx .. (n + 1)
      BY <1>0, <1>t DEF Spans
    <3>2. Spans(Put(logs, n + 1, e), start_idx, IF n + 1 = n + 1 THEN n + 1 ELSE n)
      BY <1>0, <3>1, PutSpan
    <3>q. QED BY <2>1, <3>2
  <2>3. TypeOK'
    BY <2>1, <1>t DEF TypeOK, Put
  <2>4. PackInRange'
    BY <1>1, <2>1 DEF PackInRange, Append_
  <2>q. QED BY <2>2, <2>3, <2>4, <1>t DEF StoreInv
<1>2. ASSUME NEW e \in Entry, NEW idx \in 1 .. MaxIndex, Write_at(idx, e)
      PROVE  StoreInv'
  <2>1. /\ logs' = WrittenAt(logs, idx, e) /\ idx \in start_idx .. (n + 1)
        /\ UNCHANGED <<start_idx, packing, packAt>> /\ packing = <<>>
    BY <1>2, <1>s DEF Write_at, pack
  <2>2. Spans(logs', start_idx', idx)
    BY <2>1, <1>0, WrittenAtSpan
  <2>3. TypeOK'
    BY <2>1, <1>t DEF TypeOK, WrittenAt, Below, Put
  <2>4. PackInRange'
    BY <2>1 DEF PackInRange
  <2>5. idx \in Nat
    BY <2>2 DEF Spans
  <2>q. QED BY <2>2, <2>3, <2>4, <2>5 DEF StoreInv
<1>3. ASSUME NEW idx \in 1 .. MaxIndex, NEW p \in Packs, Apply_pack(idx, p)
      PROVE  StoreInv'
  <2>1. /\ packing' = p /\ packAt' = idx /\ idx \in start_idx .. (n + 1)
        /\ UNCHANGED <<logs, start_idx>>
    BY <1>3, <1>s DEF Apply_pack, store
  <2>2. p \in Seq(Entry)
    BY DEF Packs
  <2>3. TypeOK'
    BY <2>1, <2>2, <1>t DEF TypeOK
  <2>4. PackInRange'
    BY <2>1, <1>s DEF PackInRange, Next_slot
  <2>q. QED BY <2>1, <2>3, <2>4, <1>0 DEF StoreInv
<1>4. ASSUME PackEntry PROVE StoreInv'
  <2>1. /\ packing # <<>> /\ packing \in Seq(Entry)
        /\ logs' = Put(logs, packAt, Head(packing))
        /\ packing' = Tail(packing) /\ packAt' = packAt + 1
        /\ packAt \in start_idx .. (n + 1)
    BY <1>4, <1>s, <1>t DEF PackEntry, PackInRange, TypeOK
  <2>2. Head(packing) \in Entry /\ Tail(packing) \in Seq(Entry)
    BY <2>1
  <2> DEFINE m == IF packAt = n + 1 THEN n + 1 ELSE n
  <2>3. Spans(logs', start_idx, m) /\ m \in Nat /\ start_idx <= m
    BY <2>1, <1>0, <1>t, PutSpan
  <2>4. FirstIndex(logs') = start_idx
    BY <2>3, FirstIndexSpan
  <2>5. start_idx' = start_idx
    BY <1>4, <2>4 DEF PackEntry
  <2>6. TypeOK'
    BY <2>1, <2>2, <2>5, <1>t DEF TypeOK, Put
  <2>7. Next_slot' = m + 1
    BY <2>3, <2>5, NextSlotOfSpan DEF Next_slot
  <2>8. PackInRange'
    BY <2>1, <2>5, <2>7, <1>t DEF PackInRange
  <2>q. QED BY <2>3, <2>5, <2>6, <2>8 DEF StoreInv
<1>5. ASSUME NEW last \in 1 .. MaxIndex, Compact(last) PROVE StoreInv'
  <2>1. /\ logs' = Compacted(start_idx, logs, last)
        /\ start_idx' = CompactedStart(start_idx, last)
        /\ UNCHANGED <<packing, packAt>> /\ packing = <<>> /\ last \in Nat
    BY <1>5 DEF Compact, pack
  <2> DEFINE m == IF n > last THEN n ELSE IF start_idx <= last THEN last ELSE n
  <2>2. Spans(logs', start_idx', m) /\ m \in Nat
    BY <2>1, <1>0, <1>t, CompactedSpan
  <2>3. TypeOK'
    BY <2>1, <1>t DEF TypeOK, Compacted, CompactedStart
  <2>4. PackInRange'
    BY <2>1 DEF PackInRange
  <2>q. QED BY <2>2, <2>3, <2>4 DEF StoreInv
<1>6. CASE UNCHANGED vars
  BY <1>6, <1>0, <1>t DEF vars, StoreInv, TypeOK, PackInRange, Next_slot
<1>q. QED BY <1>1, <1>2, <1>3, <1>4, <1>5, <1>6 DEF Next

LEMMA StoreInvariant == Spec => []StoreInv
BY InitStore, NextStore, PTL DEF Spec

\* The fields of the log store keep their types, the dummy entry at index 0
\* included, through every append, overwrite, pack and compaction.
THEOREM StoreTypeCorrect == Spec => []TypeOK
<1>1. StoreInv => TypeOK
  BY DEF StoreInv
<1>q. QED BY <1>1, StoreInvariant, PTL

\* The keys of logs_ are always the dummy and start_idx_ .. next_slot() - 1,
\* so an index computed from the size of the map is the index meant.
THEOREM StoreContiguous == Spec => []Contiguous
<1>1. StoreInv => Contiguous
  <2> SUFFICES ASSUME StoreInv PROVE Contiguous
    OBVIOUS
  <2>1. PICK n \in Nat : Spans(logs, start_idx, n)
    BY DEF StoreInv
  <2>2. Next_slot = n + 1
    BY <2>1, NextSlotOfSpan DEF Next_slot
  <2>q. QED BY <2>1, <2>2 DEF Contiguous, Spans
<1>q. QED BY <1>1, StoreInvariant, PTL

-----------------------------------------------------------------------------
(* The reader beside the writers.                                          *)

\* What last_entry may return for the index `to', and log_entries and pack for i,
\* when they have met the maps S: LastEntrySound and RangeSound for one entry.
LastOk(S, to, e) ==
    \/ e \in {LastIn(s.map) : s \in S}
    \/ /\ e = Dummy
       /\ \E s, r \in S : to \in DOMAIN s.map \ DOMAIN r.map
    \/ \E s \in S : s.packing /\ e \in At(s.map, to)
EntryOk(S, i, e) == \E s \in S : e \in At(s.map, i)

Value == Entry \cup {Dummy}
Op == {"idle", "last", "range", "pack", "aborted"}
Loop == [op : Op, from : Nat, at : Nat, to : Nat, got : Seq(Value)]

\* A call under way: as long as it has something to read the map of this moment
\* is among those it has met, and so were all the indexes still to be read; what
\* it would get now, and all it has got, is sound.
InLoop ==
    /\ rd.from <= rd.at /\ rd.at <= rd.to + 1 /\ Len(rd.got) = rd.at - rd.from
    /\ rd.at <= rd.to => \E s \in seen : s.map = logs
LastCall ==
    /\ rd.from = rd.to
    /\ rd.at <= rd.to => LastOk(seen, rd.to, EntryAt(logs, rd.to))
    /\ rd.at > rd.to => LastOk(seen, rd.to, rd.got[1])
RangeCall ==
    /\ \A i \in rd.from .. rd.at - 1 : EntryOk(seen, i, rd.got[i - rd.from + 1])
    /\ \A i \in rd.at .. rd.to : \E s \in seen : i \in DOMAIN s.map
ReaderInv ==
    /\ rd \in Loop
    /\ rd.op # "idle" => InLoop
    /\ rd.op = "last" => LastCall
    /\ rd.op \in Loops => RangeCall
    /\ rd.op = "aborted" => \E s, r \in seen : rd.at \in DOMAIN s.map \ DOMAIN r.map

\* The last entry of a map without gaps, or the dummy when there is none.
LEMMA LastOfSpan ==
    ASSUME NEW l, NEW start, NEW n, Spans(l, start, n)
    PROVE  LastIn(l) = IF start <= n THEN l[n] ELSE l[0]
<1> DEFINE top == IF start <= n THEN n ELSE 0
<1>1. top \in DOMAIN l /\ \A j \in DOMAIN l : j <= top
  BY DEF Spans
<1>2. \A i \in DOMAIN l : (\A j \in DOMAIN l : j <= i) => i = top
  BY <1>1 DEF Spans
<1> DEFINE it == CHOOSE i \in DOMAIN l : \A j \in DOMAIN l : j <= i
<1>3. it \in DOMAIN l /\ \A j \in DOMAIN l : j <= it
  <2> HIDE DEF top
  <2>q. QED BY <1>1
<1>4. it = top
  <2> HIDE DEF it
  <2>q. QED BY <1>2, <1>3
<1>5. LastIn(l) = l[it]
  BY DEF LastIn
<1>q. QED BY <1>4, <1>5

\* Sound stays sound when the call meets another map.
LEMMA SoundMore ==
    ASSUME NEW S, NEW T, S \subseteq T, NEW i, NEW e
    PROVE  /\ LastOk(S, i, e) => LastOk(T, i, e)
           /\ EntryOk(S, i, e) => EntryOk(T, i, e)
BY DEF LastOk, EntryOk

\* What find() at an index gives before and after a critical section of a
\* writer: the same; nothing more, because the entry was erased; a new entry,
\* which is the last one now; or a new entry of a pack.
Changes(to) ==
    \/ EntryAt(logs', to) = EntryAt(logs, to)
    \/ to \in DOMAIN logs \ DOMAIN logs'
    \/ to \in DOMAIN logs' /\ logs'[to] = LastIn(logs')
    \/ to \in DOMAIN logs' /\ packing # <<>>

LEMMA WriteChanges ==
    ASSUME StoreInv, NEW to \in Nat,
           \/ \E e \in Entry : Append_(e)
           \/ \E e \in Entry, idx \in 1 .. MaxIndex : Write_at(idx, e)
           \/ \E idx \in 1 .. MaxIndex, p \in Packs : Apply_pack(idx, p)
           \/ PackEntry
           \/ \E last \in 1 .. MaxIndex : Compact(last)
    PROVE  Changes(to)
<1>0. PICK n \in Nat : Spans(logs, start_idx, n)
  BY DEF StoreInv
<1>s. Next_slot = n + 1
  BY <1>0, NextSlotOfSpan DEF Next_slot
<1>t. TypeOK /\ PackInRange /\ start_idx \in Nat \ {0} /\ n \in Nat /\ start_idx <= n + 1
  BY <1>0 DEF StoreInv, TypeOK, Spans
<1>1. ASSUME NEW e \in Entry, Append_(e) PROVE Changes(to)
  <2>1. logs' = Put(logs, n + 1, e)
    BY <1>1, <1>s DEF Append_, Appended, Next_slot
  <2>2. Spans(logs', start_idx, n + 1)
    <3>1. n + 1 \in start_idx .. (n + 1)
      BY <1>t
    <3>2. Spans(Put(logs, n + 1, e), start_idx, IF n + 1 = n + 1 THEN n + 1 ELSE n)
      BY <1>0, <3>1, PutSpan
    <3>q. QED BY <2>1, <3>2
  <2>3. LastIn(logs') = logs'[n + 1]
    BY <2>2, <1>t, LastOfSpan
  <2>4. CASE to = n + 1
    BY <2>1, <2>3, <2>4 DEF Changes, Put
  <2>5. CASE to # n + 1
    BY <2>1, <2>5, <1>t DEF Changes, Put, EntryAt, TypeOK
  <2>q. QED BY <2>4, <2>5
<1>2. ASSUME NEW e \in Entry, NEW idx \in 1 .. MaxIndex, Write_at(idx, e)
      PROVE  Changes(to)
  <2>1. logs' = WrittenAt(logs, idx, e) /\ idx \in start_idx .. (n + 1)
    BY <1>2, <1>s DEF Write_at
  <2>2. Spans(logs', start_idx, idx)
    BY <2>1, <1>0, WrittenAtSpan
  <2>3. LastIn(logs') = logs'[idx]
    BY <2>1, <2>2, <1>t, LastOfSpan
  <2>4. /\ DOMAIN logs' = {j \in DOMAIN logs : j < idx} \cup {idx}
        /\ \A j \in DOMAIN logs : j < idx => logs'[j] = logs[j]
    BY <2>1, <1>t DEF WrittenAt, Below, Put, TypeOK
  <2>5. CASE to = idx
    BY <2>3, <2>4, <2>5 DEF Changes
  <2>6. CASE to < idx
    BY <2>1, <2>4, <2>6, <1>t DEF Changes, EntryAt, TypeOK
  <2>7. CASE to > idx
    BY <2>1, <2>4, <2>7, <1>t DEF Changes, EntryAt, TypeOK
  <2>q. QED BY <2>1, <2>5, <2>6, <2>7, <1>t
<1>3. ASSUME NEW idx \in 1 .. MaxIndex, NEW p \in Packs, Apply_pack(idx, p)
      PROVE  Changes(to)
  BY <1>3 DEF Apply_pack, store, Changes
<1>4. ASSUME PackEntry PROVE Changes(to)
  <2>1. packing # <<>> /\ logs' = Put(logs, packAt, Head(packing)) /\ packAt # 0
    BY <1>4, <1>s, <1>t DEF PackEntry, PackInRange
  <2>q. QED BY <2>1, <1>t DEF Changes, Put, EntryAt, TypeOK
<1>5. ASSUME NEW last \in 1 .. MaxIndex, Compact(last) PROVE Changes(to)
  <2>1. logs' = Compacted(start_idx, logs, last)
    BY <1>5 DEF Compact
  <2>q. QED BY <2>1, <1>t DEF Changes, Compacted, EntryAt, TypeOK
<1>q. QED BY <1>1, <1>2, <1>3, <1>4, <1>5

\* If last_entry would get something sound now, it still would after a step.
LEMMA LastKeeps ==
    ASSUME StoreInv', NEW S, \E s \in S : s.map = logs, NEW to \in Nat, Changes(to),
           LastOk(S, to, EntryAt(logs, to))
    PROVE  LastOk(S \cup {[map |-> logs', packing |-> packing # <<>>]}, to,
                  EntryAt(logs', to))
<1> DEFINE new == [map |-> logs', packing |-> packing # <<>>]
           T == S \cup {new}
<1>1. new \in T /\ new.map = logs' /\ (new.packing <=> packing # <<>>) /\ S \subseteq T
  OBVIOUS
<1> SUFFICES LastOk(T, to, EntryAt(logs', to))
  OBVIOUS
<1> HIDE DEF new, T
<1>2. CASE EntryAt(logs', to) = EntryAt(logs, to)
  BY <1>1, <1>2, SoundMore
<1>3. CASE to \in DOMAIN logs \ DOMAIN logs'
  <2>1. PICK s \in S : s.map = logs
    OBVIOUS
  <2>2. s \in T /\ to \in DOMAIN s.map \ DOMAIN new.map
    BY <1>1, <1>3, <2>1
  <2>3. EntryAt(logs', to) = Dummy
    BY <1>3 DEF EntryAt, StoreInv, TypeOK
  <2>q. QED BY <1>1, <2>2, <2>3 DEF LastOk
<1>4. CASE to \in DOMAIN logs' /\ logs'[to] = LastIn(logs')
  <2>1. EntryAt(logs', to) = LastIn(new.map)
    BY <1>1, <1>4 DEF EntryAt
  <2>q. QED BY <1>1, <2>1 DEF LastOk
<1>5. CASE to \in DOMAIN logs' /\ packing # <<>>
  <2>1. EntryAt(logs', to) \in At(new.map, to) /\ new.packing
    BY <1>1, <1>5 DEF EntryAt, At
  <2>q. QED BY <1>1, <2>1 DEF LastOk
<1>q. QED BY <1>2, <1>3, <1>4, <1>5 DEF Changes

\* A critical section of a writer during a call.
LEMMA WriteReader ==
    ASSUME StoreInv, StoreInv', ReaderInv, Runs, Write
    PROVE  ReaderInv'
<1>1. rd' = rd /\ Met
  BY DEF Write
<1>2. \A to \in Nat : Changes(to)
  BY WriteChanges DEF Write, Next
<1>t. rd \in Loop /\ rd.op # "aborted"
  BY DEF ReaderInv, Runs
<1>3. CASE rd.op = "idle"
  BY <1>1, <1>3 DEF ReaderInv, Loops
<1>4. CASE rd.op # "idle" /\ rd.at > rd.to
  <2>1. seen' = seen
    BY <1>1, <1>4 DEF Met
  <2>2. ~(rd.at <= rd.to)
    BY <1>4, <1>t DEF Loop
  <2>q. QED BY <1>1, <1>4, <1>t, <2>1, <2>2 DEF ReaderInv, Loops, InLoop, LastCall, RangeCall
<1>5. CASE rd.op # "idle" /\ ~(rd.at > rd.to)
  <2> DEFINE new == [map |-> logs', packing |-> packing # <<>>]
  <2>1. seen' = seen \cup {new}
    BY <1>1, <1>5 DEF Met
  <2>2. rd.at <= rd.to /\ rd.to \in Nat
    BY <1>5, <1>t DEF Loop
  <2>3. new \in seen' /\ new.map = logs' /\ seen \subseteq seen'
    BY <2>1
  <2>4. InLoop /\ \E s \in seen : s.map = logs
    BY <1>5, <2>2 DEF ReaderInv, InLoop
  <2>5. InLoop'
    BY <1>1, <2>3, <2>4 DEF InLoop
  <2>6. ASSUME rd.op = "last" PROVE LastCall'
    <3>1. LastCall
      BY <2>6 DEF ReaderInv
    <3>2. LastOk(seen, rd.to, EntryAt(logs, rd.to))
      BY <2>2, <3>1 DEF LastCall
    <3>3. LastOk(seen', rd.to, EntryAt(logs', rd.to))
      BY <1>2, <2>1, <2>2, <2>4, <3>2, LastKeeps
    <3>q. QED BY <1>1, <1>5, <3>1, <3>3 DEF LastCall
  <2>7. ASSUME rd.op \in Loops PROVE RangeCall'
    <3>1. RangeCall
      BY <2>7 DEF ReaderInv
    <3>2. \A i, e : EntryOk(seen, i, e) => EntryOk(seen', i, e)
      BY <2>3, SoundMore
    <3>3. \A i \in rd.from .. rd.at - 1 : EntryOk(seen', i, rd.got[i - rd.from + 1])
      BY <3>1, <3>2 DEF RangeCall
    <3>4. \A i \in rd.at .. rd.to : \E s \in seen' : i \in DOMAIN s.map
      BY <2>3, <3>1 DEF RangeCall
    <3>q. QED BY <1>1, <3>3, <3>4 DEF RangeCall
  <2>q. QED BY <1>1, <1>t, <2>5, <2>6, <2>7 DEF ReaderInv
<1>q. QED BY <1>3, <1>4, <1>5

\* next_slot() in last_entry, and the first index of log_entries and of pack.
LEMMA BeginReader ==
    ASSUME StoreInv, ReaderInv,
           \/ Last_entry
           \/ \E from, to \in 1 .. MaxIndex : Log_entries(from, to) \/ Pack(from, to)
    PROVE  ReaderInv'
<1>0. PICK n \in Nat : Spans(logs, start_idx, n)
  BY DEF StoreInv
<1>s. Next_slot = n + 1
  BY <1>0, NextSlotOfSpan DEF Next_slot
<1>t. TypeOK /\ start_idx \in Nat \ {0} /\ n \in Nat /\ start_idx <= n + 1
  BY <1>0 DEF StoreInv, TypeOK, Spans
<1> DEFINE new == [map |-> logs, packing |-> packing # <<>>]
<1>e. <<>> \in Seq(Value) /\ Len(<<>>) = 0
  OBVIOUS
<1>1. CASE Last_entry
  <2>1. /\ rd' = [op |-> "last", from |-> n, at |-> n, to |-> n, got |-> <<>>]
        /\ seen' = {new} /\ logs' = logs
    <3>1. Next_slot - 1 = n
      BY <1>s, <1>t
    <3>q. QED BY <1>1, <3>1 DEF Last_entry, Begin, vars
  <2>2. rd' \in Loop
    BY <2>1, <1>e DEF Loop, Op
  <2>3. /\ rd'.op = "last" /\ rd'.from = n /\ rd'.at = n /\ rd'.to = n
        /\ rd'.got = <<>>
    BY <2>1
  <2>4. new \in seen' /\ new.map = logs
    BY <2>1
  <2>5. InLoop'
    BY <2>1, <2>3, <2>4, <1>e DEF InLoop
  <2>6. EntryAt(logs, n) = LastIn(logs)
    <3>1. LastIn(logs) = IF start_idx <= n THEN logs[n] ELSE logs[0]
      BY <1>0, LastOfSpan
    <3>2. /\ start_idx <= n => n \in DOMAIN logs
          /\ ~(start_idx <= n) => (n \notin DOMAIN logs \/ n = 0)
      BY <1>0, <1>t DEF Spans
    <3>q. QED BY <3>1, <3>2 DEF EntryAt
  <2>7. LastOk(seen', n, EntryAt(logs, n))
    BY <2>4, <2>6 DEF LastOk
  <2>8. LastCall'
    BY <2>1, <2>3, <2>7 DEF LastCall
  <2>q. QED BY <2>2, <2>3, <2>5, <2>8 DEF ReaderInv, Loops
<1>2. ASSUME NEW from \in 1 .. MaxIndex, NEW to \in 1 .. MaxIndex,
             Log_entries(from, to) \/ Pack(from, to)
      PROVE  ReaderInv'
  <2>1. PICK op \in Loops :
        /\ rd' = [op |-> op, from |-> from, at |-> from, to |-> to, got |-> <<>>]
        /\ seen' = {new} /\ logs' = logs
        /\ from \in start_idx .. to /\ to < n + 1
    BY <1>2, <1>s DEF Log_entries, Pack, Begin, Loops, vars
  <2>2. rd' \in Loop
    BY <2>1, <1>e DEF Loop, Op, Loops
  <2>3. /\ rd'.op \in Loops /\ rd'.from = from /\ rd'.at = from /\ rd'.to = to
        /\ rd'.got = <<>>
    BY <2>1
  <2>4. new \in seen' /\ new.map = logs
    BY <2>1
  <2>5. InLoop'
    BY <2>1, <2>3, <2>4, <1>e, LogStoreAssumption DEF InLoop
  <2>6. \A i \in from .. to : i \in DOMAIN logs
    BY <2>1, <1>0, <1>t DEF Spans
  <2>7. RangeCall'
    BY <2>1, <2>3, <2>4, <2>6 DEF RangeCall
  <2>q. QED BY <2>2, <2>3, <2>5, <2>7 DEF ReaderInv, Loops
<1>q. QED BY <1>1, <1>2

\* One round of the loop.
LEMMA ReadReader ==
    ASSUME StoreInv, ReaderInv, ReadOne
    PROVE  ReaderInv'
<1> DEFINE e == EntryAt(logs, rd.at)
<1>t. rd \in Loop /\ InLoop /\ rd.op \in {"last", "range", "pack"} /\ rd.at <= rd.to
  BY DEF ReaderInv, ReadOne, InLoops, Loops, Loop
<1>0. PICK to \in {rd.to} \cup (IF rd.op = "range" THEN {rd.at} ELSE {}) :
        rd' = [rd EXCEPT !.got = @ \o <<e>>, !.at = @ + 1, !.to = to]
  BY DEF ReadOne, Read
<1>u. logs' = logs /\ seen' = seen
  BY DEF ReadOne, vars
<1>e. e \in Value
  BY DEF EntryAt, StoreInv, TypeOK, Value
<1> HIDE DEF e
<1>n. /\ rd.from \in Nat /\ rd.at \in Nat /\ rd.to \in Nat /\ rd.got \in Seq(Value)
      /\ rd.from <= rd.at /\ Len(rd.got) = rd.at - rd.from
  BY <1>t DEF Loop, InLoop
<1>g. /\ rd.got \o <<e>> \in Seq(Value) /\ Len(rd.got \o <<e>>) = Len(rd.got) + 1
      /\ \A k \in 1 .. Len(rd.got) : (rd.got \o <<e>>)[k] = rd.got[k]
      /\ (rd.got \o <<e>>)[Len(rd.got) + 1] = e
  <2>1. <<e>> \in Seq(Value) /\ Len(<<e>>) = 1 /\ <<e>>[1] = e
    BY <1>e
  <2>2. /\ rd.got \o <<e>> \in Seq(Value)
        /\ Len(rd.got \o <<e>>) = Len(rd.got) + Len(<<e>>)
        /\ \A k \in 1 .. Len(rd.got) + Len(<<e>>) :
              (rd.got \o <<e>>)[k] = IF k <= Len(rd.got) THEN rd.got[k]
                                    ELSE <<e>>[k - Len(rd.got)]
    BY <1>n, <2>1, ConcatProperties
  <2>3. Len(rd.got) \in Nat
    BY <1>n, LenProperties
  <2>q. QED BY <2>1, <2>2, <2>3
<1>1. /\ rd'.op = rd.op /\ rd'.from = rd.from /\ rd'.at = rd.at + 1 /\ rd'.to = to
      /\ rd'.got = rd.got \o <<e>>
      /\ to \in Nat /\ rd.at <= to /\ to <= rd.to /\ (rd.op = "last" => to = rd.to)
  BY <1>0, <1>t, <1>n DEF Loop
<1>2. rd' \in Loop
  <2>1. rd.at + 1 \in Nat
    BY <1>n
  <2>q. QED BY <1>0, <1>1, <1>t, <1>g, <2>1 DEF Loop
<1>3. InLoop'
  <2>1. rd'.from <= rd'.at /\ rd'.at <= rd'.to + 1 /\ Len(rd'.got) = rd'.at - rd'.from
    <3>1. Len(rd'.got) = rd.at - rd.from + 1
      BY <1>1, <1>g, <1>n
    <3>q. QED BY <1>1, <1>n, <3>1
  <2>2. rd'.at <= rd'.to => \E s \in seen' : s.map = logs'
    BY <1>t, <1>u DEF InLoop
  <2>q. QED BY <2>1, <2>2 DEF InLoop
<1>4. ASSUME rd.op = "last" PROVE LastCall'
  <2>1. LastCall
    BY <1>4 DEF ReaderInv
  <2>2. rd.at = rd.to /\ rd.from = rd.to /\ Len(rd.got) = 0
    BY <1>t, <1>n, <2>1 DEF LastCall
  <2>3. LastOk(seen, rd.to, e)
    BY <1>t, <2>1, <2>2 DEF LastCall, e
  <2>4. rd'.got[1] = e
    BY <1>1, <1>g, <2>2
  <2>5. ~(rd'.at <= rd'.to)
    BY <1>1, <1>4, <1>n, <2>2
  <2>q. QED BY <1>1, <1>4, <1>u, <2>2, <2>3, <2>4, <2>5 DEF LastCall
<1>5. ASSUME rd.op \in Loops PROVE RangeCall'
  <2>1. RangeCall
    BY <1>5 DEF ReaderInv
  <2>2. EntryOk(seen, rd.at, e)
    <3>1. PICK s \in seen : s.map = logs
      BY <1>t DEF InLoop
    <3>2. rd.at \in DOMAIN logs
      BY <1>5 DEF ReadOne
    <3>3. e \in At(s.map, rd.at)
      BY <3>1, <3>2 DEF e, EntryAt, At
    <3>q. QED BY <3>3 DEF EntryOk
  <2>3. ASSUME NEW i \in rd.from .. rd.at
        PROVE  EntryOk(seen, i, (rd.got \o <<e>>)[i - rd.from + 1])
    <3>1. CASE i = rd.at
      <4>1. i - rd.from + 1 = Len(rd.got) + 1
        BY <1>n, <3>1
      <4>q. QED BY <1>g, <2>2, <3>1, <4>1
    <3>2. CASE i # rd.at
      <4>1. i \in rd.from .. rd.at - 1 /\ i - rd.from + 1 \in 1 .. Len(rd.got)
        BY <1>n, <3>2
      <4>2. (rd.got \o <<e>>)[i - rd.from + 1] = rd.got[i - rd.from + 1]
        BY <1>g, <4>1
      <4>q. QED BY <2>1, <4>1, <4>2 DEF RangeCall
    <3>q. QED BY <3>1, <3>2
  <2>4. rd'.from .. rd'.at - 1 = rd.from .. rd.at
    BY <1>1, <1>n
  <2>5. \A i \in rd'.at .. rd'.to : i \in rd.at .. rd.to
    BY <1>1, <1>n
  <2>6. \A i \in rd'.from .. rd'.at - 1 : EntryOk(seen', i, rd'.got[i - rd'.from + 1])
    BY <1>1, <1>u, <2>3, <2>4
  <2>7. \A i \in rd'.at .. rd'.to : \E s \in seen' : i \in DOMAIN s.map
    BY <1>u, <2>1, <2>5 DEF RangeCall
  <2>q. QED BY <2>6, <2>7 DEF RangeCall
<1>q. QED BY <1>1, <1>t, <1>2, <1>3, <1>4, <1>5 DEF ReaderInv, Loops

\* A loop finds an index that has gone.
LEMMA AbortReader ==
    ASSUME ReaderInv, Abort
    PROVE  ReaderInv'
<1>t. rd \in Loop /\ InLoop /\ RangeCall /\ rd.at <= rd.to
  BY DEF ReaderInv, Abort, InLoops, Loops
<1>1. PICK s \in seen : s.map = logs
  BY <1>t DEF InLoop
<1>2. PICK r \in seen : rd.at \in DOMAIN r.map
  BY <1>t DEF RangeCall, Loop
<1>3. rd.at \in DOMAIN r.map \ DOMAIN s.map
  BY <1>1, <1>2 DEF Abort
<1>4. rd' = [rd EXCEPT !.op = "aborted"] /\ seen' = seen /\ logs' = logs
  BY DEF Abort, vars
<1>5. /\ rd' \in Loop /\ rd'.op = "aborted" /\ rd'.at = rd.at /\ rd'.from = rd.from
      /\ rd'.to = rd.to /\ rd'.got = rd.got
  BY <1>4, <1>t DEF Loop, Op
<1>6. InLoop'
  BY <1>t, <1>4, <1>5 DEF InLoop
<1>q. QED BY <1>3, <1>4, <1>5, <1>6 DEF ReaderInv, Loops

\* A step of any thread is a step of the log store, or leaves it alone.
LEMMA ThreadsStore == [TNext]_tvars => [Next]_vars
BY DEF TNext, Write, Last_entry, Log_entries, Pack, Begin, ReadOne, Abort, Return, tvars

LEMMA NextReader == StoreInv /\ StoreInv' /\ ReaderInv /\ [TNext]_tvars => ReaderInv'
<1> SUFFICES ASSUME StoreInv, StoreInv', ReaderInv, [TNext]_tvars PROVE ReaderInv'
  OBVIOUS
<1>1. CASE Runs /\ Write
  BY <1>1, WriteReader
<1>2. CASE \/ Last_entry
           \/ \E from, to \in 1 .. MaxIndex : Log_entries(from, to) \/ Pack(from, to)
  BY <1>2, BeginReader
<1>3. CASE ReadOne
  BY <1>3, ReadReader
<1>4. CASE Return
  <2>1. rd' = Idle
    BY <1>4 DEF Return
  <2>2. Idle \in Loop /\ Idle.op = "idle"
    BY DEF Idle, Loop, Op
  <2>q. QED BY <2>1, <2>2 DEF ReaderInv, Loops
<1>5. CASE Abort
  BY <1>5, AbortReader
<1>6. CASE UNCHANGED tvars
  BY <1>6 DEF ReaderInv, InLoop, LastCall, RangeCall, tvars, vars, reader
<1>q. QED BY <1>1, <1>2, <1>3, <1>4, <1>5, <1>6 DEF TNext

LEMMA InitReader == TInit => StoreInv /\ ReaderInv
<1> SUFFICES ASSUME TInit PROVE StoreInv /\ ReaderInv
  OBVIOUS
<1>1. StoreInv
  BY InitStore DEF TInit
<1>2. rd = Idle /\ Idle \in Loop /\ Idle.op = "idle"
  BY DEF TInit, Idle, Loop, Op
<1>q. QED BY <1>1, <1>2 DEF ReaderInv, Loops

\* Whatever appends, overwrites, packs and compactions come between two critical
\* sections of last_entry, log_entries or pack, and however many: each entry that
\* the call returns was there during the call (or, of last_entry, is the dummy for
\* an index that was cut off meanwhile), and where an assertion ends the process,
\* the index was cut off or compacted during the call.
THEOREM ReadersSound == TSpec => []ReadsSound
<1>1. StoreInv /\ ReaderInv /\ [TNext]_tvars => (StoreInv /\ ReaderInv)'
  BY ThreadsStore, NextStore, NextReader
<1>2. ReaderInv => ReadsSound
  <2> SUFFICES ASSUME ReaderInv PROVE ReadsSound
    OBVIOUS
  <2>1. ASSUME Finished, rd.op = "last" PROVE LastEntrySound
    BY <2>1 DEF Finished, ReaderInv, LastCall, LastOk, LastEntrySound
  <2>2. ASSUME Finished, rd.op \in Loops PROVE RangeSound
    <3>1. rd \in Loop /\ InLoop /\ RangeCall /\ rd.at > rd.to
      BY <2>2 DEF Finished, ReaderInv, Loops
    <3>2. rd.from .. rd.at - 1 = rd.from .. rd.to
      BY <3>1 DEF Loop, InLoop
    <3>q. QED BY <3>1, <3>2 DEF RangeCall, EntryOk, RangeSound
  <2>3. ASSUME ~Runs PROVE \E s, r \in seen : rd.at \in DOMAIN s.map \ DOMAIN r.map
    BY <2>3 DEF Runs, ReaderInv
  <2>4. Finished => rd.op = "last" \/ rd.op \in Loops
    BY DEF Finished
  <2>q. QED BY <2>1, <2>2, <2>3, <2>4 DEF ReadsSound, Loops
<1>q. QED BY <1>1, <1>2, InitReader, PTL DEF TSpec

-----------------------------------------------------------------------------
(* Entries of a map as a sequence.                                         *)

\* The entries under the keys a .. n.
Segment(l, a, n) == [i \in 1 .. n + 1 - a |-> l[a + i - 1]]

\* All entries of an interval of the map are entries of the log.
Holds(l, a, n, E) == a \in Nat /\ n \in Nat /\ n >= a - 1 /\ \A i \in a .. n : l[i] \in E

\* Two maps agree on an interval, but for one key.
Agree(k, l, a, n) == \A i \in a .. n : k[i] = l[i]
AgreeBut(k, l, a, n, j) == \A i \in a .. n : i # j => k[i] = l[i]

\* The end of the interval a .. n when it is cut in front of b.
EndAfter(b, n) == IF b <= n + 1 THEN n ELSE b - 1

\* Such a segment is a sequence with one element for every key.
LEMMA SegmentSeq ==
    ASSUME NEW l, NEW a, NEW n, NEW E, Holds(l, a, n, E)
    PROVE  /\ Segment(l, a, n) \in Seq(E)
           /\ Len(Segment(l, a, n)) = n + 1 - a
           /\ \A i \in 1 .. n + 1 - a : Segment(l, a, n)[i] = l[a + i - 1]
<1>1. n + 1 - a \in Nat /\ a \in Nat /\ n \in Nat
  BY DEF Holds
<1>2. \A i \in 1 .. n + 1 - a : a + i - 1 \in a .. n
  BY <1>1
<1>3. \A i \in 1 .. n + 1 - a : Segment(l, a, n)[i] = l[a + i - 1]
  BY DEF Segment
<1>4. Segment(l, a, n) \in [1 .. n + 1 - a -> E]
  BY <1>2 DEF Segment, Holds
<1>5. Segment(l, a, n) \in Seq(E)
  BY <1>1, <1>4
<1>6. Len(Segment(l, a, n)) = n + 1 - a
  BY <1>1, <1>4
<1>q. QED BY <1>3, <1>5, <1>6

\* An entry in the last place.
LEMMA SegmentExtended ==
    ASSUME NEW l, NEW k, NEW a, NEW n, NEW E, NEW e \in E, Holds(l, a, n, E),
           k[n + 1] = e, Agree(k, l, a, n)
    PROVE  Segment(k, a, n + 1) = Append(Segment(l, a, n), e)
<1>1. a \in Nat /\ n \in Nat /\ n + 1 - a \in Nat
  BY DEF Holds
<1>2. Holds(k, a, n + 1, E)
  BY <1>1 DEF Holds, Agree
<1> DEFINE s == Segment(l, a, n)
           t == Segment(k, a, n + 1)
<1>3. /\ s \in Seq(E) /\ Len(s) = n + 1 - a
      /\ \A i \in 1 .. n + 1 - a : s[i] = l[a + i - 1]
  BY SegmentSeq
<1>4. /\ t \in Seq(E) /\ Len(t) = n + 1 + 1 - a
      /\ \A i \in 1 .. n + 1 + 1 - a : t[i] = k[a + i - 1]
  BY <1>2, SegmentSeq
<1> HIDE DEF s, t
<1>5. /\ Append(s, e) \in Seq(E) /\ Len(Append(s, e)) = Len(s) + 1
      /\ \A i \in 1 .. Len(s) : Append(s, e)[i] = s[i]
      /\ Append(s, e)[Len(s) + 1] = e
  BY <1>3, AppendProperties
<1>6. \A i \in 1 .. Len(t) : t[i] = Append(s, e)[i]
  <2> TAKE i \in 1 .. Len(t)
  <2>1. CASE i = Len(s) + 1
    <3>1. a + i - 1 = n + 1 /\ i \in 1 .. n + 1 + 1 - a
      BY <2>1, <1>1, <1>3, <1>4
    <3>q. QED BY <3>1, <2>1, <1>4, <1>5
  <2>2. CASE i # Len(s) + 1
    <3>1. i \in 1 .. Len(s) /\ a + i - 1 \in a .. n /\ i \in 1 .. n + 1 + 1 - a
      BY <2>2, <1>1, <1>3, <1>4
    <3>q. QED BY <3>1, <1>3, <1>4, <1>5 DEF Agree
  <2>q. QED BY <2>1, <2>2
<1>7. Len(t) = Len(Append(s, e))
  BY <1>1, <1>3, <1>4, <1>5
<1>8. t = Append(s, e)
  BY <1>4, <1>5, <1>6, <1>7, SeqEqual
<1>q. QED BY <1>8 DEF s, t

\* The first entries of a segment.
LEMMA SegmentFront ==
    ASSUME NEW l, NEW a, NEW n, NEW m, NEW E, Holds(l, a, n, E),
           m \in Nat, m >= a - 1, m <= n
    PROVE  SubSeq(Segment(l, a, n), 1, m + 1 - a) = Segment(l, a, m)
<1>1. a \in Nat /\ n \in Nat /\ n + 1 - a \in Nat
  BY DEF Holds
<1>2. Holds(l, a, m, E)
  BY <1>1 DEF Holds
<1> DEFINE s == Segment(l, a, n)
           t == Segment(l, a, m)
           p == m + 1 - a
           u == SubSeq(s, 1, p)
<1>3. /\ s \in Seq(E) /\ Len(s) = n + 1 - a
      /\ \A i \in 1 .. n + 1 - a : s[i] = l[a + i - 1]
  BY SegmentSeq
<1>4. /\ t \in Seq(E) /\ Len(t) = m + 1 - a
      /\ \A i \in 1 .. m + 1 - a : t[i] = l[a + i - 1]
  BY <1>2, SegmentSeq
<1>5. p \in Int /\ 1 \in Int /\ p <= Len(s)
  BY <1>1, <1>3
<1> HIDE DEF s, t, p
<1>6. \A i \in 1 .. p : s[i] \in E
  BY <1>3, <1>5, ElementOfSeq
<1>7. /\ u \in Seq(E) /\ Len(u) = IF 1 <= p THEN p - 1 + 1 ELSE 0
      /\ \A i \in 1 .. p - 1 + 1 : u[i] = s[1 + i - 1]
  BY <1>5, <1>6, SubSeqProperties
<1> HIDE DEF u
<1>8. Len(u) = Len(t)
  BY <1>1, <1>4, <1>7 DEF p
<1>9. \A i \in 1 .. Len(u) : u[i] = t[i]
  BY <1>1, <1>3, <1>4, <1>7 DEF p
<1>10. u = t
  BY <1>4, <1>7, <1>8, <1>9, SeqEqual
<1>q. QED BY <1>10 DEF s, t, u, p

\* The last entries of a segment; none, when it is cut behind its end.
LEMMA SegmentBack ==
    ASSUME NEW l, NEW a, NEW n, NEW b, NEW E, Holds(l, a, n, E),
           b \in Nat, b >= a
    PROVE  SubSeq(Segment(l, a, n), b - a + 1, n + 1 - a) = Segment(l, b, EndAfter(b, n))
<1> DEFINE m == EndAfter(b, n)
<1>1. a \in Nat /\ n \in Nat /\ n + 1 - a \in Nat /\ m \in Nat
      /\ m = IF b <= n + 1 THEN n ELSE b - 1
  BY DEF Holds, EndAfter
<1> HIDE DEF m
<1>2. Holds(l, b, m, E)
  BY <1>1 DEF Holds
<1> DEFINE s == Segment(l, a, n)
           t == Segment(l, b, m)
           u == SubSeq(s, b - a + 1, n + 1 - a)
<1>3. /\ s \in Seq(E) /\ Len(s) = n + 1 - a
      /\ \A i \in 1 .. n + 1 - a : s[i] = l[a + i - 1]
  BY SegmentSeq
<1>4. /\ t \in Seq(E) /\ Len(t) = m + 1 - b
      /\ \A i \in 1 .. m + 1 - b : t[i] = l[b + i - 1]
  BY <1>2, SegmentSeq
<1> HIDE DEF s, t
<1>5. b - a + 1 \in Int /\ n + 1 - a \in Int /\ \A i \in b - a + 1 .. n + 1 - a : s[i] \in E
  BY <1>1, <1>3, ElementOfSeq
<1>6. /\ u \in Seq(E)
      /\ Len(u) = IF b - a + 1 <= n + 1 - a THEN (n + 1 - a) - (b - a + 1) + 1 ELSE 0
      /\ \A i \in 1 .. (n + 1 - a) - (b - a + 1) + 1 : u[i] = s[(b - a + 1) + i - 1]
  BY <1>5, SubSeqProperties
<1> HIDE DEF u
<1>7. Len(u) = Len(t)
  BY <1>1, <1>4, <1>6
<1>8. ASSUME NEW i \in 1 .. Len(u) PROVE u[i] = t[i]
  <2>1. i \in Nat /\ i >= 1 /\ i <= m + 1 - b /\ b <= n /\ m = n
    BY <1>1, <1>4, <1>6, <1>7
  <2>2. u[i] = s[(b - a + 1) + i - 1]
    BY <1>1, <1>6, <2>1
  <2>3. (b - a + 1) + i - 1 = b - a + i /\ b - a + i \in 1 .. n + 1 - a
    BY <1>1, <2>1
  <2>4. s[b - a + i] = l[a + (b - a + i) - 1]
    BY <1>3, <2>3
  <2>5. a + (b - a + i) - 1 = b + i - 1
    BY <1>1, <2>1
  <2>6. t[i] = l[b + i - 1]
    BY <1>1, <1>4, <2>1
  <2>q. QED BY <2>2, <2>3, <2>4, <2>5, <2>6
<1>9. u = t
  BY <1>4, <1>6, <1>7, <1>8, SeqEqual
<1>q. QED BY <1>9 DEF s, t, u, m

\* One entry replaced.
LEMMA SegmentExcept ==
    ASSUME NEW l, NEW k, NEW a, NEW n, NEW j, NEW E, NEW e \in E, Holds(l, a, n, E),
           j \in a .. n, k[j] = e, AgreeBut(k, l, a, n, j)
    PROVE  Segment(k, a, n) = [Segment(l, a, n) EXCEPT ![j - a + 1] = e]
<1>1. a \in Nat /\ n \in Nat /\ n + 1 - a \in Nat /\ j \in Nat
  BY DEF Holds
<1>2. j - a + 1 \in 1 .. n + 1 - a
  BY <1>1
<1>3. \A i \in 1 .. n + 1 - a :
        a + i - 1 \in a .. n /\ (i = j - a + 1 <=> a + i - 1 = j)
  BY <1>1
<1>4. \A i \in 1 .. n + 1 - a :
        k[a + i - 1] = IF i = j - a + 1 THEN e ELSE l[a + i - 1]
  BY <1>3 DEF AgreeBut
<1>q. QED BY <1>2, <1>4 DEF Segment

-----------------------------------------------------------------------------
(* The refinement.                                                         *)

\* What the map of a store in its invariant is as a sequence.
LEMMA LogOfSpan ==
    ASSUME NEW n \in Nat, TypeOK, Spans(logs, start_idx, n)
    PROVE  /\ LogOf = Segment(logs, start_idx, n) /\ Holds(logs, start_idx, n, Entry)
           /\ Next_slot = n + 1
<1>1. Next_slot = n + 1
  BY NextSlotOfSpan DEF Next_slot
<1>2. LogOf = Segment(logs, start_idx, n)
  <2>1. Next_slot - start_idx = n + 1 - start_idx
    BY <1>1 DEF TypeOK
  <2>q. QED BY <2>1, Zenon DEF LogOf, Segment
<1>3. \A i \in start_idx .. n : i \in DOMAIN logs \ {0}
  BY DEF Spans
<1>4. Holds(logs, start_idx, n, Entry)
  BY <1>3 DEF Holds, Spans, TypeOK
<1>q. QED BY <1>1, <1>2, <1>4

LEMMA InitRefines == Init => RaftLogOf!LogInit
<1> SUFFICES ASSUME Init PROVE RaftLogOf!LogInit
  OBVIOUS
<1> USE LogStoreAssumption DEF Init
<1>1. Spans(logs, start_idx, StartIndexID)
  BY DEF Spans, EmptyLogs, StartOf
<1>2. Next_slot = StartIndexID + 1
  BY <1>1, NextSlotOfSpan DEF Next_slot
<1>3. Next_slot - start_idx = 0
  BY <1>2 DEF StartOf
<1>4. LogOf = <<>>
  BY <1>3 DEF LogOf
<1>q. QED BY <1>4 DEF RaftLogOf!LogInit, StartOf

\* Each operation is a step of RaftLog, or changes nothing there.
LEMMA NextRefines ==
    StoreInv /\ StoreInv' /\ [Next]_vars => [RaftLogOf!LogNext]_(RaftLogOf!logVars)
<1> SUFFICES ASSUME StoreInv, StoreInv', [Next]_vars
             PROVE  [RaftLogOf!LogNext]_(RaftLogOf!logVars)
  OBVIOUS
<1> USE LogStoreAssumption
<1>0. PICK n \in Nat : Spans(logs, start_idx, n)
  BY DEF StoreInv
<1>t. TypeOK /\ PackInRange /\ start_idx \in Nat \ {0} /\ n >= start_idx - 1
  BY <1>0 DEF StoreInv, TypeOK, Spans
<1>s. /\ LogOf = Segment(logs, start_idx, n) /\ Holds(logs, start_idx, n, Entry)
      /\ Next_slot = n + 1
  BY <1>0, <1>t, LogOfSpan
<1>l. LogOf \in Seq(Entry) /\ Len(LogOf) = n + 1 - start_idx
  BY <1>s, SegmentSeq
<1>p. ASSUME NEW m \in Nat, Spans(logs', start_idx', m)
      PROVE  LogOf' = Segment(logs', start_idx', m)
  <2>1. NextSlot(start_idx', logs') = m + 1
    BY <1>p, NextSlotOfSpan
  <2>2. NextSlot(start_idx', logs') - start_idx' = m + 1 - start_idx'
    BY <2>1 DEF StoreInv, TypeOK
  <2>q. QED BY <2>2, Zenon DEF LogOf, Segment, Next_slot
<1>1. ASSUME NEW e \in Entry, Append_(e) PROVE RaftLogOf!Extend(e)
  <2>1. /\ logs' = Put(logs, n + 1, e) /\ UNCHANGED <<start_idx, packing>>
        /\ packing = <<>>
    BY <1>1, <1>s DEF Append_, Appended, Next_slot, pack
  <2>2. n + 1 \in start_idx .. (n + 1)
    BY <1>t
  <2>3. Spans(logs', start_idx', n + 1)
    <3>1. Spans(Put(logs, n + 1, e), start_idx, IF n + 1 = n + 1 THEN n + 1 ELSE n)
      BY <1>0, <2>2, PutSpan
    <3>q. QED BY <3>1, <2>1
  <2>4. logs'[n + 1] = e /\ Agree(logs', logs, start_idx, n)
    BY <2>1, <1>0, <1>t DEF Put, Spans, Agree
  <2>5. LogOf' = Append(LogOf, e)
    <3>1. Segment(logs', start_idx, n + 1) = Append(Segment(logs, start_idx, n), e)
      BY <2>4, <1>s, SegmentExtended
    <3>2. n + 1 \in Nat
      OBVIOUS
    <3>q. QED BY <3>1, <3>2, <2>1, <2>3, <1>s, <1>p
  <2>q. QED BY <2>1, <2>5 DEF RaftLogOf!Extend
<1>2. ASSUME NEW e \in Entry, NEW idx \in 1 .. MaxIndex, Write_at(idx, e)
      PROVE  \E i \in 1 .. Len(LogOf) + 1 : RaftLogOf!Replace(i, e)
  <2>1. /\ logs' = WrittenAt(logs, idx, e) /\ idx \in start_idx .. (n + 1)
        /\ UNCHANGED <<start_idx, packing>> /\ packing = <<>>
    BY <1>2, <1>s DEF Write_at, pack
  <2> DEFINE m == idx - 1
  <2>2. /\ m \in Nat /\ m >= start_idx - 1 /\ m <= n /\ idx = m + 1
        /\ idx - start_idx + 1 \in 1 .. Len(LogOf) + 1
        /\ (idx - start_idx + 1) - 1 = m + 1 - start_idx
    BY <2>1, <1>t, <1>l
  <2>3. Spans(logs', start_idx', m + 1) /\ m + 1 \in Nat
    BY <2>1, <2>2, <1>0, WrittenAtSpan
  <2>4. logs'[m + 1] = e /\ Agree(logs', logs, start_idx, m)
    BY <2>1, <2>2, <1>0, <1>t DEF WrittenAt, Below, Put, Spans, Agree
  <2>5. Holds(logs, start_idx, m, Entry)
    BY <2>2, <1>s, <1>t DEF Holds
  <2> HIDE DEF m
  <2>6. Segment(logs', start_idx', m + 1) = Append(Segment(logs, start_idx, m), e)
    BY <2>1, <2>4, <2>5, SegmentExtended
  <2>7. SubSeq(LogOf, 1, m + 1 - start_idx) = Segment(logs, start_idx, m)
    BY <2>2, <1>s, SegmentFront
  <2>8. LogOf' = Append(SubSeq(LogOf, 1, (idx - start_idx + 1) - 1), e)
    BY <2>2, <2>3, <2>6, <2>7, <1>p
  <2>9. RaftLogOf!Replace(idx - start_idx + 1, e)
    BY <2>1, <2>8 DEF RaftLogOf!Replace
  <2>q. QED BY <2>2, <2>9
<1>3. ASSUME NEW idx \in 1 .. MaxIndex, NEW pk \in Packs, Apply_pack(idx, pk)
      PROVE  RaftLogOf!Begin
  <2>1. packing = <<>> /\ packing' # <<>> /\ UNCHANGED <<logs, start_idx>>
    BY <1>3 DEF Apply_pack, store
  <2>2. LogOf' = LogOf
    BY <2>1 DEF LogOf, Next_slot
  <2>q. QED BY <2>1, <2>2 DEF RaftLogOf!Begin
<1>4. ASSUME PackEntry
      PROVE  \E e \in Entry, i \in 1 .. Len(LogOf) + 1, more \in BOOLEAN :
                RaftLogOf!Install(i, e, more)
  <2>1. /\ packing # <<>> /\ packing \in Seq(Entry)
        /\ logs' = Put(logs, packAt, Head(packing))
        /\ packAt \in start_idx .. (n + 1)
    BY <1>4, <1>s, <1>t DEF PackEntry, PackInRange, TypeOK
  <2> DEFINE e == Head(packing)
             m == IF packAt = n + 1 THEN n + 1 ELSE n
             i == packAt - start_idx + 1
  <2>2. e \in Entry
    BY <2>1
  <2>3. Spans(logs', start_idx, m) /\ m \in Nat /\ start_idx <= m
    BY <2>1, <1>0, <1>t, PutSpan
  <2>4. FirstIndex(logs') = start_idx
    BY <2>3, FirstIndexSpan
  <2>5. start_idx' = start_idx
    BY <1>4, <2>4 DEF PackEntry
  <2>6. i \in 1 .. Len(LogOf) + 1 /\ (i = Len(LogOf) + 1 <=> packAt = n + 1)
    BY <2>1, <1>t, <1>l
  <2>7. LogOf' = Segment(logs', start_idx, m)
    BY <2>3, <2>5, <1>p
  <2>8. \A j \in start_idx .. n : logs'[j] = IF j = packAt THEN e ELSE logs[j]
    BY <2>1, <1>0, <1>t DEF Put, Spans
  <2>9. logs'[packAt] = e
    BY <2>1 DEF Put
  <2> HIDE DEF e
  <2>10. LogOf' = IF i = Len(LogOf) + 1 THEN Append(LogOf, e) ELSE [LogOf EXCEPT ![i] = e]
    <3>1. CASE packAt = n + 1
      <4>1. Segment(logs', start_idx, n + 1) = Append(Segment(logs, start_idx, n), e)
        <5>1. logs'[n + 1] = e /\ Agree(logs', logs, start_idx, n)
          BY <3>1, <2>8, <2>9, <1>t DEF Agree
        <5>q. QED BY <5>1, <2>2, <1>s, SegmentExtended
      <4>q. QED BY <4>1, <3>1, <2>6, <2>7, <1>s
    <3>2. CASE packAt # n + 1
      <4>1. packAt \in start_idx .. n
        BY <3>2, <2>1, <1>t
      <4>2. Segment(logs', start_idx, n) = [Segment(logs, start_idx, n) EXCEPT ![packAt - start_idx + 1] = e]
        <5>1. AgreeBut(logs', logs, start_idx, n, packAt)
          BY <2>8 DEF AgreeBut
        <5>q. QED BY <5>1, <4>1, <2>2, <2>9, <1>s, SegmentExcept
      <4>q. QED BY <4>2, <3>2, <2>6, <2>7, <1>s
    <3>q. QED BY <3>1, <3>2
  <2> HIDE DEF i
  <2>11. RaftLogOf!Install(i, e, packing' # <<>>)
    BY <2>1, <2>5, <2>10 DEF RaftLogOf!Install
  <2>12. (packing' # <<>>) \in BOOLEAN
    OBVIOUS
  <2>q. QED BY <2>2, <2>6, <2>11, <2>12
<1>5. ASSUME NEW last \in 1 .. MaxIndex, Compact(last) PROVE RaftLogOf!Discard
  <2>1. /\ logs' = Compacted(start_idx, logs, last)
        /\ start_idx' = CompactedStart(start_idx, last)
        /\ UNCHANGED packing /\ packing = <<>> /\ last \in Nat
    BY <1>5 DEF Compact, pack
  <2> DEFINE b == CompactedStart(start_idx, last)
             m == IF n > last THEN n ELSE IF start_idx <= last THEN last ELSE n
  <2>2. Spans(logs', b, m) /\ m \in Nat
    BY <2>1, <1>0, <1>t, CompactedSpan
  <2>3. b \in Nat /\ b >= start_idx /\ m = EndAfter(b, n)
    BY <2>1, <1>t DEF CompactedStart, EndAfter
  <2>4. LogOf' = Segment(logs', b, m)
    BY <2>1, <2>2, <1>p
  <2>5. \A i \in b .. m : i \in DOMAIN logs' /\ logs'[i] = logs[i]
    BY <2>1, <2>2, <2>3 DEF Spans, Compacted
  <2>6. Segment(logs', b, m) = Segment(logs, b, m)
    <3>1. \A i \in 1 .. m + 1 - b : b + i - 1 \in b .. m
      BY <2>2, <2>3
    <3> HIDE DEF b, m
    <3>q. QED BY <3>1, <2>5 DEF Segment
  <2>7. SubSeq(LogOf, b - start_idx + 1, Len(LogOf)) = Segment(logs, b, m)
    <3> HIDE DEF b, m
    <3>1. SubSeq(Segment(logs, start_idx, n), b - start_idx + 1, n + 1 - start_idx) = Segment(logs, b, m)
      BY <2>3, <1>s, SegmentBack
    <3>q. QED BY <3>1, <1>s, <1>l, Zenon
  <2>8. LogOf' = SubSeq(LogOf, start_idx' - start_idx + 1, Len(LogOf))
    BY <2>1, <2>4, <2>6, <2>7
  <2>q. QED BY <2>1, <2>3, <2>8 DEF RaftLogOf!Discard
<1>6. CASE UNCHANGED vars
  <2>1. LogOf' = LogOf
    BY <1>6 DEF LogOf, Next_slot, vars
  <2>q. QED BY <1>6, <2>1 DEF vars, RaftLogOf!logVars
<1>q. QED
  BY <1>1, <1>2, <1>3, <1>4, <1>5, <1>6 DEF Next, RaftLogOf!LogNext

\* inmem_log_store implements the log that NuRaft expects, through every append,
\* overwrite, pack (stored entry by entry) and compaction: the arithmetic on the
\* size of the map, the dummy and start_idx_ never shows.
THEOREM StoreImplementsRaftLog == Spec => ImplementsRaftLog
<1>1. Spec => []StoreInv
  BY StoreInvariant
<1>q. QED
  BY <1>1, InitRefines, NextRefines, PTL DEF Spec, ImplementsRaftLog, RaftLogOf!LogSpec

-----------------------------------------------------------------------------
(* The WAL.                                                                *)

Line == [id : Nat, val : Vals]

\* x is the last line of w for its index.
LastLine(w, x) ==
    \E p \in DOMAIN w : w[p] = x /\ \A q \in DOMAIN w : q > p => w[q].id # x.id

\* A line just appended is the last one for its index.
LEMMA LastLineNew ==
    ASSUME NEW w \in Seq(Line), NEW x \in Line
    PROVE  LastLine(Append(w, x), x)
<1> DEFINE u == Append(w, x)
<1>1. /\ DOMAIN u = 1 .. Len(w) + 1 /\ Len(w) + 1 \in Nat /\ u[Len(w) + 1] = x
  BY AppendProperties, LenProperties
<1> HIDE DEF u
<1>2. Len(w) + 1 \in DOMAIN u /\ \A q \in DOMAIN u : ~(q > Len(w) + 1)
  BY <1>1
<1>3. LastLine(u, x)
  BY <1>1, <1>2 DEF LastLine
<1>q. QED BY <1>3 DEF u

\* A line for another index leaves the last ones as they are.
LEMMA LastLineKept ==
    ASSUME NEW w \in Seq(Line), NEW x \in Line, NEW y, LastLine(w, y), x.id # y.id
    PROVE  LastLine(Append(w, x), y)
<1> DEFINE u == Append(w, x)
<1>1. /\ DOMAIN u = 1 .. Len(w) + 1 /\ Len(w) \in Nat /\ u[Len(w) + 1] = x
      /\ DOMAIN w = 1 .. Len(w) /\ \A i \in 1 .. Len(w) : u[i] = w[i]
  BY AppendProperties, LenProperties
<1> HIDE DEF u
<1>2. PICK p \in DOMAIN w : w[p] = y /\ \A q \in DOMAIN w : q > p => w[q].id # y.id
  BY DEF LastLine
<1>3. p \in DOMAIN u /\ u[p] = y
  BY <1>1, <1>2
<1>4. \A q \in DOMAIN u : q > p => u[q].id # y.id
  <2> TAKE q \in DOMAIN u
  <2>1. CASE q = Len(w) + 1
    BY <2>1, <1>1
  <2>2. CASE q # Len(w) + 1
    <3>1. q \in DOMAIN w /\ u[q] = w[q]
      BY <2>2, <1>1
    <3>q. QED BY <3>1, <1>2
  <2>q. QED BY <2>1, <2>2
<1>5. LastLine(u, y)
  BY <1>3, <1>4 DEF LastLine
<1>q. QED BY <1>5 DEF u

\* The inductive invariant: the keys are as StoreInv says, and the WAL mirrors
\* the entries that should have a line.
LineOf(i) == [id |-> i, val |-> logs[i].val]
Mirrored == DOMAIN logs \ (unlogged \cup {0})
WalInv ==
    /\ wal \in Seq(Line)
    /\ \A i \in Mirrored : logs[i].kind = "app" => LastLine(wal, LineOf(i))

LEMMA EntryLine == ASSUME NEW e \in Entry, e.kind = "app" PROVE e.val \in Vals
BY DEF Entry, AppEntry, ConfEntry

\* WriteWAL(idx, e), for the entry that is now at idx, while the others that
\* should have a line are among the old ones.
LEMMA WrittenMirrors ==
    ASSUME WalInv, NEW idx \in Nat, NEW e \in Entry, WriteWAL(idx, e),
           logs'[idx] = e,
           \A i \in Mirrored' : i # idx => i \in Mirrored /\ logs'[i] = logs[i]
    PROVE  WalInv'
<1> DEFINE x == [id |-> idx, val |-> e.val]
<1>1. CASE e.kind = "app"
  <2>1. wal' = Append(wal, x) /\ x \in Line
    BY <1>1, EntryLine DEF WriteWAL, Line
  <2>2. wal \in Seq(Line)
    BY DEF WalInv
  <2>3. wal' \in Seq(Line)
    BY <2>1, <2>2, AppendProperties
  <2>4. ASSUME NEW i \in Mirrored', logs'[i].kind = "app"
        PROVE  LastLine(wal', LineOf(i)')
    <3>1. CASE i = idx
      <4>1. LineOf(i)' = x
        BY <3>1 DEF LineOf
      <4>q. QED BY <4>1, <2>1, <2>2, LastLineNew
    <3>2. CASE i # idx
      <4>1. i \in Mirrored /\ logs'[i] = logs[i]
        BY <3>2
      <4>2. LastLine(wal, LineOf(i))
        BY <4>1, <2>4 DEF WalInv
      <4>3. LineOf(i)' = LineOf(i) /\ x.id # LineOf(i).id
        BY <4>1, <3>2 DEF LineOf
      <4>q. QED BY <4>2, <4>3, <2>1, <2>2, LastLineKept
    <3>q. QED BY <3>1, <3>2
  <2>q. QED BY <2>3, <2>4 DEF WalInv
<1>2. CASE e.kind # "app"
  <2>1. wal' = wal
    BY <1>2 DEF WriteWAL
  <2>2. ASSUME NEW i \in Mirrored', logs'[i].kind = "app"
        PROVE  LastLine(wal, LineOf(i)')
    <3>1. i # idx
      BY <1>2, <2>2
    <3>2. i \in Mirrored /\ logs'[i] = logs[i]
      BY <3>1
    <3>3. LineOf(i)' = LineOf(i)
      BY <3>2 DEF LineOf
    <3>q. QED BY <3>2, <3>3, <2>2 DEF WalInv
  <2>q. QED BY <2>1, <2>2 DEF WalInv
<1>q. QED BY <1>1, <1>2

\* A step that writes no line and changes no entry that should have one.
LEMMA UnwrittenMirrors ==
    ASSUME WalInv, wal' = wal,
           \A i \in Mirrored' : i \in Mirrored /\ logs'[i] = logs[i]
    PROVE  WalInv'
<1>1. ASSUME NEW i \in Mirrored', logs'[i].kind = "app" PROVE LastLine(wal, LineOf(i)')
  <2>1. i \in Mirrored /\ logs'[i] = logs[i]
    OBVIOUS
  <2>2. LineOf(i)' = LineOf(i)
    BY <2>1 DEF LineOf
  <2>q. QED BY <2>1, <2>2, <1>1 DEF WalInv
<1>q. QED BY <1>1 DEF WalInv

LEMMA NextMirrors == StoreInv /\ WalInv /\ [Next]_vars => WalInv'
<1> SUFFICES ASSUME StoreInv, WalInv, [Next]_vars PROVE WalInv'
  OBVIOUS
<1> USE LogStoreAssumption
<1>0. PICK n \in Nat : Spans(logs, start_idx, n)
  BY DEF StoreInv
<1>s. Next_slot = n + 1 /\ Next_slot \in Nat
  BY <1>0, NextSlotOfSpan DEF Next_slot
<1>1. ASSUME NEW e \in Entry, Append_(e) PROVE WalInv'
  <2>1. /\ logs' = Put(logs, Next_slot, e) /\ WriteWAL(Next_slot, e)
        /\ unlogged' = unlogged \ {Next_slot}
    BY <1>1 DEF Append_, Appended, Next_slot
  <2>2. /\ logs'[Next_slot] = e
        /\ \A i \in Mirrored' : i # Next_slot => i \in Mirrored /\ logs'[i] = logs[i]
    BY <2>1 DEF Put, Mirrored
  <2>q. QED BY <2>1, <2>2, <1>s, WrittenMirrors
<1>2. ASSUME NEW e \in Entry, NEW idx \in 1 .. MaxIndex, Write_at(idx, e) PROVE WalInv'
  <2>1. /\ logs' = WrittenAt(logs, idx, e) /\ WriteWAL(idx, e) /\ idx \in Nat
        /\ unlogged' = {i \in unlogged : i < idx}
    BY <1>2 DEF Write_at
  <2>2. /\ logs'[idx] = e
        /\ \A i \in Mirrored' : i # idx => i \in Mirrored /\ logs'[i] = logs[i]
    BY <2>1 DEF WrittenAt, Below, Put, Mirrored
  <2>q. QED BY <2>1, <2>2, WrittenMirrors
<1>3. ASSUME NEW idx \in 1 .. MaxIndex, NEW pk \in Packs, Apply_pack(idx, pk) PROVE WalInv'
  <2>1. wal' = wal /\ logs' = logs /\ unlogged' = unlogged
    BY <1>3 DEF Apply_pack, store
  <2>q. QED BY <2>1, UnwrittenMirrors DEF Mirrored
<1>4. ASSUME PackEntry PROVE WalInv'
  <2>1. /\ wal' = wal /\ logs' = Put(logs, packAt, Head(packing))
        /\ unlogged' = unlogged \cup {packAt}
    BY <1>4 DEF PackEntry
  <2>2. \A i \in Mirrored' : i \in Mirrored /\ logs'[i] = logs[i]
    BY <2>1 DEF Put, Mirrored
  <2>q. QED BY <2>1, <2>2, UnwrittenMirrors
<1>5. ASSUME NEW last \in 1 .. MaxIndex, Compact(last) PROVE WalInv'
  <2>1. /\ wal' = wal /\ logs' = Compacted(start_idx, logs, last)
        /\ unlogged' = unlogged
    BY <1>5 DEF Compact
  <2>2. \A i \in Mirrored' : i \in Mirrored /\ logs'[i] = logs[i]
    BY <2>1 DEF Compacted, Mirrored
  <2>q. QED BY <2>1, <2>2, UnwrittenMirrors
<1>6. CASE UNCHANGED vars
  <2>1. wal' = wal /\ logs' = logs /\ unlogged' = unlogged
    BY <1>6 DEF vars
  <2>q. QED BY <2>1, UnwrittenMirrors DEF Mirrored
<1>q. QED BY <1>1, <1>2, <1>3, <1>4, <1>5, <1>6 DEF Next

\* Replaying the WAL rebuilds the log: through every append, overwrite, pack and
\* compaction the last line for an index holds what the log holds there, unless
\* the entry came in a pack.
THEOREM StoreWalMirrors == Spec => []WalMirrorsLog
<1>1. Init => WalInv
  BY DEF Init, WalInv, Mirrored, EmptyLogs
<1>2. WalInv => WalMirrorsLog
  BY DEF WalInv, WalMirrorsLog, Mirrored, LineOf, LastLine
<1>q. QED BY <1>1, <1>2, StoreInvariant, NextMirrors, PTL DEF Spec
=============================================================================

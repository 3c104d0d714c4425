--------------------------- MODULE LogStoreLemmas ---------------------------
(***************************************************************************)
(* What the operations of inmem_log_store do to a map whose keys are the   *)
(* dummy and an interval.                                                  *)
(***************************************************************************)
EXTENDS LogStoreOps, FiniteSetTheorems, TLAPS

\* The keys of the map are the dummy and the interval start .. n.
Spans(l, start, n) ==
    /\ n \in Nat /\ start \in Nat \ {0} /\ n >= start - 1
    /\ DOMAIN l = {0} \cup (start .. n)

\* A map without gaps has its next free slot right after the last key.
LEMMA NextSlotOfSpan ==
    ASSUME NEW l, NEW start, NEW n, Spans(l, start, n)
    PROVE  NextSlot(start, l) = n + 1
<1>1. start \in Int /\ n \in Int /\ start >= 1 /\ n >= start - 1
  BY DEF Spans
<1>2. /\ IsFiniteSet(start .. n)
      /\ Cardinality(start .. n) = n - start + 1
  <2>1. /\ IsFiniteSet(start .. n)
        /\ Cardinality(start .. n) = IF start > n THEN 0 ELSE n - start + 1
    BY <1>1, FS_Interval
  <2>2. start > n => n - start + 1 = 0
    BY <1>1
  <2>q. QED BY <2>1, <2>2
<1>3. 0 \notin start .. n
  BY <1>1
<1>4. Cardinality((start .. n) \cup {0}) = n - start + 2
  <2>1. Cardinality((start .. n) \cup {0}) = Cardinality(start .. n) + 1
    BY <1>2, <1>3, FS_AddElement, Zenon
  <2>q. QED BY <1>1, <1>2, <2>1
<1>5. DOMAIN l = (start .. n) \cup {0}
  BY DEF Spans
<1>q. QED BY <1>1, <1>4, <1>5 DEF NextSlot

\* Storing an entry at a key of the interval, or right after it, keeps the
\* interval.
LEMMA PutSpan ==
    ASSUME NEW l, NEW start, NEW n, NEW idx, NEW e,
           Spans(l, start, n), idx \in start .. (n + 1)
    PROVE  Spans(Put(l, idx, e), start, IF idx = n + 1 THEN n + 1 ELSE n)
BY DEF Spans, Put

\* write_at ends the interval at the index it writes.
LEMMA WrittenAtSpan ==
    ASSUME NEW l, NEW start, NEW n, NEW idx, NEW e,
           Spans(l, start, n), idx \in start .. (n + 1)
    PROVE  Spans(WrittenAt(l, idx, e), start, idx)
BY DEF Spans, WrittenAt, Below, Put

\* compact drops a prefix of the interval, or the whole of it.
LEMMA CompactedSpan ==
    ASSUME NEW l, NEW start, NEW n, NEW last,
           Spans(l, start, n), last \in Nat
    PROVE  Spans(Compacted(start, l, last), CompactedStart(start, last),
                 IF n > last THEN n ELSE IF start <= last THEN last ELSE n)
BY DEF Spans, Compacted, CompactedStart

\* The first key above the dummy is the start of a non-empty interval.
LEMMA FirstIndexSpan ==
    ASSUME NEW l, NEW start, NEW n, Spans(l, start, n), start <= n
    PROVE  FirstIndex(l) = start
<1> DEFINE keys == {i \in DOMAIN l : i > 0}
<1>1. keys = start .. n
  BY DEF Spans
<1>2. start \in keys /\ \A j \in keys : start <= j
  BY <1>1 DEF Spans
<1>3. \A i \in keys : (\A j \in keys : i <= j) => i = start
  BY <1>1, <1>2 DEF Spans
<1>q. QED BY <1>2, <1>3 DEF FirstIndex
=============================================================================

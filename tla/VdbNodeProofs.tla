--------------------------- MODULE VdbNodeProofs ---------------------------
(***************************************************************************)
(* For every set of documents, requests and budgets: the WAL of one node   *)
(* and the marker of its snapshots fit together, what a node has stored is  *)
(* what the log says, and what it finds is what it has stored, over any     *)
(* number of crashes and restarts, overwrites of the Raft log and snapshots *)
(* taken while entries are being applied.                                  *)
(***************************************************************************)
EXTENDS VdbNode, LogStoreLemmas, TLAPS

(* The indexes keep their types.                                           *)

LEMMA FlatTypes ==
    ASSUME NEW f \in FlatType, NEW r \in Request, NEW o
    PROVE  /\ UpsertRemove(f, r, o) \in FlatType
           /\ UpsertFlat(f, r) \in FlatType
           /\ EmptyFlat \in FlatType
<1>1. FlatRemove(f, r.doc) \in FlatType
  BY DEF FlatRemove, FlatType
<1>2. FlatInsert(f, r.doc, r.vec) \in FlatType
  <2>1. <<r.doc, r.vec>> \in Docs \X Vecs
    BY DEF Request
  <2>q. QED BY <2>1 DEF FlatInsert, FlatType
<1>q. QED BY <1>1, <1>2 DEF UpsertRemove, UpsertFlat, EmptyFlat, FlatType

LEMMA HnswTypes ==
    ASSUME NEW h \in HnswType, NEW r \in Request
    PROVE  UpsertHnsw(h, r) \in HnswType
BY DEF UpsertHnsw, HnswInsert, HnswType, Request

LEMMA FilterTypes ==
    ASSUME NEW f \in FilterType, NEW r \in Request, NEW o
    PROVE  UpsertFilter(f, r, o) \in FilterType
<1>1. \A x, y : FilterUpdate(f, r.doc, x, y) \in FilterType
  BY DEF FilterUpdate, FilterType, Request
<1>q. QED BY <1>1 DEF UpsertFilter

LEMMA EmptyTypes ==
    EmptyFlat \in FlatType /\ EmptyHnsw \in HnswType /\ EmptyFilter \in FilterType
BY DEF EmptyFlat, EmptyHnsw, EmptyFilter, FlatType, HnswType, FilterType

\* An application entry is the request it carries.
LEMMA AppEntry ==
    ASSUME NEW e \in LogEntry, IsApp(e)
    PROVE  e = App(e.req) /\ e.req \in Request
<1>1. e # Conf /\ e # Dummy
  BY DEF IsApp, Conf, Dummy
<1>2. PICK r \in Request : e = App(r)
  BY <1>1 DEF LogEntry
<1>q. QED BY <1>2 DEF App

\* The lines of the WAL.
LEMMA WalLines ==
    ASSUME NEW w \in Seq(WalEntry)
    PROVE  /\ Len(w) \in Nat /\ DOMAIN w = 1 .. Len(w)
           /\ \A p \in DOMAIN w : /\ p \in Nat \ {0}
                                  /\ w[p].id \in Nat /\ w[p].req \in Request
<1>1. Len(w) \in Nat /\ DOMAIN w = 1 .. Len(w)
  OBVIOUS
<1>2. ASSUME NEW p \in DOMAIN w
      PROVE  p \in Nat \ {0} /\ w[p] \in WalEntry
  BY <1>1, <1>2
<1>q. QED BY <1>1, <1>2 DEF WalEntry

\* The log store never leaves gaps, on any of the ways Raft writes to it.
SpanOf(n) == Spans(logs, start_idx, n) /\ last_committed_idx + 1 >= start_idx

(* The inductive invariant.                                                *)

\* Some line of the WAL, or the initial id, accounts for the id m.
Accounted(m) == m <= InitialID \/ \E p \in DOMAIN wal : m <= wal[p].id

\* While the WAL is read: increaseID_ bounds the ids of the lines read so far.
ReadBound ==
    /\ pos <= Len(wal) + 1
    /\ \A p \in DOMAIN wal : p < pos => wal[p].id <= increaseID
    /\ lastSnapshotID = fMarker

\* While the node serves: the log has no gaps, starts right after the ids of
\* the last reload, and holds the ids of the lines that count.
UpBound ==
    /\ start_idx = increaseID + 1
    /\ fMarker <= increaseID /\ lastSnapshotID <= increaseID
    /\ \E n \in Nat : SpanOf(n) /\ \A p \in Live : wal[p].id <= n

LogInv ==
    /\ stale \subseteq DOMAIN wal
    /\ WalIdsIncrease
    /\ Accounted(fMarker)
    /\ mode # "down" => increaseID >= InitialID /\ Accounted(increaseID)
    /\ mode = "reload" => ReadBound
    /\ mode = "up" => UpBound
    /\ (pc # "idle" \/ snap # "idle") => mode = "up"

NodeInv == TypeOK /\ LogInv

LEMMA InitNode == Init => NodeInv
<1> SUFFICES ASSUME Init PROVE NodeInv
  OBVIOUS
<1> USE NodeAssumption DEF Init
<1>1. DiskOK /\ IdsOK
  BY EmptyTypes DEF DiskOK, IdsOK, InitialID
<1>3. LogOK
  BY DEF LogOK, EmptyLogs, LogEntry
<1>4. IndexOK /\ ThreadsOK /\ ModelOK
  BY EmptyTypes DEF IndexOK, ThreadsOK, ModelOK, PCs, SnapPCs
<1>2. LogInv
  BY DEF LogInv, WalIdsIncrease, Live, Accounted, InitialID
<1>q. QED BY <1>1, <1>2, <1>3, <1>4 DEF NodeInv, TypeOK

\* A process that died: everything in memory has its initial value.
LEMMA DieNode == NodeInv /\ Die /\ budget' \in [Ops -> Nat] => NodeInv'
<1> SUFFICES ASSUME NodeInv, Die, budget' \in [Ops -> Nat] PROVE NodeInv'
  OBVIOUS
<1> USE DEF NodeInv, TypeOK, Die, FreshProcess, disk, ghosts
<1>1. DiskOK' /\ IdsOK'
  BY DEF DiskOK, IdsOK, InitialID
<1>2. LogOK'
  BY DEF LogOK, EmptyLogs, LogEntry
<1>3. IndexOK' /\ ThreadsOK' /\ ModelOK'
  BY EmptyTypes DEF IndexOK, ThreadsOK, ModelOK, PCs, SnapPCs
<1>4. LogInv'
  BY DEF LogInv, WalIdsIncrease, Live, Accounted
<1>q. QED BY <1>1, <1>2, <1>3, <1>4

\* What Spend leaves in the budget.
LEMMA SpendBudget ==
    ASSUME NEW op \in Ops, budget \in [Ops -> Nat], Spend(op)
    PROVE  budget' \in [Ops -> Nat]
BY DEF Spend

(* main(): start and reload.                                               *)

LEMMA StartNode == NodeInv /\ Start => NodeInv'
<1> SUFFICES ASSUME NodeInv, Start PROVE NodeInv'
  OBVIOUS
<1> USE DEF NodeInv, TypeOK, Start, disk, raftState, upserting, snapping, ghosts
<1>1. DiskOK' /\ IdsOK'
  BY DEF DiskOK, IdsOK, InitialID
<1>2. LogOK' /\ ThreadsOK' /\ ModelOK'
  BY DEF LogOK, ThreadsOK, ModelOK
<1>3. IndexOK'
  BY DEF IndexOK, Loadable, DiskOK
<1>4. LogInv'
  BY DEF LogInv, WalIdsIncrease, Live, Accounted, ReadBound, InitialID, DiskOK
<1>q. QED BY <1>1, <1>2, <1>3, <1>4

\* Reading a line keeps the bound on the ids read so far.
LEMMA ReadLineNode ==
    NodeInv /\ ReadLine /\ UNCHANGED <<wal, fMarker, mode, lastSnapshotID, pc, snap, stale>>
        => IdsOK' /\ LogInv'
<1> SUFFICES ASSUME NodeInv, ReadLine,
                    UNCHANGED <<wal, fMarker, mode, lastSnapshotID, pc, snap, stale>>
             PROVE  IdsOK' /\ LogInv'
  OBVIOUS
<1>0. wal \in Seq(WalEntry) /\ pos \in Nat \ {0} /\ pos <= Len(wal)
  BY DEF NodeInv, TypeOK, DiskOK, IdsOK, ReadLine
<1>1. /\ pos \in DOMAIN wal /\ pos \in Nat /\ mode = "reload"
      /\ wal[pos].id \in Nat /\ increaseID \in Nat /\ Len(wal) \in Nat
  BY <1>0, WalLines DEF NodeInv, TypeOK, IdsOK, ReadLine
<1>2. /\ increaseID' \in Nat /\ increaseID' >= increaseID /\ increaseID' >= wal[pos].id
      /\ increaseID' \in {increaseID, wal[pos].id} /\ pos' = pos + 1
  BY <1>1 DEF ReadLine, MaxOf
<1>3. IdsOK'
  BY <1>1, <1>2 DEF NodeInv, TypeOK, IdsOK
<1>4. Accounted(increaseID)'
  BY <1>1, <1>2 DEF NodeInv, LogInv, Accounted
<1>5. ReadBound'
  <2>1. ReadBound /\ pos <= Len(wal)
    BY <1>1 DEF NodeInv, LogInv, ReadLine
  <2>2. ASSUME NEW p \in DOMAIN wal, p < pos + 1
        PROVE  wal[p].id <= increaseID'
    <3>1. p \in Nat /\ wal[p].id \in Nat
      BY <1>0, WalLines
    <3>2. CASE p = pos
      BY <1>2, <3>2
    <3>3. CASE p < pos
      BY <1>1, <1>2, <2>1, <3>1, <3>3 DEF ReadBound
    <3>q. QED BY <1>1, <2>2, <3>1, <3>2, <3>3
  <2>q. QED BY <1>1, <1>2, <2>1, <2>2 DEF ReadBound
<1>q. QED
  BY <1>1, <1>2, <1>3, <1>4, <1>5
     DEF NodeInv, LogInv, WalIdsIncrease, Live, Accounted, InitialID

LEMMA ReloadSkipNode == NodeInv /\ ReloadSkip => NodeInv'
<1> SUFFICES ASSUME NodeInv, ReloadSkip PROVE NodeInv'
  OBVIOUS
<1> USE DEF ReloadSkip, disk, raftState, indexes, upserting, snapping, ghosts
<1>1. IdsOK' /\ LogInv'
  BY ReadLineNode
<1>2. DiskOK' /\ LogOK' /\ IndexOK' /\ ThreadsOK' /\ ModelOK'
  BY DEF NodeInv, TypeOK, DiskOK, LogOK, IndexOK, ThreadsOK, ModelOK
<1>q. QED BY <1>1, <1>2 DEF NodeInv, TypeOK

LEMMA ReloadUpsertNode == NodeInv /\ ReloadUpsert => NodeInv'
<1> SUFFICES ASSUME NodeInv, ReloadUpsert PROVE NodeInv'
  OBVIOUS
<1> USE DEF files, raftState, upserting, snapping, ghosts
<1>1. IdsOK' /\ LogInv'
  BY ReadLineNode DEF ReloadUpsert
<1> DEFINE r == wal[pos].req
           o == scalar[r.doc]
<1>2. r \in Request
  <2>1. wal \in Seq(WalEntry) /\ pos \in Nat \ {0} /\ pos <= Len(wal)
    BY DEF NodeInv, TypeOK, DiskOK, IdsOK, ReloadUpsert, ReadLine
  <2>q. QED BY <2>1, WalLines
<1>3. DiskOK'
  BY <1>2 DEF NodeInv, TypeOK, DiskOK, ReloadUpsert
<1>4. IndexOK'
  <2>1. UpsertRemove(flat, r, o) \in FlatType
    BY <1>2, FlatTypes DEF NodeInv, TypeOK, IndexOK
  <2>q. QED BY <1>2, <2>1, FlatTypes, HnswTypes, FilterTypes
            DEF NodeInv, TypeOK, IndexOK, ReloadUpsert
<1>5. LogOK' /\ ThreadsOK' /\ ModelOK'
  BY DEF NodeInv, TypeOK, LogOK, ThreadsOK, ModelOK, ReloadUpsert
<1>q. QED BY <1>1, <1>3, <1>4, <1>5 DEF NodeInv, TypeOK

LEMMA ReloadDoneNode == NodeInv /\ ReloadDone => NodeInv'
<1> SUFFICES ASSUME NodeInv, ReloadDone PROVE NodeInv'
  OBVIOUS
<1> USE DEF ReloadDone, disk, ids, indexes, upserting, snapping, ghosts
<1>1. DiskOK' /\ IdsOK' /\ IndexOK' /\ ThreadsOK' /\ ModelOK'
  BY DEF NodeInv, TypeOK, DiskOK, IdsOK, IndexOK, ThreadsOK, ModelOK
<1>2. LogOK'
  BY DEF NodeInv, TypeOK, IdsOK, LogOK, EmptyLogs, LogEntry, StartOf
<1>3. /\ wal \in Seq(WalEntry) /\ increaseID \in Nat /\ fMarker \in Nat
      /\ lastSnapshotID \in Nat
  BY DEF NodeInv, TypeOK, DiskOK, IdsOK
<1>4. \A p \in DOMAIN wal : wal[p].id <= increaseID /\ wal[p].id \in Nat
  <2>1. ReadBound /\ pos > Len(wal) /\ pos \in Nat
    BY DEF NodeInv, TypeOK, IdsOK, LogInv
  <2>q. QED BY <1>3, <2>1, WalLines DEF ReadBound
<1>5. fMarker <= increaseID
  BY <1>3, <1>4 DEF NodeInv, LogInv, Accounted, InitialID
<1>6. Spans(logs', start_idx', increaseID)
  BY <1>3 DEF Spans, EmptyLogs, StartOf
<1>7. UpBound'
  <2>1. SpanOf(increaseID)'
    BY <1>3, <1>6 DEF SpanOf, StartOf
  <2>2. \A p \in Live' : wal'[p].id <= increaseID
    BY <1>4 DEF Live
  <2>3. lastSnapshotID <= increaseID
    BY <1>5 DEF NodeInv, LogInv, ReadBound
  <2>q. QED BY <1>3, <1>5, <2>1, <2>2, <2>3 DEF UpBound, StartOf
<1>8. LogInv'
  BY <1>7 DEF NodeInv, LogInv, WalIdsIncrease, Live, Accounted
<1>q. QED BY <1>1, <1>2, <1>8 DEF NodeInv, TypeOK

(* Steps that leave the log and the WAL alone.                             *)

\* The part of the invariant about ids depends on these variables only.
LEMMA LogFrame ==
    ASSUME LogInv,
           UNCHANGED <<wal, fMarker, mode, pos, increaseID, lastSnapshotID, logs,
                       start_idx, last_committed_idx, stale>>,
           (pc' # "idle" \/ snap' # "idle") => mode = "up"
    PROVE  LogInv'
BY DEF LogInv, WalIdsIncrease, Live, Accounted, ReadBound, UpBound, SpanOf

(* Raft writes to the log.                                                 *)

\* A line appended to the WAL leaves the others where they are.
LEMMA AppendedLine ==
    ASSUME NEW w \in Seq(WalEntry), NEW e \in WalEntry
    PROVE  /\ Append(w, e) \in Seq(WalEntry)
           /\ DOMAIN Append(w, e) = DOMAIN w \cup {Len(w) + 1}
           /\ Append(w, e)[Len(w) + 1] = e
           /\ \A p \in DOMAIN w : Append(w, e)[p] = w[p] /\ p < Len(w) + 1
OBVIOUS

\* The log after a line with id m was written, the lines in cut being dropped:
\* every other line has a smaller id, and the log now ends at m.
LEMMA NewLine ==
    ASSUME NodeInv, mode = "up", NEW m \in Nat, NEW r \in Request, NEW cut,
           wal' = Append(wal, [id |-> m, req |-> r]),
           stale' = stale \cup cut, cut \subseteq DOMAIN wal,
           \A p \in Live \ cut : wal[p].id < m,
           SpanOf(m)',
           UNCHANGED <<fMarker, mode, pos, increaseID, lastSnapshotID, start_idx, pc, snap>>
    PROVE  LogInv' /\ wal' \in Seq(WalEntry) /\ stale' \subseteq Nat
<1> DEFINE e == [id |-> m, req |-> r]
           k == Len(wal) + 1
<1>1. /\ wal \in Seq(WalEntry) /\ e \in WalEntry /\ LogInv /\ UpBound
  BY DEF NodeInv, TypeOK, DiskOK, LogInv, WalEntry
<1>2. /\ wal' \in Seq(WalEntry) /\ DOMAIN wal' = DOMAIN wal \cup {k}
      /\ wal'[k] = e /\ wal'[k].id = m
      /\ \A p \in DOMAIN wal : wal'[p] = wal[p] /\ p < k
  BY <1>1, AppendedLine
<1>3. /\ \A p \in DOMAIN wal : p \in Nat /\ wal[p].id \in Nat
      /\ Len(wal) \in Nat /\ k \notin DOMAIN wal
  BY <1>1, WalLines
<1>4. stale' \subseteq DOMAIN wal /\ stale' \subseteq DOMAIN wal' /\ stale' \subseteq Nat
  BY <1>1, <1>2, <1>3 DEF LogInv
<1>5. Live' = (Live \ cut) \cup {k}
  BY <1>2, <1>3, <1>4 DEF Live
<1>6. WalIdsIncrease'
  <2> SUFFICES ASSUME NEW p \in Live', NEW q \in Live', p < q
               PROVE  wal'[p].id < wal'[q].id
    BY DEF WalIdsIncrease
  <2>1. CASE q = k
    <3>1. p \in Live \ cut /\ p \in DOMAIN wal
      BY <1>2, <1>3, <1>5, <2>1 DEF Live
    <3>q. QED BY <1>2, <2>1, <3>1
  <2>2. CASE q # k
    <3>1. q \in Live /\ q \in DOMAIN wal /\ p \in DOMAIN wal' /\ q \in Nat
      BY <1>2, <1>3, <1>5, <2>2 DEF Live
    <3>2. p # k
      BY <1>2, <1>3, <3>1
    <3>3. p \in Live /\ p \in DOMAIN wal
      BY <1>5, <3>2 DEF Live
    <3>q. QED BY <1>1, <1>2, <3>1, <3>3 DEF LogInv, WalIdsIncrease
  <2>q. QED BY <2>1, <2>2
<1>7. \A p \in Live' : wal'[p].id <= m
  <2> SUFFICES ASSUME NEW p \in Live' PROVE wal'[p].id <= m
    OBVIOUS
  <2>1. CASE p = k
    BY <1>2, <2>1
  <2>2. CASE p # k
    BY <1>2, <1>3, <1>5, <2>2 DEF Live
  <2>q. QED BY <2>1, <2>2
<1>8. UpBound'
  BY <1>1, <1>7 DEF UpBound
<1>9. Accounted(fMarker)' /\ Accounted(increaseID)'
  <2>1. Accounted(fMarker) /\ Accounted(increaseID)
    BY <1>1 DEF LogInv
  <2>q. QED BY <1>2, <2>1 DEF Accounted
<1>q. QED BY <1>1, <1>2, <1>4, <1>6, <1>8, <1>9 DEF LogInv

LEMMA AppendAppNode ==
    ASSUME NodeInv, NEW r \in Requests, AppendApp(r)
    PROVE  NodeInv'
<1> USE DEF AppendApp, WriteWALRawLog, files, ids, indexes, upserting, snapping, ghosts
<1>0. r \in Request /\ mode = "up" /\ UpBound
  BY NodeAssumption DEF NodeInv, LogInv
<1>1. PICK n \in Nat : SpanOf(n) /\ \A p \in Live : wal[p].id <= n
  BY <1>0 DEF UpBound
<1>2. NextSlot(start_idx, logs) = n + 1
  BY <1>1, NextSlotOfSpan DEF SpanOf
<1>3. n + 1 \in start_idx .. (n + 1)
  BY <1>1 DEF SpanOf, Spans
<1>4. Spans(Put(logs, n + 1, App(r)), start_idx, IF n + 1 = n + 1 THEN n + 1 ELSE n)
  BY <1>1, <1>3, PutSpan DEF SpanOf
<1>5. SpanOf(n + 1)'
  BY <1>1, <1>2, <1>4 DEF SpanOf, Appended
<1>6. \A p \in Live : wal[p].id < n + 1
  BY <1>1, WalLines DEF Live, NodeInv, TypeOK, DiskOK
<1>7. LogInv' /\ wal' \in Seq(WalEntry) /\ stale' \subseteq Nat
  <2>1. n + 1 \in Nat /\ wal' = Append(wal, [id |-> n + 1, req |-> r])
    BY <1>2
  <2>2. PICK cut : cut = {}
    OBVIOUS
  <2>3. /\ stale' = stale \cup cut /\ cut \subseteq DOMAIN wal
        /\ \A p \in Live \ cut : wal[p].id < n + 1
    BY <1>6, <2>2
  <2>q. QED BY <1>0, <1>5, <2>1, <2>3, NewLine
<1>8. LogOK'
  BY <1>0, <1>2, <1>3 DEF NodeInv, TypeOK, LogOK, Appended, Put, LogEntry
<1>9. DiskOK' /\ IdsOK' /\ IndexOK' /\ ThreadsOK' /\ ModelOK'
  BY <1>7 DEF NodeInv, TypeOK, DiskOK, IdsOK, IndexOK, ThreadsOK, ModelOK
<1>q. QED BY <1>7, <1>8, <1>9 DEF NodeInv, TypeOK

LEMMA WriteAtNode ==
    ASSUME NodeInv, NEW r \in Requests, NEW idx \in DOMAIN logs, WriteAt(idx, r)
    PROVE  NodeInv'
<1> USE DEF WriteAt, WriteWALRawLog, files, ids, indexes, upserting, snapping
<1> DEFINE cut == {p \in DOMAIN wal : wal[p].id >= idx}
<1>0. /\ r \in Request /\ mode = "up" /\ UpBound /\ idx \in Nat
      /\ last_committed_idx \in Nat /\ start_idx \in Nat
  BY NodeAssumption DEF NodeInv, TypeOK, LogOK, LogInv
<1>1. PICK n \in Nat : SpanOf(n) /\ \A p \in Live : wal[p].id <= n
  BY <1>0 DEF UpBound
<1>2. NextSlot(start_idx, logs) = n + 1
  BY <1>1, NextSlotOfSpan DEF SpanOf
<1>3. idx \in start_idx .. (n + 1)
  BY <1>0, <1>1, <1>2 DEF SpanOf
<1>4. Spans(logs', start_idx, idx)
  BY <1>1, <1>3, WrittenAtSpan DEF SpanOf
<1>5. SpanOf(idx)'
  BY <1>1, <1>4 DEF SpanOf
<1>6. \A p \in Live \ cut : wal[p].id < idx
  BY <1>0, WalLines DEF Live, NodeInv, TypeOK, DiskOK
<1>7. LogInv' /\ wal' \in Seq(WalEntry) /\ stale' \subseteq Nat
  BY <1>0, <1>5, <1>6, NewLine
<1>8. LogOK'
  BY <1>0 DEF NodeInv, TypeOK, LogOK, WrittenAt, Below, Put, LogEntry
<1>9. DiskOK' /\ IdsOK' /\ IndexOK' /\ ThreadsOK' /\ ModelOK'
  <2>1. budget' \in [Ops -> Nat]
    BY SpendBudget DEF NodeInv, TypeOK, ModelOK, Ops
  <2>q. QED BY <1>7, <2>1
            DEF NodeInv, TypeOK, DiskOK, IdsOK, IndexOK, ThreadsOK, ModelOK
<1>q. QED BY <1>7, <1>8, <1>9 DEF NodeInv, TypeOK

LEMMA WriteAtConfNode ==
    ASSUME NodeInv, NEW idx \in DOMAIN logs, WriteAtConf(idx)
    PROVE  NodeInv'
<1> USE DEF WriteAtConf, disk, ids, indexes, upserting, snapping
<1> DEFINE cut == {p \in DOMAIN wal : wal[p].id >= idx}
<1>0. /\ LogInv /\ mode = "up" /\ UpBound /\ idx \in Nat
      /\ last_committed_idx \in Nat /\ start_idx \in Nat
      /\ wal \in Seq(WalEntry) /\ stale \subseteq Nat
  BY DEF NodeInv, TypeOK, LogOK, DiskOK, ModelOK, LogInv
<1>1. PICK n \in Nat : SpanOf(n) /\ \A p \in Live : wal[p].id <= n
  BY <1>0 DEF UpBound
<1>2. NextSlot(start_idx, logs) = n + 1
  BY <1>1, NextSlotOfSpan DEF SpanOf
<1>3. idx \in start_idx .. (n + 1)
  BY <1>0, <1>1, <1>2 DEF SpanOf
<1>4. Spans(logs', start_idx, idx)
  BY <1>1, <1>3, WrittenAtSpan DEF SpanOf
<1>5. SpanOf(idx)'
  BY <1>1, <1>4 DEF SpanOf
<1>6. Live' \subseteq Live /\ \A p \in Live' : wal'[p].id <= idx
  BY <1>0, WalLines DEF Live
<1>7. UpBound'
  BY <1>0, <1>5, <1>6 DEF UpBound
<1>8. WalIdsIncrease'
  BY <1>0, <1>6 DEF LogInv, WalIdsIncrease
<1>9. LogInv'
  BY <1>0, <1>7, <1>8 DEF LogInv, Accounted
<1>10. LogOK'
  BY <1>0 DEF NodeInv, TypeOK, LogOK, WrittenAt, Below, Put, LogEntry
<1>11. budget' \in [Ops -> Nat] /\ stale' \subseteq Nat
  BY <1>0, SpendBudget, WalLines DEF NodeInv, TypeOK, ModelOK, Ops
<1>12. DiskOK' /\ IdsOK' /\ IndexOK' /\ ThreadsOK' /\ ModelOK'
  BY <1>11 DEF NodeInv, TypeOK, DiskOK, IdsOK, IndexOK, ThreadsOK, ModelOK
<1>q. QED BY <1>9, <1>10, <1>12 DEF NodeInv, TypeOK

\* An entry that writes no line: the log grows by one and nothing else changes.
LEMMA UnloggedEntry ==
    ASSUME NodeInv, mode = "up", NEW e \in LogEntry,
           logs' = Put(logs, NextSlot(start_idx, logs), e),
           start_idx' \in {start_idx, FirstIndex(logs')},
           UNCHANGED <<wal, fMarker, mode, pos, increaseID, lastSnapshotID,
                       last_committed_idx, stale, pc, snap>>
    PROVE  LogInv' /\ LogOK'
<1>0. LogInv /\ UpBound /\ LogOK
  BY DEF NodeInv, TypeOK, LogInv
<1>1. PICK n \in Nat : SpanOf(n) /\ \A p \in Live : wal[p].id <= n
  BY <1>0 DEF UpBound
<1>2. NextSlot(start_idx, logs) = n + 1
  BY <1>1, NextSlotOfSpan DEF SpanOf
<1>3. n + 1 \in start_idx .. (n + 1)
  BY <1>1 DEF SpanOf, Spans
<1>4. Spans(Put(logs, n + 1, e), start_idx, IF n + 1 = n + 1 THEN n + 1 ELSE n)
  BY <1>1, <1>3, PutSpan DEF SpanOf
<1>5. Spans(logs', start_idx, n + 1)
  BY <1>2, <1>4
<1>6. start_idx' = start_idx
  BY <1>3, <1>5, FirstIndexSpan
<1>7. SpanOf(n + 1)'
  BY <1>1, <1>5, <1>6 DEF SpanOf
<1>8. \A p \in Live' : wal'[p].id <= n + 1
  BY <1>1, WalLines DEF Live, NodeInv, TypeOK, DiskOK
<1>9. UpBound'
  <2>1. n + 1 \in Nat
    OBVIOUS
  <2>q. QED BY <1>0, <1>6, <1>7, <1>8, <2>1 DEF UpBound
<1>10. LogOK'
  BY <1>0, <1>2, <1>3, <1>6 DEF LogOK, Put
<1>q. QED BY <1>0, <1>9, <1>10 DEF LogInv, WalIdsIncrease, Live, Accounted

LEMMA AppendConfNode == NodeInv /\ AppendConf => NodeInv'
<1> SUFFICES ASSUME NodeInv, AppendConf PROVE NodeInv'
  OBVIOUS
<1> USE DEF AppendConf, disk, ids, indexes, upserting, snapping, ghosts
<1>1. LogInv' /\ LogOK'
  <2>1. Conf \in LogEntry
    BY DEF LogEntry
  <2>q. QED BY <2>1, UnloggedEntry DEF Appended
<1>2. budget' \in [Ops -> Nat]
  BY SpendBudget DEF NodeInv, TypeOK, ModelOK, Ops
<1>3. DiskOK' /\ IdsOK' /\ IndexOK' /\ ThreadsOK' /\ ModelOK'
  BY <1>2 DEF NodeInv, TypeOK, DiskOK, IdsOK, IndexOK, ThreadsOK, ModelOK
<1>q. QED BY <1>1, <1>3 DEF NodeInv, TypeOK

LEMMA ApplyPackNode ==
    ASSUME NodeInv, NEW r \in Requests, ApplyPack(r)
    PROVE  NodeInv'
<1> USE DEF ApplyPack, disk, ids, indexes, upserting, snapping
<1>0. r \in Request
  BY NodeAssumption
<1>1. LogInv' /\ LogOK'
  <2>1. App(r) \in LogEntry
    BY <1>0 DEF LogEntry
  <2>q. QED BY <2>1, UnloggedEntry
<1>2. budget' \in [Ops -> Nat]
  BY SpendBudget DEF NodeInv, TypeOK, ModelOK, Ops
<1>3. offWal' \subseteq Docs
  BY <1>0 DEF NodeInv, TypeOK, ModelOK, Request
<1>4. DiskOK' /\ IdsOK' /\ IndexOK' /\ ThreadsOK' /\ ModelOK'
  BY <1>2, <1>3 DEF NodeInv, TypeOK, DiskOK, IdsOK, IndexOK, ThreadsOK, ModelOK
<1>q. QED BY <1>1, <1>4 DEF NodeInv, TypeOK

(* The commit thread.                                                      *)

\* Committing the next entry moves last_committed_idx_ up by one.
LEMMA CommitFrame ==
    ASSUME NodeInv, CanCommit, last_committed_idx' = NextCommit,
           UNCHANGED <<wal, fMarker, mode, pos, increaseID, lastSnapshotID,
                       logs, start_idx, stale>>
    PROVE  LogInv' /\ LogOK'
<1>0. LogInv /\ UpBound /\ LogOK /\ mode = "up"
  BY DEF NodeInv, TypeOK, LogInv, CanCommit
<1>1. UpBound'
  <2>1. PICK n \in Nat : SpanOf(n) /\ \A p \in Live : wal[p].id <= n
    BY <1>0 DEF UpBound
  <2>2. SpanOf(n)'
    BY <1>0, <2>1 DEF SpanOf, NextCommit, LogOK
  <2>q. QED BY <1>0, <2>1, <2>2 DEF UpBound, Live
<1>2. LogOK'
  BY <1>0 DEF LogOK, NextCommit
<1>q. QED BY <1>0, <1>1, <1>2 DEF LogInv, WalIdsIncrease, Live, Accounted

LEMMA CommitConfigNode == NodeInv /\ CommitConfig => NodeInv'
<1> SUFFICES ASSUME NodeInv, CommitConfig PROVE NodeInv'
  OBVIOUS
<1> USE DEF CommitConfig, disk, ids, indexes, upserting, snapping, ghosts
<1>1. LogInv' /\ LogOK'
  BY CommitFrame
<1>2. DiskOK' /\ IdsOK' /\ IndexOK' /\ ThreadsOK' /\ ModelOK'
  BY DEF NodeInv, TypeOK, DiskOK, IdsOK, IndexOK, ThreadsOK, ModelOK
<1>q. QED BY <1>1, <1>2 DEF NodeInv, TypeOK

LEMMA CommitNode == NodeInv /\ Commit => NodeInv'
<1> SUFFICES ASSUME NodeInv, Commit PROVE NodeInv'
  OBVIOUS
<1> USE DEF Commit, disk, ids, ghosts
<1> DEFINE r == EntryAt(logs, NextCommit).req
<1>1. LogInv' /\ LogOK'
  BY CommitFrame
<1>2. r \in Request
  BY AppEntry DEF NodeInv, TypeOK, LogOK, CanCommit, EntryAt
<1>3. scalar[r.doc] \in Request \cup {NoData}
  BY <1>2 DEF NodeInv, TypeOK, DiskOK, Request
<1>4. IndexOK'
  BY <1>2, FlatTypes DEF NodeInv, TypeOK, IndexOK
<1>5. ThreadsOK'
  BY <1>2, <1>3 DEF NodeInv, TypeOK, ThreadsOK, PCs, NoteRace
<1>6. DiskOK' /\ IdsOK' /\ ModelOK'
  BY DEF NodeInv, TypeOK, DiskOK, IdsOK, ModelOK
<1>q. QED BY <1>1, <1>4, <1>5, <1>6 DEF NodeInv, TypeOK

LEMMA UpsertInsertNode == NodeInv /\ UpsertInsert => NodeInv'
<1> SUFFICES ASSUME NodeInv, UpsertInsert PROVE NodeInv'
  OBVIOUS
<1> USE DEF UpsertInsert, disk, ids, raftState, ghosts
<1>1. cur \in Request /\ mode = "up"
  BY DEF NodeInv, TypeOK, ThreadsOK, LogInv
<1>2. LogInv'
  BY <1>1, LogFrame DEF NodeInv
<1>3. IndexOK'
  BY <1>1, FlatTypes, HnswTypes DEF NodeInv, TypeOK, IndexOK
<1>4. ThreadsOK'
  BY <1>1 DEF NodeInv, TypeOK, ThreadsOK, PCs, NoteRace
<1>5. DiskOK' /\ IdsOK' /\ LogOK' /\ ModelOK'
  BY DEF NodeInv, TypeOK, DiskOK, IdsOK, LogOK, ModelOK
<1>q. QED BY <1>2, <1>3, <1>4, <1>5 DEF NodeInv, TypeOK

LEMMA UpsertFieldsNode == NodeInv /\ UpsertFields => NodeInv'
<1> SUFFICES ASSUME NodeInv, UpsertFields PROVE NodeInv'
  OBVIOUS
<1> USE DEF UpsertFields, disk, ids, raftState, snapping, ghosts
<1>1. cur \in Request /\ mode = "up"
  BY DEF NodeInv, TypeOK, ThreadsOK, LogInv
<1>2. LogInv'
  BY <1>1, LogFrame DEF NodeInv
<1>3. IndexOK'
  BY <1>1, FilterTypes DEF NodeInv, TypeOK, IndexOK
<1>4. DiskOK' /\ IdsOK' /\ LogOK' /\ ModelOK' /\ ThreadsOK'
  BY <1>1 DEF NodeInv, TypeOK, DiskOK, IdsOK, LogOK, ModelOK, ThreadsOK, PCs
<1>q. QED BY <1>2, <1>3, <1>4 DEF NodeInv, TypeOK

LEMMA UpsertPutNode == NodeInv /\ UpsertPut => NodeInv'
<1> SUFFICES ASSUME NodeInv, UpsertPut PROVE NodeInv'
  OBVIOUS
<1> USE DEF UpsertPut, files, ids, raftState, indexes, snapping, ghosts
<1>1. cur \in Request /\ mode = "up"
  BY DEF NodeInv, TypeOK, ThreadsOK, LogInv
<1>2. LogInv'
  BY <1>1, LogFrame DEF NodeInv
<1>3. DiskOK'
  BY <1>1 DEF NodeInv, TypeOK, DiskOK
<1>4. IdsOK' /\ LogOK' /\ IndexOK' /\ ModelOK' /\ ThreadsOK'
  BY DEF NodeInv, TypeOK, IdsOK, LogOK, IndexOK, ModelOK, ThreadsOK, PCs
<1>q. QED BY <1>2, <1>3, <1>4 DEF NodeInv, TypeOK

(* HTTP threads.                                                           *)

LEMMA InsertNode ==
    ASSUME NodeInv, NEW r \in Inserts, Insert(r)
    PROVE  NodeInv'
<1> USE DEF Insert, disk, ids, raftState, upserting
<1>0. r \in Request
  BY NodeAssumption
<1>1. LogInv'
  BY LogFrame DEF NodeInv
<1>2. IndexOK'
  BY <1>0, FlatTypes, HnswTypes DEF NodeInv, TypeOK, IndexOK
<1>3. budget' \in [Ops -> Nat]
  BY SpendBudget DEF NodeInv, TypeOK, ModelOK, Ops
<1>4. ModelOK'
  BY <1>0, <1>3 DEF NodeInv, TypeOK, ModelOK, Request
<1>5. DiskOK' /\ IdsOK' /\ LogOK' /\ ThreadsOK'
  BY DEF NodeInv, TypeOK, DiskOK, IdsOK, LogOK, ThreadsOK, NoteRace
<1>q. QED BY <1>1, <1>2, <1>4, <1>5 DEF NodeInv, TypeOK

LEMMA TakeSnapshotNode == NodeInv /\ TakeSnapshot => NodeInv'
<1> SUFFICES ASSUME NodeInv, TakeSnapshot PROVE NodeInv'
  OBVIOUS
<1> USE DEF TakeSnapshot, raftState, indexes, upserting, ghosts
<1>1. LogInv'
  BY DEF NodeInv, TypeOK, IdsOK, LogInv, WalIdsIncrease, Live, Accounted,
         ReadBound, UpBound, SpanOf
<1>2. budget' \in [Ops -> Nat]
  BY SpendBudget DEF NodeInv, TypeOK, ModelOK, Ops
<1>3. DiskOK' /\ IdsOK' /\ LogOK' /\ IndexOK' /\ ThreadsOK' /\ ModelOK'
  BY <1>2 DEF NodeInv, TypeOK, DiskOK, IdsOK, LogOK, IndexOK, ThreadsOK,
              ModelOK, SnapPCs
<1>q. QED BY <1>1, <1>3 DEF NodeInv, TypeOK

\* The steps that write the three indexes.
SaveIndexes == SaveFlat \/ OpenHnsw \/ SaveHnsw \/ SaveFilter
LEMMA SaveIndexesNode == NodeInv /\ SaveIndexes => NodeInv'
<1> SUFFICES ASSUME NodeInv, SaveIndexes PROVE NodeInv'
  OBVIOUS
<1> USE DEF SaveIndexes, SaveFlat, OpenHnsw, SaveHnsw, SaveFilter, Saved,
            ids, raftState, indexes, upserting, ghosts
<1>1. LogInv'
  <2>1. mode = "up"
    BY DEF NodeInv, LogInv
  <2>q. QED BY <2>1, LogFrame DEF NodeInv
<1>2. DiskOK'
  BY DEF NodeInv, TypeOK, DiskOK, IndexOK
<1>3. IdsOK' /\ LogOK' /\ IndexOK' /\ ThreadsOK' /\ ModelOK'
  BY DEF NodeInv, TypeOK, IdsOK, LogOK, IndexOK, ThreadsOK, ModelOK, SnapPCs
<1>q. QED BY <1>1, <1>2, <1>3 DEF NodeInv, TypeOK

\* Truncating the marker file makes it 0, writing it makes it an id that the
\* reload at the start of this process has seen.
LEMMA MarkerNode == NodeInv /\ (OpenMarker \/ SaveMarker) => NodeInv'
<1> SUFFICES ASSUME NodeInv, OpenMarker \/ SaveMarker PROVE NodeInv'
  OBVIOUS
<1> USE DEF OpenMarker, SaveMarker, ids, raftState, indexes, upserting, ghosts
<1>1. /\ mode = "up" /\ UpBound /\ LogInv
      /\ increaseID \in Nat /\ lastSnapshotID \in Nat /\ wal \in Seq(WalEntry)
  BY DEF NodeInv, TypeOK, IdsOK, DiskOK, LogInv
<1>2. fMarker' \in Nat /\ fMarker' <= increaseID
  BY <1>1 DEF UpBound
<1>3. Accounted(fMarker)'
  BY <1>1, <1>2, WalLines DEF LogInv, Accounted, InitialID
<1>4. UpBound'
  BY <1>1, <1>2 DEF UpBound, SpanOf, Live
<1>5. LogInv'
  BY <1>1, <1>3, <1>4 DEF LogInv, WalIdsIncrease, Live, Accounted
<1>6. DiskOK' /\ IdsOK' /\ LogOK' /\ IndexOK' /\ ThreadsOK' /\ ModelOK'
  BY <1>2 DEF NodeInv, TypeOK, DiskOK, IdsOK, LogOK, IndexOK, ThreadsOK,
              ModelOK, SnapPCs
<1>q. QED BY <1>5, <1>6 DEF NodeInv, TypeOK

-----------------------------------------------------------------------------

LEMMA NextNode == NodeInv /\ [Next]_vars => NodeInv'
<1> SUFFICES ASSUME NodeInv, [Next]_vars PROVE NodeInv'
  OBVIOUS
<1>1. CASE Start \/ Reload
  <2>1. CASE ReloadAbort
    BY <2>1, DieNode DEF ReloadAbort, NodeInv, TypeOK, ModelOK
  <2>q. QED BY <1>1, <2>1, StartNode, ReloadSkipNode, ReloadUpsertNode, ReloadDoneNode
            DEF Reload
<1>2. CASE Crash
  <2>1. budget' \in [Ops -> Nat]
    BY <1>2, SpendBudget DEF Crash, NodeInv, TypeOK, ModelOK, Ops
  <2>q. QED BY <1>2, <2>1, DieNode DEF Crash
<1>3. CASE Raft
  BY <1>3, AppendAppNode, ApplyPackNode, AppendConfNode, WriteAtNode,
     WriteAtConfNode DEF Raft
<1>4. CASE CommitThread
  <2>1. CASE CommitAbort
    BY <2>1, DieNode DEF CommitAbort, NodeInv, TypeOK, ModelOK
  <2>q. QED BY <1>4, <2>1, CommitConfigNode, CommitNode, UpsertInsertNode,
               UpsertFieldsNode, UpsertPutNode DEF CommitThread
<1>5. CASE SnapshotThread
  BY <1>5, TakeSnapshotNode, SaveIndexesNode, MarkerNode
     DEF SnapshotThread, SaveIndexes
<1>6. CASE \E r \in Inserts : Insert(r)
  BY <1>6, InsertNode
<1>7. CASE UNCHANGED vars
  BY <1>7 DEF vars, NodeInv, TypeOK, DiskOK, IdsOK, LogOK, IndexOK, ThreadsOK,
              ModelOK, LogInv, WalIdsIncrease, Live, Accounted, ReadBound,
              UpBound, SpanOf
<1>q. QED BY <1>1, <1>2, <1>3, <1>4, <1>5, <1>6, <1>7 DEF Next

LEMMA NodeInvariant == Spec => []NodeInv
BY InitNode, NextNode, PTL DEF Spec

\* The state of the node is well typed at all times: in particular the index
\* arithmetic of the log store never leaves the naturals and the commit thread
\* never runs upsert without a request.
THEOREM NodeTypeCorrect == Spec => []TypeOK
<1>1. NodeInv => TypeOK
  BY DEF NodeInv
<1>q. QED BY <1>1, NodeInvariant, PTL

\* The lines of the WAL that Raft did not overwrite have strictly increasing
\* ids, over any number of restarts, overwrites and configuration entries.
THEOREM WalOrdered == Spec => []WalIdsIncrease
<1>1. NodeInv => WalIdsIncrease
  BY DEF NodeInv, LogInv
<1>q. QED BY <1>1, NodeInvariant, PTL

\* No snapshot marker ever covers a line written by the process that took the
\* snapshot.
THEOREM MarkerNeverAhead == Spec => []MarkerBehind
<1>1. NodeInv => MarkerBehind
  <2> SUFFICES ASSUME NodeInv, mode = "up" PROVE fMarker < start_idx
    BY DEF MarkerBehind
  <2>1. UpBound /\ fMarker \in Nat /\ increaseID \in Nat
    BY DEF NodeInv, LogInv, TypeOK, DiskOK, IdsOK
  <2>q. QED BY <2>1 DEF UpBound
<1>q. QED BY <1>1, NodeInvariant, PTL

-----------------------------------------------------------------------------
(* What the log, the WAL and the commit thread say of each other while the *)
(* node serves.                                                            *)

Busy(d) == pc # "idle" /\ cur.doc = d
LinesOf(w, d) == {p \in DOMAIN w : w[p].req.doc = d}
UpTo(w, m) == {p \in DOMAIN w : w[p].id <= m}
OnWal == Docs \ offWal

\* A line this process wrote and Raft kept is the log's entry of that id.
LinesLogged ==
    \A p \in Live : wal[p].id > increaseID =>
        wal[p].id \in DOMAIN logs /\ logs[wal[p].id] = App(wal[p].req)

\* An entry for a document whose changes all go through the WAL has its line.
EntriesLined ==
    \A i \in DOMAIN logs : (IsApp(logs[i]) /\ logs[i].req.doc \notin offWal) =>
        \E p \in Live : wal[p].id = i /\ wal[p].req = logs[i].req

\* The commit thread is in the log, or where the reload left it, and the
\* request it applies is the entry it is at.
CommitHeld ==
    /\ last_committed_idx = increaseID \/ last_committed_idx \in DOMAIN logs
    /\ pc # "idle" => /\ last_committed_idx > increaseID
                      /\ last_committed_idx \in DOMAIN logs
                      /\ logs[last_committed_idx] = App(cur)

SnapHeld == snap # "idle" => lastSnapshotID = increaseID

Mirror == LinesLogged /\ EntriesLined /\ CommitHeld /\ SnapHeld
MirrorInv == mode = "up" => Mirror

\* The log of a node that serves, and where the commit thread is in it.
LEMMA LogTop ==
    ASSUME NodeInv, Mirror, mode = "up"
    PROVE  \E n \in Nat :
              /\ NextSlot(start_idx, logs) = n + 1
              /\ DOMAIN logs = {0} \cup (increaseID + 1 .. n)
              /\ \A p \in Live : wal[p].id <= n
              /\ increaseID <= last_committed_idx /\ last_committed_idx <= n
              /\ start_idx = increaseID + 1
<1>1. /\ UpBound /\ increaseID \in Nat /\ last_committed_idx \in Nat
  BY DEF NodeInv, TypeOK, IdsOK, LogOK, LogInv
<1>2. PICK n \in Nat : SpanOf(n) /\ \A p \in Live : wal[p].id <= n
  BY <1>1 DEF UpBound
<1>3. NextSlot(start_idx, logs) = n + 1
  BY <1>2, NextSlotOfSpan DEF SpanOf
<1>4. /\ DOMAIN logs = {0} \cup (increaseID + 1 .. n) /\ n >= increaseID
      /\ increaseID <= last_committed_idx /\ start_idx = increaseID + 1
  BY <1>1, <1>2 DEF SpanOf, Spans, UpBound
<1>5. last_committed_idx <= n
  BY <1>1, <1>2, <1>4 DEF Mirror, CommitHeld
<1>q. QED BY <1>2, <1>3, <1>4, <1>5

LEMMA OtherEntries == ~IsApp(Conf) /\ ~IsApp(Dummy) /\ (\A r : IsApp(App(r)) /\ App(r).req = r)
BY DEF IsApp, Conf, Dummy, App

\* A write to the log above the commit index: what is below stays, the lines
\* that are cut had the ids of entries that went.
LEMMA LogWriteMirror ==
    ASSUME NodeInv, Mirror, mode = "up", NEW m \in Nat, NEW e \in LogEntry, NEW cut,
           m > last_committed_idx,
           DOMAIN logs' = {i \in DOMAIN logs : i < m} \cup {m}, logs'[m] = e,
           \A i \in DOMAIN logs : i < m => logs'[i] = logs[i],
           stale' = stale \cup cut,
           cut = {p \in DOMAIN wal : wal[p].id >= m} \/ (cut = {} /\ \A p \in Live : wal[p].id < m),
           \/ IsApp(e) /\ wal' = Append(wal, [id |-> m, req |-> e.req])
           \/ wal' = wal /\ (IsApp(e) => e.req.doc \in offWal'),
           offWal \subseteq offWal',
           UNCHANGED <<mode, increaseID, last_committed_idx, lastSnapshotID, pc, cur, snap>>
    PROVE  Mirror'
<1>1. /\ wal \in Seq(WalEntry) /\ stale \subseteq DOMAIN wal
      /\ increaseID \in Nat /\ last_committed_idx \in Nat /\ DOMAIN logs \subseteq Nat
      /\ \A i \in DOMAIN logs : logs[i] \in LogEntry
  BY DEF NodeInv, TypeOK, DiskOK, LogInv, IdsOK, LogOK
<1>2. /\ \A p \in DOMAIN wal : p \in Nat /\ wal[p].id \in Nat
      /\ Len(wal) + 1 \notin DOMAIN wal
  BY <1>1, WalLines
<1>3. increaseID <= last_committed_idx /\ increaseID < m
  <2>1. increaseID <= last_committed_idx
    BY LogTop
  <2>q. QED BY <1>1, <2>1
\* What is kept of the old lines.
<1>4. \A p \in Live : (p \in Live' => wal[p].id < m) /\ (wal[p].id < m => p \in Live' /\ wal'[p] = wal[p])
  <2>1. \A p \in DOMAIN wal : p \in DOMAIN wal' /\ wal'[p] = wal[p]
    <3>1. CASE wal' = wal
      BY <3>1
    <3>2. CASE IsApp(e) /\ wal' = Append(wal, [id |-> m, req |-> e.req])
      BY <1>1, <3>2, AppEntry, AppendedLine DEF WalEntry
    <3>q. QED BY <3>1, <3>2
  <2>q. QED BY <1>2, <2>1 DEF Live
<1>5. \A p \in Live' : p \in Live \/ (IsApp(e) /\ wal'[p] = [id |-> m, req |-> e.req])
  <2>1. CASE wal' = wal
    BY <2>1 DEF Live
  <2>2. CASE IsApp(e) /\ wal' = Append(wal, [id |-> m, req |-> e.req])
    <3>1. [id |-> m, req |-> e.req] \in WalEntry
      BY <2>2, AppEntry DEF WalEntry
    <3>q. QED BY <1>1, <2>2, <3>1, AppendedLine DEF Live
  <2>q. QED BY <2>1, <2>2
<1>6. IsApp(e) /\ e.req.doc \notin offWal' =>
         \E p \in Live' : wal'[p].id = m /\ wal'[p].req = e.req
  <2> SUFFICES ASSUME IsApp(e), e.req.doc \notin offWal'
               PROVE  \E p \in Live' : wal'[p].id = m /\ wal'[p].req = e.req
    OBVIOUS
  <2>1. wal' = Append(wal, [id |-> m, req |-> e.req])
    OBVIOUS
  <2>2. [id |-> m, req |-> e.req] \in WalEntry
    BY AppEntry DEF WalEntry
  <2>3. Len(wal) + 1 \in DOMAIN wal' /\ wal'[Len(wal) + 1] = [id |-> m, req |-> e.req]
    BY <1>1, <2>1, <2>2, AppendedLine
  <2>4. Len(wal) + 1 \notin stale'
    BY <1>1, <1>2
  <2>5. Len(wal) + 1 \in Live'
    BY <2>3, <2>4 DEF Live
  <2>q. QED BY <2>3, <2>5
<1>7. LinesLogged'
  <2> SUFFICES ASSUME NEW p \in Live', wal'[p].id > increaseID
               PROVE  wal'[p].id \in DOMAIN logs' /\ logs'[wal'[p].id] = App(wal'[p].req)
    BY DEF LinesLogged
  <2>1. CASE p \in Live
    <3>1. wal[p].id < m /\ wal'[p] = wal[p]
      BY <1>4, <2>1
    <3>2. wal[p].id \in DOMAIN logs /\ logs[wal[p].id] = App(wal[p].req)
      BY <2>1, <3>1 DEF Mirror, LinesLogged
    <3>q. QED BY <3>1, <3>2
  <2>2. CASE IsApp(e) /\ wal'[p] = [id |-> m, req |-> e.req]
    BY <2>2, AppEntry
  <2>q. QED BY <1>5, <2>1, <2>2
<1>8. EntriesLined'
  <2> SUFFICES ASSUME NEW i \in DOMAIN logs', IsApp(logs'[i]), logs'[i].req.doc \notin offWal'
               PROVE  \E p \in Live' : wal'[p].id = i /\ wal'[p].req = logs'[i].req
    BY DEF EntriesLined
  <2>1. CASE i = m
    BY <1>6, <2>1
  <2>2. CASE i # m
    <3>1. i \in DOMAIN logs /\ i < m /\ logs'[i] = logs[i]
      BY <2>2
    <3>2. PICK p \in Live : wal[p].id = i /\ wal[p].req = logs[i].req
      BY <3>1 DEF Mirror, EntriesLined
    <3>3. p \in Live' /\ wal'[p] = wal[p]
      BY <1>4, <3>1, <3>2
    <3>q. QED BY <3>1, <3>2, <3>3
  <2>q. QED BY <2>1, <2>2
<1>9. CommitHeld' /\ SnapHeld'
  <2>1. last_committed_idx \in DOMAIN logs =>
          last_committed_idx \in DOMAIN logs' /\ logs'[last_committed_idx] = logs[last_committed_idx]
    BY <1>1
  <2>q. QED BY <2>1 DEF Mirror, CommitHeld, SnapHeld
<1>q. QED BY <1>7, <1>8, <1>9 DEF Mirror

LEMMA InitMirror == Init => MirrorInv
BY DEF Init, MirrorInv

LEMMA ReloadDoneMirror == NodeInv /\ ReloadDone => Mirror'
<1> SUFFICES ASSUME NodeInv, ReloadDone PROVE Mirror'
  OBVIOUS
<1> USE DEF ReloadDone, disk, ids, indexes, upserting, snapping, ghosts
<1>1. /\ pc = "idle" /\ snap = "idle" /\ wal \in Seq(WalEntry)
      /\ ReadBound /\ pos \in Nat /\ increaseID \in Nat
  BY DEF NodeInv, TypeOK, DiskOK, IdsOK, LogInv
<1>2. \A p \in Live' : wal'[p].id <= increaseID' /\ wal'[p].id \in Nat
  BY <1>1, WalLines DEF ReadBound, Live
<1>3. LinesLogged'
  BY <1>1, <1>2 DEF LinesLogged
<1>4. EntriesLined'
  BY OtherEntries DEF EntriesLined, EmptyLogs
<1>5. CommitHeld' /\ SnapHeld'
  BY <1>1 DEF CommitHeld, SnapHeld
<1>q. QED BY <1>3, <1>4, <1>5 DEF Mirror

\* What every write to the log needs to know of its end.
LEMMA WriteBelow ==
    ASSUME NodeInv, Mirror, mode = "up", NEW n \in Nat,
           DOMAIN logs = {0} \cup (increaseID + 1 .. n), last_committed_idx <= n
    PROVE  /\ n + 1 > last_committed_idx
           /\ DOMAIN logs \cup {n + 1} = {i \in DOMAIN logs : i < n + 1} \cup {n + 1}
<1>1. last_committed_idx \in Nat /\ increaseID \in Nat
  BY DEF NodeInv, TypeOK, LogOK, IdsOK
<1>2. \A i \in DOMAIN logs : i < n + 1
  BY <1>1
<1>q. QED BY <1>1, <1>2

LEMMA AppendAppMirror ==
    ASSUME NodeInv, Mirror, NEW r \in Requests, AppendApp(r)
    PROVE  Mirror'
<1> USE DEF AppendApp, WriteWALRawLog, files, ids, indexes, upserting, snapping, ghosts
<1>1. mode = "up" /\ r \in Request
  BY NodeAssumption
<1>2. PICK n \in Nat :
          /\ NextSlot(start_idx, logs) = n + 1
          /\ DOMAIN logs = {0} \cup (increaseID + 1 .. n)
          /\ \A p \in Live : wal[p].id <= n
          /\ last_committed_idx <= n
  BY <1>1, LogTop
<1>3. App(r) \in LogEntry /\ IsApp(App(r)) /\ App(r).req = r
  BY <1>1, OtherEntries DEF LogEntry
<1>4. logs' = Put(logs, n + 1, App(r)) /\ wal' = Append(wal, [id |-> n + 1, req |-> r])
  BY <1>2 DEF Appended
<1>5. /\ n + 1 \in Nat /\ n + 1 > last_committed_idx
      /\ DOMAIN logs' = {i \in DOMAIN logs : i < n + 1} \cup {n + 1}
      /\ logs'[n + 1] = App(r)
      /\ \A i \in DOMAIN logs : i < n + 1 => logs'[i] = logs[i]
  <2>1. n + 1 \in Nat
    OBVIOUS
  <2>2. /\ n + 1 > last_committed_idx
        /\ DOMAIN logs \cup {n + 1} = {i \in DOMAIN logs : i < n + 1} \cup {n + 1}
    BY <1>1, <1>2, WriteBelow
  <2>3. \A i \in DOMAIN logs : i < n + 1 => i # n + 1
    BY DEF NodeInv, TypeOK, LogOK
  <2>q. QED BY <1>4, <2>1, <2>2, <2>3 DEF Put
<1>6. \A p \in Live : wal[p].id < n + 1
  BY <1>2, WalLines DEF Live, NodeInv, TypeOK, DiskOK
<1>7. PICK m : m = n + 1
  OBVIOUS
<1>8. PICK cut : cut = {}
  OBVIOUS
<1>9. PICK e : e = App(r)
  OBVIOUS
<1>10. /\ m \in Nat /\ e \in LogEntry /\ m > last_committed_idx
       /\ DOMAIN logs' = {i \in DOMAIN logs : i < m} \cup {m} /\ logs'[m] = e
       /\ \A i \in DOMAIN logs : i < m => logs'[i] = logs[i]
       /\ stale' = stale \cup cut /\ cut = {} /\ (\A p \in Live : wal[p].id < m)
       /\ IsApp(e) /\ wal' = Append(wal, [id |-> m, req |-> e.req])
  BY <1>3, <1>4, <1>5, <1>6, <1>7, <1>8, <1>9
<1>11. offWal \subseteq offWal' /\
       UNCHANGED <<mode, increaseID, last_committed_idx, lastSnapshotID, pc, cur, snap>>
  OBVIOUS
<1>q. QED BY ONLY NodeInv, Mirror, <1>1, <1>10, <1>11, LogWriteMirror

LEMMA WriteAtMirror ==
    ASSUME NodeInv, Mirror, NEW r \in Requests, NEW idx \in DOMAIN logs, WriteAt(idx, r)
    PROVE  Mirror'
<1> USE DEF WriteAt, WriteWALRawLog, files, ids, indexes, upserting, snapping
<1>1. mode = "up" /\ r \in Request /\ idx \in Nat /\ DOMAIN logs \subseteq Nat
  BY NodeAssumption DEF NodeInv, TypeOK, LogOK
<1>2. PICK e : e = App(r)
  OBVIOUS
<1>3. e \in LogEntry /\ IsApp(e) /\ e.req = r
  BY <1>1, <1>2, OtherEntries DEF LogEntry
<1>4. /\ DOMAIN logs' = {i \in DOMAIN logs : i < idx} \cup {idx} /\ logs'[idx] = e
      /\ \A i \in DOMAIN logs : i < idx => logs'[i] = logs[i]
  <2>1. logs' = WrittenAt(logs, idx, e)
    BY <1>2
  <2>q. QED BY ONLY <1>1, <2>1 DEF WrittenAt, Below, Put
<1>5. PICK cut : cut = {p \in DOMAIN wal : wal[p].id >= idx}
  OBVIOUS
<1>6. /\ idx > last_committed_idx /\ stale' = stale \cup cut
      /\ wal' = Append(wal, [id |-> idx, req |-> e.req])
      /\ offWal \subseteq offWal'
      /\ UNCHANGED <<mode, increaseID, last_committed_idx, lastSnapshotID, pc, cur, snap>>
  BY <1>3, <1>5
<1>q. QED BY ONLY NodeInv, Mirror, <1>1, <1>3, <1>4, <1>5, <1>6, LogWriteMirror

LEMMA WriteAtConfMirror ==
    ASSUME NodeInv, Mirror, NEW idx \in DOMAIN logs, WriteAtConf(idx)
    PROVE  Mirror'
<1> USE DEF WriteAtConf, disk, ids, indexes, upserting, snapping
<1>1. mode = "up" /\ idx \in Nat /\ DOMAIN logs \subseteq Nat
  BY DEF NodeInv, TypeOK, LogOK
<1>2. PICK e : e = Conf
  OBVIOUS
<1>3. e \in LogEntry /\ ~IsApp(e)
  BY <1>2, OtherEntries DEF LogEntry
<1>4. /\ DOMAIN logs' = {i \in DOMAIN logs : i < idx} \cup {idx} /\ logs'[idx] = e
      /\ \A i \in DOMAIN logs : i < idx => logs'[i] = logs[i]
  <2>1. logs' = WrittenAt(logs, idx, e)
    BY <1>2
  <2>q. QED BY ONLY <1>1, <2>1 DEF WrittenAt, Below, Put
<1>5. PICK cut : cut = {p \in DOMAIN wal : wal[p].id >= idx}
  OBVIOUS
<1>6. /\ idx > last_committed_idx /\ stale' = stale \cup cut
      /\ wal' = wal /\ offWal \subseteq offWal'
      /\ UNCHANGED <<mode, increaseID, last_committed_idx, lastSnapshotID, pc, cur, snap>>
  BY <1>5
<1>q. QED BY ONLY NodeInv, Mirror, <1>1, <1>3, <1>4, <1>5, <1>6, LogWriteMirror

\* An entry put behind the last one without a line.
LEMMA UnloggedMirror ==
    ASSUME NodeInv, Mirror, mode = "up", NEW e \in LogEntry,
           logs' = Put(logs, NextSlot(start_idx, logs), e),
           IsApp(e) => e.req.doc \in offWal',
           offWal \subseteq offWal',
           UNCHANGED <<wal, stale>>,
           UNCHANGED <<mode, increaseID, last_committed_idx, lastSnapshotID, pc, cur, snap>>
    PROVE  Mirror'
<1>2. PICK n \in Nat :
          /\ NextSlot(start_idx, logs) = n + 1
          /\ DOMAIN logs = {0} \cup (increaseID + 1 .. n)
          /\ \A p \in Live : wal[p].id <= n
          /\ last_committed_idx <= n
  BY LogTop
<1>4. logs' = Put(logs, n + 1, e)
  BY <1>2
<1>5. /\ n + 1 \in Nat /\ n + 1 > last_committed_idx
      /\ DOMAIN logs' = {i \in DOMAIN logs : i < n + 1} \cup {n + 1}
      /\ logs'[n + 1] = e
      /\ \A i \in DOMAIN logs : i < n + 1 => logs'[i] = logs[i]
  <2>1. n + 1 \in Nat
    OBVIOUS
  <2>2. /\ n + 1 > last_committed_idx
        /\ DOMAIN logs \cup {n + 1} = {i \in DOMAIN logs : i < n + 1} \cup {n + 1}
    BY <1>2, WriteBelow
  <2>3. \A i \in DOMAIN logs : i < n + 1 => i # n + 1
    BY DEF NodeInv, TypeOK, LogOK
  <2>q. QED BY <1>4, <2>1, <2>2, <2>3 DEF Put
<1>6. \A p \in Live : wal[p].id < n + 1
  BY <1>2, WalLines DEF Live, NodeInv, TypeOK, DiskOK
<1>7. PICK m : m = n + 1
  OBVIOUS
<1>8. PICK cut : cut = {}
  OBVIOUS
<1>9. /\ m \in Nat /\ m > last_committed_idx
      /\ DOMAIN logs' = {i \in DOMAIN logs : i < m} \cup {m} /\ logs'[m] = e
      /\ \A i \in DOMAIN logs : i < m => logs'[i] = logs[i]
      /\ stale' = stale \cup cut /\ cut = {} /\ (\A p \in Live : wal[p].id < m)
      /\ wal' = wal
  BY <1>5, <1>6, <1>7, <1>8
<1>q. QED BY <1>9, LogWriteMirror

LEMMA AppendConfMirror == NodeInv /\ Mirror /\ AppendConf => Mirror'
<1> SUFFICES ASSUME NodeInv, Mirror, AppendConf PROVE Mirror'
  OBVIOUS
<1>1. PICK e : e = Conf
  OBVIOUS
<1>2. e \in LogEntry /\ ~IsApp(e) /\ logs' = Put(logs, NextSlot(start_idx, logs), e)
  BY <1>1, OtherEntries DEF LogEntry, AppendConf, Appended
<1>3. /\ mode = "up" /\ offWal \subseteq offWal' /\ UNCHANGED <<wal, stale>>
      /\ UNCHANGED <<mode, increaseID, last_committed_idx, lastSnapshotID, pc, cur, snap>>
  BY DEF AppendConf, disk, ids, upserting, snapping, ghosts
<1>q. QED BY <1>2, <1>3, UnloggedMirror

LEMMA ApplyPackMirror ==
    ASSUME NodeInv, Mirror, NEW r \in Requests, ApplyPack(r)
    PROVE  Mirror'
<1>1. PICK e : e = App(r)
  OBVIOUS
<1>2. e \in LogEntry /\ e.req = r /\ logs' = Put(logs, NextSlot(start_idx, logs), e)
  BY <1>1, OtherEntries, NodeAssumption DEF LogEntry, ApplyPack
<1>3. /\ mode = "up" /\ offWal \subseteq offWal' /\ r.doc \in offWal' /\ UNCHANGED <<wal, stale>>
      /\ UNCHANGED <<mode, increaseID, last_committed_idx, lastSnapshotID, pc, cur, snap>>
  BY DEF ApplyPack, disk, ids, upserting, snapping
<1>q. QED BY <1>2, <1>3, UnloggedMirror

\* Steps of the threads, the log and the WAL being left alone.
LEMMA MirrorFrame ==
    ASSUME Mirror, offWal \subseteq offWal',
           UNCHANGED <<wal, stale, logs, increaseID>>,
           CommitHeld', SnapHeld'
    PROVE  Mirror'
BY DEF Mirror, LinesLogged, EntriesLined, Live

LEMMA CommitMirror == NodeInv /\ Mirror /\ (CommitConfig \/ Commit) => Mirror'
<1> SUFFICES ASSUME NodeInv, Mirror, CommitConfig \/ Commit PROVE Mirror'
  OBVIOUS
<1>1. /\ mode = "up" /\ pc = "idle" /\ NextCommit \in DOMAIN logs
      /\ last_committed_idx' = NextCommit
  BY DEF CommitConfig, Commit, CanCommit
<1>2. /\ UNCHANGED <<wal, stale, logs, increaseID, offWal, snap, lastSnapshotID>>
  BY DEF CommitConfig, Commit, disk, ids, ghosts, snapping
<1>3. last_committed_idx \in Nat /\ increaseID <= last_committed_idx /\ increaseID \in Nat
  BY <1>1, LogTop DEF NodeInv, TypeOK, LogOK, IdsOK
<1>4. CommitHeld'
  <2>1. CASE CommitConfig
    BY <1>1, <1>2, <2>1 DEF CommitConfig, CommitHeld, upserting
  <2>2. CASE Commit
    <3>1. logs[NextCommit] \in LogEntry /\ IsApp(logs[NextCommit])
      BY <1>1, <2>2 DEF NodeInv, TypeOK, LogOK, Commit, EntryAt
    <3>2. logs[NextCommit] = App(cur')
      BY <1>1, <2>2, <3>1, AppEntry DEF Commit, EntryAt
    <3>q. QED BY <1>1, <1>2, <1>3, <3>2 DEF CommitHeld, NextCommit
  <2>q. QED BY <2>1, <2>2
<1>5. SnapHeld'
  BY <1>2 DEF Mirror, SnapHeld
<1>q. QED BY <1>2, <1>4, <1>5, MirrorFrame

LEMMA UpsertMirror ==
    NodeInv /\ Mirror /\ (UpsertInsert \/ UpsertFields \/ UpsertPut) => Mirror'
<1> SUFFICES ASSUME NodeInv, Mirror, UpsertInsert \/ UpsertFields \/ UpsertPut PROVE Mirror'
  OBVIOUS
<1>1. UNCHANGED <<wal, stale, logs, increaseID, offWal, snap, lastSnapshotID, last_committed_idx>>
  BY DEF UpsertInsert, UpsertFields, UpsertPut, disk, ids, ghosts, snapping, raftState
<1>2. CommitHeld'
  <2>1. pc # "idle" /\ (pc' # "idle" => cur' = cur)
    BY DEF UpsertInsert, UpsertFields, UpsertPut
  <2>q. QED BY <1>1, <2>1 DEF Mirror, CommitHeld
<1>3. SnapHeld'
  BY <1>1 DEF Mirror, SnapHeld
<1>q. QED BY <1>1, <1>2, <1>3, MirrorFrame

LEMMA HttpMirror ==
    NodeInv /\ Mirror /\ (SnapshotThread \/ \E r \in Inserts : Insert(r)) => Mirror'
<1> SUFFICES ASSUME NodeInv, Mirror, SnapshotThread \/ \E r \in Inserts : Insert(r) PROVE Mirror'
  OBVIOUS
<1> USE DEF SnapshotThread, TakeSnapshot, SaveFlat, OpenHnsw, SaveHnsw, SaveFilter, OpenMarker,
            SaveMarker, Insert
<1>1. /\ UNCHANGED <<wal, stale, logs, increaseID, last_committed_idx, pc, cur>>
      /\ offWal \subseteq offWal'
  BY DEF disk, ids, ghosts, raftState, upserting
<1>2. CommitHeld'
  BY <1>1 DEF Mirror, CommitHeld
<1>3. SnapHeld'
  <2>1. CASE TakeSnapshot
    BY <2>1 DEF SnapHeld
  <2>2. CASE ~TakeSnapshot
    <3>1. lastSnapshotID' = lastSnapshotID /\ (snap' # "idle" => snap # "idle")
      BY <2>2 DEF ids
    <3>q. QED BY <1>1, <3>1 DEF Mirror, SnapHeld
  <2>q. QED BY <2>1, <2>2
<1>q. QED BY <1>1, <1>2, <1>3, MirrorFrame

LEMMA NextMirror == NodeInv /\ MirrorInv /\ [Next]_vars => MirrorInv'
<1> SUFFICES ASSUME NodeInv, MirrorInv, [Next]_vars, mode' = "up" PROVE Mirror'
  BY DEF MirrorInv
<1>1. CASE Start \/ Reload \/ Crash
  <2>1. ReloadDone
    BY <1>1 DEF Start, Reload, Crash, ReloadSkip, ReloadUpsert, ReloadAbort, ReadLine, Die
  <2>q. QED BY <2>1, ReloadDoneMirror
<1>2. CASE Raft
  <2>1. mode = "up"
    BY <1>2 DEF Raft, AppendApp, AppendConf, ApplyPack, WriteAt, WriteAtConf
  <2>q. QED BY <1>2, <2>1, AppendAppMirror, AppendConfMirror, ApplyPackMirror, WriteAtMirror,
               WriteAtConfMirror DEF Raft, MirrorInv
<1>3. CASE CommitThread
  <2>1. ~CommitAbort
    BY DEF CommitAbort, Die
  <2>2. mode = "up"
    BY <1>3 DEF NodeInv, LogInv, CommitThread, CommitConfig, Commit, CanCommit, UpsertInsert,
                UpsertFields, UpsertPut, CommitAbort
  <2>q. QED BY <1>3, <2>1, <2>2, CommitMirror, UpsertMirror DEF CommitThread, MirrorInv
<1>4. CASE SnapshotThread \/ \E r \in Inserts : Insert(r)
  <2>1. mode = "up"
    BY <1>4 DEF NodeInv, LogInv, SnapshotThread, TakeSnapshot, SaveFlat, OpenHnsw, SaveHnsw,
                SaveFilter, OpenMarker, SaveMarker, Insert
  <2>q. QED BY <1>4, <2>1, HttpMirror DEF MirrorInv
<1>5. CASE UNCHANGED vars
  BY <1>5 DEF vars, MirrorInv, Mirror, LinesLogged, EntriesLined, CommitHeld, SnapHeld, Live
<1>q. QED BY <1>1, <1>2, <1>3, <1>4, <1>5 DEF Next

-----------------------------------------------------------------------------
(* The stored documents follow the log.                                    *)

\* What Raft does to the log leaves everything else alone, the WAL apart: it
\* may gain one line, whose id is above the commit index.
LEMMA RaftFrame ==
    ASSUME NodeInv, Mirror, Raft
    PROVE  /\ mode = "up"
           /\ UNCHANGED <<scalar, files, mode, ids, last_committed_idx, indexes, upserting, snapping>>
           /\ offWal \subseteq offWal' /\ stale \subseteq stale'
           /\ wal' = wal \/ \E e \in WalEntry :
                 wal' = Append(wal, e) /\ e.id > last_committed_idx
<1> USE DEF files, ids, indexes, upserting, snapping, disk, ghosts
<1>1. CASE \E r \in Requests : AppendApp(r)
  <2>1. PICK r \in Requests : AppendApp(r)
    BY <1>1
  <2>2. mode = "up" /\ r \in Request
    BY <2>1, NodeAssumption DEF AppendApp
  <2>3. PICK n \in Nat : NextSlot(start_idx, logs) = n + 1 /\ last_committed_idx <= n
    BY <2>2, LogTop
  <2>4. last_committed_idx \in Nat
    BY DEF NodeInv, TypeOK, LogOK
  <2>5. PICK e : e = [id |-> n + 1, req |-> r]
    OBVIOUS
  <2>6. e \in WalEntry /\ wal' = Append(wal, e) /\ e.id > last_committed_idx
    BY <2>1, <2>2, <2>3, <2>4, <2>5 DEF AppendApp, WriteWALRawLog, WalEntry
  <2>q. QED BY <2>1, <2>2, <2>6 DEF AppendApp, WriteWALRawLog
<1>2. CASE \E idx \in DOMAIN logs : \E r \in Requests : WriteAt(idx, r)
  <2>1. PICK idx \in DOMAIN logs, r \in Requests : WriteAt(idx, r)
    BY <1>2
  <2>2. r \in Request /\ idx \in Nat
    BY NodeAssumption DEF NodeInv, TypeOK, LogOK
  <2>5. PICK e : e = [id |-> idx, req |-> r]
    OBVIOUS
  <2>6. e \in WalEntry /\ wal' = Append(wal, e) /\ e.id > last_committed_idx
    BY <2>1, <2>2, <2>5 DEF WriteAt, WriteWALRawLog, WalEntry
  <2>q. QED BY <2>1, <2>6 DEF WriteAt, WriteWALRawLog
<1>3. CASE AppendConf
  BY <1>3 DEF AppendConf
<1>4. CASE \E idx \in DOMAIN logs : WriteAtConf(idx)
  BY <1>4 DEF WriteAtConf
<1>5. CASE \E r \in Requests : ApplyPack(r)
  BY <1>5 DEF ApplyPack
<1>q. QED BY <1>1, <1>2, <1>3, <1>4, <1>5 DEF Raft

\* A line with an id above m does not count among those up to m, and its
\* document only gains a line.
LEMMA AppendedSets ==
    ASSUME NEW w \in Seq(WalEntry), NEW e \in WalEntry, NEW m \in Nat, e.id > m
    PROVE  /\ UpTo(Append(w, e), m) = UpTo(w, m)
           /\ \A d : /\ LinesOf(w, d) \subseteq LinesOf(Append(w, e), d)
                     /\ LinesOf(Append(w, e), d) \cap UpTo(w, m) = LinesOf(w, d) \cap UpTo(w, m)
           /\ \A p \in DOMAIN w : Append(w, e)[p] = w[p]
<1>1. PICK k : k = Len(w) + 1
  OBVIOUS
<1>2. PICK v : v = Append(w, e)
  OBVIOUS
<1>3. /\ DOMAIN v = DOMAIN w \cup {k} /\ v[k] = e /\ k \notin DOMAIN w
      /\ \A p \in DOMAIN w : v[p] = w[p]
  BY <1>1, <1>2, AppendedLine, WalLines
<1>4. \A p \in DOMAIN w : w[p].id \in Nat
  BY WalLines
<1>5. UpTo(v, m) = UpTo(w, m)
  <2>1. e.id \in Nat /\ ~(e.id <= m)
    BY DEF WalEntry
  <2>q. QED BY <1>3, <2>1 DEF UpTo
<1>6. \A d : /\ LinesOf(w, d) \subseteq LinesOf(v, d)
             /\ LinesOf(v, d) \cap UpTo(w, m) = LinesOf(w, d) \cap UpTo(w, m)
  BY <1>3 DEF LinesOf, UpTo
<1>q. QED BY <1>2, <1>3, <1>5, <1>6

\* x is the request of the last of the lines S of the WAL w.
LastIs(w, S, x) ==
    IF S = {} THEN x = NoData
    ELSE \E p \in S : (\A q \in S : q <= p) /\ x = w[p].req

\* The lines whose effect a node that does not serve has in its memory and in
\* RocksDB: those up to the marker and those it has read.
Loaded ==
    UpTo(wal, fMarker) \cup {p \in DOMAIN wal : mode = "reload" /\ p < pos}

LatestUp(d) ==
    (mode = "up" /\ ~Busy(d)) =>
        LastIs(wal, LinesOf(wal, d) \cap UpTo(wal, last_committed_idx), scalar[d])
LatestDown(d) ==
    (mode # "up" /\ LinesOf(wal, d) \subseteq Loaded) =>
        LastIs(wal, LinesOf(wal, d), scalar[d])

\* A document is the last of its lines that was committed, or, while the node
\* does not serve, that was replayed, unless a line of it is still to come.
Latest == \A d \in OnWal \ Overwritten : LatestUp(d) /\ LatestDown(d)

\* The lines of a document that Raft never overwrote all count.
LEMMA LinesLive ==
    ASSUME NEW d, d \notin Overwritten
    PROVE  LinesOf(wal, d) \subseteq Live
BY DEF LinesOf, Live, Overwritten

LEMMA OverwrittenGrows ==
    ASSUME stale \subseteq DOMAIN wal, stale \subseteq stale',
           \A p \in DOMAIN wal : wal'[p] = wal[p]
    PROVE  Overwritten \subseteq Overwritten'
BY DEF Overwritten

LEMMA InitLatest == Init => Latest
<1> SUFFICES ASSUME Init, NEW d \in Docs PROVE LatestUp(d) /\ LatestDown(d)
  BY DEF Latest, OnWal
<1>1. LinesOf(wal, d) = {} /\ scalar[d] = NoData /\ mode = "down"
  BY DEF Init, LinesOf
<1>q. QED BY <1>1 DEF LatestUp, LatestDown, LastIs

LEMMA RaftLatest == NodeInv /\ Mirror /\ Latest /\ Raft => Latest'
<1> SUFFICES ASSUME NodeInv, Mirror, Latest, Raft PROVE Latest'
  OBVIOUS
<1>1. /\ mode = "up" /\ mode' = "up" /\ scalar' = scalar
      /\ last_committed_idx' = last_committed_idx /\ pc' = pc /\ cur' = cur
      /\ offWal \subseteq offWal' /\ stale \subseteq stale'
  BY RaftFrame DEF upserting
<1>2. wal \in Seq(WalEntry) /\ stale \subseteq DOMAIN wal /\ last_committed_idx \in Nat
  BY DEF NodeInv, TypeOK, DiskOK, LogInv, LogOK
<1>3. /\ UpTo(wal', last_committed_idx) = UpTo(wal, last_committed_idx)
      /\ \A d : LinesOf(wal', d) \cap UpTo(wal, last_committed_idx)
                   = LinesOf(wal, d) \cap UpTo(wal, last_committed_idx)
      /\ \A p \in DOMAIN wal : wal'[p] = wal[p]
  <2>1. CASE wal' = wal
    BY <2>1
  <2>2. CASE \E e \in WalEntry : wal' = Append(wal, e) /\ e.id > last_committed_idx
    BY <1>2, <2>2, AppendedSets
  <2>q. QED BY <2>1, <2>2, RaftFrame
<1>4. Overwritten \subseteq Overwritten'
  BY <1>1, <1>2, <1>3, OverwrittenGrows
<1> SUFFICES ASSUME NEW d \in OnWal' \ Overwritten' PROVE LatestUp(d)' /\ LatestDown(d)'
  BY DEF Latest
<1>5. d \in OnWal \ Overwritten
  BY <1>1, <1>4 DEF OnWal
<1>6. LatestUp(d)
  BY <1>5 DEF Latest
<1> DEFINE S == LinesOf(wal, d) \cap UpTo(wal, last_committed_idx)
<1>7. LastIs(wal, S, scalar[d]) => LastIs(wal', S, scalar[d])
  BY <1>3 DEF LastIs, LinesOf
<1>8. LinesOf(wal', d) \cap UpTo(wal', last_committed_idx) = S
  BY <1>3
<1>9. ~Busy(d)' => LastIs(wal', S, scalar[d])
  BY <1>1, <1>6, <1>7 DEF LatestUp, Busy
<1>q. QED BY <1>1, <1>8, <1>9 DEF LatestUp, LatestDown

\* A line of a document that Raft never overwrote and whose changes all go
\* through the WAL has an id up to the commit index, or it is not committed.
LEMMA CommitConfigLatest == NodeInv /\ Mirror /\ Latest /\ (CommitConfig \/ Commit) => Latest'
<1> SUFFICES ASSUME NodeInv, Mirror, Latest, CommitConfig \/ Commit PROVE Latest'
  OBVIOUS
<1>1. /\ mode = "up" /\ mode' = "up" /\ pc = "idle" /\ NextCommit \in DOMAIN logs
      /\ last_committed_idx' = NextCommit
      /\ UNCHANGED <<wal, scalar, stale, offWal>>
  BY DEF CommitConfig, Commit, CanCommit, disk, ghosts
<1>2. /\ last_committed_idx \in Nat /\ increaseID \in Nat /\ increaseID <= last_committed_idx
      /\ wal \in Seq(WalEntry)
  BY <1>1, LogTop DEF NodeInv, TypeOK, LogOK, IdsOK, DiskOK
<1> SUFFICES ASSUME NEW d \in OnWal \ Overwritten PROVE LatestUp(d)'
  BY <1>1 DEF Latest, LatestDown, OnWal, Overwritten
<1> SUFFICES ASSUME ~Busy(d)' PROVE LatestUp(d)'
  BY DEF LatestUp
<1>3. LatestUp(d) /\ ~Busy(d)
  BY <1>1 DEF Latest, Busy
<1>4. \A p \in LinesOf(wal, d) : wal[p].id # NextCommit
  <2> SUFFICES ASSUME NEW p \in LinesOf(wal, d), wal[p].id = NextCommit PROVE FALSE
    OBVIOUS
  <2>1. p \in Live /\ wal[p].req.doc = d
    BY LinesLive DEF LinesOf
  <2>2. logs[NextCommit] = App(wal[p].req)
    BY <1>2, <2>1 DEF Mirror, LinesLogged, NextCommit
  <2>3. EntryAt(logs, NextCommit) = App(wal[p].req)
    BY <1>1, <2>2 DEF EntryAt
  <2>4. IsApp(EntryAt(logs, NextCommit)) /\ EntryAt(logs, NextCommit).req = wal[p].req
    BY <2>3, OtherEntries
  <2>5. pc' # "idle" /\ cur'.doc = d
    BY <2>1, <2>4 DEF CommitConfig, Commit
  <2>q. QED BY <2>5 DEF Busy
<1>5. LinesOf(wal, d) \cap UpTo(wal, NextCommit) = LinesOf(wal, d) \cap UpTo(wal, last_committed_idx)
  <2>1. \A p \in DOMAIN wal : wal[p].id \in Nat
    BY <1>2, WalLines
  <2>2. \A p \in LinesOf(wal, d) : wal[p].id <= NextCommit <=> wal[p].id <= last_committed_idx
    BY <1>2, <1>4, <2>1 DEF NextCommit, LinesOf
  <2>q. QED BY <2>2 DEF LinesOf, UpTo
<1>q. QED BY <1>1, <1>3, <1>5 DEF LatestUp

\* The request being applied is the last committed line of its document.
LEMMA UpsertPutLatest == NodeInv /\ Mirror /\ Latest /\ UpsertPut => Latest'
<1> SUFFICES ASSUME NodeInv, Mirror, Latest, UpsertPut PROVE Latest'
  OBVIOUS
<1>1. /\ mode = "up" /\ pc = "put" /\ cur \in Request /\ wal \in Seq(WalEntry)
      /\ scalar \in [Docs -> Request \cup {NoData}] /\ WalIdsIncrease
      /\ last_committed_idx \in Nat /\ logs[last_committed_idx] = App(cur)
      /\ last_committed_idx \in DOMAIN logs
  BY DEF UpsertPut, NodeInv, TypeOK, ThreadsOK, DiskOK, LogOK, LogInv, Mirror, CommitHeld
<1>2. /\ UNCHANGED <<wal, mode, last_committed_idx, stale, offWal>>
      /\ scalar' = [scalar EXCEPT ![cur.doc] = cur] /\ pc' = "idle"
  BY DEF UpsertPut, raftState, ghosts
<1> SUFFICES ASSUME NEW d \in OnWal \ Overwritten PROVE LatestUp(d)'
  BY <1>1, <1>2 DEF Latest, LatestDown, OnWal, Overwritten
<1> DEFINE S == LinesOf(wal, d) \cap UpTo(wal, last_committed_idx)
<1> SUFFICES LastIs(wal, S, scalar'[d])
  BY <1>2 DEF LatestUp
<1>3. CASE d = cur.doc
  <2>1. PICK p \in Live : wal[p].id = last_committed_idx /\ wal[p].req = cur
    BY <1>1, <1>3, OtherEntries DEF Mirror, EntriesLined, OnWal
  <2>2. p \in S
    BY <1>1, <1>3, <2>1 DEF Live, LinesOf, UpTo
  <2>3. ASSUME NEW q \in S PROVE q <= p
    <3>1. q \in Live /\ wal[q].id <= last_committed_idx /\ p \in Nat /\ q \in Nat
          /\ wal[q].id \in Nat
      BY <1>1, <2>1, LinesLive, WalLines DEF Live, UpTo, LinesOf
    <3>2. ~(p < q)
      BY <1>1, <2>1, <3>1 DEF WalIdsIncrease
    <3>q. QED BY <3>1, <3>2
  <2>4. scalar'[d] = cur
    BY <1>1, <1>2, <1>3 DEF OnWal
  <2>q. QED BY <2>1, <2>2, <2>3, <2>4 DEF LastIs
<1>4. CASE d # cur.doc
  <2>1. scalar'[d] = scalar[d] /\ ~Busy(d)
    BY <1>1, <1>2, <1>4 DEF Busy, OnWal
  <2>q. QED BY <1>1, <2>1 DEF Latest, LatestUp
<1>q. QED BY <1>3, <1>4

\* A process that dies keeps what the lines up to the marker left in RocksDB.
LEMMA DieLatest == NodeInv /\ MirrorInv /\ Latest /\ Die => Latest'
<1> SUFFICES ASSUME NodeInv, MirrorInv, Latest, Die PROVE Latest'
  OBVIOUS
<1>1. mode' = "down" /\ UNCHANGED <<wal, scalar, fMarker, stale, offWal>>
  BY DEF Die, disk, ghosts
<1>2. wal \in Seq(WalEntry) /\ fMarker \in Nat /\ increaseID \in Nat /\ last_committed_idx \in Nat
  BY DEF NodeInv, TypeOK, DiskOK, IdsOK, LogOK
<1> SUFFICES ASSUME NEW d \in OnWal \ Overwritten, LinesOf(wal, d) \subseteq UpTo(wal, fMarker)
             PROVE  LastIs(wal, LinesOf(wal, d), scalar[d])
  <2>1. Loaded' = UpTo(wal, fMarker)
    BY <1>1 DEF Loaded
  <2>q. QED BY <1>1, <2>1 DEF Latest, LatestUp, LatestDown, OnWal, Overwritten
<1>3. CASE mode # "up"
  BY <1>3 DEF Latest, LatestDown, Loaded
<1>4. CASE mode = "up"
  <2>1. Mirror /\ fMarker <= increaseID /\ increaseID <= last_committed_idx
    BY <1>4, LogTop DEF MirrorInv, NodeInv, LogInv, UpBound
  <2>2. \A p \in LinesOf(wal, d) : wal[p].id \in Nat /\ wal[p].id <= fMarker
    BY <1>2, WalLines DEF LinesOf, UpTo
  <2>3. ~Busy(d)
    <3> SUFFICES ASSUME Busy(d) PROVE FALSE
      OBVIOUS
    <3>1. /\ last_committed_idx > increaseID /\ last_committed_idx \in DOMAIN logs
          /\ logs[last_committed_idx] = App(cur) /\ cur.doc = d
      BY <2>1 DEF Busy, Mirror, CommitHeld
    <3>2. PICK p \in Live : wal[p].id = last_committed_idx /\ wal[p].req = cur
      BY <2>1, <3>1, OtherEntries DEF Mirror, EntriesLined, OnWal
    <3>3. p \in LinesOf(wal, d)
      BY <3>1, <3>2 DEF Live, LinesOf
    <3>q. QED BY <1>2, <2>1, <2>2, <3>1, <3>2, <3>3
  <2>4. LinesOf(wal, d) \cap UpTo(wal, last_committed_idx) = LinesOf(wal, d)
    BY <1>2, <2>1, <2>2 DEF LinesOf, UpTo
  <2>q. QED BY <1>4, <2>3, <2>4 DEF Latest, LatestUp
<1>q. QED BY <1>3, <1>4

\* Reading the WAL: which lines the memory has the effect of.
LEMMA LoadedReload ==
    NodeInv => /\ Start \/ ReloadSkip => Loaded' = Loaded
               /\ ReloadUpsert => Loaded' = Loaded \cup {pos} /\ pos \in DOMAIN wal
               /\ ReloadDone => Loaded = DOMAIN wal
<1> SUFFICES ASSUME NodeInv
             PROVE  /\ Start \/ ReloadSkip => Loaded' = Loaded
                    /\ ReloadUpsert => Loaded' = Loaded \cup {pos} /\ pos \in DOMAIN wal
                    /\ ReloadDone => Loaded = DOMAIN wal
  OBVIOUS
<1>1. wal \in Seq(WalEntry) /\ increaseID \in Nat /\ pos \in Nat \ {0}
  BY DEF NodeInv, TypeOK, DiskOK, IdsOK
<1>2. \A p \in DOMAIN wal : p \in Nat \ {0} /\ (p < pos + 1 <=> p < pos \/ p = pos)
  BY <1>1, WalLines
<1>3. CASE Start
  <2>1. UNCHANGED <<wal, fMarker>> /\ mode # "reload" /\ mode' = "reload" /\ pos' = 1
    BY <1>3 DEF Start, disk
  <2>2. \A p \in DOMAIN wal : ~(p < 1)
    BY <1>2
  <2>q. QED BY <2>1, <2>2, <1>3 DEF Loaded, ReloadUpsert, ReadLine, ReloadDone, Start
<1>4. CASE ReloadSkip \/ ReloadUpsert
  <2>1. /\ UNCHANGED <<wal, fMarker, mode>> /\ mode = "reload" /\ pos' = pos + 1
        /\ pos <= Len(wal)
    BY <1>4 DEF ReloadSkip, ReloadUpsert, ReadLine, disk, files
  <2>2. pos \in DOMAIN wal
    BY <1>1, <2>1, WalLines
  <2>3. Loaded' = Loaded \cup {pos}
    BY <1>2, <2>1, <2>2 DEF Loaded
  <2>4. ReloadSkip => pos \in Loaded
    BY <2>2 DEF ReloadSkip, SkipsLine, NodeInv, LogInv, ReadLine, ReadBound, Loaded, UpTo
  <2>q. QED BY <2>1, <2>2, <2>3, <2>4 DEF Start, ReloadDone
<1>5. CASE ReloadDone
  <2>1. mode = "reload" /\ pos > Len(wal)
    BY <1>5 DEF ReloadDone
  <2>2. \A p \in DOMAIN wal : p < pos
    BY <1>1, <2>1, WalLines
  <2>3. ~Start /\ ~ReloadSkip /\ ~ReloadUpsert
    BY <1>1, <2>1, WalLines DEF Start, ReloadSkip, ReloadUpsert, ReadLine
  <2>q. QED BY <2>1, <2>2, <2>3 DEF Loaded, UpTo
<1>q. QED BY <1>3, <1>4, <1>5

LEMMA ReloadLatest == NodeInv /\ Latest /\ (Start \/ ReloadSkip \/ ReloadDone) => Latest'
<1> SUFFICES ASSUME NodeInv, Latest, Start \/ ReloadSkip \/ ReloadDone PROVE Latest'
  OBVIOUS
<1>1. UNCHANGED <<wal, scalar, stale, offWal>> /\ mode # "up"
  BY DEF Start, ReloadSkip, ReloadDone, ReadLine, disk, ghosts
<1>2. wal \in Seq(WalEntry) /\ increaseID \in Nat /\ pos \in Nat
  BY DEF NodeInv, TypeOK, DiskOK, IdsOK
<1>3. CASE Start \/ ReloadSkip
  <2>1. Loaded' = Loaded
    BY <1>3, LoadedReload
  <2>2. mode' # "up"
    BY <1>1, <1>3 DEF Start, ReloadSkip
  <2>q. QED BY <1>1, <2>1, <2>2 DEF Latest, LatestUp, LatestDown, OnWal, Overwritten
<1>4. CASE ReloadDone
  <2>1. /\ mode = "reload" /\ mode' = "up" /\ last_committed_idx' = increaseID /\ ReadBound
        /\ pos > Len(wal)
    BY <1>4 DEF ReloadDone, NodeInv, LogInv
  <2>2. \A p \in DOMAIN wal : wal[p].id <= increaseID
    BY <1>2, <2>1, WalLines DEF ReadBound
  <2>3. ASSUME NEW d \in OnWal \ Overwritten PROVE LatestUp(d)' /\ LatestDown(d)'
    <3>1. LinesOf(wal, d) \subseteq Loaded
      BY <1>4, LoadedReload DEF LinesOf
    <3>2. LinesOf(wal, d) \cap UpTo(wal, increaseID) = LinesOf(wal, d)
      BY <2>2 DEF LinesOf, UpTo
    <3>q. QED BY <1>1, <2>1, <3>1, <3>2 DEF Latest, LatestUp, LatestDown
  <2>q. QED BY <1>1, <2>3 DEF Latest, OnWal, Overwritten
<1>q. QED BY <1>3, <1>4

\* Replay: a line that is replayed last of its document is its last line.
LEMMA ReloadUpsertLatest == NodeInv /\ Latest /\ ReloadUpsert => Latest'
<1> SUFFICES ASSUME NodeInv, Latest, ReloadUpsert PROVE Latest'
  OBVIOUS
<1> DEFINE r == wal[pos].req
<1>1. /\ UNCHANGED <<wal, fMarker, mode, stale, offWal>> /\ mode = "reload"
      /\ pos' = pos + 1 /\ pos \in Nat \ {0} /\ pos <= Len(wal)
      /\ scalar' = [scalar EXCEPT ![r.doc] = r]
      /\ ~(wal[pos].id <= fMarker)
  BY DEF ReloadUpsert, ReadLine, SkipsLine, NodeInv, TypeOK, IdsOK, LogInv, ReadBound, files, ghosts
<1>2. /\ wal \in Seq(WalEntry) /\ scalar \in [Docs -> Request \cup {NoData}]
      /\ fMarker \in Nat /\ WalIdsIncrease
  BY DEF NodeInv, TypeOK, DiskOK, LogInv
<1>3. /\ pos \in DOMAIN wal /\ r \in Request
      /\ \A p \in DOMAIN wal : p \in Nat /\ wal[p].id \in Nat
  BY <1>1, <1>2, WalLines
<1>4. Loaded' = Loaded \cup {pos}
  BY LoadedReload
<1> SUFFICES ASSUME NEW d \in OnWal \ Overwritten, LinesOf(wal, d) \subseteq Loaded \cup {pos}
             PROVE  LastIs(wal, LinesOf(wal, d), scalar'[d])
  BY <1>1, <1>4 DEF Latest, LatestUp, LatestDown, OnWal, Overwritten
<1>5. CASE d = r.doc
  <2>1. pos \in LinesOf(wal, d) /\ scalar'[d] = r
    BY <1>1, <1>2, <1>3, <1>5 DEF LinesOf, OnWal
  <2>2. ASSUME NEW q \in LinesOf(wal, d) PROVE q <= pos
    <3>1. q \in DOMAIN wal /\ q \in Live /\ pos \in Live /\ q \in Nat
      BY <1>3, <2>1, LinesLive DEF LinesOf
    <3>2. wal[q].id <= fMarker \/ q <= pos
      BY <1>1, <3>1 DEF Loaded, UpTo
    <3>3. CASE wal[q].id <= fMarker
      BY <1>1, <1>2, <1>3, <3>1, <3>3 DEF WalIdsIncrease
    <3>q. QED BY <3>2, <3>3
  <2>q. QED BY <2>1, <2>2 DEF LastIs
<1>6. CASE d # r.doc
  <2>1. scalar'[d] = scalar[d] /\ LinesOf(wal, d) \subseteq Loaded
    BY <1>1, <1>2, <1>6 DEF LinesOf, OnWal
  <2>q. QED BY <1>1, <2>1 DEF Latest, LatestDown
<1>q. QED BY <1>5, <1>6

\* The other steps leave the documents and the lines alone.
LEMMA LatestFrame ==
    ASSUME Latest, mode = "up", offWal \subseteq offWal',
           UNCHANGED <<wal, scalar, stale, mode, last_committed_idx>>,
           \A d : Busy(d) => Busy(d)'
    PROVE  Latest'
<1> SUFFICES ASSUME NEW d \in OnWal \ Overwritten PROVE LatestUp(d)' /\ LatestDown(d)'
  BY DEF Latest, OnWal, Overwritten
<1>q. QED BY DEF Latest, LatestUp, LatestDown

LEMMA NextLatest == NodeInv /\ MirrorInv /\ Latest /\ [Next]_vars => Latest'
<1> SUFFICES ASSUME NodeInv, MirrorInv, Latest, [Next]_vars PROVE Latest'
  OBVIOUS
<1>1. CASE Start \/ Reload
  BY <1>1, ReloadLatest, ReloadUpsertLatest, DieLatest DEF Reload, ReloadAbort
<1>2. CASE Crash \/ CommitAbort
  BY <1>2, DieLatest DEF Crash, CommitAbort
<1>3. CASE Raft \/ CommitConfig \/ Commit \/ UpsertPut
  <2>1. mode = "up"
    BY <1>3 DEF NodeInv, LogInv, Raft, AppendApp, AppendConf, ApplyPack, WriteAt, WriteAtConf,
                CommitConfig, Commit, CanCommit, UpsertPut
  <2>q. QED BY <1>3, <2>1, RaftLatest, CommitConfigLatest, UpsertPutLatest DEF MirrorInv
<1>4. CASE UpsertInsert \/ UpsertFields \/ SnapshotThread \/ \E r \in Inserts : Insert(r)
  <2> USE <1>4 DEF UpsertInsert, UpsertFields, SnapshotThread, TakeSnapshot, SaveFlat, OpenHnsw,
                   SaveHnsw, SaveFilter, OpenMarker, SaveMarker, Insert
  <2>1. mode = "up"
    BY DEF NodeInv, LogInv
  <2>2. UNCHANGED <<wal, scalar, stale, mode, last_committed_idx>> /\ offWal \subseteq offWal'
    BY DEF disk, raftState, ghosts
  <2>3. \A d : Busy(d) => Busy(d)'
    BY DEF Busy, upserting
  <2>q. QED BY <2>1, <2>2, <2>3, LatestFrame
<1>5. CASE UNCHANGED vars
  BY <1>5 DEF vars, Latest, LatestUp, LatestDown, Busy, OnWal, Overwritten, Loaded
<1>q. QED BY <1>1, <1>2, <1>3, <1>4, <1>5 DEF Next, CommitThread

LatestInv == NodeInv /\ MirrorInv /\ Latest

LEMMA LatestInvariant == Spec => []LatestInv
<1>1. Init => LatestInv
  BY InitNode, InitMirror, InitLatest DEF LatestInv
<1>2. LatestInv /\ [Next]_vars => LatestInv'
  BY NextNode, NextMirror, NextLatest DEF LatestInv
<1>q. QED BY <1>1, <1>2, PTL DEF Spec

\* The stored document is the one of the last committed entry for it, over any
\* number of restarts, replays and snapshots: nothing the marker lets
\* reloadDatabase skip is missing, and nothing it replays is older than what
\* RocksDB holds.
THEOREM StoredIsLatest == Spec => []ScalarLatest
<1>1. LatestInv => ScalarLatest
  <2> SUFFICES ASSUME LatestInv, NEW d \in Docs \ (offWal \cup Overwritten), Settled(d)
               PROVE  IF LastCommitted(d) = {} THEN scalar[d] = NoData
                      ELSE \A p \in LastCommitted(d) : scalar[d] = wal[p].req
    BY DEF ScalarLatest
  <2> DEFINE S == LinesOf(wal, d) \cap UpTo(wal, last_committed_idx)
  <2>1. d \in OnWal \ Overwritten /\ mode = "up" /\ ~Busy(d)
    BY DEF OnWal, Settled, Busy
  <2>2. LastIs(wal, S, scalar[d])
    BY <2>1 DEF LatestInv, Latest, LatestUp
  <2>3. wal \in Seq(WalEntry) /\ last_committed_idx \in Nat
    BY DEF LatestInv, NodeInv, TypeOK, DiskOK, LogOK
  <2>4. \A q \in DOMAIN wal : q \in Nat /\ wal[q].id \in Nat
    BY <2>3, WalLines
  <2>5. LinesOf(wal, d) \subseteq Live
    BY <2>1, LinesLive
  <2>6. \A p : p \in LastCommitted(d) <=> p \in S /\ \A q \in S : q <= p
    BY <2>3, <2>4, <2>5 DEF LastCommitted, LinesOf, UpTo, Live
  <2>7. CASE S = {}
    BY <2>2, <2>6, <2>7 DEF LastIs
  <2>8. CASE S # {}
    <3>1. PICK p \in S : (\A q \in S : q <= p) /\ scalar[d] = wal[p].req
      BY <2>2, <2>8 DEF LastIs
    <3>2. \A q \in LastCommitted(d) : q = p
      BY <2>4, <2>6, <3>1 DEF LinesOf
    <3>q. QED BY <2>6, <3>1, <3>2
  <2>q. QED BY <2>7, <2>8
<1>q. QED BY <1>1, LatestInvariant, PTL

-----------------------------------------------------------------------------
(* The indexes, their files and the stored documents.                      *)

InFlat(fl, d, r) == r.type = "FLAT" => \A v \in Vecs : fl[<<d, v>>] > 0 <=> v = r.vec
InHnsw(hn, d, r) == r.type = "HNSW" => hn[d] = r.vec
InFilter(fi, d, r) == r.tag # NoTag => d \in fi[r.tag]
HasFlat(fl, d) == \E v \in Vecs : fl[<<d, v>>] > 0
HasHnsw(hn, d) == hn[d] # NoVec
HasTag(fi, d) == \E t \in Tags : d \in fi[t]

\* The lines of a document that put something into an index.
TypeLines(w, d, type) == {p \in LinesOf(w, d) : w[p].req.type = type}
TagLines(w, d) == {p \in LinesOf(w, d) : w[p].req.tag # NoTag}

\* An index in which, of the lines L of a document, those in A took effect: when
\* that is all of them it is as the stored document wants it (ok), and when one
\* of those that concern it (C) is there, so is the document, or another such
\* line is still to come.
Fit(L, C, A, ok, has) ==
    /\ L \subseteq A => ok
    /\ C \cap A # {} => has \/ C \ A # {}

FlatFit(w, A, d, x, fl) ==
    Fit(LinesOf(w, d), TypeLines(w, d, "FLAT"), A, x # NoData => InFlat(fl, d, x), HasFlat(fl, d))
HnswFit(w, A, d, x, hn) ==
    Fit(LinesOf(w, d), TypeLines(w, d, "HNSW"), A, x # NoData => InHnsw(hn, d, x), HasHnsw(hn, d))
FilterFit(w, A, d, x, fi) ==
    Fit(LinesOf(w, d), TagLines(w, d), A, x # NoData => InFilter(fi, d, x), HasTag(fi, d))

\* The lines whose effect the memory of the process has, those apart that it
\* wrote itself.
Applied == IF mode = "up" THEN UpTo(wal, increaseID) ELSE Loaded

\* RocksDB has every document that a line in effect names.
Stored == \A p \in Applied : scalar[wal[p].req.doc] # NoData

\* A vector in the FLAT index, or in its file, is that of a line.
FromLines(w, d, fl) ==
    \A v \in Vecs : fl[<<d, v>>] > 0 => \E p \in LinesOf(w, d) : w[p].req.vec = v
Known ==
    \A d \in OnWal : /\ FromLines(wal, d, flat)
                     /\ fFlat # Torn => FromLines(wal, d, fFlat)

\* While the node serves, the indexes have what the stored document says, or
\* what the commit thread has done so far for the one it is at.
Agrees(d) ==
    /\ ~Busy(d) =>
        IF scalar[d] = NoData THEN ~HasFlat(flat, d)
        ELSE /\ InFlat(flat, d, scalar[d]) /\ InHnsw(hnsw, d, scalar[d])
             /\ InFilter(filter, d, scalar[d])
    /\ (Busy(d) /\ pc = "insert" /\ cur.type = "FLAT") => ~HasFlat(flat, d)
    /\ (Busy(d) /\ pc \in {"filter", "put"}) => InFlat(flat, d, cur) /\ InHnsw(hnsw, d, cur)
    /\ (Busy(d) /\ pc = "put") => InFilter(filter, d, cur)
AgreesInv == mode = "up" => \A d \in OnWal : Agrees(d)

MemoryFits(d) ==
    /\ FlatFit(wal, Applied, d, scalar[d], flat)
    /\ HnswFit(wal, Applied, d, scalar[d], hnsw)
    /\ FilterFit(wal, Applied, d, scalar[d], filter)
Memory == mode # "down" => \A d \in OnWal : MemoryFits(d)

\* The snapshot files: they fit the marker on disk at all times, and each of
\* them fits the marker to come as soon as it is written.
HnswSaved == {"filter", "marker", "markerEnd"}
FlatSaved == {"hnsw", "hnswEnd"} \cup HnswSaved
FilterSaved == {"marker", "markerEnd"}
FlatFile(m) ==
    fFlat # Torn => \A d \in OnWal : FlatFit(wal, UpTo(wal, m), d, scalar[d], fFlat)
HnswFile(m) ==
    fHnsw # Torn => \A d \in OnWal : HnswFit(wal, UpTo(wal, m), d, scalar[d], fHnsw)
FilterFile(m) == \A d \in OnWal : FilterFit(wal, UpTo(wal, m), d, scalar[d], fFilter)
Files ==
    /\ FlatFile(fMarker) /\ HnswFile(fMarker) /\ FilterFile(fMarker)
    /\ snap \in FlatSaved => FlatFile(increaseID)
    /\ snap \in HnswSaved => HnswFile(increaseID)
    /\ snap \in FilterSaved => FilterFile(increaseID)

\* A line above the marker is behind all lines up to it.
Ordered(m) == \A p \in UpTo(wal, m), q \in DOMAIN wal \ UpTo(wal, m) : p < q
Order ==
    /\ \A p \in DOMAIN wal : wal[p].id > 0
    /\ Ordered(fMarker) /\ (mode = "up" => Ordered(increaseID))

(* What the stages of an upsert do to one document.                        *)

LEMMA FlatStages ==
    ASSUME NEW f \in FlatType, NEW r \in Request, NEW o, NEW d \in Docs, NEW v \in Vecs
    PROVE  /\ UpsertRemove(f, r, o)[<<d, v>>]
                = IF d = r.doc /\ o # NoData /\ r.type = "FLAT" THEN 0 ELSE f[<<d, v>>]
           /\ UpsertFlat(f, r)[<<d, v>>]
                = IF r.type = "FLAT" /\ d = r.doc /\ v = r.vec THEN f[<<d, v>>] + 1 ELSE f[<<d, v>>]
           /\ f[<<d, v>>] \in Nat
<1>1. PICK p : p = <<d, v>>
  OBVIOUS
<1>2. p \in Docs \X Vecs /\ p[1] = d /\ p[2] = v /\ DOMAIN f = Docs \X Vecs
  BY <1>1 DEF FlatType
<1>3. FlatRemove(f, r.doc)[p] = IF d = r.doc THEN 0 ELSE f[p]
  BY <1>2 DEF FlatRemove
<1>4. FlatInsert(f, r.doc, r.vec)[p] = IF d = r.doc /\ v = r.vec THEN f[p] + 1 ELSE f[p]
  <2>1. p = <<r.doc, r.vec>> <=> d = r.doc /\ v = r.vec
    BY <1>1
  <2>q. QED BY <1>2, <2>1 DEF FlatInsert
<1>5. f[p] \in Nat
  BY <1>2 DEF FlatType
<1>6. UpsertRemove(f, r, o)[p]
         = IF d = r.doc /\ o # NoData /\ r.type = "FLAT" THEN 0 ELSE f[p]
  BY <1>3 DEF UpsertRemove
<1>7. UpsertFlat(f, r)[p]
         = IF r.type = "FLAT" /\ d = r.doc /\ v = r.vec THEN f[p] + 1 ELSE f[p]
  BY <1>4 DEF UpsertFlat
<1>q. QED BY <1>1, <1>5, <1>6, <1>7

\* Nothing is stored for other documents, and for other types nothing at all.
LEMMA FlatElsewhere ==
    ASSUME NEW f \in FlatType, NEW r \in Request, NEW o, NEW d \in Docs,
           d # r.doc \/ r.type # "FLAT"
    PROVE  /\ \A v \in Vecs : UpsertRemove(f, r, o)[<<d, v>>] = f[<<d, v>>]
           /\ \A v \in Vecs : UpsertFlat(f, r)[<<d, v>>] = f[<<d, v>>]
BY FlatStages

\* The removal leaves no vector of the document when it had one only if there
\* was a document.
LEMMA FlatRemoved ==
    ASSUME NEW f \in FlatType, NEW r \in Request, NEW o, r.type = "FLAT",
           o = NoData => ~HasFlat(f, r.doc)
    PROVE  ~HasFlat(UpsertRemove(f, r, o), r.doc)
<1> SUFFICES ASSUME NEW v \in Vecs PROVE ~(UpsertRemove(f, r, o)[<<r.doc, v>>] > 0)
  BY DEF HasFlat
<1>1. r.doc \in Docs
  BY DEF Request
<1>2. CASE o = NoData
  BY <1>1, <1>2, FlatStages DEF HasFlat
<1>3. CASE o # NoData
  <2>1. UpsertRemove(f, r, o)[<<r.doc, v>>] = 0
    BY <1>1, <1>3, FlatStages
  <2>q. QED BY <2>1
<1>q. QED BY <1>2, <1>3

\* An insertion when no vector of the document is there.
LEMMA FlatInserted ==
    ASSUME NEW f \in FlatType, NEW r \in Request,
           r.type = "FLAT" => \A v \in Vecs : f[<<r.doc, v>>] > 0 => v = r.vec
    PROVE  /\ InFlat(UpsertFlat(f, r), r.doc, r)
           /\ r.type = "FLAT" => HasFlat(UpsertFlat(f, r), r.doc)
<1>1. r.doc \in Docs /\ r.vec \in Vecs
  BY DEF Request
<1>2. ASSUME NEW v \in Vecs, r.type = "FLAT"
      PROVE  UpsertFlat(f, r)[<<r.doc, v>>] > 0 <=> v = r.vec
  <2>1. /\ UpsertFlat(f, r)[<<r.doc, v>>]
             = IF v = r.vec THEN f[<<r.doc, v>>] + 1 ELSE f[<<r.doc, v>>]
        /\ f[<<r.doc, v>>] \in Nat
    BY <1>1, <1>2, FlatStages
  <2>q. QED BY <1>2, <2>1
<1>q. QED BY <1>1, <1>2 DEF InFlat, HasFlat

LEMMA HnswStage ==
    ASSUME NEW h \in HnswType, NEW r \in Request
    PROVE  /\ \A d \in Docs : (d # r.doc \/ r.type # "HNSW") => UpsertHnsw(h, r)[d] = h[d]
           /\ InHnsw(UpsertHnsw(h, r), r.doc, r)
           /\ r.type = "HNSW" => HasHnsw(UpsertHnsw(h, r), r.doc)
BY IndexAssumption DEF UpsertHnsw, HnswInsert, HnswType, Request, InHnsw, HasHnsw

LEMMA FilterStage ==
    ASSUME NEW f \in FilterType, NEW r \in Request, NEW o
    PROVE  /\ \A d \in Docs : d # r.doc =>
                 \A t \in Tags : d \in UpsertFilter(f, r, o)[t] <=> d \in f[t]
           /\ r.tag = NoTag => UpsertFilter(f, r, o) = f
           /\ InFilter(UpsertFilter(f, r, o), r.doc, r)
           /\ r.tag # NoTag => HasTag(UpsertFilter(f, r, o), r.doc)
<1>1. \A x : \A t \in Tags :
         FilterUpdate(f, r.doc, x, r.tag)[t]
             = IF t = r.tag THEN f[t] \cup {r.doc}
               ELSE IF t = x THEN f[t] \ {r.doc} ELSE f[t]
  BY DEF FilterUpdate, FilterType
<1>2. r.tag # NoTag => r.tag \in Tags
  BY DEF Request
<1>3. CASE r.tag = NoTag
  BY <1>3 DEF UpsertFilter, InFilter
<1>4. CASE r.tag # NoTag
  <2>1. PICK x : x = IF o = NoData THEN NoTag ELSE o.tag
    OBVIOUS
  <2>2. PICK g : g = UpsertFilter(f, r, o)
    OBVIOUS
  <2>3. g = FilterUpdate(f, r.doc, x, r.tag)
    BY <1>4, <2>1, <2>2 DEF UpsertFilter
  <2>4. \A t \in Tags : g[t] = IF t = r.tag THEN f[t] \cup {r.doc}
                              ELSE IF t = x THEN f[t] \ {r.doc} ELSE f[t]
    BY <1>1, <2>3
  <2>5. \A d \in Docs : d # r.doc => \A t \in Tags : d \in g[t] <=> d \in f[t]
    BY <2>4
  <2>6. r.doc \in g[r.tag]
    BY <1>2, <1>4, <2>4
  <2>7. InFilter(g, r.doc, r) /\ HasTag(g, r.doc)
    BY <1>2, <1>4, <2>6 DEF InFilter, HasTag
  <2>q. QED BY <1>4, <2>2, <2>5, <2>7
<1>q. QED BY <1>3, <1>4

(* Fit.                                                                    *)

\* What fits a set of lines fits a smaller one.
LEMMA FitLess ==
    ASSUME NEW L, NEW C, NEW A, NEW B, NEW ok, NEW has, B \subseteq A, Fit(L, C, A, ok, has)
    PROVE  Fit(L, C, B, ok, has)
BY DEF Fit

LEMMA FitsLess ==
    ASSUME NEW w, NEW A, NEW B, NEW d, NEW x, B \subseteq A
    PROVE  /\ \A fl : FlatFit(w, A, d, x, fl) => FlatFit(w, B, d, x, fl)
           /\ \A hn : HnswFit(w, A, d, x, hn) => HnswFit(w, B, d, x, hn)
           /\ \A fi : FilterFit(w, A, d, x, fi) => FilterFit(w, B, d, x, fi)
BY DEF FlatFit, HnswFit, FilterFit, Fit

\* New lines outside A, and a new value of a document that has a line outside A.
LEMMA FitsKept ==
    ASSUME NEW w, NEW w2, NEW A, NEW d, NEW x, NEW x2,
           LinesOf(w, d) \subseteq LinesOf(w2, d),
           LinesOf(w2, d) \cap A = LinesOf(w, d) \cap A,
           \A p \in DOMAIN w : w2[p] = w[p],
           x2 = x \/ \E q \in LinesOf(w2, d) : q \notin A
    PROVE  /\ \A fl : FlatFit(w, A, d, x, fl) => FlatFit(w2, A, d, x2, fl)
           /\ \A hn : HnswFit(w, A, d, x, hn) => HnswFit(w2, A, d, x2, hn)
           /\ \A fi : FilterFit(w, A, d, x, fi) => FilterFit(w2, A, d, x2, fi)
<1>1. \A p \in LinesOf(w, d) : w2[p] = w[p]
  BY DEF LinesOf
<1>2. \A type : /\ TypeLines(w, d, type) \subseteq TypeLines(w2, d, type)
                /\ TypeLines(w2, d, type) \cap A = TypeLines(w, d, type) \cap A
  BY <1>1 DEF TypeLines
<1>3. TagLines(w, d) \subseteq TagLines(w2, d) /\ TagLines(w2, d) \cap A = TagLines(w, d) \cap A
  BY <1>1 DEF TagLines
<1>4. LinesOf(w2, d) \subseteq A => x2 = x /\ LinesOf(w, d) \subseteq A
  OBVIOUS
<1>5. ASSUME NEW fl, FlatFit(w, A, d, x, fl) PROVE FlatFit(w2, A, d, x2, fl)
  BY <1>2, <1>4, <1>5 DEF FlatFit, Fit
<1>6. ASSUME NEW hn, HnswFit(w, A, d, x, hn) PROVE HnswFit(w2, A, d, x2, hn)
  BY <1>2, <1>4, <1>6 DEF HnswFit, Fit
<1>7. ASSUME NEW fi, FilterFit(w, A, d, x, fi) PROVE FilterFit(w2, A, d, x2, fi)
  BY <1>3, <1>4, <1>7 DEF FilterFit, Fit
<1>q. QED BY <1>5, <1>6, <1>7

\* An index changed for a document only while a line of it that concerns the
\* index is outside A.
LEMMA FlatFitChanged ==
    ASSUME NEW w, NEW A, NEW d, NEW x, NEW fl, NEW fl2, FlatFit(w, A, d, x, fl),
           \/ \A v \in Vecs : fl2[<<d, v>>] = fl[<<d, v>>]
           \/ \E q \in TypeLines(w, d, "FLAT") : q \notin A
    PROVE  FlatFit(w, A, d, x, fl2)
<1>1. CASE \A v \in Vecs : fl2[<<d, v>>] = fl[<<d, v>>]
  <2>1. (HasFlat(fl2, d) <=> HasFlat(fl, d)) /\ (InFlat(fl2, d, x) <=> InFlat(fl, d, x))
    BY <1>1 DEF HasFlat, InFlat
  <2>q. QED BY <2>1 DEF FlatFit, Fit
<1>2. CASE \E q \in TypeLines(w, d, "FLAT") : q \notin A
  BY <1>2 DEF FlatFit, Fit, TypeLines
<1>q. QED BY <1>1, <1>2

LEMMA HnswFitChanged ==
    ASSUME NEW w, NEW A, NEW d, NEW x, NEW hn, NEW hn2, HnswFit(w, A, d, x, hn),
           hn2[d] = hn[d] \/ \E q \in TypeLines(w, d, "HNSW") : q \notin A
    PROVE  HnswFit(w, A, d, x, hn2)
<1>1. CASE hn2[d] = hn[d]
  BY <1>1 DEF HnswFit, Fit, HasHnsw, InHnsw
<1>2. CASE \E q \in TypeLines(w, d, "HNSW") : q \notin A
  BY <1>2 DEF HnswFit, Fit, TypeLines
<1>q. QED BY <1>1, <1>2

LEMMA FilterFitChanged ==
    ASSUME NEW w, NEW A, NEW d, NEW x \in Request \cup {NoData}, NEW fi, NEW fi2,
           FilterFit(w, A, d, x, fi),
           \/ \A t \in Tags : d \in fi2[t] <=> d \in fi[t]
           \/ \E q \in TagLines(w, d) : q \notin A
    PROVE  FilterFit(w, A, d, x, fi2)
<1>1. CASE \A t \in Tags : d \in fi2[t] <=> d \in fi[t]
  <2>1. HasTag(fi2, d) <=> HasTag(fi, d)
    BY <1>1 DEF HasTag
  <2>2. x # NoData => (InFilter(fi2, d, x) <=> InFilter(fi, d, x))
    BY <1>1 DEF InFilter, Request
  <2>q. QED BY <2>1, <2>2 DEF FilterFit, Fit
<1>2. CASE \E q \in TagLines(w, d) : q \notin A
  BY <1>2 DEF FilterFit, Fit, TagLines
<1>q. QED BY <1>1, <1>2

(* The steps.                                                              *)

DataInv == Stored /\ Known /\ AgreesInv /\ Memory /\ Files /\ Order

\* While the node serves, the marker on disk is not above the ids it started
\* from.
LEMMA UpFacts ==
    ASSUME NodeInv, Mirror, mode = "up"
    PROVE  /\ wal \in Seq(WalEntry) /\ fMarker \in Nat /\ increaseID \in Nat
           /\ last_committed_idx \in Nat
           /\ fMarker <= increaseID /\ increaseID <= last_committed_idx
           /\ UpTo(wal, fMarker) \subseteq UpTo(wal, increaseID)
           /\ Applied = UpTo(wal, increaseID)
<1>1. wal \in Seq(WalEntry) /\ fMarker \in Nat /\ increaseID \in Nat /\ last_committed_idx \in Nat
  BY DEF NodeInv, TypeOK, DiskOK, IdsOK, LogOK
<1>2. fMarker <= increaseID
  BY DEF NodeInv, LogInv, UpBound
<1>3. increaseID <= last_committed_idx
  BY LogTop
<1>4. UpTo(wal, fMarker) \subseteq UpTo(wal, increaseID)
  BY <1>1, <1>2, WalLines DEF UpTo
<1>q. QED BY <1>1, <1>2, <1>3, <1>4 DEF Applied

\* The request in the middle of its upsert has a line that is not among those
\* the process started from.
LEMMA BusyLine ==
    ASSUME NodeInv, Mirror, mode = "up", NEW d \in OnWal, Busy(d)
    PROVE  \E q \in LinesOf(wal, d) : /\ wal[q].req = cur
                                      /\ q \notin UpTo(wal, increaseID)
                                      /\ q \notin UpTo(wal, fMarker)
<1>1. /\ last_committed_idx > increaseID /\ last_committed_idx \in DOMAIN logs
      /\ logs[last_committed_idx] = App(cur) /\ cur.doc = d
  BY DEF Busy, Mirror, CommitHeld
<1>2. PICK q \in Live : wal[q].id = last_committed_idx /\ wal[q].req = cur
  BY <1>1, OtherEntries DEF Mirror, EntriesLined, OnWal
<1>3. q \in LinesOf(wal, d)
  BY <1>1, <1>2 DEF Live, LinesOf
<1>4. ~(wal[q].id <= increaseID) /\ ~(wal[q].id <= fMarker)
  BY <1>1, <1>2, UpFacts
<1>q. QED BY <1>2, <1>3, <1>4 DEF UpTo

\* So has the one the commit thread takes up.
LEMMA CommitLine ==
    ASSUME NodeInv, Mirror, Commit, cur'.doc \in OnWal
    PROVE  \E q \in LinesOf(wal, cur'.doc) : wal[q].req = cur' /\ q \notin UpTo(wal, increaseID)
<1>1. /\ mode = "up" /\ NextCommit \in DOMAIN logs
      /\ IsApp(logs[NextCommit]) /\ cur' = logs[NextCommit].req
  BY DEF Commit, CanCommit, EntryAt
<1>2. PICK q \in Live : wal[q].id = NextCommit /\ wal[q].req = cur'
  BY <1>1 DEF Mirror, EntriesLined, OnWal
<1>3. ~(wal[q].id <= increaseID)
  BY <1>1, <1>2, UpFacts DEF NextCommit
<1>q. QED BY <1>2, <1>3 DEF Live, LinesOf, UpTo

LEMMA InitData == Init => DataInv
<1> SUFFICES ASSUME Init PROVE DataInv
  OBVIOUS
<1> USE DEF Init
<1>1. /\ DOMAIN wal = {} /\ mode = "down" /\ snap = "idle"
      /\ \A d : LinesOf(wal, d) = {} /\ \A m : UpTo(wal, m) = {}
  BY DEF LinesOf, UpTo
<1>2. Stored
  BY <1>1 DEF Stored, Applied, Loaded
<1>3. Known
  <2>1. \A d \in Docs, v \in Vecs : ~(EmptyFlat[<<d, v>>] > 0)
    BY DEF EmptyFlat
  <2>q. QED BY <2>1 DEF Known, OnWal, FromLines
<1>4. AgreesInv /\ Memory /\ Order
  BY <1>1 DEF AgreesInv, Memory, Order, Ordered
<1>5. Files
  <2>1. \A d \in Docs : scalar[d] = NoData
    OBVIOUS
  <2>2. \A d, t : TypeLines(wal, d, t) = {} /\ TagLines(wal, d) = {}
    BY <1>1 DEF TypeLines, TagLines
  <2>q. QED BY <1>1, <2>1, <2>2
            DEF Files, FlatFile, HnswFile, FilterFile, FlatFit, HnswFit, FilterFit, Fit, OnWal,
                FlatSaved, HnswSaved, FilterSaved
<1>q. QED BY <1>2, <1>3, <1>4, <1>5 DEF DataInv

LEMMA RaftData == NodeInv /\ Mirror /\ DataInv /\ Raft => DataInv'
<1> SUFFICES ASSUME NodeInv, Mirror, DataInv, Raft PROVE DataInv'
  OBVIOUS
<1>1. /\ mode = "up" /\ mode' = "up" /\ offWal \subseteq offWal'
      /\ UNCHANGED <<scalar, fFlat, fHnsw, fFilter, fMarker, increaseID, flat, hnsw, filter,
                     pc, cur, snap>>
  BY RaftFrame DEF files, ids, indexes, upserting, snapping
<1>2. /\ wal \in Seq(WalEntry) /\ fMarker \in Nat /\ increaseID \in Nat /\ last_committed_idx \in Nat
      /\ fMarker <= increaseID /\ increaseID <= last_committed_idx /\ Applied = UpTo(wal, increaseID)
  BY <1>1, UpFacts
<1>3. ASSUME NEW m \in {fMarker, increaseID}
      PROVE  /\ UpTo(wal', m) = UpTo(wal, m)
             /\ \A d : /\ LinesOf(wal, d) \subseteq LinesOf(wal', d)
                       /\ LinesOf(wal', d) \cap UpTo(wal, m) = LinesOf(wal, d) \cap UpTo(wal, m)
             /\ \A p \in DOMAIN wal : wal'[p] = wal[p]
  <2>1. CASE wal' = wal
    BY <2>1
  <2>2. CASE \E e \in WalEntry : wal' = Append(wal, e) /\ e.id > last_committed_idx
    <3>1. PICK e \in WalEntry : wal' = Append(wal, e) /\ e.id > last_committed_idx
      BY <2>2
    <3>2. m \in Nat /\ e.id > m
      BY <1>2, <3>1 DEF WalEntry
    <3>q. QED BY <1>2, <3>1, <3>2, AppendedSets
  <2>q. QED BY <2>1, <2>2, RaftFrame
<1>4. OnWal' \subseteq OnWal
  BY <1>1 DEF OnWal
<1>5. Applied' = Applied
  BY <1>1, <1>2, <1>3 DEF Applied
<1>6. Stored'
  <2>1. \A p \in Applied : p \in DOMAIN wal
    BY <1>2 DEF UpTo
  <2>q. QED BY <1>1, <1>3, <1>5, <2>1 DEF DataInv, Stored
<1>7. Known'
  <2>1. ASSUME NEW d, NEW fl, FromLines(wal, d, fl) PROVE FromLines(wal', d, fl)
    <3>1. LinesOf(wal, d) \subseteq LinesOf(wal', d) /\ \A p \in LinesOf(wal, d) : wal'[p] = wal[p]
      BY <1>3 DEF LinesOf
    <3>q. QED BY <2>1, <3>1 DEF FromLines
  <2>q. QED BY <1>1, <1>4, <2>1 DEF DataInv, Known
<1>8. AgreesInv'
  <2>1. ASSUME NEW d \in OnWal PROVE Agrees(d)'
    <3>1. Agrees(d)
      BY <1>1 DEF DataInv, AgreesInv
    <3>q. QED BY <1>1, <3>1 DEF Agrees, Busy
  <2>q. QED BY <1>4, <2>1 DEF AgreesInv
<1>9. ASSUME NEW m \in {fMarker, increaseID}, NEW d
      PROVE  /\ \A fl : FlatFit(wal, UpTo(wal, m), d, scalar[d], fl)
                           => FlatFit(wal', UpTo(wal', m), d, scalar[d], fl)
             /\ \A hn : HnswFit(wal, UpTo(wal, m), d, scalar[d], hn)
                           => HnswFit(wal', UpTo(wal', m), d, scalar[d], hn)
             /\ \A fi : FilterFit(wal, UpTo(wal, m), d, scalar[d], fi)
                           => FilterFit(wal', UpTo(wal', m), d, scalar[d], fi)
  BY <1>3, FitsKept
<1>10. Memory'
  <2>1. ASSUME NEW d \in OnWal PROVE MemoryFits(d)'
    <3>1. MemoryFits(d)
      BY <1>1 DEF DataInv, Memory
    <3>2. Applied = UpTo(wal, increaseID) /\ Applied' = UpTo(wal', increaseID)
      BY <1>2, <1>3, <1>5
    <3>q. QED BY <1>1, <1>9, <3>1, <3>2 DEF MemoryFits
  <2>q. QED BY <1>4, <2>1 DEF Memory
<1>11. Files'
  <2>1. ASSUME NEW m \in {fMarker, increaseID}
        PROVE  /\ FlatFile(m) => \A d \in OnWal' : fFlat # Torn =>
                                    FlatFit(wal', UpTo(wal', m), d, scalar[d], fFlat)
               /\ HnswFile(m) => \A d \in OnWal' : fHnsw # Torn =>
                                    HnswFit(wal', UpTo(wal', m), d, scalar[d], fHnsw)
               /\ FilterFile(m) => \A d \in OnWal' :
                                    FilterFit(wal', UpTo(wal', m), d, scalar[d], fFilter)
    BY <1>4, <1>9 DEF FlatFile, HnswFile, FilterFile
  <2>q. QED BY <1>1, <2>1 DEF DataInv, Files, FlatFile, HnswFile, FilterFile
<1>12. Order'
  <2>1. CASE wal' = wal
    BY <1>1, <2>1 DEF DataInv, Order, Ordered
  <2>2. CASE \E e \in WalEntry : wal' = Append(wal, e) /\ e.id > last_committed_idx
    <3>1. PICK e \in WalEntry : wal' = Append(wal, e) /\ e.id > last_committed_idx
      BY <2>2
    <3>2. PICK k : k = Len(wal) + 1
      OBVIOUS
    <3>3. DOMAIN wal' = DOMAIN wal \cup {k} /\ wal'[k] = e /\ \A p \in DOMAIN wal : p < k
      BY <1>2, <3>1, <3>2, AppendedLine
    <3>4. e.id > 0
      BY <1>2, <3>1 DEF WalEntry
    <3>5. \A p \in DOMAIN wal' : wal'[p].id > 0
      BY <1>3, <3>3, <3>4 DEF DataInv, Order
    <3>6. ASSUME NEW m \in {fMarker, increaseID}, Ordered(m)
          PROVE  \A p \in UpTo(wal', m), q \in DOMAIN wal' \ UpTo(wal', m) : p < q
      BY <1>3, <3>3, <3>6 DEF Ordered, UpTo
    <3>q. QED BY <1>1, <3>5, <3>6 DEF DataInv, Order, Ordered
  <2>q. QED BY <2>1, <2>2, RaftFrame
<1>q. QED BY <1>6, <1>7, <1>8, <1>10, <1>11, <1>12 DEF DataInv

\* A process that dies: the lines up to the marker are what the files have.
LEMMA DieData == NodeInv /\ MirrorInv /\ DataInv /\ Die => DataInv'
<1> SUFFICES ASSUME NodeInv, MirrorInv, DataInv, Die PROVE DataInv'
  OBVIOUS
<1>1. /\ mode' = "down" /\ snap' = "idle" /\ flat' = EmptyFlat
      /\ UNCHANGED <<wal, scalar, fFlat, fHnsw, fFilter, fMarker, offWal>>
  BY DEF Die, FreshProcess, disk, ghosts
<1>2. Applied' = UpTo(wal, fMarker)
  BY <1>1 DEF Applied, Loaded
<1>3. Applied' \subseteq Applied
  BY <1>2, UpFacts DEF MirrorInv, Applied, Loaded
<1>4. Stored'
  BY <1>1, <1>3 DEF DataInv, Stored
<1>5. Known'
  <2>1. \A d \in Docs, v \in Vecs : ~(EmptyFlat[<<d, v>>] > 0)
    BY DEF EmptyFlat
  <2>2. \A d \in OnWal : FromLines(wal, d, EmptyFlat)
    BY <2>1 DEF FromLines, OnWal
  <2>q. QED BY <1>1, <2>2 DEF DataInv, Known, OnWal
<1>6. AgreesInv' /\ Memory'
  BY <1>1 DEF AgreesInv, Memory
<1>7. Files'
  BY <1>1 DEF DataInv, Files, FlatFile, HnswFile, FilterFile, OnWal, FlatSaved, HnswSaved, FilterSaved
<1>8. Order'
  BY <1>1 DEF DataInv, Order, Ordered
<1>q. QED BY <1>4, <1>5, <1>6, <1>7, <1>8 DEF DataInv

(* The snapshot thread.                                                    *)

\* A step of it leaves everything but the files alone.
LEMMA SnapshotFrame ==
    ASSUME NodeInv, SnapshotThread
    PROVE  /\ mode = "up"
           /\ UNCHANGED <<wal, scalar, mode, increaseID, flat, hnsw, filter, pc, cur, offWal>>
BY DEF NodeInv, LogInv, SnapshotThread, TakeSnapshot, SaveFlat, OpenHnsw, SaveHnsw, SaveFilter,
       OpenMarker, SaveMarker, ids, raftState, indexes, upserting, ghosts

\* Files that fit a larger set of lines.
LEMMA FilesLess ==
    ASSUME NEW m, NEW n, UpTo(wal, n) \subseteq UpTo(wal, m)
    PROVE  /\ FlatFile(m) => FlatFile(n)
           /\ HnswFile(m) => HnswFile(n)
           /\ FilterFile(m) => FilterFile(n)
BY FitsLess DEF FlatFile, HnswFile, FilterFile

LEMMA SnapshotFiles == NodeInv /\ Mirror /\ DataInv /\ SnapshotThread => Files'
<1> SUFFICES ASSUME NodeInv, Mirror, DataInv, SnapshotThread PROVE Files'
  OBVIOUS
<1>1. /\ mode = "up" /\ Files
      /\ UNCHANGED <<wal, scalar, mode, increaseID, flat, hnsw, filter, offWal>>
  BY SnapshotFrame DEF DataInv
<1>2. OnWal' = OnWal /\ Applied = UpTo(wal, increaseID) /\ UpTo(wal, fMarker) \subseteq Applied
  BY <1>1, UpFacts DEF OnWal
<1>3. \A d \in OnWal : MemoryFits(d)
  BY <1>1 DEF DataInv, Memory
<1> USE DEF FlatSaved, HnswSaved, FilterSaved
<1>4. CASE TakeSnapshot
  BY <1>1, <1>2, <1>4 DEF TakeSnapshot, Files, FlatFile, HnswFile, FilterFile
<1>5. CASE SaveFlat
  <2>1. /\ fFlat' \in {flat, Torn} /\ snap' = "hnsw" /\ UNCHANGED <<fHnsw, fFilter, fMarker>>
    BY <1>5 DEF SaveFlat, Saved
  <2>2. FlatFile(increaseID)' /\ FlatFile(fMarker)'
    BY <1>1, <1>2, <1>3, <2>1, FitsLess DEF FlatFile, MemoryFits
  <2>q. QED BY <1>1, <1>2, <2>1, <2>2 DEF Files, HnswFile, FilterFile
<1>6. CASE OpenHnsw
  BY <1>1, <1>2, <1>6 DEF OpenHnsw, Files, FlatFile, HnswFile, FilterFile
<1>7. CASE SaveHnsw
  <2>1. /\ fHnsw' \in {hnsw, Torn} /\ snap' = "filter" /\ UNCHANGED <<fFlat, fFilter, fMarker>>
        /\ snap = "hnswEnd"
    BY <1>7 DEF SaveHnsw, Saved
  <2>2. HnswFile(increaseID)' /\ HnswFile(fMarker)'
    BY <1>1, <1>2, <1>3, <2>1, FitsLess DEF HnswFile, MemoryFits
  <2>q. QED BY <1>1, <1>2, <2>1, <2>2 DEF Files, FlatFile, FilterFile
<1>8. CASE SaveFilter
  <2>1. /\ fFilter' = filter /\ snap' = "marker" /\ UNCHANGED <<fFlat, fHnsw, fMarker>>
        /\ snap = "filter"
    BY <1>8 DEF SaveFilter
  <2>2. FilterFile(increaseID)' /\ FilterFile(fMarker)'
    BY <1>1, <1>2, <1>3, <2>1, FitsLess DEF FilterFile, MemoryFits
  <2>q. QED BY <1>1, <1>2, <2>1, <2>2 DEF Files, FlatFile, HnswFile
<1>9. CASE OpenMarker
  <2>1. /\ fMarker' = 0 /\ snap' = "markerEnd" /\ snap = "marker" /\ UNCHANGED <<fFlat, fHnsw, fFilter>>
    BY <1>9 DEF OpenMarker
  <2>2. UpTo(wal, 0) \subseteq UpTo(wal, fMarker)
    <3>1. wal \in Seq(WalEntry) /\ fMarker \in Nat
      BY <1>1, UpFacts
    <3>q. QED BY <3>1, WalLines DEF UpTo
  <2>3. FlatFile(0) /\ HnswFile(0) /\ FilterFile(0)
    BY <1>1, <2>2, FilesLess DEF Files
  <2>q. QED BY <1>1, <1>2, <2>1, <2>3 DEF Files, FlatFile, HnswFile, FilterFile
<1>10. CASE SaveMarker
  <2>1. /\ fMarker' = increaseID /\ snap' = "idle" /\ snap = "markerEnd"
        /\ UNCHANGED <<fFlat, fHnsw, fFilter>>
    BY <1>10 DEF SaveMarker, Mirror, SnapHeld
  <2>2. FlatFile(increaseID) /\ HnswFile(increaseID) /\ FilterFile(increaseID)
    BY <1>1, <2>1 DEF Files
  <2>q. QED BY <1>1, <1>2, <2>1, <2>2 DEF Files, FlatFile, HnswFile, FilterFile
<1>q. QED BY <1>4, <1>5, <1>6, <1>7, <1>8, <1>9, <1>10 DEF SnapshotThread

LEMMA SnapshotData == NodeInv /\ Mirror /\ DataInv /\ SnapshotThread => DataInv'
<1> SUFFICES ASSUME NodeInv, Mirror, DataInv, SnapshotThread PROVE DataInv'
  OBVIOUS
<1>1. /\ mode = "up"
      /\ UNCHANGED <<wal, scalar, mode, increaseID, flat, hnsw, filter, pc, cur, offWal>>
  BY SnapshotFrame
<1>2. Applied' = Applied /\ OnWal' = OnWal
  BY <1>1 DEF Applied, OnWal
<1>3. Stored'
  BY <1>1, <1>2 DEF DataInv, Stored
<1>4. Known'
  <2>1. fFlat' \in {fFlat, flat, Torn}
    BY DEF SnapshotThread, TakeSnapshot, SaveFlat, OpenHnsw, SaveHnsw, SaveFilter, OpenMarker,
           SaveMarker, Saved
  <2>q. QED BY <1>1, <1>2, <2>1 DEF DataInv, Known
<1>5. AgreesInv'
  <2>1. \A d \in OnWal : Agrees(d)
    BY <1>1 DEF DataInv, AgreesInv
  <2>q. QED BY <1>1, <1>2, <2>1 DEF AgreesInv, Agrees, Busy
<1>6. Memory'
  <2>1. \A d \in OnWal : MemoryFits(d)
    BY <1>1 DEF DataInv, Memory
  <2>q. QED BY <1>1, <1>2, <2>1 DEF Memory, MemoryFits
<1>7. Order'
  <2>1. fMarker' \in {fMarker, 0, increaseID}
    BY DEF SnapshotThread, TakeSnapshot, SaveFlat, OpenHnsw, SaveHnsw, SaveFilter, OpenMarker,
           SaveMarker, Mirror, SnapHeld
  <2>2. UpTo(wal, 0) = {}
    <3>1. wal \in Seq(WalEntry)
      BY <1>1, UpFacts
    <3>q. QED BY <3>1, WalLines DEF DataInv, Order, UpTo
  <2>3. Ordered(0) /\ Ordered(fMarker) /\ Ordered(increaseID)
    BY <1>1, <2>2 DEF DataInv, Order, Ordered
  <2>q. QED BY <1>1, <2>1, <2>3 DEF DataInv, Order, Ordered
<1>q. QED BY <1>3, <1>4, <1>5, <1>6, <1>7, SnapshotFiles DEF DataInv

(* The commit thread and /insert.                                          *)

\* A step that changes neither the WAL nor RocksDB nor the files.
LEMMA IndexesOnly ==
    ASSUME NodeInv, Mirror, DataInv, mode = "up", offWal \subseteq offWal',
           UNCHANGED <<wal, scalar, fFlat, fHnsw, fFilter, fMarker, mode, increaseID, snap>>,
           \A d \in OnWal' : FromLines(wal, d, flat)',
           \A d \in OnWal' : Agrees(d)',
           \A d \in OnWal' :
              /\ \/ \A v \in Vecs : flat'[<<d, v>>] = flat[<<d, v>>]
                 \/ \E q \in TypeLines(wal, d, "FLAT") : q \notin UpTo(wal, increaseID)
              /\ \/ hnsw'[d] = hnsw[d]
                 \/ \E q \in TypeLines(wal, d, "HNSW") : q \notin UpTo(wal, increaseID)
              /\ \/ \A t \in Tags : d \in filter'[t] <=> d \in filter[t]
                 \/ \E q \in TagLines(wal, d) : q \notin UpTo(wal, increaseID)
    PROVE  DataInv'
<1>1. OnWal' \subseteq OnWal /\ Applied = UpTo(wal, increaseID) /\ Applied' = Applied
  BY UpFacts DEF OnWal, Applied
<1>2. Stored'
  BY <1>1 DEF DataInv, Stored
<1>3. Known'
  BY <1>1 DEF DataInv, Known
<1>4. AgreesInv'
  BY DEF AgreesInv
<1>5. Memory'
  <2>1. ASSUME NEW d \in OnWal' PROVE MemoryFits(d)'
    <3>1. MemoryFits(d) /\ scalar[d] \in Request \cup {NoData}
      BY <1>1 DEF DataInv, Memory, OnWal, NodeInv, TypeOK, DiskOK
    <3>2. FlatFit(wal, Applied, d, scalar[d], flat')
      BY <1>1, <3>1, FlatFitChanged DEF MemoryFits
    <3>3. HnswFit(wal, Applied, d, scalar[d], hnsw')
      BY <1>1, <3>1, HnswFitChanged DEF MemoryFits
    <3>4. FilterFit(wal, Applied, d, scalar[d], filter')
      BY <1>1, <3>1, FilterFitChanged DEF MemoryFits
    <3>q. QED BY <1>1, <3>2, <3>3, <3>4 DEF MemoryFits
  <2>q. QED BY <2>1 DEF Memory
<1>6. Files'
  BY <1>1 DEF DataInv, Files, FlatFile, HnswFile, FilterFile
<1>7. Order'
  BY DEF DataInv, Order, Ordered
<1>q. QED BY <1>2, <1>3, <1>4, <1>5, <1>6, <1>7 DEF DataInv

LEMMA CommitConfigData == NodeInv /\ Mirror /\ DataInv /\ CommitConfig => DataInv'
<1> SUFFICES ASSUME NodeInv, Mirror, DataInv, CommitConfig PROVE DataInv'
  OBVIOUS
<1>1. /\ mode = "up"
      /\ UNCHANGED <<wal, scalar, fFlat, fHnsw, fFilter, fMarker, mode, increaseID, snap,
                     flat, hnsw, filter, pc, cur, offWal>>
  BY DEF CommitConfig, CanCommit, disk, ids, indexes, upserting, snapping, ghosts
<1>2. \A d \in OnWal' : FromLines(wal, d, flat)'
  BY <1>1 DEF DataInv, Known, OnWal
<1>3. \A d \in OnWal' : Agrees(d)'
  <2>1. \A d \in OnWal : Agrees(d)
    BY <1>1 DEF DataInv, AgreesInv
  <2>q. QED BY <1>1, <2>1 DEF OnWal, Agrees, Busy
<1>q. QED BY <1>1, <1>2, <1>3, IndexesOnly

\* The commit thread takes a request up and removes the old vector.
LEMMA CommitData == NodeInv /\ Mirror /\ DataInv /\ Commit => DataInv'
<1> SUFFICES ASSUME NodeInv, Mirror, DataInv, Commit PROVE DataInv'
  OBVIOUS
<1>1. /\ mode = "up" /\ pc = "idle" /\ pc' = "insert" /\ NextCommit \in DOMAIN logs
      /\ IsApp(logs[NextCommit]) /\ cur' = logs[NextCommit].req
      /\ flat' = UpsertRemove(flat, cur', scalar[cur'.doc])
      /\ UNCHANGED <<wal, scalar, fFlat, fHnsw, fFilter, fMarker, mode, increaseID, snap,
                     hnsw, filter, offWal>>
  BY DEF Commit, CanCommit, EntryAt, disk, ids, ghosts
<1>2. /\ cur' \in Request /\ cur'.doc \in Docs /\ flat \in FlatType
      /\ scalar[cur'.doc] \in Request \cup {NoData}
  <2>1. cur' \in Request
    BY <1>1, AppEntry DEF NodeInv, TypeOK, LogOK
  <2>q. QED BY <2>1 DEF Request, NodeInv, TypeOK, IndexOK, DiskOK
<1>3. PICK r : r = cur'
  OBVIOUS
<1>4. PICK o : o = scalar[cur'.doc]
  OBVIOUS
<1>5. /\ r \in Request /\ flat' = UpsertRemove(flat, r, o) /\ OnWal' = OnWal
      /\ \A d \in OnWal : d \in Docs /\ Agrees(d) /\ ~Busy(d)
  BY <1>1, <1>2, <1>3, <1>4 DEF OnWal, DataInv, AgreesInv, Busy
<1>6. ASSUME NEW d \in OnWal, d # r.doc \/ r.type # "FLAT"
      PROVE  \A v \in Vecs : flat'[<<d, v>>] = flat[<<d, v>>]
  BY <1>2, <1>5, <1>6, FlatElsewhere
<1>7. ASSUME NEW d \in OnWal, d = r.doc, r.type = "FLAT"
      PROVE  ~HasFlat(flat', d)
  <2>1. o = NoData => ~HasFlat(flat, d)
    BY <1>3, <1>4, <1>5, <1>7 DEF Agrees
  <2>q. QED BY <1>2, <1>5, <1>7, <2>1, FlatRemoved
<1>8. \A d \in OnWal' : FromLines(wal, d, flat)'
  <2>1. ASSUME NEW d \in OnWal PROVE FromLines(wal, d, flat')
    <3>1. FromLines(wal, d, flat)
      BY DEF DataInv, Known
    <3>q. QED BY <1>6, <1>7, <3>1 DEF FromLines, HasFlat
  <2>q. QED BY <1>1, <1>5, <2>1
<1>9. \A d \in OnWal' : Agrees(d)'
  <2>1. ASSUME NEW d \in OnWal PROVE Agrees(d)'
    <3>1. CASE d = r.doc
      BY <1>1, <1>3, <1>7, <3>1 DEF Agrees, Busy
    <3>2. CASE d # r.doc
      <4>1. (HasFlat(flat', d) <=> HasFlat(flat, d))
            /\ \A x : InFlat(flat', d, x) <=> InFlat(flat, d, x)
        BY <1>6, <3>2 DEF HasFlat, InFlat
      <4>2. ~Busy(d)' /\ ~Busy(d) /\ Agrees(d)
        BY <1>3, <1>5, <3>2 DEF Busy
      <4>q. QED BY <1>1, <4>1, <4>2 DEF Agrees
    <3>q. QED BY <3>1, <3>2
  <2>q. QED BY <1>5, <2>1
<1>10. ASSUME NEW d \in OnWal
       PROVE  \/ \A v \in Vecs : flat'[<<d, v>>] = flat[<<d, v>>]
              \/ \E q \in TypeLines(wal, d, "FLAT") : q \notin UpTo(wal, increaseID)
  <2>1. CASE d = r.doc /\ r.type = "FLAT"
    <3>1. PICK q \in LinesOf(wal, d) : wal[q].req = r /\ q \notin UpTo(wal, increaseID)
      BY <1>3, <2>1, CommitLine
    <3>q. QED BY <2>1, <3>1 DEF TypeLines
  <2>q. QED BY <1>6, <2>1
<1>q. QED BY <1>1, <1>5, <1>8, <1>9, <1>10, IndexesOnly

LEMMA UpsertInsertData == NodeInv /\ Mirror /\ DataInv /\ UpsertInsert => DataInv'
<1> SUFFICES ASSUME NodeInv, Mirror, DataInv, UpsertInsert PROVE DataInv'
  OBVIOUS
<1>1. /\ mode = "up" /\ pc = "insert" /\ pc' = "filter"
      /\ flat' = UpsertFlat(flat, cur) /\ hnsw' = UpsertHnsw(hnsw, cur)
      /\ UNCHANGED <<wal, scalar, fFlat, fHnsw, fFilter, fMarker, mode, increaseID, snap,
                     filter, offWal, cur>>
  BY DEF NodeInv, LogInv, UpsertInsert, disk, ids, ghosts
<1>2. cur \in Request /\ flat \in FlatType /\ hnsw \in HnswType
  BY <1>1 DEF NodeInv, TypeOK, IndexOK, ThreadsOK
<1>3. PICK r : r = cur
  OBVIOUS
<1>5. /\ r \in Request /\ OnWal' = OnWal /\ r.vec \in Vecs
      /\ flat' = UpsertFlat(flat, r) /\ hnsw' = UpsertHnsw(hnsw, r)
      /\ \A d \in OnWal : d \in Docs /\ Agrees(d) /\ (Busy(d) <=> d = r.doc)
      /\ \A d \in OnWal : Busy(d)' <=> d = r.doc
  BY <1>1, <1>2, <1>3 DEF OnWal, DataInv, AgreesInv, Busy, Request
<1>6. ASSUME NEW d \in OnWal, d # r.doc \/ r.type # "FLAT"
      PROVE  \A v \in Vecs : flat'[<<d, v>>] = flat[<<d, v>>]
  BY <1>2, <1>5, <1>6, FlatElsewhere
<1>7. ASSUME NEW d \in OnWal, d # r.doc \/ r.type # "HNSW"
      PROVE  hnsw'[d] = hnsw[d]
  BY <1>2, <1>5, <1>7, HnswStage
<1>8. ASSUME r.doc \in OnWal
      PROVE  InFlat(flat', r.doc, r) /\ InHnsw(hnsw', r.doc, r)
  <2>1. r.type = "FLAT" => ~HasFlat(flat, r.doc)
    BY <1>1, <1>3, <1>5, <1>8 DEF Agrees
  <2>2. r.type = "FLAT" => \A v \in Vecs : flat[<<r.doc, v>>] > 0 => v = r.vec
    BY <2>1 DEF HasFlat
  <2>3. InFlat(UpsertFlat(flat, r), r.doc, r)
    BY <1>2, <1>5, <2>2, FlatInserted
  <2>q. QED BY <1>2, <1>5, <2>3, HnswStage
<1>9. ASSUME NEW d \in OnWal, d = r.doc
      PROVE  \E q \in LinesOf(wal, d) : wal[q].req = r /\ q \notin UpTo(wal, increaseID)
  BY <1>1, <1>3, <1>5, <1>9, BusyLine
<1>10. \A d \in OnWal' : FromLines(wal, d, flat)'
  <2>1. ASSUME NEW d \in OnWal PROVE FromLines(wal, d, flat')
    <3>1. FromLines(wal, d, flat)
      BY DEF DataInv, Known
    <3>2. CASE d = r.doc /\ r.type = "FLAT"
      <4>1. \A v \in Vecs : flat'[<<d, v>>] > 0 => v = r.vec
        BY <1>8, <3>2 DEF InFlat
      <4>q. QED BY <1>9, <3>2, <4>1 DEF FromLines
    <3>3. CASE ~(d = r.doc /\ r.type = "FLAT")
      BY <1>6, <3>1, <3>3 DEF FromLines
    <3>q. QED BY <3>2, <3>3
  <2>q. QED BY <1>1, <1>5, <2>1
<1>11. \A d \in OnWal' : Agrees(d)'
  <2>1. ASSUME NEW d \in OnWal PROVE Agrees(d)'
    <3>1. CASE d = r.doc
      BY <1>1, <1>3, <1>5, <1>8, <3>1 DEF Agrees
    <3>2. CASE d # r.doc
      <4>1. /\ HasFlat(flat', d) <=> HasFlat(flat, d)
            /\ \A x : InFlat(flat', d, x) <=> InFlat(flat, d, x)
            /\ \A x : InHnsw(hnsw', d, x) <=> InHnsw(hnsw, d, x)
        BY <1>6, <1>7, <3>2 DEF HasFlat, InFlat, InHnsw
      <4>2. ~Busy(d)' /\ ~Busy(d) /\ Agrees(d)
        BY <1>5, <3>2
      <4>q. QED BY <1>1, <4>1, <4>2 DEF Agrees
    <3>q. QED BY <3>1, <3>2
  <2>q. QED BY <1>5, <2>1
<1>12. ASSUME NEW d \in OnWal
       PROVE  /\ \/ \A v \in Vecs : flat'[<<d, v>>] = flat[<<d, v>>]
                 \/ \E q \in TypeLines(wal, d, "FLAT") : q \notin UpTo(wal, increaseID)
              /\ \/ hnsw'[d] = hnsw[d]
                 \/ \E q \in TypeLines(wal, d, "HNSW") : q \notin UpTo(wal, increaseID)
  BY <1>6, <1>7, <1>9 DEF TypeLines
<1>q. QED BY <1>1, <1>5, <1>10, <1>11, <1>12, IndexesOnly

LEMMA UpsertFieldsData == NodeInv /\ Mirror /\ DataInv /\ UpsertFields => DataInv'
<1> SUFFICES ASSUME NodeInv, Mirror, DataInv, UpsertFields PROVE DataInv'
  OBVIOUS
<1>1. /\ mode = "up" /\ pc = "filter" /\ pc' = "put"
      /\ filter' = UpsertFilter(filter, cur, old)
      /\ UNCHANGED <<wal, scalar, fFlat, fHnsw, fFilter, fMarker, mode, increaseID, snap,
                     flat, hnsw, offWal, cur>>
  BY DEF NodeInv, LogInv, UpsertFields, disk, ids, ghosts, snapping
<1>2. cur \in Request /\ filter \in FilterType
  BY <1>1 DEF NodeInv, TypeOK, IndexOK, ThreadsOK
<1>3. PICK r : r = cur
  OBVIOUS
<1>4. /\ r \in Request /\ OnWal' = OnWal /\ filter' = UpsertFilter(filter, r, old)
      /\ \A d \in OnWal : d \in Docs /\ Agrees(d) /\ (Busy(d) <=> d = r.doc)
      /\ \A d \in OnWal : Busy(d)' <=> d = r.doc
  BY <1>1, <1>2, <1>3 DEF OnWal, DataInv, AgreesInv, Busy
<1>5. ASSUME NEW d \in OnWal, d # r.doc \/ r.tag = NoTag
      PROVE  \A t \in Tags : d \in filter'[t] <=> d \in filter[t]
  BY <1>2, <1>4, <1>5, FilterStage
<1>6. InFilter(filter', r.doc, r)
  BY <1>2, <1>4, FilterStage
<1>7. \A d \in OnWal' : FromLines(wal, d, flat)'
  BY <1>1, <1>4 DEF DataInv, Known
<1>8. \A d \in OnWal' : Agrees(d)'
  <2>1. ASSUME NEW d \in OnWal PROVE Agrees(d)'
    <3>1. CASE d = r.doc
      BY <1>1, <1>3, <1>4, <1>6, <3>1 DEF Agrees
    <3>2. CASE d # r.doc
      <4>1. \A x \in Request : InFilter(filter', d, x) <=> InFilter(filter, d, x)
        BY <1>5, <3>2 DEF InFilter, Request
      <4>2. ~Busy(d)' /\ ~Busy(d) /\ Agrees(d) /\ scalar[d] \in Request \cup {NoData}
        BY <1>4, <3>2 DEF NodeInv, TypeOK, DiskOK
      <4>q. QED BY <1>1, <4>1, <4>2 DEF Agrees
    <3>q. QED BY <3>1, <3>2
  <2>q. QED BY <1>4, <2>1
<1>9. ASSUME NEW d \in OnWal
      PROVE  \/ \A t \in Tags : d \in filter'[t] <=> d \in filter[t]
             \/ \E q \in TagLines(wal, d) : q \notin UpTo(wal, increaseID)
  <2>1. CASE d = r.doc /\ r.tag # NoTag
    <3>1. PICK q \in LinesOf(wal, d) : wal[q].req = r /\ q \notin UpTo(wal, increaseID)
      BY <1>1, <1>3, <1>4, <2>1, BusyLine
    <3>q. QED BY <2>1, <3>1 DEF TagLines
  <2>q. QED BY <1>5, <2>1
<1>q. QED BY <1>1, <1>4, <1>7, <1>8, <1>9, IndexesOnly

\* HTTP /insert changes only what it takes out of the scope of these facts.
LEMMA InsertData ==
    ASSUME NodeInv, Mirror, DataInv, NEW r \in Inserts, Insert(r)
    PROVE  DataInv'
<1>1. /\ mode = "up" /\ flat' = UpsertFlat(flat, r) /\ hnsw' = UpsertHnsw(hnsw, r)
      /\ offWal' = offWal \cup {r.doc}
      /\ UNCHANGED <<wal, scalar, fFlat, fHnsw, fFilter, fMarker, mode, increaseID, snap,
                     filter, pc, cur>>
  BY DEF Insert, disk, ids, upserting
<1>2. r \in Request /\ flat \in FlatType /\ hnsw \in HnswType
  BY NodeAssumption DEF NodeInv, TypeOK, IndexOK
<1>3. \A d \in OnWal' : d \in OnWal /\ d \in Docs /\ d # r.doc
  BY <1>1 DEF OnWal
<1>4. ASSUME NEW d \in OnWal'
      PROVE  (\A v \in Vecs : flat'[<<d, v>>] = flat[<<d, v>>]) /\ hnsw'[d] = hnsw[d]
  <2>1. \A v \in Vecs : flat'[<<d, v>>] = flat[<<d, v>>]
    BY <1>1, <1>2, <1>3, FlatElsewhere
  <2>2. hnsw'[d] = hnsw[d]
    BY <1>1, <1>2, <1>3, HnswStage
  <2>q. QED BY <2>1, <2>2
<1>5. ASSUME NEW d \in OnWal' PROVE FromLines(wal, d, flat)'
  <2>1. FromLines(wal, d, flat)
    BY <1>3 DEF DataInv, Known
  <2>q. QED BY <1>1, <1>4, <2>1 DEF FromLines
<1>6. ASSUME NEW d \in OnWal' PROVE Agrees(d)'
  <2>1. Agrees(d)
    BY <1>1, <1>3 DEF DataInv, AgreesInv
  <2>2. /\ HasFlat(flat', d) <=> HasFlat(flat, d)
        /\ \A x : InFlat(flat', d, x) <=> InFlat(flat, d, x)
        /\ \A x : InHnsw(hnsw', d, x) <=> InHnsw(hnsw, d, x)
    BY <1>4 DEF HasFlat, InFlat, InHnsw
  <2>q. QED BY <1>1, <2>1, <2>2 DEF Agrees, Busy
<1>q. QED BY <1>1, <1>4, <1>5, <1>6, IndexesOnly

\* The last statement of upsert: RocksDB gets what the indexes have.
LEMMA UpsertPutData == NodeInv /\ Mirror /\ DataInv /\ UpsertPut => DataInv'
<1> SUFFICES ASSUME NodeInv, Mirror, DataInv, UpsertPut PROVE DataInv'
  OBVIOUS
<1>1. /\ mode = "up" /\ pc = "put" /\ pc' = "idle"
      /\ scalar' = [scalar EXCEPT ![cur.doc] = cur]
      /\ UNCHANGED <<wal, fFlat, fHnsw, fFilter, fMarker, mode, increaseID, snap,
                     flat, hnsw, filter, offWal>>
  BY DEF NodeInv, LogInv, UpsertPut, files, ids, indexes, snapping, ghosts
<1>2. cur \in Request /\ cur.doc \in Docs /\ cur # NoData /\ scalar \in [Docs -> Request \cup {NoData}]
  BY <1>1, NoDataAssumption DEF NodeInv, TypeOK, DiskOK, ThreadsOK, Request
<1>3. OnWal' = OnWal /\ Applied' = Applied /\ Applied = UpTo(wal, increaseID)
  BY <1>1, UpFacts DEF OnWal, Applied
<1>4. ASSUME NEW d \in Docs
      PROVE  scalar'[d] = IF d = cur.doc THEN cur ELSE scalar[d]
  BY <1>1, <1>2
<1>5. Stored'
  <2>1. ASSUME NEW p \in Applied PROVE scalar'[wal[p].req.doc] # NoData
    <3>1. wal[p].req.doc \in Docs
      <4>1. p \in DOMAIN wal /\ wal \in Seq(WalEntry)
        BY <1>1, <1>3, UpFacts DEF UpTo
      <4>q. QED BY <4>1, WalLines DEF Request
    <3>2. scalar[wal[p].req.doc] # NoData
      BY DEF DataInv, Stored
    <3>q. QED BY <1>2, <1>4, <3>1, <3>2
  <2>q. QED BY <1>1, <1>3, <2>1 DEF Stored
<1>6. Known'
  BY <1>1, <1>3 DEF DataInv, Known
<1>7. AgreesInv'
  <2>1. ASSUME NEW d \in OnWal PROVE Agrees(d)'
    <3>1. d \in Docs /\ Agrees(d) /\ ~Busy(d)' /\ (Busy(d) <=> d = cur.doc)
      BY <1>1 DEF OnWal, DataInv, AgreesInv, Busy
    <3>2. CASE d = cur.doc
      <4>1. scalar'[d] = cur /\ InFlat(flat, d, cur) /\ InHnsw(hnsw, d, cur) /\ InFilter(filter, d, cur)
        BY <1>1, <1>4, <3>1, <3>2 DEF Agrees
      <4>q. QED BY <1>1, <1>2, <3>1, <4>1 DEF Agrees
    <3>3. CASE d # cur.doc
      <4>1. scalar'[d] = scalar[d] /\ ~Busy(d)
        BY <1>4, <3>1, <3>3
      <4>q. QED BY <1>1, <3>1, <4>1 DEF Agrees
    <3>q. QED BY <3>2, <3>3
  <2>q. QED BY <1>3, <2>1 DEF AgreesInv
<1>8. ASSUME NEW d \in OnWal, NEW m \in {fMarker, increaseID}
      PROVE  scalar'[d] = scalar[d] \/ \E q \in LinesOf(wal, d) : q \notin UpTo(wal, m)
  <2>1. CASE d = cur.doc
    BY <1>1, <2>1, BusyLine DEF Busy
  <2>2. CASE d # cur.doc
    BY <1>4, <2>2 DEF OnWal
  <2>q. QED BY <2>1, <2>2
<1>9. ASSUME NEW d \in OnWal, NEW m \in {fMarker, increaseID}
      PROVE  /\ \A fl : FlatFit(wal, UpTo(wal, m), d, scalar[d], fl)
                           => FlatFit(wal, UpTo(wal, m), d, scalar'[d], fl)
             /\ \A hn : HnswFit(wal, UpTo(wal, m), d, scalar[d], hn)
                           => HnswFit(wal, UpTo(wal, m), d, scalar'[d], hn)
             /\ \A fi : FilterFit(wal, UpTo(wal, m), d, scalar[d], fi)
                           => FilterFit(wal, UpTo(wal, m), d, scalar'[d], fi)
  <2>1. PICK x : x = scalar[d]
    OBVIOUS
  <2>2. PICK y : y = scalar'[d]
    OBVIOUS
  <2>3. y = x \/ \E q \in LinesOf(wal, d) : q \notin UpTo(wal, m)
    BY <1>8, <2>1, <2>2
  <2>q. QED BY <2>1, <2>2, <2>3, FitsKept
<1>10. Memory'
  <2>1. \A d \in OnWal : MemoryFits(d)
    BY <1>1 DEF DataInv, Memory
  <2>q. QED BY <1>1, <1>3, <1>9, <2>1 DEF Memory, MemoryFits
<1>11. Files'
  BY <1>1, <1>3, <1>9 DEF DataInv, Files, FlatFile, HnswFile, FilterFile
<1>12. Order'
  BY <1>1 DEF DataInv, Order, Ordered
<1>q. QED BY <1>5, <1>6, <1>7, <1>10, <1>11, <1>12 DEF DataInv

(* main(): start and reload.                                               *)

\* Start and the rounds that change nothing but the position.
LEMMA ReloadFrameData ==
    NodeInv /\ DataInv /\ (Start \/ ReloadSkip \/ ReloadDone) => DataInv'
<1> SUFFICES ASSUME NodeInv, DataInv, Start \/ ReloadSkip \/ ReloadDone PROVE DataInv'
  OBVIOUS
<1>1. /\ UNCHANGED <<wal, scalar, fFlat, fHnsw, fFilter, fMarker, offWal, snap>> /\ mode # "up"
      /\ mode' \in {"reload", "up"}
  BY DEF Start, ReloadSkip, ReloadDone, ReadLine, disk, ghosts, snapping
<1>2. /\ wal \in Seq(WalEntry) /\ increaseID \in Nat /\ fMarker \in Nat /\ pos \in Nat
      /\ snap = "idle" /\ pc = "idle"
  BY <1>1 DEF NodeInv, TypeOK, DiskOK, IdsOK, LogInv
<1>3. ReloadDone => Applied' = DOMAIN wal /\ Applied = DOMAIN wal
                    /\ increaseID' = increaseID /\ UpTo(wal, increaseID) = DOMAIN wal
  <2> SUFFICES ASSUME ReloadDone
               PROVE  Applied' = DOMAIN wal /\ Applied = DOMAIN wal
                      /\ increaseID' = increaseID /\ UpTo(wal, increaseID) = DOMAIN wal
    OBVIOUS
  <2>1. /\ mode = "reload" /\ mode' = "up" /\ increaseID' = increaseID /\ ReadBound
        /\ pos > Len(wal)
    BY DEF ReloadDone, ids, NodeInv, LogInv
  <2>2. \A p \in DOMAIN wal : wal[p].id <= increaseID
    BY <1>2, <2>1, WalLines DEF ReadBound
  <2>q. QED BY <1>1, <2>1, <2>2, LoadedReload DEF Applied, UpTo
<1>4. Applied' = Applied
  <2>1. CASE ReloadDone
    BY <1>3, <2>1
  <2>2. CASE Start \/ ReloadSkip
    BY <1>1, <2>2, LoadedReload DEF Applied, Start, ReloadSkip
  <2>q. QED BY <2>1, <2>2
<1>5. OnWal' = OnWal
  BY <1>1 DEF OnWal
<1>6. /\ flat' \in {flat, fFlat} /\ (flat' = fFlat => flat' = flat \/ fFlat # Torn)
  BY DEF Start, ReloadSkip, ReloadDone, indexes, Loadable
<1>7. Stored'
  BY <1>1, <1>4 DEF DataInv, Stored
<1>8. Known'
  BY <1>1, <1>5, <1>6 DEF DataInv, Known
<1>9. Memory'
  <2>1. CASE Start
    <3>1. Applied = UpTo(wal, fMarker) /\ fFlat # Torn /\ fHnsw # Torn
          /\ flat' = fFlat /\ hnsw' = fHnsw /\ filter' = fFilter
      BY <2>1 DEF Start, Loadable, Applied, Loaded
    <3>2. \A d \in OnWal : /\ FlatFit(wal, UpTo(wal, fMarker), d, scalar[d], fFlat)
                           /\ HnswFit(wal, UpTo(wal, fMarker), d, scalar[d], fHnsw)
                           /\ FilterFit(wal, UpTo(wal, fMarker), d, scalar[d], fFilter)
      BY <3>1 DEF DataInv, Files, FlatFile, HnswFile, FilterFile
    <3>q. QED BY <1>1, <1>4, <1>5, <3>1, <3>2 DEF Memory, MemoryFits
  <2>2. CASE ReloadSkip \/ ReloadDone
    <3>1. UNCHANGED <<flat, hnsw, filter>> /\ mode = "reload"
      BY <2>2 DEF ReloadSkip, ReloadDone, ReadLine, indexes
    <3>2. \A d \in OnWal : MemoryFits(d)
      BY <3>1 DEF DataInv, Memory
    <3>q. QED BY <1>1, <1>4, <1>5, <3>1, <3>2 DEF Memory, MemoryFits
  <2>q. QED BY <2>1, <2>2
<1>10. AgreesInv'
  <2> SUFFICES ASSUME mode' = "up", NEW d \in OnWal PROVE Agrees(d)'
    BY <1>5 DEF AgreesInv
  <2>1. ReloadDone
    BY <1>1 DEF Start, ReloadSkip
  <2>2. /\ UNCHANGED <<flat, hnsw, filter, pc, cur>> /\ mode = "reload"
        /\ Applied = DOMAIN wal
    BY <1>3, <2>1 DEF ReloadDone, indexes, upserting
  <2>3. ~Busy(d)'
    BY <1>2, <2>2 DEF Busy
  <2>4. MemoryFits(d) /\ LinesOf(wal, d) \subseteq Applied
    BY <2>2 DEF DataInv, Memory, LinesOf
  <2>5. scalar[d] # NoData => /\ InFlat(flat, d, scalar[d]) /\ InHnsw(hnsw, d, scalar[d])
                              /\ InFilter(filter, d, scalar[d])
    BY <2>4 DEF MemoryFits, FlatFit, HnswFit, FilterFit, Fit
  <2>6. scalar[d] = NoData => ~HasFlat(flat, d)
    <3>1. \A p \in LinesOf(wal, d) : scalar[d] # NoData
      BY <2>4 DEF DataInv, Stored, LinesOf
    <3>2. FromLines(wal, d, flat)
      BY DEF DataInv, Known
    <3>q. QED BY <3>1, <3>2 DEF FromLines, HasFlat
  <2>q. QED BY <1>1, <2>2, <2>3, <2>5, <2>6 DEF Agrees
<1>11. Files'
  BY <1>1, <1>2, <1>5 DEF DataInv, Files, FlatFile, HnswFile, FilterFile, FlatSaved, HnswSaved, FilterSaved
<1>12. Order'
  <2>1. mode' = "up" => UpTo(wal, increaseID') = DOMAIN wal
    BY <1>1, <1>3 DEF Start, ReloadSkip
  <2>q. QED BY <1>1, <2>1 DEF DataInv, Order, Ordered
<1>q. QED BY <1>7, <1>8, <1>9, <1>10, <1>11, <1>12 DEF DataInv

\* One more line in effect: its document is in the indexes as it says.
LEMMA FlatReplayed ==
    ASSUME NEW w, NEW A, NEW k, NEW fl, NEW x, w[k].req.type # "FLAT" \/ HasFlat(fl, w[k].req.doc),
           InFlat(fl, w[k].req.doc, w[k].req),
           NEW was, w[k].req.type # "FLAT" => \A v \in Vecs : fl[<<w[k].req.doc, v>>] = was[<<w[k].req.doc, v>>],
           FlatFit(w, A, w[k].req.doc, x, was)
    PROVE  FlatFit(w, A \cup {k}, w[k].req.doc, w[k].req, fl)
<1> DEFINE d == w[k].req.doc
           C == TypeLines(w, d, "FLAT")
<1>1. CASE w[k].req.type = "FLAT"
  BY <1>1 DEF FlatFit, Fit
<1>2. CASE w[k].req.type # "FLAT"
  <2>1. k \notin C
    BY <1>2 DEF TypeLines
  <2>2. C \cap (A \cup {k}) = C \cap A /\ C \ (A \cup {k}) = C \ A
    BY <2>1
  <2>3. HasFlat(fl, d) <=> HasFlat(was, d)
    BY <1>2 DEF HasFlat
  <2>q. QED BY <2>2, <2>3 DEF FlatFit, Fit
<1>q. QED BY <1>1, <1>2

LEMMA HnswReplayed ==
    ASSUME NEW w, NEW A, NEW k, NEW hn, NEW x, w[k].req.type # "HNSW" \/ HasHnsw(hn, w[k].req.doc),
           InHnsw(hn, w[k].req.doc, w[k].req),
           NEW was, w[k].req.type # "HNSW" => hn[w[k].req.doc] = was[w[k].req.doc],
           HnswFit(w, A, w[k].req.doc, x, was)
    PROVE  HnswFit(w, A \cup {k}, w[k].req.doc, w[k].req, hn)
<1> DEFINE d == w[k].req.doc
           C == TypeLines(w, d, "HNSW")
<1>1. CASE w[k].req.type = "HNSW"
  BY <1>1 DEF HnswFit, Fit
<1>2. CASE w[k].req.type # "HNSW"
  <2>1. k \notin C
    BY <1>2 DEF TypeLines
  <2>2. C \cap (A \cup {k}) = C \cap A /\ C \ (A \cup {k}) = C \ A
    BY <2>1
  <2>3. HasHnsw(hn, d) <=> HasHnsw(was, d)
    BY <1>2 DEF HasHnsw
  <2>q. QED BY <2>2, <2>3 DEF HnswFit, Fit
<1>q. QED BY <1>1, <1>2

LEMMA FilterReplayed ==
    ASSUME NEW w, NEW A, NEW k, NEW fi, NEW x, w[k].req.tag = NoTag \/ HasTag(fi, w[k].req.doc),
           InFilter(fi, w[k].req.doc, w[k].req),
           NEW was, w[k].req.tag = NoTag => fi = was,
           FilterFit(w, A, w[k].req.doc, x, was)
    PROVE  FilterFit(w, A \cup {k}, w[k].req.doc, w[k].req, fi)
<1> DEFINE d == w[k].req.doc
           C == TagLines(w, d)
<1>1. CASE w[k].req.tag # NoTag
  BY <1>1 DEF FilterFit, Fit
<1>2. CASE w[k].req.tag = NoTag
  <2>1. k \notin C
    BY <1>2 DEF TagLines
  <2>2. C \cap (A \cup {k}) = C \cap A /\ C \ (A \cup {k}) = C \ A
    BY <2>1
  <2>q. QED BY <1>2, <2>2 DEF FilterFit, Fit
<1>q. QED BY <1>1, <1>2

\* The line is not of the document d.
LEMMA OtherReplayed ==
    ASSUME NEW w, NEW A, NEW k, NEW d, NEW x, k \notin LinesOf(w, d)
    PROVE  /\ \A fl : FlatFit(w, A, d, x, fl) => FlatFit(w, A \cup {k}, d, x, fl)
           /\ \A hn : HnswFit(w, A, d, x, hn) => HnswFit(w, A \cup {k}, d, x, hn)
           /\ \A fi : FilterFit(w, A, d, x, fi) => FilterFit(w, A \cup {k}, d, x, fi)
<1>1. \A L : L \subseteq LinesOf(w, d) => /\ L \cap (A \cup {k}) = L \cap A
                                          /\ L \ (A \cup {k}) = L \ A
  OBVIOUS
<1>2. LinesOf(w, d) \subseteq A \cup {k} => LinesOf(w, d) \subseteq A
  OBVIOUS
<1>3. /\ \A t : TypeLines(w, d, t) \subseteq LinesOf(w, d)
      /\ TagLines(w, d) \subseteq LinesOf(w, d)
  BY DEF TypeLines, TagLines
<1>q. QED BY <1>1, <1>2, <1>3 DEF FlatFit, HnswFit, FilterFit, Fit

LEMMA ReloadUpsertData == NodeInv /\ DataInv /\ ReloadUpsert => DataInv'
<1> SUFFICES ASSUME NodeInv, DataInv, ReloadUpsert PROVE DataInv'
  OBVIOUS
<1>1. PICK r : r = wal[pos].req
  OBVIOUS
<1>2. PICK o : o = scalar[r.doc]
  OBVIOUS
<1>3. /\ mode = "reload" /\ ~(wal[pos].id <= fMarker) /\ pos \in DOMAIN wal
      /\ flat' = UpsertFlat(UpsertRemove(flat, r, o), r)
      /\ hnsw' = UpsertHnsw(hnsw, r) /\ filter' = UpsertFilter(filter, r, o)
      /\ scalar' = [scalar EXCEPT ![r.doc] = r]
      /\ UNCHANGED <<wal, fFlat, fHnsw, fFilter, fMarker, mode, offWal, snap>>
  BY <1>1, <1>2, LoadedReload DEF ReloadUpsert, ReadLine, SkipsLine, files, ghosts, snapping,
     NodeInv, LogInv, ReadBound
<1>4. /\ r \in Request /\ r.doc \in Docs /\ r # NoData /\ r.vec \in Vecs /\ wal \in Seq(WalEntry)
      /\ scalar \in [Docs -> Request \cup {NoData}]
      /\ flat \in FlatType /\ hnsw \in HnswType /\ filter \in FilterType
      /\ snap = "idle" /\ pc = "idle"
  <2>1. wal \in Seq(WalEntry) /\ r \in Request
    BY <1>1, <1>3, WalLines DEF NodeInv, TypeOK, DiskOK
  <2>q. QED BY <1>3, <2>1, NoDataAssumption DEF NodeInv, TypeOK, DiskOK, IndexOK, LogInv, Request
<1>5. /\ Applied' = Applied \cup {pos} /\ OnWal' = OnWal
      /\ pos \in LinesOf(wal, r.doc) /\ \A d : d # r.doc => pos \notin LinesOf(wal, d)
  BY <1>1, <1>3, LoadedReload DEF Applied, OnWal, LinesOf
<1>6. /\ scalar'[r.doc] = r
      /\ \A d \in Docs : d # r.doc => scalar'[d] = scalar[d]
  BY <1>3, <1>4
<1>7. PICK rest : rest = UpsertRemove(flat, r, o)
  OBVIOUS
<1>8. rest \in FlatType /\ flat' = UpsertFlat(rest, r)
  BY <1>3, <1>4, <1>7, FlatTypes
<1>9. ASSUME NEW d \in Docs, d # r.doc \/ r.type # "FLAT"
      PROVE  \A v \in Vecs : flat'[<<d, v>>] = flat[<<d, v>>]
  <2>1. \A v \in Vecs : rest[<<d, v>>] = flat[<<d, v>>]
    BY <1>4, <1>7, <1>9, FlatElsewhere
  <2>2. \A v \in Vecs : UpsertFlat(rest, r)[<<d, v>>] = rest[<<d, v>>]
    BY <1>4, <1>8, <1>9, FlatElsewhere
  <2>q. QED BY <1>8, <2>1, <2>2
\* Nothing of the document is left, or nothing but what this line will insert.
<1>10. r.doc \in OnWal /\ LinesOf(wal, r.doc) \subseteq Applied' /\ r.type = "FLAT"
          => \A v \in Vecs : rest[<<r.doc, v>>] > 0 => v = r.vec
  <2> SUFFICES ASSUME r.doc \in OnWal, LinesOf(wal, r.doc) \subseteq Applied', r.type = "FLAT"
               PROVE  \A v \in Vecs : rest[<<r.doc, v>>] > 0 => v = r.vec
    OBVIOUS
  <2>1. CASE o # NoData
    <3>1. ~HasFlat(rest, r.doc)
      BY <1>4, <1>7, <2>1, FlatRemoved
    <3>q. QED BY <3>1 DEF HasFlat
  <2>2. CASE o = NoData
    <3>1. \A p \in LinesOf(wal, r.doc) : p = pos
      BY <1>2, <1>5, <2>2 DEF DataInv, Stored, LinesOf
    <3>2. \A v \in Vecs : flat[<<r.doc, v>>] > 0 => v = r.vec
      BY <1>1, <3>1 DEF DataInv, Known, FromLines
    <3>3. rest = flat
      BY <1>7, <2>2 DEF UpsertRemove
    <3>q. QED BY <3>2, <3>3
  <2>q. QED BY <2>1, <2>2
<1>11. r.type = "FLAT" => HasFlat(flat', r.doc)
  <2>1. ASSUME r.type = "FLAT" PROVE flat'[<<r.doc, r.vec>>] > 0
    <3>1. /\ flat'[<<r.doc, r.vec>>] = rest[<<r.doc, r.vec>>] + 1
          /\ rest[<<r.doc, r.vec>>] \in Nat
      BY <1>4, <1>8, <2>1, FlatStages
    <3>q. QED BY <3>1
  <2>q. QED BY <1>4, <2>1 DEF HasFlat
<1>12. Stored'
  <2>1. ASSUME NEW p \in Applied PROVE scalar'[wal[p].req.doc] # NoData
    <3>1. p \in DOMAIN wal
      BY <1>3 DEF Applied, Loaded, UpTo
    <3>2. wal[p].req.doc \in Docs
      BY <1>4, <3>1, WalLines DEF Request
    <3>3. scalar[wal[p].req.doc] # NoData
      BY DEF DataInv, Stored
    <3>q. QED BY <1>4, <1>6, <3>2, <3>3
  <2>2. scalar'[wal[pos].req.doc] # NoData
    BY <1>1, <1>4, <1>6
  <2>q. QED BY <1>3, <1>5, <2>1, <2>2 DEF Stored
<1>13. Known'
  <2>1. ASSUME NEW d \in OnWal PROVE FromLines(wal, d, flat')
    <3>1. d \in Docs /\ FromLines(wal, d, flat)
      BY DEF DataInv, Known, OnWal
    <3>2. CASE d # r.doc
      BY <1>9, <3>1, <3>2 DEF FromLines
    <3>3. CASE d = r.doc
      <4>1. ASSUME NEW v \in Vecs, flat'[<<d, v>>] > 0
            PROVE  v = r.vec \/ flat[<<d, v>>] > 0
        <5>1. /\ rest[<<d, v>>] = 0 \/ rest[<<d, v>>] = flat[<<d, v>>]
              /\ flat'[<<d, v>>] = rest[<<d, v>>] \/ v = r.vec
          <6>1. rest[<<d, v>>] = 0 \/ rest[<<d, v>>] = flat[<<d, v>>]
            BY <1>4, <1>7, <3>1, FlatStages
          <6>2. flat'[<<d, v>>] = rest[<<d, v>>] \/ v = r.vec
            BY <1>4, <1>8, <3>1, FlatStages
          <6>q. QED BY <6>1, <6>2
        <5>q. QED BY <4>1, <5>1
      <4>q. QED BY <1>1, <1>5, <3>1, <3>3, <4>1 DEF FromLines
    <3>q. QED BY <3>2, <3>3
  <2>q. QED BY <1>3, <1>5, <2>1 DEF DataInv, Known
<1>14. AgreesInv'
  BY <1>3 DEF AgreesInv
<1>15. Memory'
  <2>1. ASSUME NEW d \in OnWal PROVE MemoryFits(d)'
    <3>1. MemoryFits(d) /\ d \in Docs
      BY <1>3 DEF DataInv, Memory, OnWal
    <3>2. CASE d # r.doc
      <4>1. /\ FlatFit(wal, Applied', d, scalar[d], flat)
            /\ HnswFit(wal, Applied', d, scalar[d], hnsw)
            /\ FilterFit(wal, Applied', d, scalar[d], filter)
        BY <1>5, <3>1, <3>2, OtherReplayed DEF MemoryFits
      <4>2. FlatFit(wal, Applied', d, scalar[d], flat')
        BY <1>9, <3>1, <3>2, <4>1, FlatFitChanged
      <4>3. HnswFit(wal, Applied', d, scalar[d], hnsw')
        <5>1. hnsw'[d] = hnsw[d]
          BY <1>3, <1>4, <3>1, <3>2, HnswStage
        <5>q. QED BY <4>1, <5>1, HnswFitChanged
      <4>4. FilterFit(wal, Applied', d, scalar[d], filter')
        <5>1. \A t \in Tags : d \in filter'[t] <=> d \in filter[t]
          BY <1>3, <1>4, <3>1, <3>2, FilterStage
        <5>2. scalar[d] \in Request \cup {NoData}
          BY <1>4, <3>1
        <5>q. QED BY <4>1, <5>1, <5>2, FilterFitChanged
      <4>q. QED BY <1>3, <1>6, <3>1, <3>2, <4>2, <4>3, <4>4 DEF MemoryFits
    <3>3. CASE d = r.doc
      <4>1. FlatFit(wal, Applied', d, r, flat')
        <5>1. CASE LinesOf(wal, d) \subseteq Applied'
          <6>1. r.type = "FLAT" => \A v \in Vecs : rest[<<r.doc, v>>] > 0 => v = r.vec
            BY <1>10, <3>3, <5>1
          <6>2. InFlat(flat', r.doc, r)
            BY <1>4, <1>8, <6>1, FlatInserted
          <6>3. r.type # "FLAT" => \A v \in Vecs : flat'[<<r.doc, v>>] = flat[<<r.doc, v>>]
            BY <1>4, <1>9
          <6>q. QED BY <1>1, <1>5, <1>11, <3>1, <3>3, <6>2, <6>3, FlatReplayed DEF MemoryFits
        <5>2. CASE ~(LinesOf(wal, d) \subseteq Applied')
          <6>1. CASE r.type = "FLAT"
            BY <1>11, <3>3, <5>2, <6>1 DEF FlatFit, Fit
          <6>2. CASE r.type # "FLAT"
            <7>1. \A v \in Vecs : flat'[<<r.doc, v>>] = flat[<<r.doc, v>>]
              BY <1>4, <1>9, <6>2
            <7>2. InFlat(flat', r.doc, r)
              BY <6>2 DEF InFlat
            <7>q. QED BY <1>1, <1>5, <3>1, <3>3, <6>2, <7>1, <7>2, FlatReplayed DEF MemoryFits
          <6>q. QED BY <6>1, <6>2
        <5>q. QED BY <5>1, <5>2
      <4>2. HnswFit(wal, Applied', d, r, hnsw')
        <5>1. /\ InHnsw(hnsw', r.doc, r) /\ (r.type # "HNSW" \/ HasHnsw(hnsw', r.doc))
              /\ r.type # "HNSW" => hnsw'[r.doc] = hnsw[r.doc]
          BY <1>3, <1>4, HnswStage
        <5>q. QED BY <1>1, <1>5, <3>1, <3>3, <5>1, HnswReplayed DEF MemoryFits
      <4>3. FilterFit(wal, Applied', d, r, filter')
        <5>1. /\ InFilter(filter', r.doc, r) /\ (r.tag = NoTag \/ HasTag(filter', r.doc))
              /\ r.tag = NoTag => filter' = filter
          BY <1>3, <1>4, FilterStage
        <5>q. QED BY <1>1, <1>5, <3>1, <3>3, <5>1, FilterReplayed DEF MemoryFits
      <4>q. QED BY <1>3, <1>6, <3>3, <4>1, <4>2, <4>3 DEF MemoryFits
    <3>q. QED BY <3>2, <3>3
  <2>q. QED BY <1>3, <1>5, <2>1 DEF Memory
<1>16. Files'
  <2>1. ASSUME NEW d \in OnWal
        PROVE  scalar'[d] = scalar[d] \/ \E q \in LinesOf(wal, d) : q \notin UpTo(wal, fMarker)
    BY <1>3, <1>5, <1>6 DEF OnWal, UpTo
  <2>2. ASSUME NEW d \in OnWal
        PROVE  /\ \A fl : FlatFit(wal, UpTo(wal, fMarker), d, scalar[d], fl)
                             => FlatFit(wal, UpTo(wal, fMarker), d, scalar'[d], fl)
               /\ \A hn : HnswFit(wal, UpTo(wal, fMarker), d, scalar[d], hn)
                             => HnswFit(wal, UpTo(wal, fMarker), d, scalar'[d], hn)
               /\ \A fi : FilterFit(wal, UpTo(wal, fMarker), d, scalar[d], fi)
                             => FilterFit(wal, UpTo(wal, fMarker), d, scalar'[d], fi)
    <3>1. PICK x : x = scalar[d]
      OBVIOUS
    <3>2. PICK y : y = scalar'[d]
      OBVIOUS
    <3>3. y = x \/ \E q \in LinesOf(wal, d) : q \notin UpTo(wal, fMarker)
      BY <2>1, <3>1, <3>2
    <3>q. QED BY <3>1, <3>2, <3>3, FitsKept
  <2>q. QED BY <1>3, <1>4, <1>5, <2>2
            DEF DataInv, Files, FlatFile, HnswFile, FilterFile, FlatSaved, HnswSaved, FilterSaved
<1>17. Order'
  BY <1>3 DEF DataInv, Order, Ordered
<1>q. QED BY <1>12, <1>13, <1>14, <1>15, <1>16, <1>17 DEF DataInv

LEMMA NextData == NodeInv /\ MirrorInv /\ DataInv /\ [Next]_vars => DataInv'
<1> SUFFICES ASSUME NodeInv, MirrorInv, DataInv, [Next]_vars PROVE DataInv'
  OBVIOUS
<1>1. CASE Start \/ Reload
  BY <1>1, ReloadFrameData, ReloadUpsertData, DieData DEF Reload, ReloadAbort
<1>2. CASE Crash \/ CommitAbort
  BY <1>2, DieData DEF Crash, CommitAbort
<1>3. CASE Raft \/ CommitConfig \/ Commit \/ UpsertInsert \/ UpsertFields \/ UpsertPut
              \/ SnapshotThread \/ \E r \in Inserts : Insert(r)
  <2>1. Mirror
    BY <1>3 DEF MirrorInv, NodeInv, LogInv, Raft, AppendApp, AppendConf, ApplyPack, WriteAt,
                WriteAtConf, CommitConfig, Commit, CanCommit, UpsertInsert, UpsertFields, UpsertPut,
                SnapshotThread, TakeSnapshot, SaveFlat, OpenHnsw, SaveHnsw, SaveFilter, OpenMarker,
                SaveMarker, Insert
  <2>q. QED BY <1>3, <2>1, RaftData, CommitConfigData, CommitData, UpsertInsertData,
               UpsertFieldsData, UpsertPutData, SnapshotData, InsertData
<1>4. CASE UNCHANGED vars
  <2>1. /\ UNCHANGED <<wal, scalar, fFlat, fHnsw, fFilter, fMarker, mode, pos, increaseID,
                       flat, hnsw, filter, pc, cur, snap, offWal>>
    BY <1>4 DEF vars
  <2>2. Applied' = Applied /\ OnWal' = OnWal
    BY <2>1 DEF Applied, Loaded, OnWal
  <2>3. Stored' /\ Known' /\ Order' /\ Files'
    BY <2>1, <2>2 DEF DataInv, Stored, Known, Order, Ordered, Files, FlatFile, HnswFile, FilterFile
  <2>4. AgreesInv' /\ Memory'
    BY <2>1, <2>2 DEF DataInv, AgreesInv, Agrees, Busy, Memory, MemoryFits
  <2>q. QED BY <2>3, <2>4 DEF DataInv
<1>q. QED BY <1>1, <1>2, <1>3, <1>4 DEF Next, CommitThread

ServesInv == NodeInv /\ MirrorInv /\ DataInv

LEMMA ServesInvariant == Spec => []ServesInv
<1>1. Init => ServesInv
  BY InitNode, InitMirror, InitData DEF ServesInv
<1>2. ServesInv /\ [Next]_vars => ServesInv'
  BY NextNode, NextMirror, NextData DEF ServesInv
<1>q. QED BY <1>1, <1>2, PTL DEF Spec

\* What /query answers is found by /search, in the index its request named and
\* through the filters on its integer field, over any number of restarts: the
\* snapshot files, their marker and the replay of the WAL fit together.
THEOREM QueriedIsFound == Spec => []SearchAgrees
<1>1. ServesInv => SearchAgrees
  <2> SUFFICES ASSUME ServesInv, NEW d \in Docs \ offWal, Settled(d), Query(d) # NoData
               PROVE  LET r == Query(d)
                          Finds(cond) == <<d, r.vec>> \in SearchHandler(r.type, cond)
                      IN  /\ r.type # "UNKNOWN" => Finds(NoFilter)
                          /\ r.tag # NoTag =>
                              IF r.type = "UNKNOWN" THEN d \in FilterBitmap(filter, "=", r.tag)
                              ELSE /\ Finds(Where("=", r.tag))
                                   /\ \A t \in Tags \ {r.tag} : Finds(Where("!=", t))
    BY DEF SearchAgrees
  <2> DEFINE r == Query(d)
             Finds(cond) == <<d, r.vec>> \in SearchHandler(r.type, cond)
  <2>1. d \in OnWal /\ d \in Docs /\ mode = "up" /\ ~Busy(d) /\ scalar[d] = r /\ r # NoData
    BY DEF OnWal, Settled, Busy, Query
  <2>2. InFlat(flat, d, r) /\ InHnsw(hnsw, d, r) /\ InFilter(filter, d, r)
    BY <2>1 DEF ServesInv, DataInv, AgreesInv, Agrees
  <2>3. /\ r \in Request /\ r.vec \in Vecs /\ r.type \in IndexTypes /\ r.tag \in Tags \cup {NoTag}
        /\ flat \in FlatType /\ hnsw \in HnswType /\ filter \in FilterType
    BY <2>1 DEF ServesInv, NodeInv, TypeOK, DiskOK, IndexOK, Request
  <2>4. ASSUME NEW cond, d \in Admitted(filter, cond), r.type # "UNKNOWN"
        PROVE  Finds(cond)
    <3>1. CASE r.type = "FLAT"
      <4>1. flat[<<d, r.vec>>] > 0
        BY <2>2, <2>3, <3>1 DEF InFlat
      <4>2. <<d, r.vec>> \in DOMAIN flat
        BY <2>1, <2>3 DEF FlatType
      <4>3. <<d, r.vec>> \in SearchFlat(flat, Admitted(filter, cond))
        BY <2>4, <4>1, <4>2 DEF SearchFlat
      <4>q. QED BY <3>1, <4>3 DEF SearchHandler, Search
    <3>2. CASE r.type = "HNSW"
      <4>1. hnsw[d] = r.vec /\ d \in HnswLabels(hnsw)
        BY <2>1, <2>2, <2>3, <3>2, IndexAssumption DEF InHnsw, HnswLabels, HnswType
      <4>2. <<d, r.vec>> \in SearchHnsw(hnsw, Admitted(filter, cond))
        BY <2>4, <4>1 DEF SearchHnsw
      <4>q. QED BY <3>2, <4>2 DEF SearchHandler, Search
    <3>q. QED BY <2>3, <2>4, <3>1, <3>2 DEF IndexTypes
  <2>5. d \in Admitted(filter, NoFilter)
    BY <2>1 DEF Admitted
  <2>6. \A op, t : Where(op, t).op = op /\ Where(op, t).value = t
    BY DEF Where
  <2>7. Where("=", r.tag) # NoFilter /\ \A t : Where("!=", t) # NoFilter
    BY <2>6 DEF NoFilter
  <2>8. r.tag # NoTag => d \in FilterBitmap(filter, "=", r.tag)
    BY <2>2 DEF InFilter, FilterBitmap
  <2>9. ASSUME r.tag # NoTag, NEW t \in Tags \ {r.tag}
        PROVE  d \in FilterBitmap(filter, "!=", t)
    <3>1. r.tag \in DOMAIN filter \ {t} /\ d \in filter[r.tag]
      BY <2>2, <2>3, <2>9 DEF InFilter, FilterType
    <3>q. QED BY <3>1 DEF FilterBitmap
  <2>10. r.tag # NoTag => d \in Admitted(filter, Where("=", r.tag))
    BY <2>6, <2>7, <2>8 DEF Admitted
  <2>11. ASSUME r.tag # NoTag, NEW t \in Tags \ {r.tag}
         PROVE  d \in Admitted(filter, Where("!=", t))
    BY <2>6, <2>7, <2>9, <2>11 DEF Admitted
  <2> HIDE DEF Finds
  <2>q. QED BY <2>4, <2>5, <2>8, <2>10, <2>11 DEF Finds
<1>q. QED BY <1>1, ServesInvariant, PTL

\* No upsert, replay or snapshot leaves or brings back an older vector of a
\* document in the FLAT index.
THEOREM FlatHasOneVector == Spec => []FlatFresh
<1>1. ServesInv => FlatFresh
  <2> SUFFICES ASSUME ServesInv, NEW d \in Docs \ offWal, Settled(d), scalar[d] # NoData,
                      scalar[d].type = "FLAT", NEW v \in Vecs, flat[<<d, v>>] > 0
               PROVE  v = scalar[d].vec
    BY DEF FlatFresh
  <2>1. d \in OnWal /\ mode = "up" /\ ~Busy(d)
    BY DEF OnWal, Settled, Busy
  <2>2. InFlat(flat, d, scalar[d])
    BY <2>1 DEF ServesInv, DataInv, AgreesInv, Agrees
  <2>q. QED BY <2>2 DEF InFlat
<1>q. QED BY <1>1, ServesInvariant, PTL

\* A marker on disk never lets reloadDatabase skip a line whose document the
\* readable snapshot files lack, wherever a crash cut the snapshot.
THEOREM MarkerCovers == Spec => []MarkerHidesNothing
<1>1. ServesInv => MarkerHidesNothing
  <2> SUFFICES ASSUME ServesInv, Loadable, NEW p \in DOMAIN wal, wal[p].id <= fMarker,
                      wal[p].req.doc \notin offWal
               PROVE  LET r == wal[p].req
                      IN  \/ \E q \in DOMAIN wal :
                                q > p /\ wal[q].req.doc = r.doc /\ wal[q].id > fMarker
                          \/ /\ r.type = "FLAT" => \E v \in Vecs : fFlat[<<r.doc, v>>] > 0
                             /\ r.type = "HNSW" => fHnsw[r.doc] # NoVec
                             /\ r.tag # NoTag => \E t \in Tags : r.doc \in fFilter[t]
    BY DEF MarkerHidesNothing
  <2>1. PICK r : r = wal[p].req
    OBVIOUS
  <2>2. PICK A : A = UpTo(wal, fMarker)
    OBVIOUS
  <2>3. wal \in Seq(WalEntry) /\ fMarker \in Nat /\ r \in Request /\ r.doc \in OnWal
    <3>1. wal \in Seq(WalEntry) /\ fMarker \in Nat
      BY DEF ServesInv, NodeInv, TypeOK, DiskOK
    <3>2. r \in Request
      BY <2>1, <3>1, WalLines
    <3>q. QED BY <2>1, <3>1, <3>2 DEF Request, OnWal
  <2>4. p \in A /\ p \in LinesOf(wal, r.doc)
    BY <2>1, <2>2 DEF UpTo, LinesOf
  <2>5. ASSUME NEW q \in LinesOf(wal, r.doc) \ A
        PROVE  q \in DOMAIN wal /\ q > p /\ wal[q].req.doc = r.doc /\ wal[q].id > fMarker
    <3>1. q \in DOMAIN wal /\ wal[q].req.doc = r.doc /\ ~(wal[q].id <= fMarker)
      BY <2>2 DEF LinesOf, UpTo
    <3>2. p < q
      BY <2>2, <2>4, <3>1 DEF ServesInv, DataInv, Order, Ordered
    <3>3. q \in Nat /\ p \in Nat /\ wal[q].id \in Nat
      BY <2>3, <3>1, WalLines
    <3>q. QED BY <2>3, <3>1, <3>2, <3>3
  <2>6. CASE LinesOf(wal, r.doc) \ A # {}
    BY <2>1, <2>5, <2>6
  <2>7. CASE LinesOf(wal, r.doc) \ A = {}
    <3>1. fFlat # Torn /\ fHnsw # Torn
      BY DEF Loadable
    <3>2. /\ FlatFit(wal, A, r.doc, scalar[r.doc], fFlat)
          /\ HnswFit(wal, A, r.doc, scalar[r.doc], fHnsw)
          /\ FilterFit(wal, A, r.doc, scalar[r.doc], fFilter)
      BY <2>2, <2>3, <3>1 DEF ServesInv, DataInv, Files, FlatFile, HnswFile, FilterFile
    <3>3. r.type = "FLAT" => HasFlat(fFlat, r.doc)
      BY <2>1, <2>4, <2>7, <3>2 DEF FlatFit, Fit, TypeLines
    <3>4. r.type = "HNSW" => HasHnsw(fHnsw, r.doc)
      BY <2>1, <2>4, <2>7, <3>2 DEF HnswFit, Fit, TypeLines
    <3>5. r.tag # NoTag => HasTag(fFilter, r.doc)
      BY <2>1, <2>4, <2>7, <3>2 DEF FilterFit, Fit, TagLines
    <3>q. QED BY <2>1, <3>3, <3>4, <3>5 DEF HasFlat, HasHnsw, HasTag
  <2>q. QED BY <2>6, <2>7
<1>q. QED BY <1>1, ServesInvariant, PTL
=============================================================================

------------------------------ MODULE VdbNode ------------------------------
(***************************************************************************)
(* One vdb_server process and what survives it on disk.                    *)
(*                                                                         *)
(* Four things run in the process: main() reloads the database and then    *)
(* starts Raft and HTTP; the Raft threads append entries to the log store   *)
(* (which writes the WAL); the Raft commit thread applies committed entries *)
(* with VectorDatabase::upsert; HTTP threads serve /admin/snapshot and     *)
(* /insert.  No lock is shared by the last two, so upsert and takeSnapshot  *)
(* are split into the steps between which the other can run.               *)
(*                                                                         *)
(* Raft itself (NuRaft) is external: which entries it appends, overwrites, *)
(* installs or commits is a nondeterministic choice within what its log    *)
(* store interface allows.                                                 *)
(***************************************************************************)
EXTENDS IndexOps, LogStoreOps, Sequences

CONSTANTS
    Requests,   \* the /upsert bodies clients send
    Inserts,    \* the /insert bodies clients send
    MaxWal,     \* bound on the length of the WAL
    Budget,     \* bound on how often each of Ops happens
    Torn,       \* content of an index file whose writing was interrupted
    BarBodies,  \* requests whose body contains the WAL separator '|'
    LineBodies  \* requests whose body contains a line break

Ops == {"crash", "snapshot", "insert", "conf", "overwrite", "pack"}

ASSUME NodeAssumption ==
    /\ Requests \subseteq Request
    /\ Inserts \subseteq {r \in Request : r.type # "UNKNOWN"}
    /\ MaxWal \in Nat
    /\ Budget \in [Ops -> Nat]
    /\ Torn \notin FlatType /\ Torn \notin HnswType
    /\ BarBodies \subseteq Request /\ LineBodies \subseteq Request

VARIABLES
    \* --- on disk
    wal,            \* the WAL file: a sequence of [id, req]
    scalar,         \* RocksDB: id -> document (the last body written), or NoData
    fFlat,          \* snapshots_0.index
    fHnsw,          \* snapshots_1.index
    fFilter,        \* the filter blob, a RocksDB value
    fMarker,        \* snapshots_MaxLogID; 0 when absent or empty
    \* --- in the process
    mode,           \* "down", "reload" (main before HTTP starts) or "up"
    pos,            \* read position of reloadDatabase in the WAL
    increaseID,     \* Persistence::increaseID_
    lastSnapshotID, \* Persistence::lastSnapshotID_
    logs, start_idx,\* inmem_log_store
    last_committed_idx, \* log_state_machine
    flat, hnsw, filter, \* the indexes of IndexFactory
    pc, cur, old,   \* the commit thread inside upsert, its request, existingData
    snap, raced,    \* the snapshot thread; was the index it writes modified?
    \* --- bookkeeping of the model
    budget,         \* what is left of Budget
    stale,          \* WAL positions whose log entry Raft has overwritten
    offWal          \* documents changed by operations that write no WAL

disk == <<wal, scalar, fFlat, fHnsw, fFilter, fMarker>>
files == <<fFlat, fHnsw, fFilter, fMarker>>
ids == <<pos, increaseID, lastSnapshotID>>
raftState == <<logs, start_idx, last_committed_idx>>
indexes == <<flat, hnsw, filter>>
upserting == <<pc, cur, old>>
snapping == <<snap, raced>>
ghosts == <<stale, offWal>>
vars == <<wal, scalar, fFlat, fHnsw, fFilter, fMarker, mode, pos, increaseID,
          lastSnapshotID, logs, start_idx, last_committed_idx, flat, hnsw,
          filter, pc, cur, old, snap, raced, budget, stale, offWal>>

\* Persistence::Persistence: increaseID_(10)
InitialID == 10

App(r) == [kind |-> "app", req |-> r]
Conf == [kind |-> "conf"]
IsApp(e) == e.kind = "app"

WalEntry == [id : Nat, req : Request]

Spend(op) == budget[op] > 0 /\ budget' = [budget EXCEPT ![op] = @ - 1]

MaxOf(a, b) == IF a > b THEN a ELSE b

-----------------------------------------------------------------------------
(* The process starts, reloads and dies.                                   *)

\* The values the members have before main() runs (and, so that a dead
\* process has one state, after it died).
FreshProcess ==
    /\ pos' = 1 /\ increaseID' = InitialID /\ lastSnapshotID' = 0
    /\ logs' = EmptyLogs /\ start_idx' = 0 /\ last_committed_idx' = 0
    /\ flat' = EmptyFlat /\ hnsw' = EmptyHnsw /\ filter' = EmptyFilter
    /\ pc' = "idle" /\ cur' = NoData /\ old' = NoData
    /\ snap' = "idle" /\ raced' = FALSE

Init ==
    /\ wal = <<>> /\ scalar = [d \in Docs |-> NoData]
    /\ fFlat = EmptyFlat /\ fHnsw = EmptyHnsw /\ fFilter = EmptyFilter
    /\ fMarker = 0
    /\ mode = "down"
    /\ pos = 1 /\ increaseID = InitialID /\ lastSnapshotID = 0
    /\ logs = EmptyLogs /\ start_idx = 0 /\ last_committed_idx = 0
    /\ flat = EmptyFlat /\ hnsw = EmptyHnsw /\ filter = EmptyFilter
    /\ pc = "idle" /\ cur = NoData /\ old = NoData
    /\ snap = "idle" /\ raced = FALSE
    /\ budget = Budget /\ stale = {} /\ offWal = {}

\* The process ends: an abort, an uncaught exception or a kill.
Die == mode' = "down" /\ FreshProcess /\ UNCHANGED <<disk, ghosts>>

\* faiss::read_index and hnswlib's loadIndex throw on a file that was cut
\* off, and main() does not catch it.
Loadable == fFlat # Torn /\ fHnsw # Torn

\* main() up to the WAL: Persistence::init, then loadSnapshot.  An exception on
\* the way ends the process again, which is the same as not starting.
Start ==
    /\ mode = "down" /\ Loadable /\ BlobReadable(fFilter)
    /\ mode' = "reload" /\ pos' = 1
    /\ increaseID' = InitialID /\ lastSnapshotID' = fMarker
    /\ flat' = fFlat /\ hnsw' = fHnsw /\ filter' = fFilter
    /\ UNCHANGED <<disk, raftState, upserting, snapping, budget, ghosts>>

\* readNextWALLog: one line, whatever its id.
ReadLine ==
    /\ mode = "reload" /\ pos <= Len(wal)
    /\ pos' = pos + 1
    /\ increaseID' = MaxOf(increaseID, wal[pos].id)

\* Slip: the line after the marker is skipped too.
SkipsLineTooFar == wal[pos].id <= lastSnapshotID + 1
SkipsLine == wal[pos].id <= lastSnapshotID

\* Slip: `continue` before the line was consumed.
ReloadSkipStuck ==
    /\ mode = "reload" /\ pos <= Len(wal) /\ SkipsLine
    /\ UNCHANGED vars

\* Bodies are written raw and read back up to the next '|' of the line.
\* A body that was cut by a line break ends the process, whether its line is
\* applied (json_data has no id) or skipped (std::stoull throws on the rest; one
\* that begins with a digit is left out of LineBodies).
Readable(r) == r \notin LineBodies
Parses(r) == r \notin LineBodies \cup BarBodies

ReloadSkip ==
    /\ ReadLine /\ SkipsLine /\ Readable(wal[pos].req)
    /\ UNCHANGED <<disk, mode, lastSnapshotID, raftState, indexes, upserting,
                   snapping, budget, ghosts>>

\* One round of the loop of reloadDatabase: upsert, alone in the process.
ReloadUpsert ==
    /\ ReadLine /\ ~SkipsLine
    /\ LET r == wal[pos].req
           o == scalar[r.doc]
       IN  /\ Parses(r) /\ ~UpsertThrows(hnsw, r) /\ ~FieldMissing(r, o)
           /\ flat' = UpsertFlat(UpsertRemove(flat, r, o), r)
           /\ hnsw' = UpsertHnsw(hnsw, r)
           /\ filter' = UpsertFilter(filter, r, o)
           /\ scalar' = [scalar EXCEPT ![r.doc] = r]
    /\ UNCHANGED <<wal, files, mode, lastSnapshotID, raftState, upserting,
                   snapping, budget, ghosts>>

\* The same round when the body cannot be read back, addPoint throws or
\* existingData lacks the member.
ReloadAbort ==
    /\ mode = "reload" /\ pos <= Len(wal)
    /\ LET r == wal[pos].req
       IN  \/ ~Readable(r)
           \/ /\ ~SkipsLine
              /\ \/ ~Parses(r) \/ UpsertThrows(hnsw, r)
                 \/ FieldMissing(r, scalar[r.doc])
    /\ Die /\ UNCHANGED budget

\* The end of the WAL: main() creates RaftStuff (log store, state machine) and
\* starts HTTP.
ReloadDone ==
    /\ mode = "reload" /\ pos > Len(wal)
    /\ mode' = "up"
    /\ logs' = EmptyLogs /\ start_idx' = StartOf(increaseID)
    /\ last_committed_idx' = increaseID
    /\ UNCHANGED <<disk, ids, indexes, upserting, snapping, budget, ghosts>>

Crash == mode # "down" /\ Spend("crash") /\ Die

-----------------------------------------------------------------------------
(* Raft and its log store.                                                 *)

\* Slip: every write moves increaseID_, as writeWALLog does.
WriteWALRawLogCounts(idx, r) ==
    /\ Len(wal) < MaxWal
    /\ wal' = Append(wal, [id |-> idx, req |-> r])
    /\ increaseID' = idx
    /\ UNCHANGED <<pos, lastSnapshotID>>

\* Persistence::writeWALRawLog: one line appended and flushed.  increaseID_ is
\* not touched.
WriteWALRawLog(idx, r) ==
    /\ Len(wal) < MaxWal
    /\ wal' = Append(wal, [id |-> idx, req |-> r])
    /\ UNCHANGED ids

\* inmem_log_store::append of an app_log entry.
AppendApp(r) ==
    /\ mode = "up"
    /\ logs' = Appended(start_idx, logs, App(r))
    /\ WriteWALRawLog(NextSlot(start_idx, logs), r)
    /\ UNCHANGED <<scalar, files, mode, start_idx, last_committed_idx,
                   indexes, upserting, snapping, budget, ghosts>>

\* append of any other entry (a cluster configuration): no WAL line.
AppendConf ==
    /\ mode = "up" /\ Spend("conf")
    /\ logs' = Appended(start_idx, logs, Conf)
    /\ UNCHANGED <<disk, mode, ids, start_idx, last_committed_idx, indexes,
                   upserting, snapping, ghosts>>

\* Slip: write_at forgets the WAL line.
WriteAtUnlogged(idx, r) ==
    /\ mode = "up" /\ Spend("overwrite")
    /\ idx > last_committed_idx /\ idx < NextSlot(start_idx, logs)
    /\ logs' = WrittenAt(logs, idx, App(r))
    /\ stale' = stale \cup {p \in DOMAIN wal : wal[p].id >= idx}
    /\ UNCHANGED <<disk, mode, ids, start_idx, last_committed_idx, indexes,
                   upserting, snapping, offWal>>

\* write_at of an app_log entry: a follower replaces an uncommitted suffix.
WriteAt(idx, r) ==
    /\ mode = "up" /\ Spend("overwrite")
    /\ idx > last_committed_idx /\ idx < NextSlot(start_idx, logs)
    /\ logs' = WrittenAt(logs, idx, App(r))
    /\ WriteWALRawLog(idx, r)
    /\ stale' = stale \cup {p \in DOMAIN wal : wal[p].id >= idx}
    /\ UNCHANGED <<scalar, files, mode, start_idx, last_committed_idx,
                   indexes, upserting, snapping, offWal>>

\* write_at of any other entry, such as the configuration a new leader begins
\* with: the suffix goes and no line is written.
WriteAtConf(idx) ==
    /\ mode = "up" /\ Spend("overwrite")
    /\ idx > last_committed_idx /\ idx < NextSlot(start_idx, logs)
    /\ logs' = WrittenAt(logs, idx, Conf)
    /\ stale' = stale \cup {p \in DOMAIN wal : wal[p].id >= idx}
    /\ UNCHANGED <<disk, mode, ids, start_idx, last_committed_idx, indexes,
                   upserting, snapping, offWal>>

\* apply_pack: a joining follower installs entries of the leader's log.  The
\* entries go into logs_ only.
ApplyPack(r) ==
    /\ mode = "up" /\ Spend("pack")
    /\ LET packed == Put(logs, NextSlot(start_idx, logs), App(r))
       IN  logs' = packed /\ start_idx' = FirstIndex(packed)
    /\ offWal' = offWal \cup {r.doc}
    /\ UNCHANGED <<disk, mode, ids, last_committed_idx, indexes, upserting,
                   snapping, stale>>

-----------------------------------------------------------------------------
(* The commit thread.                                                      *)

NextCommit == last_committed_idx + 1
CanCommit == mode = "up" /\ pc = "idle" /\ NextCommit \in DOMAIN logs

\* log_state_machine::commit_config
CommitConfig ==
    /\ CanCommit /\ ~IsApp(EntryAt(logs, NextCommit))
    /\ last_committed_idx' = NextCommit
    /\ UNCHANGED <<disk, mode, ids, logs, start_idx, indexes, upserting,
                   snapping, budget, ghosts>>

\* An index changes while the snapshot thread is writing it out.
NoteRace ==
    raced' = (raced \/ (snap = "flatEnd" /\ flat' # flat)
                    \/ (snap = "hnswEnd" /\ hnsw' # hnsw))

\* log_state_machine::commit, and upsert up to the removal of the old vector.
Commit ==
    /\ CanCommit /\ IsApp(EntryAt(logs, NextCommit))
    /\ LET r == EntryAt(logs, NextCommit).req
       IN  /\ cur' = r /\ old' = scalar[r.doc]
           /\ flat' = UpsertRemove(flat, r, scalar[r.doc])
    /\ last_committed_idx' = NextCommit
    /\ pc' = "insert"
    /\ UNCHANGED <<disk, mode, ids, logs, start_idx, hnsw, filter, snap,
                   budget, ghosts>>
    /\ NoteRace

UpsertInsert ==
    /\ pc = "insert" /\ ~UpsertThrows(hnsw, cur)
    /\ flat' = UpsertFlat(flat, cur) /\ hnsw' = UpsertHnsw(hnsw, cur)
    /\ NoteRace
    /\ pc' = "filter"
    /\ UNCHANGED <<disk, mode, ids, raftState, filter, cur, old, snap, budget,
                   ghosts>>

UpsertFields ==
    /\ pc = "filter" /\ ~FieldMissing(cur, old)
    /\ filter' = UpsertFilter(filter, cur, old)
    /\ pc' = "put"
    /\ UNCHANGED <<disk, mode, ids, raftState, flat, hnsw, cur, old, snapping,
                   budget, ghosts>>

\* Slip: an existing document is not rewritten.
UpsertPutOnce ==
    /\ pc = "put"
    /\ scalar' = [scalar EXCEPT ![cur.doc] = IF old = NoData THEN cur ELSE @]
    /\ pc' = "idle" /\ cur' = NoData /\ old' = NoData
    /\ UNCHANGED <<wal, files, mode, ids, raftState, indexes, snapping, budget,
                   ghosts>>

\* scalar_storage_.insert_scalar, the last statement of upsert.
UpsertPut ==
    /\ pc = "put"
    /\ scalar' = [scalar EXCEPT ![cur.doc] = cur]
    /\ pc' = "idle" /\ cur' = NoData /\ old' = NoData
    /\ UNCHANGED <<wal, files, mode, ids, raftState, indexes, snapping, budget,
                   ghosts>>

\* The commit thread takes the process down with it.
CommitAbort ==
    /\ \/ pc = "insert" /\ UpsertThrows(hnsw, cur)
       \/ pc = "filter" /\ FieldMissing(cur, old)
    /\ Die /\ UNCHANGED budget

-----------------------------------------------------------------------------
(* HTTP threads.                                                           *)

\* HttpServer::insertHandler: straight into the index.  When addPoint throws
\* the HTTP library answers 500 and nothing changes.
Insert(r) ==
    /\ mode = "up" /\ Spend("insert") /\ ~UpsertThrows(hnsw, r)
    /\ flat' = UpsertFlat(flat, r) /\ hnsw' = UpsertHnsw(hnsw, r)
    /\ NoteRace
    /\ offWal' = offWal \cup {r.doc}
    /\ UNCHANGED <<disk, mode, ids, raftState, filter, upserting, snap, stale>>

\* Slip: the marker is the last index of the log, applied or not.
TakeSnapshotOfLog ==
    /\ mode = "up" /\ snap = "idle" /\ Spend("snapshot")
    /\ lastSnapshotID' = NextSlot(start_idx, logs) - 1
    /\ fFlat' = Torn
    /\ snap' = "flatEnd" /\ raced' = FALSE
    /\ UNCHANGED <<wal, scalar, fHnsw, fFilter, fMarker, mode, pos, increaseID,
                   raftState, indexes, upserting, ghosts>>

\* Persistence::takeSnapshot, to the point where snapshots_0.index has been
\* opened (and so truncated) for writing.
TakeSnapshot ==
    /\ mode = "up" /\ snap = "idle" /\ Spend("snapshot")
    /\ lastSnapshotID' = increaseID
    /\ fFlat' = Torn
    /\ snap' = "flatEnd" /\ raced' = FALSE
    /\ UNCHANGED <<wal, scalar, fHnsw, fFilter, fMarker, mode, pos, increaseID,
                   raftState, indexes, upserting, ghosts>>

\* What a save leaves behind: the index, or, when it was modified under the
\* writer's feet, possibly a file that cannot be read back.
Saved(index) == {index} \cup (IF raced THEN {Torn} ELSE {})

SaveFlat ==
    /\ snap = "flatEnd" /\ fFlat' \in Saved(flat) /\ snap' = "hnsw"
    /\ UNCHANGED <<wal, scalar, fHnsw, fFilter, fMarker, mode, ids, raftState,
                   indexes, upserting, raced, budget, ghosts>>

OpenHnsw ==
    /\ snap = "hnsw" /\ fHnsw' = Torn /\ snap' = "hnswEnd" /\ raced' = FALSE
    /\ UNCHANGED <<wal, scalar, fFlat, fFilter, fMarker, mode, ids, raftState,
                   indexes, upserting, budget, ghosts>>

SaveHnsw ==
    /\ snap = "hnswEnd" /\ fHnsw' \in Saved(hnsw) /\ snap' = "filter"
    /\ UNCHANGED <<wal, scalar, fFlat, fFilter, fMarker, mode, ids, raftState,
                   indexes, upserting, raced, budget, ghosts>>

\* FilterIndex::saveIndex: one RocksDB put.
SaveFilter ==
    /\ snap = "filter" /\ fFilter' = filter /\ snap' = "marker"
    /\ UNCHANGED <<wal, scalar, fFlat, fHnsw, fMarker, mode, ids, raftState,
                   indexes, upserting, raced, budget, ghosts>>

\* saveLastSnapshotID: the std::ofstream truncates the file, then writes it.
OpenMarker ==
    /\ snap = "marker" /\ fMarker' = 0 /\ snap' = "markerEnd"
    /\ UNCHANGED <<wal, scalar, fFlat, fHnsw, fFilter, mode, ids, raftState,
                   indexes, upserting, raced, budget, ghosts>>

SaveMarker ==
    /\ snap = "markerEnd" /\ fMarker' = lastSnapshotID /\ snap' = "idle"
    /\ raced' = FALSE
    /\ UNCHANGED <<wal, scalar, fFlat, fHnsw, fFilter, mode, ids, raftState,
                   indexes, upserting, budget, ghosts>>

-----------------------------------------------------------------------------

Reload == ReloadSkip \/ ReloadUpsert \/ ReloadAbort \/ ReloadDone

Raft ==
    \/ \E r \in Requests : AppendApp(r) \/ ApplyPack(r)
    \/ AppendConf
    \/ \E idx \in DOMAIN logs : WriteAtConf(idx) \/ \E r \in Requests : WriteAt(idx, r)

CommitThread ==
    CommitConfig \/ Commit \/ UpsertInsert \/ UpsertFields \/ UpsertPut \/ CommitAbort

SnapshotThread ==
    TakeSnapshot \/ SaveFlat \/ OpenHnsw \/ SaveHnsw \/ SaveFilter
        \/ OpenMarker \/ SaveMarker

Next ==
    \/ Start \/ Reload \/ Crash
    \/ Raft \/ CommitThread \/ SnapshotThread
    \/ \E r \in Inserts : Insert(r)

Spec == Init /\ [][Next]_vars

\* A server that went down is started again, and main() runs until it has
\* reloaded or died.  Nothing else is assumed to be scheduled.
FairSpec == Spec /\ WF_vars(Start) /\ WF_vars(Reload)

-----------------------------------------------------------------------------
(* Properties.                                                             *)

PCs == {"idle", "insert", "filter", "put"}
SnapPCs == {"idle", "flatEnd", "hnsw", "hnswEnd", "filter", "marker", "markerEnd"}
LogEntry == {App(r) : r \in Request} \cup {Conf, Dummy}

DiskOK ==
    /\ wal \in Seq(WalEntry)
    /\ scalar \in [Docs -> Request \cup {NoData}]
    /\ fFlat \in FlatType \cup {Torn} /\ fHnsw \in HnswType \cup {Torn}
    /\ fFilter \in FilterType /\ fMarker \in Nat
IdsOK ==
    /\ mode \in {"down", "reload", "up"}
    /\ pos \in Nat \ {0} /\ increaseID \in Nat /\ lastSnapshotID \in Nat
LogOK ==
    /\ DOMAIN logs \subseteq Nat /\ 0 \in DOMAIN logs
    /\ \A i \in DOMAIN logs : logs[i] \in LogEntry
    /\ start_idx \in Nat /\ last_committed_idx \in Nat
IndexOK == flat \in FlatType /\ hnsw \in HnswType /\ filter \in FilterType
ThreadsOK ==
    /\ pc \in PCs
    /\ cur \in Request \cup {NoData} /\ old \in Request \cup {NoData}
    /\ pc # "idle" => cur \in Request
    /\ snap \in SnapPCs /\ raced \in BOOLEAN
ModelOK ==
    budget \in [Ops -> Nat] /\ stale \subseteq Nat /\ offWal \subseteq Docs

\* Every variable has the type its field has in the code, an interrupted
\* snapshot file included; the log map always has its dummy entry, and the
\* commit thread inside upsert always has a request.
TypeOK == DiskOK /\ IdsOK /\ LogOK /\ IndexOK /\ ThreadsOK /\ ModelOK

\* The document is not in the middle of its own upsert and requests are served.
Settled(d) == mode = "up" /\ ~(pc # "idle" /\ cur.doc = d)

\* HttpServer::queryHandler and VectorDatabase::query.
Query(d) == scalar[d]

\* HttpServer::searchHandler: what /search answers.
SearchHandler(type, cond) == Search(flat, hnsw, filter, type, cond)

\* WAL lines that belong to the log as Raft left it.
Live == {p \in DOMAIN wal : p \notin stale}

\* What /query answers is found by /search: the vector of the stored document
\* is found in the index its request named, without a filter, with a filter for
\* the value of its integer field and with one against another value; the
\* bitmaps know the field of a document of unknown index type too.  Over restarts
\* this needs the snapshot, its marker and the replay to fit together
\* (vector_database.cpp upsert and reloadDatabase, persistence.cpp takeSnapshot
\* and readNextWALLog).
SearchAgrees ==
    \A d \in Docs \ offWal :
        (Settled(d) /\ Query(d) # NoData) =>
            LET r == Query(d)
                Finds(cond) == <<d, r.vec>> \in SearchHandler(r.type, cond)
            IN  /\ r.type # "UNKNOWN" => Finds(NoFilter)
                /\ r.tag # NoTag =>
                    IF r.type = "UNKNOWN" THEN d \in FilterBitmap(filter, "=", r.tag)
                    ELSE /\ Finds(Where("=", r.tag))
                         /\ \A t \in Tags \ {r.tag} : Finds(Where("!=", t))

\* A document stored in the FLAT index is found under its current vector only:
\* no upsert, replay or snapshot brings an older vector back.
FlatFresh ==
    \A d \in Docs \ offWal :
        (Settled(d) /\ scalar[d] # NoData /\ scalar[d].type = "FLAT") =>
            \A v \in Vecs : flat[<<d, v>>] > 0 => v = scalar[d].vec

\* The stored document is the one of the last committed log entry for it,
\* however often the node was restarted.  Entries that Raft overwrote before
\* they were committed are lines of the WAL too; a document such a line names
\* is left out here and is the subject of NoPhantomWrite.
LastCommitted(d) ==
    {p \in Live : /\ wal[p].req.doc = d /\ wal[p].id <= last_committed_idx
                  /\ \A q \in Live : (q > p /\ wal[q].req.doc = d)
                                        => wal[q].id > last_committed_idx}
Overwritten == {wal[p].req.doc : p \in stale}
ScalarLatest ==
    \A d \in Docs \ (offWal \cup Overwritten) :
        Settled(d) =>
            IF LastCommitted(d) = {} THEN scalar[d] = NoData
            ELSE \A p \in LastCommitted(d) : scalar[d] = wal[p].req

\* The marker on disk never hides a line the snapshot files lack: when the
\* files are readable, a line with an id up to the marker has its document in
\* the index file and the filter blob, or a later line for the document is
\* still replayed.
MarkerHidesNothing ==
    Loadable =>
        \A p \in DOMAIN wal :
            LET r == wal[p].req
            IN  (wal[p].id <= fMarker /\ r.doc \notin offWal) =>
                \/ \E q \in DOMAIN wal :
                        q > p /\ wal[q].req.doc = r.doc /\ wal[q].id > fMarker
                \/ /\ r.type = "FLAT" => \E v \in Vecs : fFlat[<<r.doc, v>>] > 0
                   /\ r.type = "HNSW" => fHnsw[r.doc] # NoVec
                   /\ r.tag # NoTag => \E t \in Tags : r.doc \in fFilter[t]

\* The marker on disk is older than everything the running process has put
\* into the WAL, committed or not: a snapshot may not skip lines that were
\* written but not applied when it was taken (takeSnapshot copies increaseID_,
\* which writeWALRawLog deliberately leaves alone).
MarkerBehind == mode = "up" => fMarker < start_idx

\* Log ids are never reused for a line that counts: the lines Raft did not
\* overwrite have strictly increasing ids across restarts, so replay in file
\* order is replay in log order.
WalIdsIncrease ==
    \A p, q \in Live : p < q => wal[p].id < wal[q].id

\* A server that is down and whose snapshot files are readable gets through
\* reloadDatabase and serves again, unless it is killed on the way.
RestartCompletes == mode = "down" ~> (mode = "up" \/ ~Loadable)

-----------------------------------------------------------------------------
(* What the repository says of the program and the code does not do.       *)

\* README.md:11, FILTER keeps "field value -> set of document ids": a bitmap
\* holds exactly the documents with that value.
FilterExact ==
    \A d \in Docs \ offWal : Settled(d) =>
        \A t \in Tags : d \in filter[t] =>
            scalar[d] # NoData /\ scalar[d].tag = t

\* README.md:3 and :34, replicas agree on the committed log: an entry that was
\* overwritten before it was committed leaves no trace in the database.
NoPhantomWrite ==
    \A d \in Docs \ offWal :
        (Settled(d) /\ LastCommitted(d) # {}) =>
            \A p \in LastCommitted(d) : scalar[d] = wal[p].req
=============================================================================

# TLA+ models of the vector database server

This directory specifies `vdb_server`, the small replicated vector database of this
repository: a server that keeps vectors in in-memory indexes (Faiss FLAT, hnswlib HNSW),
integer fields in roaring bitmaps, documents in RocksDB, replicates `/upsert` bodies with
NuRaft, and recovers from a write-ahead log (WAL) and snapshots. The modules are checked
with TLC on small instances; the central invariants are proved with TLAPS for all
instances.

## 1. The system

### Components, state, operations

| component (source) | state | operations | hard part |
|---|---|---|---|
| `VectorDatabase` (`vector_database.cpp`) | none of its own; ties the others together | `upsert`, `reloadDatabase`, `query`, `search`, `takeSnapshot`, `getStartIndexID` | `upsert` is five writes to three stores without a lock |
| `Persistence` (`persistence.cpp`) | WAL file, `increaseID_`, `lastSnapshotID_`, marker file | `writeWALRawLog`, `readNextWALLog`, `takeSnapshot`, `loadSnapshot` | which lines a snapshot makes redundant |
| `IndexFactory` (`index_factory.cpp`) | the three index objects | `init`, `saveIndex`, `loadIndex` | three files written one after the other |
| `FaissIndex`, `HNSWLibIndex` | label -> vectors | insert, remove, search, save, load | FLAT keeps duplicates, HNSW has a capacity and throws |
| `FilterIndex` | field value -> bitmap of ids | add, update, get bitmap, save, load | needs the right old value |
| `ScalarStorage` | RocksDB: id -> document | `insert_scalar`, `get_scalar`, `put`, `get`, `scan_page` | the only store that is current after a crash |
| `inmem_log_store` | `logs_`, `start_idx_` | `append`, `write_at`, `apply_pack`, `compact`, reads | indexes computed from the size of a map with a dummy entry |
| `log_state_machine` | `last_committed_idx_` | `commit`, `commit_config` | runs `upsert` on the Raft commit thread |
| `RaftStuff`, `inmem_state_mgr` | the Raft server, term, vote, configuration | `appendEntries`, `addSrv`, `getAllNodesInfo`, `getCurrentNodesInfo` | everything in memory only; who leads is asked again at every step |
| `HttpServer` (`http_server.cpp`) | none | `/upsert`, `/insert`, `/search`, `/query`, `/admin/*` | results of Raft are not looked at; `/insert` goes past Raft and WAL; paging while others write |
| `vdb_server` `main` | none | construct, reload, start Raft, start HTTP | order |
| HTTP library (`httplib.h`, `Server`, `ThreadPool`) | queue of connections, workers, the buffers of a connection | `listen`, accept, keep-alive, reading, routing, answering | condition variables, connections that stay open after an error |
| `SimpleLogger`, `SimpleLoggerMgr` (`raft_logger.cpp`) | ring of messages, log files, compression queue | `put`, `flush`, rotation, `doCompression` | lock-free ring |
| crash dump (`raft_logger.cpp`, `backtrace.h`) | registry of threads, collected stacks, dump file, timer | signal handlers, `logStackBacktrace` | mutexes and waiting inside signal handlers |
| `AnnoyIndex` | an Annoy index, `deleted_ids_` | insert, remove, search, save, load | Annoy cannot change a built index |
| `VectorSimilarity` (`in_mem_vector_similarity.h`) | none | top k of a list | which end of a heap is popped |

`AnnoyIndex` and `VectorSimilarity` are used by benchmarks and a test only.

### How they interact

An `/upsert` body goes to `RaftStuff::appendEntries`; NuRaft stores it through
`inmem_log_store::append` (leader and followers), which writes the WAL line under the index
`next_slot()` names; followers may have a suffix overwritten with `write_at`; a joining
follower gets entries through `apply_pack`. When an entry is committed,
`log_state_machine::commit` parses it and calls `VectorDatabase::upsert`: remove the old
vector, insert the new one, update the bitmaps, put the document into RocksDB.
`/admin/snapshot` runs `takeSnapshot` on an HTTP thread: choose the marker
(`lastSnapshotID_ = increaseID_`), rewrite both index files, put the filter blob into
RocksDB, rewrite the marker file. At start `main` loads the index files and the blob,
replays the WAL lines with an id above the marker, and starts Raft's log at the largest id
seen plus one.

The handlers run on the workers of the HTTP library. `listen` accepts connections and puts
them into the queue of a `ThreadPool`; a worker takes one and serves it, request after
request, until it is closed. NuRaft logs through `SimpleLogger`; its manager also owns the
signal handlers that write a stack dump when a thread crashes.

No lock is shared between the commit thread, the snapshot thread and the HTTP inserts. A
crash can come between any two of the steps above.

### What makes it correct

* what `/query` returns is what `/search` finds (index, bitmap and RocksDB agree), over
  any number of crashes (`SearchAgrees`, `FlatFresh`);
* the stored document is that of the last committed entry (`ScalarLatest`);
* a snapshot hides no WAL line whose effect its files lack (`MarkerHidesNothing`,
  `MarkerBehind`);
* log ids grow across restarts (`WalIdsIncrease`), and inside a process the log has no gaps
  (`Contiguous`);
* the server comes back after a crash (`RestartCompletes`);
* the log store is a sequence to NuRaft, although it is a map with a dummy entry
  (`ImplementsRaftLog`), also to a reader that takes the lock once per index
  (`ReadsSound`);
* a connection is never leaked, served twice or forgotten (`OpenTracked`, `ConnectionEnds`),
  an answer belongs to its request (`InOrder`), a handler gets a whole body
  (`HandledWhole`), and `listen` returns after all is closed (`Drained`, `ShutdownEnds`);
* reading page by page misses nothing (`WalkComplete`), and an acknowledged upsert is in the
  log as far as the code can know (`Acked`);
* a crash is dumped once, inside the buffers, and ends the process (`OneOfEach`,
  `TextFits`, `RawSurvives`, `DumpEnds`);
* the Raft logger loses and repeats nothing on its own account (`Conserved`,
  `NoDuplicates`), keeps its files bounded and contiguous (`FileBounded`, `NoGap`), keeps
  the compressor away from the file that is written (`ArchiveSafe`), and `put` and `stop`
  return (`PutReturns`, `StopReturns`);
* a search in Annoy returns what is there and allowed, as many as its candidates leave, the
  most similar first (`SearchSound`, `SearchFull`, `SearchBest`), and an insert into a built
  index breaks it (`LateInsertBreaks`).

The list of hazards in `PROJECT.json` names the line at which each of these could go wrong.

## 2. Modules

| module | models |
|---|---|
| `LogStoreOps` | the index arithmetic of `inmem_log_store` as operators on (`start_idx_`, `logs_`); used by both specifications |
| `RaftLog` | abstract: the log NuRaft expects, a sequence and the index of its first entry |
| `InMemLogStore` | the log store as a component: `Append_`, `Write_at`, `Apply_pack` + `PackEntry` (the entries of a pack are stored one lock section at a time), `Compact`, and the WAL lines; `ImplementsRaftLog` is the refinement mapping |
| `LogStoreThreads` | extends it with a thread that reads (`last_entry`, `log_entries`, `pack`), one lock section at a time |
| `IndexOps` | the three indexes and the stages of `upsert` as operators |
| `VdbNode` | one process and its disk: start and reload, Raft's use of the log store, the commit thread, the snapshot thread, `/insert`, crash; composes `LogStoreOps` and `IndexOps` |
| `HttpServer` | the handlers on several threads over a node whose leadership changes; `scan_page`; a client that reads all pages |
| `ThreadPool`, `HttpLib` | the thread pool; the HTTP server on top of it: bind, accept, connections, requests cut into pieces |
| `SimpleLogger` | the asynchronous logger of NuRaft: ring, flush, rotation, compression, retention, stop, restart |
| `CrashDump` | `SimpleLoggerMgr` as a singleton, its registry of threads, the signal handlers and the stack dump |
| `LogText` | how much text the `_snprintf` macro and the chunks of a dump put into buffers of a fixed size (lengths only); `CrashDump` extends it |
| `VectorSimilarity`, `AnnoyIndex` | the top-k algorithm; the Annoy wrapper, whose results are compared with it |
| `LogStoreLemmas` | lemmas about `LogStoreOps` (`Spans`: the map has exactly the dummy and an interval) |
| `LogStoreProofs`, `VdbNodeProofs` | the theorems about the log store; about the node's log, files and data |
| `HttpLibProofs`, `HttpServerProofs`, `SimpleLoggerProofs`, `CrashDumpProofs`, `AnnoyIndexProofs` | the theorems about the server, the handlers, the logger, the stack dump and the Annoy wrapper |
| `MCLogStore`, `MCVdbNode`, `MCHttpLib`, `MCHttpServer`, `MCSimpleLogger`, `MCCrashDump`, `MCAnnoy` | model values, request sets, budgets and constraints for TLC |

Definitions whose comment begins with *Slip* are wrong variants of the definition below
them. Nothing refers to them; each stands for a mistake that one of the properties is
there to notice, and `PROJECT.json` ("mutants") says which.

### State and actions of `VdbNode`

The variables come in four groups: what is on disk (`wal`, `scalar`, `fFlat`, `fHnsw`,
`fFilter`, `fMarker`), what is in the process, the program counters of the two threads that
are not atomic (`pc` for the commit thread in `upsert`, `snap` for the snapshot thread), and
bookkeeping that the program does not have: `budget` (how often each rationed event may
still happen), `stale` (WAL positions whose log entry was overwritten) and `offWal`
(documents touched by `/insert` or by a pack, neither of which writes a WAL line).

| action | code |
|---|---|
| `Start` | `Persistence::init`, `loadLastSnapshotID`, `loadSnapshot` |
| `ReloadSkip`, `ReloadUpsert`, `ReloadAbort` | one WAL line in `reloadDatabase`: below the marker; applied; `upsert` throws or asserts |
| `ReloadDone` | end of the WAL; `inmem_log_store` and `log_state_machine` are created, HTTP starts |
| `AppendApp`, `AppendConf`, `WriteAt`, `WriteAtConf`, `ApplyPack` | NuRaft uses the log store; entries other than `app_log` get no WAL line |
| `CommitConfig`, `Commit`, `UpsertInsert`, `UpsertFields`, `UpsertPut`, `CommitAbort` | the commit thread; the last one when `addPoint` or `GetInt64` takes the process down |
| `Insert` | `/insert` |
| `TakeSnapshot`, `SaveFlat`, `OpenHnsw`, `SaveHnsw`, `SaveFilter`, `OpenMarker`, `SaveMarker` | the snapshot thread |
| `Crash` | the process is killed |

`Query` and `SearchHandler` are the answers of `/query` and `/search` (no filter, `=`, `!=`)
in a state; `SearchAgrees` compares them.

`FieldMissing` is the RapidJSON assertion behind `existingData[field].GetInt64()`: the
makefile does not define `NDEBUG`, so a missing member ends the process.

Abstractions. A request is (id, index type, vector, one integer field or none); vectors are
only compared for equality; a WAL line is written whole or not at all. The text formats
are modelled by what survives them: a body in `LineBodies` contains a line break and cannot
be read back (`Readable`), a body in `BarBodies` contains a `|` and is cut (`Parses`), and a
bitmap with a member of `SplitDocs` has a newline among its bytes and cannot be loaded
(`BlobReadable`). A file that was opened for writing but not
finished, or one that was written while the commit thread changed the index (a data race),
is `Torn`, and a torn index file cannot be loaded. The filter blob is one RocksDB put and
is never torn; neither is the marker, but it reads as 0 between truncation and write.
`Torn` is one possible outcome of a data race (`Saved`): the other is the index as it is at
the end of the save. Intermediate mixtures that still load are not modelled. One snapshot
is in progress at a time. Faiss and HNSW calls are atomic with respect to each other.

### State and actions of `SimpleLogger`

`status` and `ctx` are the elements of the ring, `flushingLogs` the holder of the mutex,
`pc`, `slot` and `msg` the local variables of each thread, `done` how far the current flush
is. `plain` and `tars` are the log files and archives by number; `synced` is how much of
the current file has left the stream's buffer. `sent`, `lost`, `left` and `crashes` are
bookkeeping: messages so far, messages that `put` gave up, and messages that a crash or
retention took. `unpacked` are the files whose `tar` failed: `execCmd` drops the result of
`system`, so `rm` follows with a partial archive or none, and what that takes is in `left`.
That `rm` itself fails is left out.

| action | code |
|---|---|
| `Claim`, `Available`, `NeedToFlush`, `Wait`, `Write`, `WriteFails`, `WriteEnd` | `put`: the compare-and-swap on the cursor, the two spin loops, `LogElem::write` |
| `FlushAll`, `TryLock`, `FlushSkip`, `FlushElem`, `FlushElemEnd`, `FlushDone` (with `Rotate`) | `flush`, called by `put`, by `flushWorker` and by `stop` |
| `TakeJob`, `Tar`, `Rm`, `Expire` | `compressWorker` and `doCompression`, one action per command |
| `RemoveLogger`, `Close`, `StopEnd` | `stop`; its own message and its `flushAll` are `Claim(Main)` ... and `FlushAll(Main)` |
| `Crash` | the process dies; the next one runs `findMinMaxRevNum` and appends to the file it names |

Each atomic access to an element is an action of its own, because a flusher and two
writers can be at the same element. Sizes are counted in messages. The limits are positive
(0 would switch rotation or retention off). The caller of `stop` sees to it that no other
thread logs any more.

### State and actions of `LogStoreThreads`

`rd` is a call of the reading thread: the loop variable, its end and what it has read;
`seen` collects the maps there have been during the call, so that the properties can say
"at some time during the call".

| action | code |
|---|---|
| `Write` | a writing call of `InMemLogStore` |
| `Last_entry`, `Log_entries`, `Pack`, `ReadOne`, `Return` | `last_entry`, `log_entries`, `log_entries_ext`, `pack`: one step per lock section |
| `Abort` | an `assert` on an index that is not there any more ends the process |

### State and actions of `HttpServer`

`leader`, `members`, `log` and `applied` are what NuRaft answers; `stored` and `flat` are the
keys in RocksDB and in an index. A thread has a place, a request and an answer. `id`, `led`
and `cut` are bookkeeping: the number of a call, who led during it, and calls whose entry a
later leader cut off. There is one action per handler, split where it asks NuRaft again:
`UpsertHandler` (`is_leader`), `AppendEntries`, `UpsertAnswer`; `AddFollowerHandler`,
`AddSrv`; `ListNodeHandler`, `ListOne` per server, `ListDone`. `Reject` is every early return
with 400. `Abort` is a RapidJSON assertion: a handler reads a field that is missing or of
another type without having asked (`shape = "badField"`; `/query` without an id, say), and
the process ends with all its threads. `Elect`, `Replicate` (external) and `Commit` go on beside them. RocksDB keys are
numbers in their byte order, so `key_prefix` and `key` select an interval.

### State and actions of `HttpLib` and `ThreadPool`

A client sends pieces: request line, headers, pieces of body or chunks. `sock` is what has
arrived, `buff` is `read_buff_` of the stream that lives for one request, `stage` the place
of a worker in `process_server_socket_core` and `process_request`. A kind of request says
which way it takes: a bad or long line, a bad range, an encoding or a multipart body that is
refused, a form that is too long (413, with its body read), with length, chunked or without length, too long, `Connection: close`, a handler
that throws, no route.

| action | code |
|---|---|
| `CreateSocket` (`NewSocket`, `SetCloexec`, `BindAndListen`, `CloseAndContinue`), `BindFails`, `Accept`, `AcceptFails` | `listen`: one address at a time, one system call at a time, each of which may fail with the descriptor open or not; accept and enqueue; a failure ends the loop and shuts the pool down |
| `Wait`, `Take` (`TakeConn`), `Exit`, `NotifyOne`, `NotifyAll`, `Join`, `Spurious` | `ThreadPool`; the notifications come after the mutex is released |
| `KeepAlive`, `KeepAliveEnd`, `Recv`, `ReadFails`, `RequestLine`, `Leftover`, `ReadHeaders`, `ReadContent*`, `SkipContentWithLength`, `Dispatch`, `Respond`, `CloseSocket` | a worker and its connection |
| `Connect`, `Ask`, `Send`, `Leave` | clients (external) |

### State and actions of `CrashDump`

A step is what a thread does between two accesses to a mutex, to the stacks or to a signal:
`Get`, `Construct`, `StartWorkers`, `Store` (the singleton); `AddThread`, `RemoveThread`
(the registry); `Crash`, `Open`, `Claim`, `LockThreads`, `Ask`, `Suspend`, `HandleStackTrace`,
`UnlockThreads`, `FlushRawStacks`, `Interpret`, `Restore`, `EndSegFault`, `EndSegAbort` (the
handlers); `Timer` (`flushWorker`). `proc` says how the process ended. Interpreting a stack
may hang (addr2line); `sigsuspend` waits for a signal that may have come before it.

`LogText` has no state; its two statements about all texts up to the bounds are checked as
`TextFits` when a dump is written.

### State and actions of `AnnoyIndex`

`items`, `trees`, `built`, `loaded` are the library's; `need_rebuild`, `deleted_ids` the
wrapper's. `live`, `kept` and `forgotten` are bookkeeping: what should be found, what of it is
in the file, and what was deleted before a save that was loaded again. Vectors are positions
on a line. `CanAdd` and `CanBuild` are the tests of `annoylib.h`; `Visits` is what its search
promises: `_get_all_nns` goes down the trees until it has met `search_k` labels (`n` in every
tree for -1), each at most once in a tree. Which labels it meets first is up to the random
splits, so a search takes any set of labels that is large enough. `SearchNothing` is the
return for `k <= 0`.

What is assumed of NuRaft: it appends at the next slot, overwrites only uncommitted
entries, installs packs at the next slot, and commits entries in log order, each once per
process.

## 3. Runs

`CHECK_DEADLOCK FALSE` stands where the system may stop: a node with no request or with its
rationed events used up is idle, one with a torn file cannot start, clients need not send
anything, and a process that has ended does nothing. `AnnoyIndex` never stops.

| run | shows |
|---|---|
| `log_store` | `Contiguous`, `WalMirrorsLog`, the refinement `ImplementsRaftLog`, and what a reader sees, for all sequences of calls on indexes up to 3, packs of up to 2 entries, two WAL lines |
| `restart` | the safety properties of a node for two crashes and two snapshots at any point, and `RestartCompletes` when a document never gains an integer field |
| `raft` | `SearchAgrees` and `ScalarLatest` with a crash, a snapshot and any two of: configuration entry, overwritten suffix, pack, `/insert`; a full HNSW index; documents that change index or field |
| `server` | every endpoint, with requests that are refused and fields that cannot be read; two threads, a node that may lead, follow or have no leader, two elections, two log entries, three calls and a reader with pages of one document |
| `http` | two workers, three connections: one client whose first request is of any of twelve kinds and who sends another, and two who keep the workers busy, so that a connection waits in the queue; two addresses to bind, with a failure at every system call; clients that leave at any time |
| `logger` | two threads, three messages and the one of `stop`, a ring of two, files of one message, one kept archive, one crash: both threads reach the same element a whole ring apart and meet the flusher there; two rotations and a removal, and one `tar` that fails |
| `dump` | two threads and the flusher, one or two crashes with either signal, a timer of two ticks, buffers of 12 and 20 characters with pieces of up to 2 |
| `annoy` | five labels, one of them with two vectors; searches for one query and k = 0, 1, 2 (four or eight candidates), with and without a filter, with the default `search_k` and with 3, over two trees |

Type correctness is proved for the log store and the node; in the other modules `TypeOK` is a
conjunct of one of the checked invariants.

Bounds. Recovery bugs need at most one write before a snapshot, one during it, one after it,
and two restarts; `restart` allows this, `raft` trades it for other events. The constraint
`AnyTwo` leaves out three or four kinds of these events in one behaviour. `Bounded` in `MCLogStore`
lets a call of the reader meet two maps and keeps the WAL, which a reader does not see, out
of its way. `SmallFile` in `MCAnnoy` keeps index and file
to two labels once there is a file: what a file adds (a loaded index, forgotten deletions)
needs one label that is deleted and one that is not, what needs five labels (the candidate
window) needs no file. In `http` three connections for two workers are the
fewest with which a job waits behind busy workers; the constraint `Bounded` of `MCHttpLib` keeps the
product small: the third client comes, and the second leaves, only while the first has sent
nothing. It forbids steps of clients only, of which the fairness asks nothing. `MaxTarFailures`
is 1: a second failure meets another file in the same way.

Runs that end in a counterexample. Each checks one statement of the repository:

| run | statement | what TLC shows |
|---|---|---|
| `filter` | `README.md:11`, bitmaps map a field value to the documents that have it | a stale bitmap entry in a snapshot is never cleared, because replay takes the old value from the newer RocksDB |
| `phantom` | `README.md:3`, `:34`, replicas are consistent | an overwritten, never committed entry is applied by the replay |
| `line` | `README.md:35`, WAL and snapshots restore the state | a body with a line break (JSON allows it) leaves a WAL line without an id; every reload ends, at the assertion of `vector_database.cpp:37` on the cut body or, when that line is skipped, at `std::stoull` |
| `topk` | `in_mem_vector_similarity.h:28`, "find the k vectors most similar to the target" | the heap pops its most similar element, so the k least similar remain |

Other behaviour of the code that the models contain, without a run of its own:

* a document can be in the FLAT index twice: upsert's index insert, a snapshot, a crash
  before the scalar put; the replay finds no stored document, removes nothing and inserts
  again. A document that moves from FLAT to HNSW stays in FLAT, because upsert removes the
  old vector from the index that the *new* request names;
* a document that gains an integer field aborts the commit and then every restart
  (`FieldMissing`); `RestartCompletes` is checked with requests that do not do this. The same
  happens with `SplitDocs = {d1}`: a bitmap with the byte 0x0a (the id 10, say) is split by
  `deserializeIntFieldFilter`;
* a document that arrived in a pack is in RocksDB but not in the index after a restart
  (`offWal` excludes it from `SearchAgrees`);
* `put` loses a message when the thread that waited finds its element `FLUSHING`
  (`lost` in `SimpleLogger`, which `Conserved` accounts for);
* `_snprintf` subtracts the whole of `cur_len` from `avail_len` each time. Nothing is written
  outside (`TextFits`), but the text of a frame is cut long before the buffer is full;
* after a request that the HTTP library gives up with (400, 413, 414, 415, 416), the
  connection stays open with the rest of the body unread, and the rest is taken for the next
  request. The body of a GET is not read either. `InOrder` therefore only speaks of
  responses that have neither before them on their connection;
* `/upsert` answers 200 on a follower and when the entry was not appended; `Acked` says what
  a client can rely on;
* a request that lacks a field its handler reads without asking (`/query` without `id`,
  `/admin/addFollower` without `nodeId` or `endpoint`), or has it with another type, ends the
  process in a RapidJSON assertion (`Abort` in `HttpServer`);
* when `tar` fails, `rm` deletes the log file all the same (`unpacked`, `left` in
  `SimpleLogger`);
* `listNode` may name two leaders or none; `addFollower` answers 200 whatever became of it;
* a crash of the flushing thread inside `flushAllLoggers` is never timed out, and with two
  crashing threads the dump may be incomplete.

### Fairness

* `VdbNode`: weak fairness of `Start` and of `Reload` only: an operator (or
  `scripts/start_vdb_server.sh`) starts a server that is down, and `main` runs
  `reloadDatabase` sequentially with nothing to wait for. Nothing is assumed of Raft, of the
  commit thread or of clients. Crashes are finite because they are rationed.
  `RestartCompletes` excuses a server whose index files cannot be read.
* `SimpleLogger`: weak fairness for each thread that is inside `put`, for `stop` once it has
  begun, for `flushWorker` and for `compressWorker`: the loops yield, the workers wake up
  every 500 ms, and the commands of `doCompression` end. Nobody has to begin a `put`, a
  `stop` or a crash.
* `HttpLib`: weak fairness of the listening thread and of every worker. Reading and
  keep-alive have timeouts (`ReadFails`, `KeepAliveEnd` need no client), so a worker never
  waits for a client for ever. Clients owe nothing, and accept need not fail.
* `CrashDump`: weak fairness of the threads that are in a handler and of the flusher, strong
  fairness where a thread waits for `loggersLock`, which the others give back again and
  again. Nothing is assumed of a thread that is asked for its stack, nor of addr2line.

## 4. Proofs

Checked by `tlapm` for all values of the constants that satisfy the named assumptions
(`LogStoreAssumption`, `IndexAssumption`, `NoDataAssumption`, `NodeAssumption`,
`PoolAssumption`, `HttpAssumption`, `ServerAssumption`, `LoggerAssumption`,
`DumpAssumption`, `RequestsAssumption`, `TextAssumption`, `AnnoyAssumption`): the bounds are naturals, the sizes
are positive, the special values (`None`, `NoJob`) are not ordinary ones, and `KindsOf` says
what requests a client may send. TLC evaluates every one of them. Each inductive invariant below was checked by TLC on the
instance of its run, or a larger one, before it was proved.

* `StoreTypeCorrect`, `StoreContiguous` (`LogStoreProofs`). The inductive invariant
  `StoreInv` adds to `TypeOK` that the domain of the map is `{0}` and an interval starting
  at `start_idx` (`Spans`), and that a pack in progress continues that interval
  (`PackInRange`). The lemmas say that each operator maps an interval to an interval and
  that `NextSlot` is its end; cardinality enters only in `NextSlotOfSpan`.
* `ReadersSound` (`LogStoreProofs`). `ReadsSound` speaks of calls that have returned; the
  invariant `ReaderInv` of those under way: as long as there is something to read, the map of
  this moment is among those the call has met (`InLoop`), the entry that `last_entry` would get
  now is sound already (`LastCall`), and so are all that `log_entries` has got, while each index
  still to be read has been in the map during the call (`RangeCall`). For a write between two
  lock sections the lemmas compare the map before and after it: an index keeps its entry, gets
  a new one, or is cut off.
* `StoreImplementsRaftLog` (`LogStoreProofs`). The sequence of the abstract log is the
  map on its interval (`LogOf`). With `Spans`, each operation is one on sequences: lemmas
  say what the segment of a map is after it was extended, cut at the back, cut at the front
  or changed in one place. `Append_` maps to `Extend`, `Write_at` to `Replace`, `Compact` to
  `Discard`, `Apply_pack` to `Begin` and `PackEntry` to `Install`.
* `StoreWalMirrors` (`LogStoreProofs`). `WalMirrorsLog` is inductive together with
  `StoreInv`: `write_at` drops all higher indexes, and what `append` writes has no line of
  its own above it in the log, so a new line never hides one that still counts
  (`LastLineNew`, `LastLineKept`).
* `NodeTypeCorrect`, `WalOrdered`, `MarkerNeverAhead` (`VdbNodeProofs`). The invariant
  `NodeInv` is `TypeOK` and `LogInv`, whose parts are: while reloading, `increaseID` bounds
  the ids of the lines read so far (`ReadBound`); while up, all markers are at most
  `increaseID`, which is below `start_idx` (`UpBound`); the log is an interval (`SpanOf`);
  and every WAL line is either from before `start_idx` or has its index in the log or was
  overwritten (`Accounted`). `WalIdsIncrease` alone is not inductive: that the next index is
  larger than every id in the file needs all four.
* `StoredIsLatest` (`VdbNodeProofs`), from `NodeInv`, `MirrorInv` and `Latest`. `Mirror` ties
  the WAL to the log while the node serves: a line that this process wrote and Raft kept is
  the log's entry of that id (`LinesLogged`), an entry for a document whose changes all go
  through the WAL has such a line (`EntriesLined`), and the request the commit thread applies
  is the entry it is at (`CommitHeld`). `Latest` says that a document is the last of its lines
  up to the commit index, or, before the node serves, the last of all its lines once the
  reload has passed them. The marker matters for the second half: what it lets the reload
  skip has to be in RocksDB already. Documents in `offWal`, or with a line that Raft
  overwrote, are left out, as in `ScalarLatest`; run `phantom` shows why.
* `QueriedIsFound`, `FlatHasOneVector`, `MarkerCovers` (`VdbNodeProofs`), from `NodeInv`,
  `MirrorInv` and `DataInv`. Two things have to be said of an index, in memory or in a file,
  with respect to a set of WAL lines that took effect in it (`Fit`): if these are all the
  lines of a document, the index is as the stored document wants it; and if one of them
  concerns this index, the document is there or another such line is still to come. `Memory`
  says it of the process (`Applied` are its lines), `Files` of each snapshot file: for the
  marker on disk at all times, and for the marker to come from the moment the file is
  written. So no order of file writes and crash can combine a marker with a file it does not
  fit. `Agrees` adds how far the commit thread is with the document it is at, `Stored` that
  RocksDB has a document for every line in effect, `Known` that a vector in FLAT is that of
  some line, `Order` that lines above the marker come behind those up to it. The first half
  of `Fit` gives `Agrees` when the reload has passed the last line of a document, the second
  gives `MarkerHidesNothing`. Documents in `offWal` are left out, as in the properties; their
  changes have no line.

* `ConnectionsTracked`, `ShutdownDrains` (`HttpLibProofs`). `OpenTracked` says who has each
  connection; it becomes inductive (`ServerInv`) with the types it leaves open, that a worker
  has a connection exactly while it runs (`MoreTypes`), that a request is only worked on while
  the keep-alive count is positive (`CountsDown`), and how the server ends (`Ending`): the
  pool is told to stop when the listening socket is closed, and a worker leaves only then and
  only when the queue is empty. `Drained` is `Ending` at `owner = "done"`.
* `HandlersGetWhole` (`HttpLibProofs`). `HandledWhole` speaks of requests that are over; the
  invariant `StreamInv` speaks of the bytes still to come. What a worker has buffered, what
  is in the socket and what the client has not sent yet are one stream, and every request
  line in it is that of a request not handled yet, followed by the rest of that request
  (`Clean`); a worker between two reads knows where in its request it is (`Placed`). A read
  takes the first piece of the stream, or fails and ends the connection, so the worker never
  takes a part of a body for a request line that a handler would be called for.
* `ResponsesInOrder` (`HttpLibProofs`). `StreamInv` does not say that nothing comes before the
  next request line, and after a request that was given up it need not be so. `OrderInv` adds,
  for connections on which everything so far was settled (`Smooth`), how many pieces are still
  to come at each place of a worker (`Turn`): none or exactly the next request between two
  requests (`Fresh`), what the headers announce minus what was read within a body, none behind
  a dispatched request. A client asks only when it has all its responses, so its next request
  finds the stream empty; a connection nobody serves yet has at most its first request in it.
* `UpsertAcked`, `NodeListTruthful` (`HttpServerProofs`). `HandlerInv`: every call has a
  number of its own and the present leader is among those that led during each call that is
  still running (`Numbered`); an upsert that is before `append` has nothing in the log, and
  one past it has its entry there or in `cut` if this node led all along, and none if it
  never led (`Upserts`); a list that is being made is truthful already (`Lists`). `InsertInv`
  says the same of the index: an entry of it belongs to an `/insert` that is still running or
  was answered with 200, so that a 400 leaves nothing, and an `/insert` never reaches the log.
  The leader may change between any two of these steps.
* `PageIs`, `WalkMissesNothing` (`HttpServerProofs`). `PageIs` is about `scan_page` alone: the
  loop over the iterator, which skips, takes and then looks for one key more, yields the keys
  whose rank among those in range lies in the page's interval. The invariant `WalkInv` of the
  reader is that whatever it still lacks has a rank behind the pages it has read (`Walked`),
  and that at most one request for a page, the next one, is under way (`OnePage`). It holds
  while upserts are committed because keys are only ever added, which takes no key to the front
  (`FurtherBack`); a handler that erased keys would break it. A reader that was told
  `has_more = false` lacks nothing, since no rank exceeds the number of keys.
* `MessagesConserved`, `NothingTwice`, `FilesBounded`, `CompressorKeepsAway`,
  `RetentionSound`, `StopLeavesNothing` (`SimpleLoggerProofs`), from one invariant
  `LoggerInv`. Its parts: who holds the mutex is the one at `flush`, and who may be where in
  each stage of `stop()` (`Posts`); an element that is written or flushed has exactly one
  thread at it (`Elements`); the part of the ring that the last flush has passed is clean
  (`Draining`; that a whole round meets every element is the lemma `Reached`); the current
  file is the newest number, the queue is ordered and the compressor's job is in front of it,
  and between `tar` and `rm` file and archive are equal unless `tar` failed (`Files`); a message is in one place
  only (`Places`), and somewhere (`Kept`); during a flush the current file has grown by at
  most `done` (`Sizes`); the numbers on disk have no gap but for failed `tar`s, and one archive more than the limit
  exists only until the next removal (`Retention`). None of the six properties is inductive
  alone: that a flushed message is not in a file already needs `Places`, that its element
  holds a message needs `Elements`, and both need `Posts`. For `Crash` the lemma
  `MaxIsCurrent` shows that `findMinMaxRevNum` comes back to the file the dead process had.
* `OneManagerOneCollector`, `NobodyAsksTheDead`, `LoneDumpComplete`, `RawFirst`
  (`CrashDumpProofs`), from `CrashInv`: until the manager is stored, Main holds
  `instanceLock` or is alone (`Started`); the collecting thread is the crash origin and holds
  `activeThreadsLock`, so those it has still to ask stay registered (`Collects`); and for a
  lone crash one question is out at a time, and every registered thread has answered, is
  being asked or is still to be asked (`Collection`).
* `StackFits`, `DumpTextFits` (`CrashDumpProofs`). `snprintf` returns the length it would have
  written; `_snprintf` caps what is left and where it goes on (`SnprintfStays`). So the cursor
  stays within the buffer over any sequence of pieces and frames, which gives the bound of the
  interpreted stack; `put` cuts a line at its own size, and the chunks that
  `_flushStackTraceBuffer` makes are short enough never to be cut and add up to the text
  (`ChunksMakeUp`).

* `LateInsertThrows`, `SearchReturnsLive`, `SearchReturnsEnough`, `SearchReturnsBest`
  (`AnnoyIndexProofs`). The invariant `IndexInv` says that `need_rebuild_` is set on a built
  index exactly when a vector came too late, and never on a loaded one (`Flags`); that what is
  in the index and not deleted is what should be found, or was deleted before the save that
  was loaded again, and that the trees hold the whole index unless `need_rebuild_` is set
  (`Content`); the same of the file (`Filed`); and that the ids of the last search are those
  its loop picks, in the present index, from *some* set of labels that `Visits` lets a search
  meet (`Result`). Nothing is assumed of which set: Annoy is approximate. The first theorem
  follows from `Flags` and `Result` alone. For the others the lemmas give each member of a
  finite, strictly ordered set its place (`PlacesFull`, `InPlacesIs`); the loop picks the
  first `min(k, n)` of the `n` candidates that may be returned, in their order (`PickedIs`,
  `FindsIn`), which is `SearchReturnsLive`. With the default `search_k` at least `4 k` labels
  are met, or all, and of the `4 k` nearest of them only deleted or filtered ones are lost
  (`FirstPlaces`, `EnoughMet`): that is `SearchReturnsEnough`. The results come in order for
  any `search_k` (`SortedHits`). With at most `4 k` labels the search meets all of them, and
  the results are the best there are (`BestIs`): a heap asked for all vectors keeps them all
  (`TopKIs`), and although Annoy and the heap break ties differently, they have equal
  similarities in mirrored places (`SamePlaceSameSim`, by counting the strictly nearer).

The loops in these three groups (`Scan`, `Snprintfs`, `StackInterpret`, `Total`, `Picked`, the
heap of `FindTopK`) are recursive functions on `0 .. n`. The induction over such a loop is done
by its least counterexample: a nonempty set of naturals has a least member (`Least`), which is
neither 0 nor the successor of an index that is fine.

Only model-checked, and why:

* the liveness properties (`ConnectionEnds`, `ShutdownEnds`, `PutReturns`, `StopReturns`,
  `DumpEnds` and `RestartCompletes`): outside the prover's reach. Every safety and action property of a passing run has a theorem.

## 5. Not modelled, and the plan

Not modelled:

* NuRaft's protocol (not in this repository), and with it `inmem_state_mgr`, which only
  stores what NuRaft hands it, and `logger_wrapper`, which forwards;
* a WAL line cut by a crash;
* failed writes of the node: `writeWALRawLog` and `insert_scalar` log a failed write
  (`persistence.cpp:60`, `scalar_storage.cpp:31`) and go on as if it had succeeded, so a full
  disk loses a line or a document without anybody being told. In the model both succeed;
* which tail of the WAL was committed, after a restart: `last_committed_idx` begins again at
  the last id, so `ScalarLatest` counts a line that was replayed as committed although it may
  never have been. Run `phantom` is about that case;
* the slow disk that `InMemLogStore` can emulate: `set_disk_delay` has no caller, so the
  thread of `disk_emul_loop` is never started and `last_durable_index` is the last index;
* of `httplib.h`: `stop()`, "100 Continue", HTTP/1.0, descriptors past `FD_SETSIZE`, the
  parsing of ranges, forms and multipart bodies, compression, TLS, static files, regular
  expressions in routes and the client: not used by this program, or without state;
* a reset of the connection by the kernel after a write to a client that has gone: what is
  written there is lost, as in the model;
* of the logger: an `rm` that fails; setters, levels, the destruction of the manager (nobody calls it); of
  `backtrace.h` symbol lookup and everything that is not Linux;
* distances in Faiss and hnswlib; of Annoy how trees are split, and with it which labels a
  search meets first (any are allowed), the overflow of `4 * k`, and files that are damaged;
* tests, benchmarks, scripts and the container.

Next, in this order:

1. A WAL whose last line a crash has cut, and what the next process appends behind it.
2. An abstract specification of a recoverable document store that `VdbNode` refines where
   it does.

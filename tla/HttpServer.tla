----------------------------- MODULE HttpServer -----------------------------
(***************************************************************************)
(* The handlers of HttpServer (http_server.cpp) and the part of RaftStuff   *)
(* they call, run by several threads of the HTTP library against one node;  *)
(* ScalarStorage::scan_page; and a client that reads all documents page by  *)
(* page while others write.                                                *)
(*                                                                         *)
(* NuRaft is external: who leads, what is committed and what is cut off     *)
(* from the log changes under the handlers' feet.  A handler is split where  *)
(* it asks NuRaft again.  RocksDB keys are numbered in their byte order, so  *)
(* that key_prefix and key select an interval; the filter blob, which a     *)
(* snapshot puts into the same database, is one of them.                   *)
(***************************************************************************)
EXTENDS Integers, Sequences, FiniteSets

CONSTANTS
    Threads,    \* of the HTTP library
    Self,       \* this node
    Peers,      \* endpoints that /admin/addFollower may name
    None,       \* no leader, no request
    Keys,       \* keys that /upsert and /insert name
    Requests,   \* what clients ask for, apart from the reader
    BlobKey,    \* the key of the filter blob
    Low, High,  \* the interval that the reader's key_prefix and key select
    PageSize,   \* the reader's page_size
    MaxLog,     \* bound on the entries appended
    MaxElections, MaxCalls  \* bounds on what they name

ASSUME ServerAssumption ==
    /\ Keys \cup {BlobKey} \subseteq Nat /\ Low \in Nat /\ High \in Nat
    /\ PageSize \in Nat \ {0} /\ MaxLog \in Nat /\ MaxElections \in Nat
    /\ MaxCalls \in Nat
    /\ Self \notin Peers /\ None \notin Peers \cup {Self}

Nodes == Peers \cup {Self}

VARIABLES
    leader,     \* get_leader(); is_leader() on this node is leader = Self
    members,    \* get_config()
    log,        \* appended entries: the key and the call it is from
    applied,    \* how many of them are committed
    stored,     \* RocksDB
    flat,       \* what /insert has put into an index: the key, and the call
    pc, rq, id, \* a thread: where it is, its request, the number of its call
    list,       \* ... the servers it has looked up, for listNode
    ans,        \* ... its last answer
    reader,     \* the client that reads page by page
    led,        \* bookkeeping: who led during the call of a thread,
    cut,        \* calls whose entry was cut off again (0: from another node),
    calls, elections    \* and counters

raft == <<leader, members, log, applied, cut, elections>>
thread == <<pc, rq, id, list, ans, led, calls>>
vars == <<raft, stored, flat, thread, reader>>

-----------------------------------------------------------------------------
(* ScalarStorage::scan_page.                                               *)

\* The keys of a set in the order in which an iterator visits them.
Ascending(S) ==
    CHOOSE ks \in [1 .. Cardinality(S) -> S] :
        \A i, j \in 1 .. Cardinality(S) : i < j => ks[i] < ks[j]

InRange(k) == Low <= k /\ k <= High

\* The loop over the iterator: what is still to be skipped, how many items the
\* page has, has_more, and whether a key was out of range, after i keys.
Scan(ks, num, size) ==
    LET loop[i \in 0 .. Len(ks)] ==
            IF i = 0 THEN [skip |-> (num - 1) * size, n |-> 0, more |-> FALSE, over |-> FALSE]
            ELSE LET s == loop[i - 1]
                 IN  IF s.more \/ s.over THEN s
                     ELSE IF ~InRange(ks[i]) THEN [s EXCEPT !.over = TRUE]
                     ELSE IF s.skip > 0 THEN [s EXCEPT !.skip = @ - 1]
                     ELSE IF s.n < size THEN [s EXCEPT !.n = @ + 1]
                     ELSE [s EXCEPT !.more = TRUE]
    IN  loop[Len(ks)]

\* Slip: a page begins one item late.
ScanPageLate(db, num, size) ==
    LET ks == Ascending({k \in db : k >= Low})
        end == Scan(ks, num, size)
        skipped == (num - 1) * size
    IN  [items |-> {ks[i] : i \in skipped + 2 .. skipped + end.n}, more |-> end.more]

\* Seek(key_prefix), and the page, whose items are the keys that were not skipped;
\* the second look for has_more after the loop can only find what the loop has
\* seen.
ScanPage(db, num, size) ==
    LET ks == Ascending({k \in db : k >= Low})
        end == Scan(ks, num, size)
        skipped == (num - 1) * size
    IN  [items |-> {ks[i] : i \in skipped + 1 .. skipped + end.n}, more |-> end.more]

-----------------------------------------------------------------------------
(* Requests.                                                               *)

\* "badField": a field is missing that the handler reads without asking for it
\* first, or has a type it does not ask for.
Shapes == {"ok", "notObject", "missing", "unknownType", "badField"}
Call(op, shape, arg) == [op |-> op, shape |-> shape, arg |-> arg]

\* IsObject, isRequestValid, getIndexTypeFromRequest and the limits of the page
\* parameters: requests that are answered with 400 before anything is done.
Rejected(r) ==
    \/ r.shape = "notObject" /\ r.op \in {"search", "insert", "upsert", "query", "addFollower"}
    \/ r.shape = "missing" /\ r.op \in {"search", "insert", "upsert"}
    \/ r.shape = "unknownType" /\ r.op \in {"search", "insert"}
    \/ r.shape = "badPage"

AllRequests ==
    {Call(op, s, k) : op \in {"insert", "upsert"}, s \in Shapes, k \in Keys}
    \cup {Call("search", s, 0) : s \in Shapes}
    \cup {Call("query", s, k) : s \in {"ok", "notObject", "badField"}, k \in Keys}
    \cup {Call("addFollower", s, p) : s \in {"ok", "notObject", "badField"}, p \in Peers}
    \cup {Call(op, "ok", 0) : op \in {"snapshot", "setLeader", "listNode", "getNode"}}
    \cup {Call("getScalar", "badPage", 0)}

ASSUME RequestsAssumption == Requests \subseteq AllRequests

NoRequest == Call("none", "ok", 0)
NoAnswer == [code |-> 0, body |-> {}]

Init ==
    /\ leader = None /\ members = {Self} /\ log = <<>> /\ applied = 0
    /\ stored = {} /\ flat = {}
    /\ pc = [t \in Threads |-> "idle"] /\ rq = [t \in Threads |-> NoRequest]
    /\ id = [t \in Threads |-> 0] /\ list = [t \in Threads |-> {}]
    /\ ans = [t \in Threads |-> NoAnswer] /\ led = [t \in Threads |-> {}]
    /\ reader = [page |-> 0, got |-> {}, since |-> {}]
    /\ cut = {} /\ calls = 0 /\ elections = 0

Take(t, r) ==
    /\ pc[t] = "idle" /\ pc' = [pc EXCEPT ![t] = "handle"]
    /\ rq' = [rq EXCEPT ![t] = r] /\ id' = [id EXCEPT ![t] = calls + 1]
    /\ calls' = calls + 1
    /\ list' = [list EXCEPT ![t] = {}] /\ ans' = [ans EXCEPT ![t] = NoAnswer]
    /\ led' = [led EXCEPT ![t] = {leader}]

Receive(t, r) ==
    /\ calls < MaxCalls /\ Take(t, r)
    /\ r.op = "upsert" => Len(log) < MaxLog
    /\ UNCHANGED <<raft, stored, flat, reader>>

In(t, place, op) == pc[t] = place /\ rq[t].op = op

\* What the model remembers of a call that is over.
Remembered(r) == r.op \in {"insert", "upsert", "listNode"}

\* setJsonResponse and setErrorJsonResponse.
Reply(t, code, body) ==
    /\ pc' = [pc EXCEPT ![t] = "idle"] /\ UNCHANGED calls
    /\ list' = [list EXCEPT ![t] = {}]
    /\ IF Remembered(rq[t])
       THEN ans' = [ans EXCEPT ![t] = [code |-> code, body |-> body]] /\ UNCHANGED <<rq, id, led>>
       ELSE /\ rq' = [rq EXCEPT ![t] = NoRequest] /\ id' = [id EXCEPT ![t] = 0]
            /\ led' = [led EXCEPT ![t] = {}] /\ UNCHANGED ans

Goto(t, place) ==
    /\ pc' = [pc EXCEPT ![t] = place]
    /\ UNCHANGED <<rq, id, list, ans, led, calls>>

-----------------------------------------------------------------------------
(* Handlers.                                                               *)

\* Slip: the index type is looked at when the vector is in the index.
RejectLate(t) ==
    /\ pc[t] = "handle" /\ Rejected(rq[t]) /\ Reply(t, 400, {})
    /\ flat' = IF rq[t].op = "insert" /\ rq[t].shape = "unknownType"
               THEN flat \cup {[key |-> rq[t].arg, of |-> id[t]]} ELSE flat
    /\ UNCHANGED <<raft, stored, reader>>

Reject(t) ==
    /\ pc[t] = "handle" /\ Rejected(rq[t]) /\ Reply(t, 400, {})
    /\ UNCHANGED <<raft, stored, flat, reader>>

\* RAPIDJSON_ASSERT in operator[], GetUint64, GetInt, GetArray or GetFloat: the
\* process ends.  addFollowerHandler asks for the leader before it reads a field.
Abort(t) ==
    /\ pc[t] = "handle" /\ rq[t].shape = "badField"
    /\ rq[t].op = "addFollower" => leader = Self
    /\ Goto(t, "aborted")
    /\ UNCHANGED <<raft, stored, flat, reader>>

Runs(t, op) == In(t, "handle", op) /\ rq[t].shape # "badField" /\ ~Rejected(rq[t])

Slots == {e.key : e \in flat}

SearchHandler(t) ==
    /\ Runs(t, "search") /\ Reply(t, 200, Slots)
    /\ UNCHANGED <<raft, stored, flat, reader>>

InsertHandler(t) ==
    /\ Runs(t, "insert") /\ Reply(t, 200, {})
    /\ flat' = flat \cup {[key |-> rq[t].arg, of |-> id[t]]}
    /\ UNCHANGED <<raft, stored, reader>>

QueryHandler(t) ==
    /\ Runs(t, "query") /\ Reply(t, 200, stored \cap {rq[t].arg})
    /\ UNCHANGED <<raft, stored, flat, reader>>

\* takeSnapshot, here for the key it puts into RocksDB.
SnapshotHandler(t) ==
    /\ Runs(t, "snapshot") /\ Reply(t, 200, {})
    /\ stored' = stored \cup {BlobKey}
    /\ UNCHANGED <<raft, flat, reader>>

\* enableElectionTimeout sets parameters that the node has anyway.
SetLeaderHandler(t) ==
    /\ Runs(t, "setLeader") /\ Reply(t, 200, {})
    /\ UNCHANGED <<raft, stored, flat, reader>>

\* upsertHandler up to the end of appendEntries' own test of is_leader.
UpsertHandler(t) ==
    /\ Runs(t, "upsert")
    /\ IF leader = Self THEN Goto(t, "append") ELSE Reply(t, 200, {})
    /\ UNCHANGED <<raft, stored, flat, reader>>

\* Slip: the entry is handed over after the answer, and forgotten.
AppendNothing(t) ==
    /\ In(t, "append", "upsert") /\ Goto(t, "wait")
    /\ UNCHANGED <<raft, stored, flat, reader>>

\* raft_server::append_entries, which asks for the leader once more ...
AppendEntries(t) ==
    /\ In(t, "append", "upsert") /\ Goto(t, "wait")
    /\ log' = IF leader = Self THEN Append(log, [key |-> rq[t].arg, of |-> id[t]]) ELSE log
    /\ UNCHANGED <<leader, members, applied, cut, elections, stored, flat, reader>>

\* ... and returns when the entry is committed, given up or too late: nobody
\* looks at what it returns.
UpsertAnswer(t) ==
    /\ In(t, "wait", "upsert") /\ Reply(t, 200, {})
    /\ UNCHANGED <<raft, stored, flat, reader>>

AddFollowerHandler(t) ==
    /\ In(t, "handle", "addFollower") /\ ~Rejected(rq[t])
    /\ IF leader = Self THEN rq[t].shape # "badField" /\ Goto(t, "addSrv")
       ELSE Reply(t, 400, {})
    /\ UNCHANGED <<raft, stored, flat, reader>>

\* raft_server::add_srv: the server joins, or not; again nobody looks.
AddSrv(t) ==
    /\ In(t, "addSrv", "addFollower") /\ Reply(t, 200, {})
    /\ \/ leader = Self /\ members' = members \cup {rq[t].arg}
       \/ UNCHANGED members
    /\ UNCHANGED <<leader, log, applied, cut, elections, stored, flat, reader>>

\* getAllNodesInfo: get_config once ...
ListNodeHandler(t) ==
    /\ Runs(t, "listNode") /\ pc' = [pc EXCEPT ![t] = "list"]
    /\ list' = [list EXCEPT ![t] = {[node |-> n, state |-> "?"] : n \in members}]
    /\ UNCHANGED <<raft, stored, flat, reader, rq, id, ans, led, calls>>

\* Slip: every node is compared with is_leader() of this one.
StateOfSelf(n) == IF leader = Self THEN "leader" ELSE "follower"
StateOf(n) == IF n = leader THEN "leader" ELSE "follower"

\* ... and get_leader again for every server.
ListOne(t) ==
    /\ In(t, "list", "listNode")
    /\ \E e \in list[t] :
        /\ e.state = "?"
        /\ list' = [list EXCEPT ![t] =
                (@ \ {e}) \cup {[node |-> e.node, state |-> StateOf(e.node)]}]
    /\ UNCHANGED <<raft, stored, flat, reader, pc, rq, id, ans, led, calls>>

ListDone(t) ==
    /\ In(t, "list", "listNode") /\ \A e \in list[t] : e.state # "?"
    /\ Reply(t, 200, list[t])
    /\ UNCHANGED <<raft, stored, flat, reader>>

\* getCurrentNodesInfo: the same for this node, between two questions.
CurrentNodesInfo == {[node |-> n, state |-> StateOf(n)] : n \in members \cap {Self}}

GetNodeHandler(t) ==
    /\ Runs(t, "getNode") /\ Reply(t, 200, CurrentNodesInfo)
    /\ UNCHANGED <<raft, stored, flat, reader>>

\* getScalarHandler: the answer goes to the reader.
GetScalarHandler(t) ==
    /\ Runs(t, "getScalar")
    /\ LET page == ScanPage(stored, rq[t].arg, PageSize)
       IN  /\ Reply(t, 200, page.items)
           /\ reader' = [page |-> IF page.more THEN reader.page + 1 ELSE 0,
                         got |-> reader.got \cup page.items, since |-> reader.since]
    /\ UNCHANGED <<raft, stored, flat>>

-----------------------------------------------------------------------------
(* The reader (external): /admin/getScalar with page_num 1, 2, ... until      *)
(* hasMore is false.                                                       *)

InWalk == \E t \in Threads : rq[t].op = "getScalar" /\ pc[t] # "idle"

ReadFirst(t) ==
    /\ reader.page = 0 /\ calls < MaxCalls /\ ~InWalk
    /\ Take(t, Call("getScalar", "ok", 1))
    /\ reader' = [page |-> 1, got |-> {}, since |-> {k \in stored : InRange(k)}]
    /\ UNCHANGED <<raft, stored, flat>>

ReadNext(t) ==
    /\ reader.page > 1 /\ ~InWalk
    /\ Take(t, Call("getScalar", "ok", reader.page))
    /\ UNCHANGED <<raft, stored, flat, reader>>

-----------------------------------------------------------------------------
(* NuRaft (external).                                                      *)

\* The leader changes, or is lost; a new leader may cut off what is not
\* committed.
Elect(n, keep) ==
    /\ elections < MaxElections /\ n # leader /\ elections' = elections + 1
    /\ leader' = n
    /\ led' = [t \in Threads |-> IF pc[t] = "idle" THEN led[t] ELSE led[t] \cup {n}]
    /\ keep \in applied .. Len(log) /\ (n = Self => keep = Len(log))
    /\ log' = SubSeq(log, 1, keep)
    /\ cut' = cut \cup {log[i].of : i \in keep + 1 .. Len(log)}
    /\ UNCHANGED <<members, applied, stored, flat, pc, rq, id, list, ans, calls, reader>>

\* Another node leads and replicates an entry of its own.
Replicate(k) ==
    /\ leader \notin {Self, None} /\ Len(log) < MaxLog
    /\ log' = Append(log, [key |-> k, of |-> 0])
    /\ UNCHANGED <<leader, members, applied, cut, elections, stored, flat, thread, reader>>

\* log_state_machine::commit, here for the key it puts into RocksDB.
Commit ==
    /\ applied < Len(log) /\ applied' = applied + 1
    /\ stored' = stored \cup {log[applied + 1].key}
    /\ UNCHANGED <<leader, members, log, cut, elections, flat, thread, reader>>

-----------------------------------------------------------------------------

Handle(t) ==
    \/ Reject(t) \/ Abort(t) \/ SearchHandler(t) \/ InsertHandler(t) \/ QueryHandler(t)
    \/ SnapshotHandler(t) \/ SetLeaderHandler(t)
    \/ UpsertHandler(t) \/ AppendEntries(t) \/ UpsertAnswer(t)
    \/ AddFollowerHandler(t) \/ AddSrv(t)
    \/ ListNodeHandler(t) \/ ListOne(t) \/ ListDone(t) \/ GetNodeHandler(t)
    \/ GetScalarHandler(t)

Running == \A t \in Threads : pc[t] # "aborted"

Steps ==
    \/ \E t \in Threads :
        \/ Handle(t) \/ ReadFirst(t) \/ ReadNext(t)
        \/ \E r \in Requests : Receive(t, r)
    \/ \E n \in members \cup {None}, keep \in 0 .. MaxLog : Elect(n, keep)
    \/ Commit \/ \E k \in Keys : Replicate(k)

\* One thread that aborts takes the process with it.
Next == Running /\ Steps

Spec == Init /\ [][Next]_vars

-----------------------------------------------------------------------------
(* Properties.                                                             *)

\* The state keeps its types: what is applied is in the log, and this node
\* never leaves the configuration.
TypeOK ==
    /\ leader \in Nodes \cup {None} /\ members \subseteq Nodes /\ Self \in members
    /\ log \in Seq([key : Keys, of : 0 .. calls]) /\ applied \in 0 .. Len(log)
    /\ stored \subseteq Keys \cup {BlobKey} /\ flat \subseteq [key : Keys, of : 1 .. calls]
    /\ \A t \in Threads :
        /\ pc[t] \in {"idle", "handle", "append", "wait", "addSrv", "list", "aborted"}
        /\ ans[t].code \in {0, 200, 400} /\ (pc[t] # "idle" => ans[t].code = 0)

\* A client that reads the documents page by page (getScalarHandler over
\* scan_page, which counts off page_num - 1 pages on a new iterator each time)
\* has, when hasMore is false, every document that was there when it began,
\* whatever upserts and snapshots put between its pages: what is inserted in
\* front of it can only show it a document twice.
WalkComplete == reader.page = 0 => reader.since \subseteq reader.got

\* getAllNodesInfo asks get_leader anew for every server, so its list may name
\* two leaders or none; but a node it calls leader did lead during the call.
ListTruthful ==
    \A t \in Threads : In(t, "idle", "listNode") =>
        /\ Self \in {e.node : e \in ans[t].body}
        /\ \A e \in ans[t].body : e.state = "leader" => e.node \in led[t]

EntriesOf(i) == {j \in 1 .. Len(log) : log[j].of = i}

InsertsOf(i) == {e \in flat : e.of = i}

\* What the code of an answer says.  An upsert that upsertHandler answers with 200
\* while this node led all along has its entry in the log, once, unless a later
\* leader cut it off; while this node never led, the 200 stands for nothing, and
\* nothing has got into the log.  An insert answered with 200 is in the index.  An
\* insert or upsert answered with 400 leaves nothing in the log or an index.
Acked ==
    /\ TypeOK
    /\ \A t \in Threads :
        LET logged == EntriesOf(id[t]) # {} \/ id[t] \in cut
        IN  /\ In(t, "idle", "upsert") =>
                /\ \A i, j \in EntriesOf(id[t]) : i = j
                /\ InsertsOf(id[t]) = {}
                /\ (ans[t].code = 400 \/ Self \notin led[t]) => ~logged
                /\ (ans[t].code = 200 /\ led[t] = {Self}) => logged
            /\ In(t, "idle", "insert") =>
                /\ ~logged
                /\ InsertsOf(id[t]) # {} <=> ans[t].code = 200
=============================================================================

------------------------------ MODULE HttpLib ------------------------------
(***************************************************************************)
(* The server of httplib.h as vdb_server uses it: listen() binds a socket,  *)
(* accepts connections and hands them to the thread pool; a worker serves   *)
(* one connection, request after request, until it is closed.              *)
(*                                                                         *)
(* What a client sends is a sequence of pieces: the request line, the       *)
(* header lines (one piece, complete lines) and the pieces of a body: parts *)
(* without a line break, or chunks and the last chunk with its trailer.     *)
(* A piece belongs to the n-th request of its connection.  SocketStream     *)
(* reads whatever has arrived into read_buff_; the stream, and with it the  *)
(* rest of read_buff_, is gone after each request.  Not in the model: stop() *)
(* and everything else this program does not use, "100 Continue", HTTP/1.0, *)
(* and descriptors past FD_SETSIZE.                                        *)
(*                                                                         *)
(* A kind of request says what decides its way through the server:          *)
(*   head    "ok", "bad" line, "long" line, a "range" that does not parse,   *)
(*           an "encoded" body, multipart without its "boundary", or a "form" *)
(*           above CPPHTTPLIB_FORM_URL_ENCODED_PAYLOAD_MAX_LENGTH            *)
(*   content expect_content: POST                                          *)
(*   len     how the body ends: "length", "chunked" or "none" (with the      *)
(*           connection)                                                   *)
(*   body    pieces of body;   big: longer than payload_max_length_         *)
(*   close   Connection: close                                             *)
(*   route   "ok", "throws" (the handler) or "missing"                      *)
(***************************************************************************)
EXTENDS ThreadPool

CONSTANTS
    KindsOf,        \* connection -> for each request its client may send, the
                    \* kinds it may be of (which bounds their number)
    KeepAliveMax,   \* keep_alive_max_count_
    Addrs,          \* number of addresses getaddrinfo() gives
    MayFail         \* may accept() fail for good?

Conns == Jobs
Kind == [head : {"ok", "bad", "long", "range", "encoded", "boundary", "form"},
         content : BOOLEAN, len : {"length", "chunked", "none"}, body : Nat,
         big : BOOLEAN, close : BOOLEAN, route : {"ok", "throws", "missing"}]

ASSUME HttpAssumption ==
    /\ KeepAliveMax \in Nat \ {0} /\ MayFail \in BOOLEAN /\ Addrs \in Nat
    /\ KindsOf \in [Conns -> Seq(SUBSET Kind)]

VARIABLES
    lsn,        \* listen(): where it is, the addresses left to try and the
                \* number of its open descriptors
    cst,        \* connection: "new", "backlog", "open", "closed"
    asked,      \* kinds of the requests its client has begun to send
    unsent,     \* pieces of the last one that are still to be sent
    gone,       \* the client has closed its side: it sends no more
    sock,       \* pieces in the socket's receive queue
    resp,       \* responses written to the socket; the client gets them
                \* if it still reads
    stage,      \* worker: its place in process_server_socket_core
    count,      \* ... the requests this connection may still make
    buff,       \* ... read_buff_
    req,        \* ... number of the request it works on, 0 for none
    body,       \* ... req.body: pieces read
    status,     \* ... res.status
    conn_close, \* ... connection_closed
    handled     \* calls of handlers: connection, request, body it was given

client == <<asked, unsent, gone>>
local == <<stage, count, buff, req, body, status, conn_close>>
vars == <<poolVars, lsn, cst, client, sock, resp, local, handled>>

Line(n) == [part |-> "line", of |-> n]
Hdrs(n) == [part |-> "hdrs", of |-> n]
Piece(n) == [part |-> "body", of |-> n]
Chunk(n) == [part |-> "chunk", of |-> n]
LastChunk(n) == [part |-> "last", of |-> n]

Data(n, k) == [i \in 1 .. k.body |-> IF k.len = "chunked" THEN Chunk(n) ELSE Piece(n)]
BodyOf(n, k) == Data(n, k) \o (IF k.len = "chunked" THEN <<LastChunk(n)>> ELSE <<>>)

Init ==
    /\ PoolInit /\ lsn = [at |-> "bind", left |-> Addrs, fds |-> 0]
    /\ cst = [c \in Conns |-> "new"]
    /\ asked = [c \in Conns |-> <<>>] /\ unsent = [c \in Conns |-> <<>>]
    /\ gone = [c \in Conns |-> FALSE]
    /\ sock = [c \in Conns |-> <<>>] /\ resp = [c \in Conns |-> <<>>]
    /\ stage = [w \in Workers |-> "idle"] /\ count = [w \in Workers |-> 0]
    /\ buff = [w \in Workers |-> <<>>] /\ req = [w \in Workers |-> 0]
    /\ body = [w \in Workers |-> <<>>] /\ status = [w \in Workers |-> 0]
    /\ conn_close = [w \in Workers |-> FALSE]
    /\ handled = <<>>

-----------------------------------------------------------------------------
(* Clients (external).  A client sends one request after the other, the next *)
(* when it has a response that does not announce the end of the connection. *)

Connect(c) ==
    /\ cst[c] = "new" /\ lsn.at = "open"
    /\ cst' = [cst EXCEPT ![c] = "backlog"]
    /\ UNCHANGED <<poolVars, lsn, client, sock, resp, local, handled>>

MayAsk(c) ==
    /\ cst[c] \in {"backlog", "open"} /\ ~gone[c]
    /\ unsent[c] = <<>> /\ Len(asked[c]) < Len(KindsOf[c])
    /\ Len(resp[c]) >= Len(asked[c])
    /\ resp[c] # <<>> => ~resp[c][Len(resp[c])].close

Ask(c) ==
    /\ MayAsk(c)
    /\ LET n == Len(asked[c]) + 1
       IN  \E k \in KindsOf[c][n] :
            /\ asked' = [asked EXCEPT ![c] = Append(@, k)]
            /\ sock' = [sock EXCEPT ![c] = @ \o <<Line(n), Hdrs(n)>>]
            /\ unsent' = [unsent EXCEPT ![c] = BodyOf(n, k)]
    /\ UNCHANGED <<poolVars, lsn, cst, gone, resp, local, handled>>

\* The rest of a request is not sent any more when its response is there.
Send(c) ==
    /\ unsent[c] # <<>> /\ Len(resp[c]) < Len(asked[c])
    /\ cst[c] \in {"backlog", "open"} /\ ~gone[c]
    /\ sock' = [sock EXCEPT ![c] = Append(@, Head(unsent[c]))]
    /\ unsent' = [unsent EXCEPT ![c] = Tail(@)]
    /\ UNCHANGED <<poolVars, lsn, cst, asked, gone, resp, local, handled>>

Leave(c) ==
    /\ cst[c] \in {"backlog", "open"} /\ ~gone[c]
    /\ gone' = [gone EXCEPT ![c] = TRUE]
    /\ UNCHANGED <<poolVars, lsn, cst, asked, unsent, sock, resp, local, handled>>

-----------------------------------------------------------------------------
(* listen(): create_socket, bind_internal, listen_internal.                 *)

Binding(at, left, fds) ==
    /\ lsn' = [at |-> at, left |-> left, fds |-> fds]
    /\ UNCHANGED <<poolVars, cst, client, sock, resp, local, handled>>

\* create_socket, one address after the other: socket() ...
NewSocket ==
    /\ lsn.at = "bind" /\ lsn.left > 0
    /\ \/ Binding("fcntl", lsn.left - 1, lsn.fds + 1)
       \/ Binding("bind", lsn.left - 1, lsn.fds)

\* ... with close_socket before the next address:
CloseAndContinue == Binding("bind", lsn.left, lsn.fds - 1)

\* Slip: the loop goes on without close_socket.
SetCloexecLeaks ==
    /\ lsn.at = "fcntl"
    /\ Binding("listen", lsn.left, lsn.fds) \/ Binding("bind", lsn.left, lsn.fds)

\* ... fcntl() ...
SetCloexec ==
    /\ lsn.at = "fcntl"
    /\ Binding("listen", lsn.left, lsn.fds) \/ CloseAndContinue

\* ... and what create_server_socket hands in, bind() and listen().
BindAndListen ==
    /\ lsn.at = "listen"
    /\ Binding("open", 0, lsn.fds) \/ CloseAndContinue

CreateSocket == NewSocket \/ SetCloexec \/ BindAndListen

\* No address is left: bind_internal returns -1 and listen() false.
BindFails ==
    /\ lsn.at = "bind" /\ lsn.left = 0
    /\ Binding("failed", 0, lsn.fds)

\* accept(); it is called again after EMFILE, EINTR and EAGAIN.
Accept(c) ==
    /\ lsn.at = "open" /\ cst[c] = "backlog" /\ Enqueue(c)
    /\ cst' = [cst EXCEPT ![c] = "open"]
    /\ UNCHANGED <<lsn, client, sock, resp, local, handled>>

\* accept() fails and errno is not one of those: the listening socket is closed
\* (what is in its backlog is reset), the loop ends and the pool is shut down.
\* svr_sock_ keeps its value, so workers go on.
AcceptFails ==
    /\ MayFail /\ lsn.at = "open" /\ Shutdown
    /\ lsn' = [lsn EXCEPT !.at = "closed", !.fds = @ - 1]
    /\ cst' = [c \in Conns |-> IF cst[c] = "backlog" THEN "closed" ELSE cst[c]]
    /\ UNCHANGED <<client, sock, resp, local, handled>>

Listener(A) == A /\ UNCHANGED <<lsn, cst, client, sock, resp, local, handled>>

-----------------------------------------------------------------------------
(* A worker and its connection: process_and_close_socket.                  *)

Idling(A) == A /\ UNCHANGED <<lsn, cst, client, sock, resp, local, handled>>

TakeConn(w) ==
    /\ Take(w)
    /\ stage' = [stage EXCEPT ![w] = "keep"]
    /\ count' = [count EXCEPT ![w] = KeepAliveMax]
    /\ UNCHANGED <<lsn, cst, client, sock, resp, buff, req, body, status, conn_close,
                   handled>>

Goto(w, s) == stage' = [stage EXCEPT ![w] = s]
In(w, S) == wpc[w] = "running" /\ stage[w] \in S

\* select_read: there is something to read, the end of the stream included.
Readable(c) == sock[c] # <<>> \/ gone[c]

\* A SocketStream, a Request and a Response are made for each request.
NewStream(w) ==
    /\ buff' = [buff EXCEPT ![w] = <<>>] /\ req' = [req EXCEPT ![w] = 0]
    /\ body' = [body EXCEPT ![w] = <<>>]
    /\ status' = [status EXCEPT ![w] = 0]
    /\ conn_close' = [conn_close EXCEPT ![w] = FALSE]

\* The while loop: keep_alive() waits for something to read and gives up after
\* keep_alive_timeout_sec_.
KeepAlive(w) ==
    /\ In(w, {"keep"}) /\ count[w] > 0
    /\ Goto(w, IF Readable(fn[w]) THEN "line" ELSE "close")
    /\ NewStream(w)
    /\ UNCHANGED <<poolVars, lsn, cst, client, sock, resp, count, handled>>

KeepAliveEnd(w) ==
    /\ In(w, {"keep"}) /\ count[w] = 0 /\ Goto(w, "close")
    /\ UNCHANGED <<poolVars, lsn, cst, client, sock, resp, count, buff, req, body,
                   status, conn_close, handled>>

Reading == {"line", "glued", "hdrs", "longhdrs", "body", "skip"}

\* SocketStream::read with an empty buffer: recv() returns some of what has
\* arrived.
Recv(w) ==
    /\ In(w, Reading) /\ buff[w] = <<>> /\ sock[fn[w]] # <<>>
    /\ \E n \in 1 .. Len(sock[fn[w]]) :
        /\ buff' = [buff EXCEPT ![w] = SubSeq(sock[fn[w]], 1, n)]
        /\ sock' = [sock EXCEPT ![fn[w]] = SubSeq(@, n + 1, Len(@))]
    /\ UNCHANGED <<poolVars, lsn, cst, client, resp, stage, count, req, body, status,
                   conn_close, handled>>

Answer(w, code) ==
    Goto(w, "respond") /\ status' = [status EXCEPT ![w] = code]

\* What comes next: another stage, or a response with a code.
Do(to) == [to |-> to, code |-> 0]
Give(code) == [to |-> "respond", code |-> code]
Follow(w, next) ==
    Goto(w, next.to) /\ status' = [status EXCEPT ![w] = next.code]

\* Server::read_content, when the body is there.
ContentRead(k) == IF k.head = "form" THEN Give(413) ELSE Do("dispatch")

\* Slip: the end of the connection ends every body.
BodyEndsWith(k, eof) == eof
\* Only a body without a length ends with the connection.
BodyEnds(k, eof) == k.len = "none" /\ eof

\* read() returns 0 (the client is gone) or -1 (nothing came in time).
ReadFails(w) ==
    /\ In(w, Reading) /\ buff[w] = <<>> /\ sock[fn[w]] = <<>>
    /\ LET k == asked[fn[w]][req[w]]
           eof == gone[fn[w]]
       IN  \/ stage[w] = "line" /\ Goto(w, "close") /\ UNCHANGED status
           \/ /\ stage[w] = "glued"
              /\ IF eof THEN Answer(w, 400) ELSE Goto(w, "close") /\ UNCHANGED status
           \/ stage[w] = "hdrs" /\ Answer(w, 400)
           \/ stage[w] = "longhdrs" /\ Answer(w, 414)
           \/ stage[w] = "skip" /\ Answer(w, 413)
           \/ /\ stage[w] = "body"
              /\ IF BodyEnds(k, eof) THEN Follow(w, ContentRead(k)) ELSE Answer(w, 400)
    /\ UNCHANGED <<poolVars, lsn, cst, client, sock, resp, count, buff, req, body,
                   conn_close, handled>>

\* The next piece of the buffer.
Next_(w) == Head(buff[w])
Consume(w) ==
    /\ buff[w] # <<>> /\ buff' = [buff EXCEPT ![w] = Tail(@)]
    /\ UNCHANGED <<poolVars, lsn, cst, client, sock, resp, count, handled>>

\* parse_request_line, after the test of the length.
RequestLine(w) ==
    /\ In(w, {"line"}) /\ Consume(w) /\ Next_(w).part = "line"
    /\ LET k == asked[fn[w]][Next_(w).of]
       IN  /\ req' = [req EXCEPT ![w] = Next_(w).of]
           /\ CASE k.head = "bad" -> Answer(w, 400)
                [] k.head = "long" -> Goto(w, "longhdrs") /\ UNCHANGED status
                [] OTHER -> Goto(w, "hdrs") /\ UNCHANGED status
    /\ UNCHANGED <<body, conn_close>>

\* getline() finds the rest of a request that was given up before it was read;
\* one without a line break runs into the next line.
Leftover(w) ==
    /\ In(w, {"line", "glued"}) /\ Consume(w)
    /\ stage[w] = "line" => Next_(w).part # "line"
    /\ IF Next_(w).part = "body" THEN Goto(w, "glued") /\ UNCHANGED status
       ELSE Answer(w, 400)
    /\ UNCHANGED <<req, body, conn_close>>

\* detail::read_content: is there a body to read, and which way?
ReadContent(k) ==
    IF k.len = "length" /\ k.big THEN Do("skip")
    ELSE IF k.len = "length" /\ k.body = 0 THEN Do("dispatch")
    ELSE Do("body")

\* prepare_content_receiver: built without zlib and brotli.
PrepareContentReceiver(k) == IF k.head = "encoded" THEN Give(415) ELSE ReadContent(k)

\* read_content_core: the boundary comes first.
ReadContentCore(k) ==
    IF k.head = "boundary" THEN Give(400) ELSE PrepareContentReceiver(k)

ExpectContent(k) == k.content

\* Slip: a request for which there is no handler is answered at once.
RoutingUnlessMissing(k) ==
    IF ExpectContent(k) /\ k.route # "missing" THEN ReadContentCore(k) ELSE Do("dispatch")

\* routing() up to the handlers; no file and no content reader is registered.
Routing(k) == IF ExpectContent(k) THEN ReadContentCore(k) ELSE Do("dispatch")

\* parse_range_header
RangeParses(k) == k.head # "range"

\* process_request between the headers and the response.
ProcessHeaders(k) == IF RangeParses(k) THEN Routing(k) ELSE Give(416)

\* read_headers, for a request line that is too long only to skip them.
ReadHeaders(w) ==
    /\ In(w, {"hdrs", "longhdrs"}) /\ Consume(w)
    /\ LET k == asked[fn[w]][req[w]]
       IN  IF stage[w] = "longhdrs" THEN Answer(w, 414) /\ UNCHANGED conn_close
           ELSE /\ conn_close' = [conn_close EXCEPT ![w] = k.close]
                /\ Follow(w, ProcessHeaders(k))
    /\ UNCHANGED <<req, body>>

\* Server::read_content: the receiver appends to req.body.
Receive(w) == body' = [body EXCEPT ![w] = Append(@, Next_(w))]
Content(w, s, len) ==
    /\ In(w, {s}) /\ asked[fn[w]][req[w]].len = len /\ Consume(w)
    /\ UNCHANGED <<req, conn_close>>
AllRead(w) == Len(body'[w]) = asked[fn[w]][req[w]].body

ReadContentWithLength(w) ==
    /\ Content(w, "body", "length") /\ Receive(w)
    /\ IF AllRead(w) THEN Follow(w, ContentRead(asked[fn[w]][req[w]]))
       ELSE UNCHANGED <<stage, status>>

\* The last chunk has length 0 and is followed by the trailer.
ReadContentChunked(w) ==
    /\ Content(w, "body", "chunked")
    /\ IF Next_(w).part = "last"
       THEN Follow(w, ContentRead(asked[fn[w]][req[w]])) /\ UNCHANGED body
       ELSE Receive(w) /\ UNCHANGED <<stage, status>>

\* It goes on until read() returns 0 (ReadFails).
ReadContentWithoutLength(w) ==
    /\ Content(w, "body", "none") /\ Receive(w) /\ UNCHANGED <<stage, status>>

\* A body that is too long is read and dropped; `body' only counts it.
SkipContentWithLength(w) ==
    /\ Content(w, "skip", "length") /\ Receive(w)
    /\ IF AllRead(w) THEN Answer(w, 413) ELSE UNCHANGED <<stage, status>>

\* The try block of process_request and the status when there is none yet.
Routed(k) ==
    CASE k.route = "ok" -> 200 [] k.route = "throws" -> 500 [] k.route = "missing" -> 404

\* dispatch_request
Dispatch(w) ==
    /\ In(w, {"dispatch"})
    /\ LET k == asked[fn[w]][req[w]]
       IN  /\ Answer(w, Routed(k))
           /\ handled' = IF k.route = "missing" THEN handled
                         ELSE Append(handled, [conn |-> fn[w], of |-> req[w],
                                               body |-> body[w]])
    /\ UNCHANGED <<poolVars, lsn, cst, client, sock, resp, count, buff, req, body,
                   conn_close>>

\* close_connection
CloseConnection(w) == count[w] = 1

\* SocketStream::write: is_writable() looks with is_socket_alive() whether the
\* peer is still there, and takes a client that has left for alive as long as
\* something it sent is to be read.
Writable(c) == ~gone[c] \/ sock[c] # <<>>

\* write_data fails on a body only: that of a handler that returned.  Errors
\* have none, and a failure to write the headers is not noticed.
WriteData(w) == Writable(fn[w]) \/ status[w] # 200

\* write_response_core, then the end of the loop body.
Respond(w) ==
    /\ In(w, {"respond"})
    /\ LET c == fn[w]
           answer == [of |-> req[w], status |-> status[w],
                      close |-> CloseConnection(w) \/ conn_close[w]]
       IN  /\ resp' = IF Writable(c) THEN [resp EXCEPT ![c] = Append(@, answer)] ELSE resp
           /\ IF conn_close[w] \/ ~WriteData(w)
              THEN Goto(w, "close") /\ UNCHANGED count
              ELSE Goto(w, "keep") /\ count' = [count EXCEPT ![w] = @ - 1]
    /\ UNCHANGED <<poolVars, lsn, cst, client, sock, buff, req, body, status,
                   conn_close, handled>>

\* shutdown_socket and close_socket.
CloseSocket(w) ==
    /\ In(w, {"close"}) /\ Finish(w)
    /\ cst' = [cst EXCEPT ![fn[w]] = "closed"]
    /\ stage' = [stage EXCEPT ![w] = "idle"] /\ count' = [count EXCEPT ![w] = 0]
    /\ NewStream(w)
    /\ sock' = [sock EXCEPT ![fn[w]] = <<>>]
    /\ UNCHANGED <<lsn, client, resp, handled>>

-----------------------------------------------------------------------------

ReadBody(w) ==
    \/ ReadContentWithLength(w) \/ ReadContentChunked(w)
    \/ ReadContentWithoutLength(w) \/ SkipContentWithLength(w)

ServeStep(w) ==
    \/ KeepAlive(w) \/ KeepAliveEnd(w) \/ Recv(w) \/ ReadFails(w) \/ RequestLine(w)
    \/ Leftover(w) \/ ReadHeaders(w) \/ ReadBody(w) \/ Dispatch(w) \/ Respond(w)
    \/ CloseSocket(w)

\* listen_internal makes the pool when the socket is bound.
PoolUp == lsn.at \in {"open", "closed"}
WorkerStep(w) ==
    PoolUp /\ (Idling(Wait(w)) \/ Idling(Exit(w)) \/ TakeConn(w) \/ ServeStep(w))

ListenStep ==
    \/ CreateSocket \/ BindFails \/ \E c \in Conns : Accept(c)
    \/ Listener(NotifyOne) \/ Listener(NotifyAll) \/ Listener(Join)

ClientStep(c) == Connect(c) \/ Ask(c) \/ Send(c) \/ Leave(c)

Next ==
    \/ \E c \in Conns : ClientStep(c)
    \/ ListenStep \/ AcceptFails
    \/ \E w \in Workers : WorkerStep(w) \/ Idling(Spurious(w))

Spec == Init /\ [][Next]_vars

\* Threads run; reads and keep_alive() time out.  Clients owe nothing.
FairSpec == Spec /\ WF_vars(ListenStep) /\ \A w \in Workers : WF_vars(WorkerStep(w))

-----------------------------------------------------------------------------

PieceType == [part : {"line", "hdrs", "body", "chunk", "last"}, of : Nat]
Stages == Reading \cup {"idle", "keep", "dispatch", "respond", "close"}

\* Every worker is where its job puts it: one that runs nothing holds no
\* request, and the count of requests left stays within its bound.
TypeOK ==
    /\ jobs \in Seq(Conns) /\ shutdown \in BOOLEAN
    /\ wpc \in [Workers -> {"lock", "asleep", "running", "gone"}]
    /\ fn \in [Workers -> Conns \cup {NoJob}]
    /\ owner \in {"free", "notify_one", "notify_all", "join", "done"}
    /\ cst \in [Conns -> {"new", "backlog", "open", "closed"}]
    /\ sock \in [Conns -> Seq(PieceType)] /\ buff \in [Workers -> Seq(PieceType)]
    /\ stage \in [Workers -> Stages] /\ count \in [Workers -> 0 .. KeepAliveMax]
    /\ \A w \in Workers : (wpc[w] = "running") <=> (stage[w] # "idle")

Queued == DOMAIN jobs

\* There is one descriptor while an address is tried and while connections are
\* accepted, and none before and after, whichever addresses failed.  The open
\* connections are those in the queue and those some worker serves, each once:
\* accepting, taking and closing neither lose a connection (its descriptor would
\* leak) nor serve one twice.
OpenTracked ==
    /\ TypeOK
    /\ lsn.fds = IF lsn.at \in {"fcntl", "listen", "open"} THEN 1 ELSE 0
    /\ \A c \in Conns :
        cst[c] = "open" <=> (\E i \in Queued : jobs[i] = c) \/ (\E w \in Workers : fn[w] = c)
    /\ \A i, j \in Queued : jobs[i] = jobs[j] => i = j
    /\ \A w, v \in Workers : (fn[w] = fn[v] /\ fn[w] # NoJob) => w = v
    /\ \A i \in Queued, w \in Workers : jobs[i] # fn[w]

\* A response that comes out of dispatch_request, and to a request whose body, if
\* it has one, the server reads: not that of a GET.
Dispatched(r) == r.status \in {200, 404, 500}
BodyRead(k) == ExpectContent(k) \/ (k.len # "chunked" /\ k.body = 0)
Settled(c, r) == Dispatched(r) /\ BodyRead(asked[c][r.of])

\* A response answers the request its client takes it for, the n-th the n-th,
\* as long as the requests before it came to dispatch_request and were read to
\* their end, whatever the handlers did.  After a response the library gave up
\* with (400, 413 to 416), or a GET with a body, the connection stays open with
\* an unread rest, and nothing is promised.
InOrder ==
    \A c \in Conns : \A n \in DOMAIN resp[c] :
        (\A m \in 1 .. n - 1 : Settled(c, resp[c][m])) => resp[c][n].of = n

\* A handler runs at most once for a request and gets its whole body, also when
\* the client leaves or stalls in the middle of it; only a body without a
\* length may be cut without anyone noticing.
HandledWhole ==
    /\ \A i, j \in DOMAIN handled :
        (handled[i].conn = handled[j].conn /\ handled[i].of = handled[j].of) => i = j
    /\ \A i \in DOMAIN handled :
        LET k == asked[handled[i].conn][handled[i].of]
        IN  (k.content /\ k.len # "none") =>
                handled[i].body = Data(handled[i].of, k)

\* When listen() returns, every connection that was accepted has been closed and
\* the queue is empty: shutdown() lets the workers finish what is queued.
Drained == owner = "done" => jobs = <<>> /\ \A c \in Conns : cst[c] # "open"

\* An accepted connection is served and closed in the end, although enqueue()
\* notifies outside the mutex and there are fewer workers than connections.
ConnectionEnds == \A c \in Conns : cst[c] = "open" ~> cst[c] = "closed"

\* A failed accept() leads to the end of listen(): all workers are woken.
ShutdownEnds == shutdown ~> owner = "done"
=============================================================================

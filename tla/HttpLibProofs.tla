--------------------------- MODULE HttpLibProofs ---------------------------
(***************************************************************************)
(* For every number of workers, connections and requests: the server loses  *)
(* no connection, serves none twice, leaves none open when listen()         *)
(* returns, a handler gets each request once and whole, and responses come  *)
(* in the order of their requests.                                         *)
(***************************************************************************)
EXTENDS HttpLib, SequenceTheorems, TLAPS

(* Sequences.                                                              *)

\* The queue after push_back.
LEMMA Pushed ==
    ASSUME NEW S, NEW s \in Seq(S), NEW e \in S
    PROVE  /\ Append(s, e) \in Seq(S) /\ Append(s, e) # <<>>
           /\ Len(Append(s, e)) = Len(s) + 1
           /\ DOMAIN s = 1 .. Len(s) /\ Len(s) \in Nat
           /\ DOMAIN Append(s, e) = 1 .. Len(s) + 1
           /\ \A i \in DOMAIN s : Append(s, e)[i] = s[i]
           /\ Append(s, e)[Len(s) + 1] = e
<1>1. /\ Append(s, e) \in Seq(S) /\ Append(s, e) # <<>>
      /\ Len(Append(s, e)) = Len(s) + 1
      /\ \A i \in 1 .. Len(s) : Append(s, e)[i] = s[i]
      /\ Append(s, e)[Len(s) + 1] = e
  BY AppendProperties
<1>2. Len(s) \in Nat /\ DOMAIN s = 1 .. Len(s)
  BY LenProperties
<1>3. DOMAIN Append(s, e) = 1 .. Len(Append(s, e))
  BY <1>1, LenProperties
<1>q. QED BY <1>1, <1>2, <1>3

\* The queue after front() and pop_front.
LEMMA Popped ==
    ASSUME NEW S, NEW s \in Seq(S), s # <<>>
    PROVE  /\ Head(s) \in S /\ Head(s) = s[1] /\ Tail(s) \in Seq(S)
           /\ Len(s) \in Nat \ {0} /\ DOMAIN s = 1 .. Len(s)
           /\ DOMAIN Tail(s) = 1 .. Len(s) - 1
           /\ \A i \in 1 .. Len(s) - 1 : Tail(s)[i] = s[i + 1]
<1>1. /\ Head(s) \in S /\ Tail(s) \in Seq(S) /\ Len(Tail(s)) = Len(s) - 1
      /\ \A i \in 1 .. Len(Tail(s)) : Tail(s)[i] = s[i + 1]
  BY HeadTailProperties
<1>2. Len(s) \in Nat /\ DOMAIN s = 1 .. Len(s) /\ Len(s) # 0
  BY LenProperties, EmptySeq
<1>3. DOMAIN Tail(s) = 1 .. Len(Tail(s))
  BY <1>1, LenProperties
<1>4. Head(s) = s[1]
  BY <1>2 DEF Head
<1>q. QED BY <1>1, <1>2, <1>3, <1>4

(* Types.                                                                  *)

LEMMA PiecesOfBody ==
    ASSUME NEW n \in Nat, NEW k \in Kind
    PROVE  /\ Data(n, k) \in Seq(PieceType) /\ Len(Data(n, k)) = k.body
           /\ BodyOf(n, k) \in Seq(PieceType)
<1>1. k.body \in Nat
  BY DEF Kind
<1>2. Chunk(n) \in PieceType /\ Piece(n) \in PieceType /\ LastChunk(n) \in PieceType
  BY DEF Chunk, Piece, LastChunk, PieceType
<1>3. Data(n, k) \in [1 .. k.body -> PieceType]
  BY <1>1, <1>2 DEF Data
<1>4. Data(n, k) \in Seq(PieceType) /\ Len(Data(n, k)) = k.body
  <2>1. Data(n, k) \in Seq(PieceType)
    BY <1>1, <1>3, SeqDef
  <2>q. QED BY <1>1, <1>3, <2>1, LenProperties
<1>5. <<LastChunk(n)>> \in Seq(PieceType) /\ <<>> \in Seq(PieceType)
  BY <1>2
<1>q. QED BY <1>4, <1>5, ConcatProperties DEF BodyOf

\* Where a request can go after its headers.
LEMMA AfterHeaders ==
    ASSUME NEW k
    PROVE  ProcessHeaders(k).to \in {"skip", "dispatch", "body", "respond"}
BY DEF ProcessHeaders, Routing, ReadContentCore, PrepareContentReceiver, ReadContent,
       Do, Give

(* The inductive invariant.                                                *)

\* Where listen() can be, where it still tries addresses, and where it has a socket.
LsnAt == {"bind", "fcntl", "listen", "open", "closed", "failed"}
Trying == {"bind", "fcntl", "listen"}
WithSocket == {"fcntl", "listen", "open"}

\* What the types of TypeOK leave open.
MoreTypes ==
    /\ lsn \in [at : LsnAt, left : Nat, fds : Nat]
    /\ asked \in [Conns -> Seq(Kind)] /\ unsent \in [Conns -> Seq(PieceType)]
    /\ \A w \in Workers : (fn[w] # NoJob) <=> (wpc[w] = "running")

\* A request is worked on only while the connection may still make one.
CountsDown ==
    \A w \in Workers : stage[w] \notin {"idle", "keep", "close"} => count[w] > 0

\* The pool is told to stop when the listening socket is closed.  No worker
\* leaves before, and none while there is something in the queue.
Ending ==
    /\ shutdown <=> lsn.at = "closed"
    /\ owner \in {"notify_all", "join", "done"} => shutdown
    /\ \A w \in Workers : wpc[w] = "gone" => shutdown /\ jobs = <<>>
    /\ owner = "done" => \A w \in Workers : wpc[w] = "gone"

Tracked == OpenTracked /\ MoreTypes /\ Ending
ServerInv == Tracked /\ CountsDown

LEMMA InitServer == Init => ServerInv
<1> SUFFICES ASSUME Init PROVE ServerInv
  OBVIOUS
<1> USE DEF Init, PoolInit
<1>1. TypeOK
  <2>1. jobs \in Seq(Conns) /\ \A c \in Conns : sock[c] \in Seq(PieceType)
    OBVIOUS
  <2>2. sock \in [Conns -> Seq(PieceType)] /\ buff \in [Workers -> Seq(PieceType)]
    OBVIOUS
  <2>3. stage \in [Workers -> Stages] /\ count \in [Workers -> 0 .. KeepAliveMax]
    BY HttpAssumption DEF Stages
  <2>q. QED BY <2>1, <2>2, <2>3 DEF TypeOK
<1>2. MoreTypes
  BY HttpAssumption DEF MoreTypes, LsnAt
<1>3. OpenTracked
  BY <1>1, PoolAssumption DEF OpenTracked, Queued, Conns
<1>q. QED BY <1>2, <1>3 DEF ServerInv, Tracked, Ending, CountsDown

(* Steps that leave the pool and the connections alone.                    *)

\* What a step must show when it moves neither jobs nor connections.
LEMMA Framed ==
    ASSUME ServerInv, UNCHANGED <<poolVars, lsn, cst>>,
           asked' \in [Conns -> Seq(Kind)], unsent' \in [Conns -> Seq(PieceType)],
           sock' \in [Conns -> Seq(PieceType)], buff' \in [Workers -> Seq(PieceType)],
           stage' \in [Workers -> Stages], count' \in [Workers -> 0 .. KeepAliveMax],
           \A w \in Workers : (stage'[w] = "idle") <=> (stage[w] = "idle"),
           CountsDown'
    PROVE  ServerInv'
<1>1. TypeOK'
  BY DEF ServerInv, Tracked, OpenTracked, TypeOK, poolVars
<1>2. OpenTracked'
  BY <1>1 DEF ServerInv, Tracked, OpenTracked, Queued, poolVars
<1>3. MoreTypes' /\ Ending'
  BY DEF ServerInv, Tracked, MoreTypes, Ending, poolVars
<1>q. QED BY <1>2, <1>3 DEF ServerInv, Tracked

\* A worker that runs something serves a connection.
LEMMA Serves ==
    ASSUME ServerInv, NEW w \in Workers, wpc[w] = "running"
    PROVE  fn[w] \in Conns /\ fn[w] # NoJob /\ stage[w] # "idle" /\ stage[w] \in Stages
BY DEF ServerInv, Tracked, OpenTracked, TypeOK, MoreTypes

\* A worker that goes on with its connection: only a worker that may still
\* take a request leaves the head of the loop for one.
LEMMA Moved ==
    ASSUME ServerInv, NEW w \in Workers, NEW s \in Stages \ {"idle"}, Goto(w, s),
           stage[w] # "idle", UNCHANGED count,
           s \in {"keep", "close"} \/ stage[w] \notin {"keep", "close"} \/ count[w] > 0
    PROVE  /\ stage' \in [Workers -> Stages] /\ CountsDown'
           /\ \A v \in Workers : (stage'[v] = "idle") <=> (stage[v] = "idle")
BY DEF ServerInv, Tracked, OpenTracked, TypeOK, CountsDown, Goto

LEMMA Same ==
    ASSUME ServerInv, UNCHANGED <<stage, count>>
    PROVE  /\ stage' \in [Workers -> Stages] /\ CountsDown'
           /\ \A v \in Workers : (stage'[v] = "idle") <=> (stage[v] = "idle")
           /\ count' \in [Workers -> 0 .. KeepAliveMax]
BY DEF ServerInv, Tracked, OpenTracked, TypeOK, CountsDown

\* Reading from the buffer.
LEMMA Consumed ==
    ASSUME ServerInv, NEW w \in Workers, Consume(w)
    PROVE  /\ buff' \in [Workers -> Seq(PieceType)] /\ sock' \in [Conns -> Seq(PieceType)]
           /\ asked' \in [Conns -> Seq(Kind)] /\ unsent' \in [Conns -> Seq(PieceType)]
           /\ count' \in [Workers -> 0 .. KeepAliveMax]
           /\ Next_(w) \in PieceType
           /\ UNCHANGED <<poolVars, lsn, cst, count>>
<1>1. buff[w] \in Seq(PieceType) /\ buff[w] # <<>>
  BY DEF ServerInv, Tracked, OpenTracked, TypeOK, Consume
<1>2. Tail(buff[w]) \in Seq(PieceType) /\ Head(buff[w]) \in PieceType
  BY <1>1, Popped
<1>q. QED BY <1>2 DEF Consume, Next_, client, ServerInv, Tracked, OpenTracked, TypeOK, MoreTypes

\* Nothing but the place of a worker changes.
LEMMA Unread ==
    ASSUME ServerInv, UNCHANGED <<client, sock, count, buff>>
    PROVE  /\ buff' \in [Workers -> Seq(PieceType)] /\ sock' \in [Conns -> Seq(PieceType)]
           /\ asked' \in [Conns -> Seq(Kind)] /\ unsent' \in [Conns -> Seq(PieceType)]
           /\ count' \in [Workers -> 0 .. KeepAliveMax]
BY DEF ServerInv, Tracked, OpenTracked, TypeOK, MoreTypes, client

\* The part of ServeStep that neither takes nor gives back a connection.
Serve(w) ==
    \/ KeepAlive(w) \/ KeepAliveEnd(w) \/ Recv(w) \/ ReadFails(w) \/ RequestLine(w)
    \/ Leftover(w) \/ ReadHeaders(w) \/ ReadBody(w) \/ Dispatch(w) \/ Respond(w)

LEMMA ServeServer == ASSUME ServerInv, NEW w \in Workers, Serve(w) PROVE ServerInv'
<1> USE DEF In
<1>k. wpc[w] = "running" => fn[w] \in Conns /\ fn[w] # NoJob /\ stage[w] # "idle"
  BY Serves
<1>s. Reading \subseteq Stages \ {"idle"}
      /\ {"keep", "dispatch", "respond", "close"} \subseteq Stages \ {"idle"}
  BY DEF Reading, Stages
<1>1. CASE KeepAlive(w)
  <2>1. UNCHANGED <<poolVars, lsn, cst, client, sock, count>> /\ count[w] > 0 /\ stage[w] # "idle"
    BY <1>1, <1>k DEF KeepAlive
  <2>2. /\ stage' \in [Workers -> Stages] /\ CountsDown'
        /\ \A v \in Workers : (stage'[v] = "idle") <=> (stage[v] = "idle")
    <3>1. PICK s \in {"line", "close"} : Goto(w, s)
      BY <1>1 DEF KeepAlive
    <3>2. s \in Stages \ {"idle"}
      BY <1>s DEF Reading
    <3>q. QED BY <2>1, <3>1, <3>2, Moved
  <2>3. buff' \in [Workers -> Seq(PieceType)]
    BY <1>1 DEF KeepAlive, NewStream, ServerInv, Tracked, OpenTracked, TypeOK
  <2>4. /\ sock' \in [Conns -> Seq(PieceType)] /\ asked' \in [Conns -> Seq(Kind)]
        /\ unsent' \in [Conns -> Seq(PieceType)] /\ count' \in [Workers -> 0 .. KeepAliveMax]
    BY <2>1 DEF ServerInv, Tracked, OpenTracked, TypeOK, MoreTypes, client
  <2>q. QED BY <2>1, <2>2, <2>3, <2>4, Framed
<1>2. CASE KeepAliveEnd(w)
  <2>1. /\ UNCHANGED <<poolVars, lsn, cst, client, sock, count, buff>>
        /\ stage[w] # "idle" /\ Goto(w, "close")
    BY <1>2, <1>k DEF KeepAliveEnd
  <2>2. "close" \in Stages \ {"idle"}
    BY <1>s
  <2>q. QED BY <2>1, <2>2, Moved, Unread, Framed
<1>3. CASE Recv(w)
  <2>1. /\ UNCHANGED <<poolVars, lsn, cst, client, stage, count>>
        /\ fn[w] \in Conns
    BY <1>3, <1>k DEF Recv
  <2>2. PICK n \in 1 .. Len(sock[fn[w]]) :
            /\ buff' = [buff EXCEPT ![w] = SubSeq(sock[fn[w]], 1, n)]
            /\ sock' = [sock EXCEPT ![fn[w]] = SubSeq(sock[fn[w]], n + 1, Len(sock[fn[w]]))]
    BY <1>3 DEF Recv
  <2>3. sock[fn[w]] \in Seq(PieceType)
    BY <2>1 DEF ServerInv, Tracked, OpenTracked, TypeOK
  <2>4. /\ SubSeq(sock[fn[w]], 1, n) \in Seq(PieceType)
        /\ SubSeq(sock[fn[w]], n + 1, Len(sock[fn[w]])) \in Seq(PieceType)
    BY <2>2, <2>3
  <2>5. buff' \in [Workers -> Seq(PieceType)] /\ sock' \in [Conns -> Seq(PieceType)]
    BY <2>2, <2>4 DEF ServerInv, Tracked, OpenTracked, TypeOK
  <2>6. asked' \in [Conns -> Seq(Kind)] /\ unsent' \in [Conns -> Seq(PieceType)]
    BY <2>1 DEF ServerInv, Tracked, MoreTypes, client
  <2>q. QED BY <2>1, <2>5, <2>6, Same, Framed
<1>4. CASE ReadFails(w)
  <2>1. /\ UNCHANGED <<poolVars, lsn, cst, client, sock, count, buff>>
        /\ stage[w] # "idle" /\ stage[w] \notin {"keep", "close"}
    BY <1>4, <1>k DEF ReadFails, Reading
  <2>2. PICK s \in {"close", "respond", "dispatch"} : Goto(w, s)
    BY <1>4 DEF ReadFails, Answer, Follow, ContentRead, Do, Give
  <2>3. s \in Stages \ {"idle"}
    BY <1>s
  <2>q. QED BY <2>1, <2>2, <2>3, Moved, Unread, Framed
<1>5. CASE RequestLine(w)
  <2>1. Consume(w) /\ stage[w] = "line"
    BY <1>5 DEF RequestLine
  <2>2. PICK s \in {"hdrs", "longhdrs", "respond"} : Goto(w, s)
    BY <1>5 DEF RequestLine, Answer
  <2>3. s \in Stages \ {"idle"}
    BY <1>s DEF Reading
  <2>4. UNCHANGED count
    BY <2>1 DEF Consume
  <2>q. QED BY <2>1, <2>2, <2>3, <2>4, Moved, Consumed, Framed
<1>6. CASE Leftover(w)
  <2>1. Consume(w) /\ stage[w] \in {"line", "glued"}
    BY <1>6 DEF Leftover
  <2>2. PICK s \in {"glued", "respond"} : Goto(w, s)
    BY <1>6 DEF Leftover, Answer
  <2>3. s \in Stages \ {"idle"}
    BY <1>s DEF Reading
  <2>4. UNCHANGED count
    BY <2>1 DEF Consume
  <2>q. QED BY <2>1, <2>2, <2>3, <2>4, Moved, Consumed, Framed
<1>7. CASE ReadHeaders(w)
  <2>1. Consume(w) /\ stage[w] \in {"hdrs", "longhdrs"}
    BY <1>7 DEF ReadHeaders
  <2>2. PICK s \in {"skip", "dispatch", "body", "respond"} : Goto(w, s)
    BY <1>7, AfterHeaders DEF ReadHeaders, Answer, Follow
  <2>3. s \in Stages \ {"idle"}
    BY <1>s DEF Reading
  <2>4. UNCHANGED count
    BY <2>1 DEF Consume
  <2>q. QED BY <2>1, <2>2, <2>3, <2>4, Moved, Consumed, Framed
<1>8. CASE ReadBody(w)
  <2>1. Consume(w) /\ stage[w] \in {"body", "skip"}
    BY <1>8 DEF ReadBody, ReadContentWithLength, ReadContentChunked,
                ReadContentWithoutLength, SkipContentWithLength, Content
  <2>2. UNCHANGED stage \/ \E s \in {"dispatch", "respond"} : Goto(w, s)
    BY <1>8 DEF ReadBody, ReadContentWithLength, ReadContentChunked,
                ReadContentWithoutLength, SkipContentWithLength, Answer, Follow, ContentRead,
                Do, Give
  <2>3. UNCHANGED count
    BY <2>1 DEF Consume
  <2>4. CASE UNCHANGED stage
    BY <2>1, <2>3, <2>4, Same, Consumed, Framed
  <2>5. CASE \E s \in {"dispatch", "respond"} : Goto(w, s)
    <3>1. PICK s \in {"dispatch", "respond"} : Goto(w, s)
      BY <2>5
    <3>2. s \in Stages \ {"idle"}
      BY <1>s
    <3>q. QED BY <2>1, <2>3, <3>1, <3>2, Moved, Consumed, Framed
  <2>q. QED BY <2>2, <2>4, <2>5
<1>9. CASE Dispatch(w)
  <2>1. /\ UNCHANGED <<poolVars, lsn, cst, client, sock, count, buff>>
        /\ stage[w] = "dispatch" /\ Goto(w, "respond")
    BY <1>9 DEF Dispatch, Answer
  <2>2. "respond" \in Stages \ {"idle"}
    BY <1>s
  <2>q. QED BY <2>1, <2>2, Moved, Unread, Framed
<1>10. CASE Respond(w)
  <2>1. /\ UNCHANGED <<poolVars, lsn, cst, client, sock, buff>>
        /\ stage[w] = "respond" /\ count[w] > 0
    BY <1>10 DEF Respond, ServerInv, CountsDown
  <2>2. CASE Goto(w, "close") /\ UNCHANGED count
    <3>1. "close" \in Stages \ {"idle"}
      BY <1>s
    <3>q. QED BY <2>1, <2>2, <3>1, Moved, Unread, Framed
  <2>3. CASE Goto(w, "keep") /\ count' = [count EXCEPT ![w] = @ - 1]
    <3>1. "keep" \in Stages \ {"idle"}
      BY <1>s
    <3>2. count' \in [Workers -> 0 .. KeepAliveMax]
      BY <2>1, <2>3, HttpAssumption DEF ServerInv, Tracked, OpenTracked, TypeOK
    <3>3. /\ stage' \in [Workers -> Stages] /\ CountsDown'
          /\ \A v \in Workers : (stage'[v] = "idle") <=> (stage[v] = "idle")
      BY <2>1, <2>3, <3>1 DEF ServerInv, Tracked, OpenTracked, TypeOK, CountsDown, Goto
    <3>4. /\ sock' \in [Conns -> Seq(PieceType)] /\ asked' \in [Conns -> Seq(Kind)]
          /\ unsent' \in [Conns -> Seq(PieceType)] /\ buff' \in [Workers -> Seq(PieceType)]
      BY <2>1 DEF ServerInv, Tracked, OpenTracked, TypeOK, MoreTypes, client
    <3>q. QED BY <2>1, <3>2, <3>3, <3>4, Framed
  <2>q. QED BY <1>10, <2>2, <2>3 DEF Respond
<1>q. QED BY <1>1, <1>2, <1>3, <1>4, <1>5, <1>6, <1>7, <1>8, <1>9, <1>10 DEF Serve

LEMMA ClientServer == ASSUME ServerInv, NEW c \in Conns, ClientStep(c) PROVE ServerInv'
<1>t. /\ asked \in [Conns -> Seq(Kind)] /\ unsent \in [Conns -> Seq(PieceType)]
      /\ sock \in [Conns -> Seq(PieceType)] /\ buff \in [Workers -> Seq(PieceType)]
      /\ cst \in [Conns -> {"new", "backlog", "open", "closed"}]
  BY DEF ServerInv, Tracked, OpenTracked, TypeOK, MoreTypes
<1>1. CASE Connect(c)
  <2>1. /\ UNCHANGED <<poolVars, lsn, client, sock, local>> /\ cst[c] = "new"
        /\ cst' = [cst EXCEPT ![c] = "backlog"]
    BY <1>1 DEF Connect
  <2>2. TypeOK'
    BY <2>1 DEF ServerInv, Tracked, OpenTracked, TypeOK, poolVars, local
  <2>3. \A d \in Conns : cst'[d] = "open" <=> cst[d] = "open"
    BY <1>t, <2>1
  <2>4. OpenTracked'
    BY <2>1, <2>2, <2>3 DEF ServerInv, Tracked, OpenTracked, Queued, poolVars
  <2>q. QED BY <2>1, <2>4 DEF ServerInv, Tracked, MoreTypes, Ending, CountsDown,
                              poolVars, client, local
<1>2. CASE Ask(c)
  <2>1. /\ UNCHANGED <<poolVars, lsn, cst, local>>
        /\ Len(asked[c]) < Len(KindsOf[c])
    BY <1>2 DEF Ask, MayAsk
  <2>2. KindsOf[c] \in Seq(SUBSET Kind) /\ Len(asked[c]) + 1 \in DOMAIN KindsOf[c]
    <3>1. KindsOf[c] \in Seq(SUBSET Kind) /\ asked[c] \in Seq(Kind)
      BY <1>t, HttpAssumption
    <3>q. QED BY <2>1, <3>1
  <2>3. PICK k \in KindsOf[c][Len(asked[c]) + 1] :
            /\ asked' = [asked EXCEPT ![c] = Append(@, k)]
            /\ sock' = [sock EXCEPT ![c] = @ \o <<Line(Len(asked[c]) + 1), Hdrs(Len(asked[c]) + 1)>>]
            /\ unsent' = [unsent EXCEPT ![c] = BodyOf(Len(asked[c]) + 1, k)]
    BY <1>2 DEF Ask
  <2>4. k \in Kind /\ Len(asked[c]) + 1 \in Nat
    BY <2>2, <2>3, <1>t
  <2>5. Append(asked[c], k) \in Seq(Kind) /\ BodyOf(Len(asked[c]) + 1, k) \in Seq(PieceType)
    BY <1>t, <2>4, PiecesOfBody
  <2>6. sock[c] \o <<Line(Len(asked[c]) + 1), Hdrs(Len(asked[c]) + 1)>> \in Seq(PieceType)
    <3>1. Line(Len(asked[c]) + 1) \in PieceType /\ Hdrs(Len(asked[c]) + 1) \in PieceType
      BY <2>4 DEF Line, Hdrs, PieceType
    <3>q. QED BY <1>t, <3>1, ConcatProperties
  <2>7. /\ asked' \in [Conns -> Seq(Kind)] /\ unsent' \in [Conns -> Seq(PieceType)]
        /\ sock' \in [Conns -> Seq(PieceType)]
    BY <1>t, <2>3, <2>5, <2>6
  <2>8. buff' \in [Workers -> Seq(PieceType)] /\ UNCHANGED <<stage, count>>
    BY <1>t, <2>1 DEF local
  <2>q. QED BY <2>1, <2>7, <2>8, Same, Framed
<1>3. CASE Send(c)
  <2>1. /\ UNCHANGED <<poolVars, lsn, cst, asked, local>> /\ unsent[c] # <<>>
        /\ sock' = [sock EXCEPT ![c] = Append(@, Head(unsent[c]))]
        /\ unsent' = [unsent EXCEPT ![c] = Tail(@)]
    BY <1>3 DEF Send
  <2>2. Head(unsent[c]) \in PieceType /\ Tail(unsent[c]) \in Seq(PieceType)
    BY <1>t, <2>1, Popped
  <2>3. Append(sock[c], Head(unsent[c])) \in Seq(PieceType)
    BY <1>t, <2>2
  <2>4. /\ asked' \in [Conns -> Seq(Kind)] /\ unsent' \in [Conns -> Seq(PieceType)]
        /\ sock' \in [Conns -> Seq(PieceType)]
    BY <1>t, <2>1, <2>2, <2>3
  <2>5. buff' \in [Workers -> Seq(PieceType)] /\ UNCHANGED <<stage, count>>
    BY <1>t, <2>1 DEF local
  <2>q. QED BY <2>1, <2>4, <2>5, Same, Framed
<1>4. CASE Leave(c)
  <2>1. UNCHANGED <<poolVars, lsn, cst, asked, unsent, sock, stage, count, buff>>
    BY <1>4 DEF Leave, local
  <2>q. QED BY <1>t, <2>1, Same, Framed
<1>q. QED BY <1>1, <1>2, <1>3, <1>4 DEF ClientStep

(* Steps of the listening thread.                                          *)

\* A step that changes what the pool's threads wait for and nothing else.
LEMMA PoolOnly ==
    ASSUME ServerInv, UNCHANGED <<jobs, fn, lsn, cst, client, sock, local>>,
           shutdown' \in BOOLEAN, shutdown' = shutdown,
           owner' \in {"free", "notify_one", "notify_all", "join", "done"},
           wpc' \in [Workers -> {"lock", "asleep", "running", "gone"}],
           \A w \in Workers : (wpc'[w] = "running") <=> (wpc[w] = "running"),
           Ending'
    PROVE  ServerInv'
<1>1. TypeOK'
  BY DEF ServerInv, Tracked, OpenTracked, TypeOK, local
<1>2. OpenTracked'
  BY <1>1 DEF ServerInv, Tracked, OpenTracked, Queued
<1>3. MoreTypes'
  BY DEF ServerInv, Tracked, MoreTypes, client
<1>4. CountsDown'
  BY DEF ServerInv, CountsDown, local
<1>q. QED BY <1>2, <1>3, <1>4 DEF ServerInv, Tracked

LEMMA ListenServer == ASSUME ServerInv, ListenStep \/ AcceptFails PROVE ServerInv'
<1>t. /\ jobs \in Seq(Conns) /\ shutdown \in BOOLEAN
      /\ wpc \in [Workers -> {"lock", "asleep", "running", "gone"}]
      /\ fn \in [Workers -> Conns \cup {NoJob}]
      /\ cst \in [Conns -> {"new", "backlog", "open", "closed"}]
      /\ lsn \in [at : LsnAt, left : Nat, fds : Nat]
  BY DEF ServerInv, Tracked, OpenTracked, TypeOK, MoreTypes
<1>1. ASSUME NEW at \in LsnAt \ {"closed"}, NEW left \in Nat, lsn.at \in Trying,
             Binding(at, left, IF at \in WithSocket THEN 1 ELSE 0)
      PROVE  ServerInv'
  <2>1. UNCHANGED <<poolVars, cst, client, sock, resp, local>>
    BY <1>1 DEF Binding
  <2>2. /\ lsn' = [at |-> at, left |-> left, fds |-> IF at \in WithSocket THEN 1 ELSE 0]
        /\ lsn' \in [at : LsnAt, left : Nat, fds : Nat]
    BY <1>1 DEF Binding
  <2>3. TypeOK'
    BY <2>1 DEF ServerInv, Tracked, OpenTracked, TypeOK, poolVars, local
  <2>4. OpenTracked'
    BY <2>1, <2>2, <2>3 DEF ServerInv, Tracked, OpenTracked, Queued, poolVars, WithSocket
  <2>5. MoreTypes' /\ Ending'
    BY <1>1, <2>1, <2>2 DEF ServerInv, Tracked, MoreTypes, Ending, poolVars, client, Trying
  <2>q. QED BY <2>1, <2>4, <2>5 DEF ServerInv, Tracked, CountsDown, local
<1>0. /\ lsn.left \in Nat /\ (lsn.left > 0 => lsn.left - 1 \in Nat)
      /\ lsn.fds = IF lsn.at \in WithSocket THEN 1 ELSE 0
  BY <1>t DEF ServerInv, Tracked, OpenTracked, WithSocket
<1>2. CASE CreateSocket
  <2>1. CASE NewSocket
    <3>1. /\ lsn.at = "bind" /\ lsn.fds = 0 /\ lsn.left - 1 \in Nat
          /\ Binding("fcntl", lsn.left - 1, 1) \/ Binding("bind", lsn.left - 1, 0)
      BY <1>0, <2>1 DEF NewSocket, WithSocket
    <3>q. QED BY <1>1, <3>1 DEF LsnAt, Trying, WithSocket
  <2>2. CASE SetCloexec
    <3>1. /\ lsn.at = "fcntl" /\ lsn.fds = 1
          /\ Binding("listen", lsn.left, 1) \/ Binding("bind", lsn.left, 0)
      BY <1>0, <2>2 DEF SetCloexec, CloseAndContinue, WithSocket
    <3>q. QED BY <1>0, <1>1, <3>1 DEF LsnAt, Trying, WithSocket
  <2>3. CASE BindAndListen
    <3>1. /\ lsn.at = "listen" /\ lsn.fds = 1
          /\ Binding("open", 0, 1) \/ Binding("bind", lsn.left, 0)
      BY <1>0, <2>3 DEF BindAndListen, CloseAndContinue, WithSocket
    <3>q. QED BY <1>0, <1>1, <3>1 DEF LsnAt, Trying, WithSocket
  <2>q. QED BY <1>2, <2>1, <2>2, <2>3 DEF CreateSocket
<1>3. CASE BindFails
  <2>1. lsn.at = "bind" /\ Binding("failed", 0, 0)
    BY <1>0, <1>3 DEF BindFails, WithSocket
  <2>q. QED BY <1>1, <2>1 DEF LsnAt, Trying, WithSocket
<1>4. ASSUME NEW c \in Conns, Accept(c) PROVE ServerInv'
  <2>1. /\ lsn.at = "open" /\ cst[c] = "backlog" /\ owner = "free"
        /\ jobs' = Append(jobs, c) /\ owner' = "notify_one"
        /\ cst' = [cst EXCEPT ![c] = "open"]
        /\ UNCHANGED <<shutdown, wpc, fn, lsn, client, sock, local>>
    BY <1>4 DEF Accept, Enqueue
  <2>2. /\ jobs' \in Seq(Conns) /\ DOMAIN jobs = 1 .. Len(jobs) /\ Len(jobs) \in Nat
        /\ DOMAIN jobs' = 1 .. Len(jobs) + 1
        /\ \A i \in DOMAIN jobs : jobs'[i] = jobs[i]
        /\ jobs'[Len(jobs) + 1] = c
    BY <1>t, <2>1, Pushed
  <2>3. TypeOK'
    BY <2>1, <2>2 DEF ServerInv, Tracked, OpenTracked, TypeOK, local
  <2>4. (\A i \in Queued : jobs[i] # c) /\ \A w \in Workers : fn[w] # c
    BY <2>1 DEF ServerInv, Tracked, OpenTracked
  <2>5. \A i \in Queued' : (i \in Queued /\ jobs'[i] = jobs[i]) \/ (i = Len(jobs) + 1 /\ jobs'[i] = c)
    BY <2>2 DEF Queued
  <2>6. \A i \in Queued : i \in Queued' /\ jobs'[i] = jobs[i] /\ jobs[i] # c
    BY <2>2, <2>4 DEF Queued
  <2>7. Len(jobs) + 1 \in Queued' /\ jobs'[Len(jobs) + 1] = c
    BY <2>2 DEF Queued
  <2>8. \A d \in Conns : d # c => cst'[d] = cst[d]
    BY <1>t, <2>1
  <2>9. cst'[c] = "open"
    BY <1>t, <2>1
  <2>10. \A d \in Conns : cst'[d] = "open" <=>
            (\E i \in Queued' : jobs'[i] = d) \/ (\E w \in Workers : fn[w] = d)
    <3>1. \A d \in Conns : cst[d] = "open" <=>
            (\E i \in Queued : jobs[i] = d) \/ (\E w \in Workers : fn[w] = d)
      BY DEF ServerInv, Tracked, OpenTracked
    <3>2. ASSUME NEW d \in Conns, d # c
          PROVE  (\E i \in Queued' : jobs'[i] = d) <=> (\E i \in Queued : jobs[i] = d)
      BY <3>2, <2>5, <2>6
    <3>q. QED BY <3>1, <3>2, <2>7, <2>8, <2>9
  <2>11. \A i, j \in Queued' : jobs'[i] = jobs'[j] => i = j
    BY <2>5, <2>6 DEF ServerInv, Tracked, OpenTracked
  <2>12. \A i \in Queued', w \in Workers : jobs'[i] # fn[w]
    BY <2>4, <2>5 DEF ServerInv, Tracked, OpenTracked
  <2>13. OpenTracked'
    BY <2>1, <2>3, <2>10, <2>11, <2>12 DEF ServerInv, Tracked, OpenTracked
  <2>14. MoreTypes' /\ CountsDown'
    BY <2>1 DEF ServerInv, Tracked, MoreTypes, CountsDown, client, local
  <2>15. Ending'
    BY <2>1 DEF ServerInv, Tracked, Ending
  <2>q. QED BY <2>13, <2>14, <2>15 DEF ServerInv, Tracked
<1>5. CASE Listener(NotifyOne)
  <2>1. /\ UNCHANGED <<jobs, fn, shutdown, lsn, cst, client, sock, local>>
        /\ owner = "notify_one" /\ owner' = "free"
    BY <1>5 DEF Listener, NotifyOne
  <2>2. UNCHANGED wpc \/ \E w \in Workers : wpc[w] = "asleep" /\ wpc' = [wpc EXCEPT ![w] = "lock"]
    BY <1>5 DEF Listener, NotifyOne, Sleeping
  <2>3. /\ wpc' \in [Workers -> {"lock", "asleep", "running", "gone"}]
        /\ \A w \in Workers : (wpc'[w] = "running") <=> (wpc[w] = "running")
        /\ \A w \in Workers : (wpc'[w] = "gone") <=> (wpc[w] = "gone")
    BY <1>t, <2>2
  <2>4. Ending'
    BY <2>1, <2>3 DEF ServerInv, Tracked, Ending
  <2>q. QED BY <1>t, <2>1, <2>3, <2>4, PoolOnly
<1>6. CASE Listener(NotifyAll)
  <2>1. /\ UNCHANGED <<jobs, fn, shutdown, lsn, cst, client, sock, local>>
        /\ owner = "notify_all" /\ owner' = "join"
        /\ wpc' = [w \in Workers |-> IF w \in Sleeping THEN "lock" ELSE wpc[w]]
    BY <1>6 DEF Listener, NotifyAll
  <2>3. /\ wpc' \in [Workers -> {"lock", "asleep", "running", "gone"}]
        /\ \A w \in Workers : (wpc'[w] = "running") <=> (wpc[w] = "running")
        /\ \A w \in Workers : (wpc'[w] = "gone") <=> (wpc[w] = "gone")
    BY <1>t, <2>1 DEF Sleeping
  <2>4. Ending'
    BY <2>1, <2>3 DEF ServerInv, Tracked, Ending
  <2>q. QED BY <1>t, <2>1, <2>3, <2>4, PoolOnly
<1>7. CASE Listener(Join)
  <2>1. /\ UNCHANGED <<jobs, fn, shutdown, lsn, cst, client, sock, local, wpc>>
        /\ owner = "join" /\ owner' = "done" /\ \A w \in Workers : wpc[w] = "gone"
    BY <1>7 DEF Listener, Join
  <2>4. Ending'
    BY <2>1 DEF ServerInv, Tracked, Ending
  <2>q. QED BY <1>t, <2>1, <2>4, PoolOnly
<1>8. CASE AcceptFails
  <2>1. /\ lsn.at = "open" /\ owner = "free" /\ shutdown' = TRUE /\ owner' = "notify_all"
        /\ lsn' = [lsn EXCEPT !.at = "closed", !.fds = @ - 1]
        /\ cst' = [c \in Conns |-> IF cst[c] = "backlog" THEN "closed" ELSE cst[c]]
        /\ UNCHANGED <<jobs, wpc, fn, client, sock, local>>
    BY <1>8 DEF AcceptFails, Shutdown
  <2>2. lsn.fds = 1
    BY <2>1 DEF ServerInv, Tracked, OpenTracked
  <2>3. /\ lsn' \in [at : LsnAt, left : Nat, fds : Nat]
        /\ lsn'.at = "closed" /\ lsn'.fds = 0
    <3> DEFINE l == [lsn EXCEPT !.at = "closed"]
    <3>1. /\ l \in [at : LsnAt, left : Nat, fds : Nat]
          /\ l.at = "closed" /\ l.fds = 1
      BY <1>t, <2>2 DEF LsnAt
    <3>2. lsn' = [l EXCEPT !.fds = 0]
      BY <2>1, <2>2, <3>1
    <3> HIDE DEF l
    <3>q. QED BY <3>1, <3>2
  <2>4. /\ cst' \in [Conns -> {"new", "backlog", "open", "closed"}]
        /\ \A c \in Conns : cst'[c] = "open" <=> cst[c] = "open"
    BY <1>t, <2>1
  <2>5. TypeOK'
    BY <2>1, <2>4 DEF ServerInv, Tracked, OpenTracked, TypeOK, local
  <2>6. OpenTracked'
    BY <2>1, <2>3, <2>4, <2>5 DEF ServerInv, Tracked, OpenTracked, Queued
  <2>7. MoreTypes' /\ CountsDown'
    BY <2>1, <2>3 DEF ServerInv, Tracked, MoreTypes, CountsDown, client, local
  <2>8. Ending'
    BY <2>1, <2>3 DEF ServerInv, Tracked, Ending
  <2>q. QED BY <2>6, <2>7, <2>8 DEF ServerInv, Tracked
<1>q. QED BY <1>2, <1>3, <1>4, <1>5, <1>6, <1>7, <1>8 DEF ListenStep

(* Steps of a worker between two connections.                              *)

LEMMA IdleServer ==
    ASSUME ServerInv, NEW w \in Workers,
           Idling(Wait(w)) \/ Idling(Exit(w)) \/ Idling(Spurious(w))
    PROVE  ServerInv'
<1>1. /\ UNCHANGED <<jobs, fn, shutdown, owner, lsn, cst, client, sock, local>>
      /\ wpc[w] \in {"lock", "asleep"}
      /\ \/ wpc' = [wpc EXCEPT ![w] = "asleep"] \/ wpc' = [wpc EXCEPT ![w] = "lock"]
         \/ wpc' = [wpc EXCEPT ![w] = "gone"] /\ shutdown /\ jobs = <<>>
  BY DEF Idling, Wait, Exit, Spurious
<1>2. wpc \in [Workers -> {"lock", "asleep", "running", "gone"}] /\ shutdown \in BOOLEAN
      /\ owner \in {"free", "notify_one", "notify_all", "join", "done"}
  BY DEF ServerInv, Tracked, OpenTracked, TypeOK
<1>3. /\ wpc' \in [Workers -> {"lock", "asleep", "running", "gone"}]
      /\ \A v \in Workers : (wpc'[v] = "running") <=> (wpc[v] = "running")
      /\ \A v \in Workers : wpc[v] = "gone" => wpc'[v] = "gone"
  BY <1>1, <1>2
<1>5. \A v \in Workers : wpc'[v] = "gone" => wpc[v] = "gone" \/ (shutdown /\ jobs = <<>>)
  <2>1. ASSUME NEW x \in {"asleep", "lock"}, wpc' = [wpc EXCEPT ![w] = x], NEW v \in Workers,
               wpc'[v] = "gone"
        PROVE  wpc[v] = "gone"
    BY <1>2, <2>1
  <2>q. QED BY <1>1, <2>1
<1>4. Ending'
  BY <1>1, <1>3, <1>5 DEF ServerInv, Tracked, Ending
<1>q. QED BY <1>1, <1>2, <1>3, <1>4, PoolOnly

LEMMA TakeServer == ASSUME ServerInv, NEW w \in Workers, TakeConn(w) PROVE ServerInv'
<1>t. /\ jobs \in Seq(Conns) /\ shutdown \in BOOLEAN
      /\ wpc \in [Workers -> {"lock", "asleep", "running", "gone"}]
      /\ fn \in [Workers -> Conns \cup {NoJob}]
      /\ stage \in [Workers -> Stages] /\ count \in [Workers -> 0 .. KeepAliveMax]
      /\ \A v \in Workers : (fn[v] # NoJob) <=> (wpc[v] = "running")
  BY DEF ServerInv, Tracked, OpenTracked, TypeOK, MoreTypes
<1>1. /\ wpc[w] = "lock" /\ jobs # <<>>
      /\ fn' = [fn EXCEPT ![w] = Head(jobs)] /\ jobs' = Tail(jobs)
      /\ wpc' = [wpc EXCEPT ![w] = "running"]
      /\ stage' = [stage EXCEPT ![w] = "keep"]
      /\ count' = [count EXCEPT ![w] = KeepAliveMax]
      /\ UNCHANGED <<shutdown, owner, lsn, cst, client, sock, buff>>
  BY DEF TakeConn, Take
<1>2. /\ Head(jobs) \in Conns /\ Head(jobs) = jobs[1] /\ jobs' \in Seq(Conns)
      /\ Len(jobs) \in Nat \ {0} /\ DOMAIN jobs = 1 .. Len(jobs)
      /\ DOMAIN jobs' = 1 .. Len(jobs) - 1
      /\ \A i \in 1 .. Len(jobs) - 1 : jobs'[i] = jobs[i + 1]
  BY <1>t, <1>1, Popped
<1>3. /\ fn' \in [Workers -> Conns \cup {NoJob}] /\ fn'[w] = jobs[1]
      /\ \A v \in Workers : v # w => fn'[v] = fn[v]
      /\ fn[w] = NoJob /\ jobs[1] # NoJob
  BY <1>t, <1>1, <1>2, PoolAssumption DEF Conns
<1>4. TypeOK'
  <2>1. "keep" \in Stages /\ KeepAliveMax \in 0 .. KeepAliveMax
    BY HttpAssumption DEF Stages
  <2>2. /\ stage' \in [Workers -> Stages] /\ count' \in [Workers -> 0 .. KeepAliveMax]
        /\ wpc' \in [Workers -> {"lock", "asleep", "running", "gone"}]
    BY <1>t, <1>1, <2>1
  <2>3. \A v \in Workers : (wpc'[v] = "running") <=> (stage'[v] # "idle")
    BY <1>t, <1>1 DEF ServerInv, Tracked, OpenTracked, TypeOK
  <2>q. QED BY <1>1, <1>2, <1>3, <2>2, <2>3 DEF ServerInv, Tracked, OpenTracked, TypeOK
<1>5. \A i \in Queued' : i + 1 \in Queued /\ jobs'[i] = jobs[i + 1] /\ i + 1 # 1
  BY <1>2 DEF Queued
<1>6. \A i \in Queued : i = 1 \/ (i - 1 \in Queued' /\ jobs'[i - 1] = jobs[i])
  <2> SUFFICES ASSUME NEW i \in Queued, i # 1
               PROVE  i - 1 \in Queued' /\ jobs'[i - 1] = jobs[i]
    OBVIOUS
  <2>1. i - 1 \in 1 .. Len(jobs) - 1 /\ (i - 1) + 1 = i
    BY <1>2 DEF Queued
  <2>q. QED BY <1>2, <2>1 DEF Queued
<1>7. 1 \in Queued /\ \A i, j \in Queued : jobs[i] = jobs[j] => i = j
  BY <1>2 DEF Queued, ServerInv, Tracked, OpenTracked
<1>8. \A i \in Queued, v \in Workers : jobs[i] # fn[v]
  BY DEF ServerInv, Tracked, OpenTracked
<1>9. \A d \in Conns : cst'[d] = "open" <=>
            (\E i \in Queued' : jobs'[i] = d) \/ (\E v \in Workers : fn'[v] = d)
  <2>1. ASSUME NEW d \in Conns
        PROVE  (\E i \in Queued : jobs[i] = d) \/ (\E v \in Workers : fn[v] = d) <=>
               (\E i \in Queued' : jobs'[i] = d) \/ (\E v \in Workers : fn'[v] = d)
    <3>1. CASE d = jobs[1]
      BY <3>1, <1>3, <1>7
    <3>2. CASE d # jobs[1]
      <4>1. (\E i \in Queued : jobs[i] = d) <=> (\E i \in Queued' : jobs'[i] = d)
        BY <3>2, <1>5, <1>6
      <4>2. (\E v \in Workers : fn[v] = d) <=> (\E v \in Workers : fn'[v] = d)
        BY <3>2, <1>3, PoolAssumption DEF Conns
      <4>q. QED BY <4>1, <4>2
    <3>q. QED BY <3>1, <3>2
  <2>q. QED BY <2>1, <1>1 DEF ServerInv, Tracked, OpenTracked
<1>10. \A i, j \in Queued' : jobs'[i] = jobs'[j] => i = j
  <2> SUFFICES ASSUME NEW i \in Queued', NEW j \in Queued', jobs'[i] = jobs'[j]
               PROVE  i = j
    OBVIOUS
  <2>1. i + 1 = j + 1
    BY <1>5, <1>7
  <2>q. QED BY <2>1, <1>2 DEF Queued
<1>11. \A u, v \in Workers : (fn'[u] = fn'[v] /\ fn'[u] # NoJob) => u = v
  BY <1>3, <1>7, <1>8 DEF ServerInv, Tracked, OpenTracked
<1>12. \A i \in Queued', v \in Workers : jobs'[i] # fn'[v]
  BY <1>3, <1>5, <1>7, <1>8
<1>13. OpenTracked'
  BY <1>1, <1>4, <1>9, <1>10, <1>11, <1>12 DEF ServerInv, Tracked, OpenTracked
<1>14. MoreTypes'
  BY <1>t, <1>1, <1>3 DEF ServerInv, Tracked, MoreTypes, client
<1>15. CountsDown' /\ Ending'
  BY <1>t, <1>1 DEF ServerInv, Tracked, CountsDown, Ending
<1>q. QED BY <1>13, <1>14, <1>15 DEF ServerInv, Tracked

LEMMA CloseServer == ASSUME ServerInv, NEW w \in Workers, CloseSocket(w) PROVE ServerInv'
<1>t. /\ wpc \in [Workers -> {"lock", "asleep", "running", "gone"}]
      /\ fn \in [Workers -> Conns \cup {NoJob}]
      /\ cst \in [Conns -> {"new", "backlog", "open", "closed"}]
      /\ stage \in [Workers -> Stages] /\ count \in [Workers -> 0 .. KeepAliveMax]
      /\ sock \in [Conns -> Seq(PieceType)] /\ buff \in [Workers -> Seq(PieceType)]
      /\ \A v \in Workers : (fn[v] # NoJob) <=> (wpc[v] = "running")
  BY DEF ServerInv, Tracked, OpenTracked, TypeOK, MoreTypes
<1>1. /\ wpc[w] = "running" /\ wpc' = [wpc EXCEPT ![w] = "lock"]
      /\ fn' = [fn EXCEPT ![w] = NoJob]
      /\ cst' = [cst EXCEPT ![fn[w]] = "closed"]
      /\ stage' = [stage EXCEPT ![w] = "idle"] /\ count' = [count EXCEPT ![w] = 0]
      /\ buff' = [buff EXCEPT ![w] = <<>>]
      /\ sock' = [sock EXCEPT ![fn[w]] = <<>>]
      /\ UNCHANGED <<jobs, shutdown, owner, lsn, client>>
  BY DEF CloseSocket, Finish, NewStream, In
<1>2. fn[w] \in Conns /\ fn[w] # NoJob
  BY <1>1, Serves
<1>3. /\ fn'[w] = NoJob /\ \A v \in Workers : v # w => fn'[v] = fn[v] /\ fn[v] # fn[w]
      /\ fn' \in [Workers -> Conns \cup {NoJob}]
  BY <1>t, <1>1, <1>2 DEF ServerInv, Tracked, OpenTracked
<1>4. TypeOK'
  <2>1. "idle" \in Stages /\ 0 \in 0 .. KeepAliveMax
    BY HttpAssumption DEF Stages
  <2>2. /\ stage' \in [Workers -> Stages] /\ count' \in [Workers -> 0 .. KeepAliveMax]
        /\ wpc' \in [Workers -> {"lock", "asleep", "running", "gone"}]
        /\ cst' \in [Conns -> {"new", "backlog", "open", "closed"}]
        /\ sock' \in [Conns -> Seq(PieceType)] /\ buff' \in [Workers -> Seq(PieceType)]
    BY <1>t, <1>1, <2>1
  <2>3. \A v \in Workers : (wpc'[v] = "running") <=> (stage'[v] # "idle")
    BY <1>t, <1>1 DEF ServerInv, Tracked, OpenTracked, TypeOK
  <2>q. QED BY <1>1, <1>3, <2>2, <2>3 DEF ServerInv, Tracked, OpenTracked, TypeOK
<1>5. \A i \in Queued : jobs[i] # fn[w]
  BY DEF ServerInv, Tracked, OpenTracked
<1>6. \A d \in Conns : cst'[d] = "open" <=>
            (\E i \in Queued' : jobs'[i] = d) \/ (\E v \in Workers : fn'[v] = d)
  <2>1. Queued' = Queued /\ jobs' = jobs
    BY <1>1 DEF Queued
  <2>2. \A d \in Conns : IF d = fn[w] THEN cst'[d] = "closed" ELSE cst'[d] = cst[d]
    BY <1>t, <1>1
  <2>3. NoJob \notin Conns
    BY PoolAssumption DEF Conns
  <2>4. ASSUME NEW d \in Conns, d = fn[w]
        PROVE  cst'[d] # "open" /\ (\A i \in Queued : jobs[i] # d) /\ \A v \in Workers : fn'[v] # d
    BY <1>2, <1>3, <1>5, <2>2, <2>3, <2>4
  <2>5. ASSUME NEW d \in Conns, d # fn[w]
        PROVE  (\E v \in Workers : fn'[v] = d) <=> (\E v \in Workers : fn[v] = d)
    BY <1>3, <2>3, <2>5
  <2>q. QED BY <2>1, <2>2, <2>4, <2>5 DEF ServerInv, Tracked, OpenTracked
<1>7. OpenTracked'
  <2>1. \A i, j \in Queued' : jobs'[i] = jobs'[j] => i = j
    BY <1>1 DEF ServerInv, Tracked, OpenTracked, Queued
  <2>2. \A u, v \in Workers : (fn'[u] = fn'[v] /\ fn'[u] # NoJob) => u = v
    BY <1>3 DEF ServerInv, Tracked, OpenTracked
  <2>3. \A i \in Queued', v \in Workers : jobs'[i] # fn'[v]
    <3>1. \A i \in Queued : jobs[i] # NoJob
      BY PoolAssumption DEF ServerInv, Tracked, OpenTracked, TypeOK, Queued, Conns
    <3>2. Queued' = Queued /\ jobs' = jobs
      BY <1>1 DEF Queued
    <3>q. QED BY <1>3, <3>1, <3>2 DEF ServerInv, Tracked, OpenTracked
  <2>q. QED BY <1>1, <1>4, <1>6, <2>1, <2>2, <2>3 DEF ServerInv, Tracked, OpenTracked
<1>8. MoreTypes'
  BY <1>t, <1>1, <1>3 DEF ServerInv, Tracked, MoreTypes, client
<1>9. CountsDown' /\ Ending'
  BY <1>t, <1>1 DEF ServerInv, Tracked, CountsDown, Ending
<1>q. QED BY <1>7, <1>8, <1>9 DEF ServerInv, Tracked

\* Every step keeps the invariant.
LEMMA NextServer == ServerInv /\ [Next]_vars => ServerInv'
<1> SUFFICES ASSUME ServerInv, [Next]_vars PROVE ServerInv'
  OBVIOUS
<1>1. ASSUME NEW c \in Conns, ClientStep(c) PROVE ServerInv'
  BY <1>1, ClientServer
<1>2. CASE ListenStep \/ AcceptFails
  BY <1>2, ListenServer
<1>3. ASSUME NEW w \in Workers, WorkerStep(w) \/ Idling(Spurious(w)) PROVE ServerInv'
  BY <1>3, IdleServer, TakeServer, ServeServer, CloseServer
     DEF WorkerStep, ServeStep, Serve
<1>4. CASE UNCHANGED vars
  BY <1>4, Unread, Same, Framed DEF vars, local
<1>q. QED BY <1>1, <1>2, <1>3, <1>4 DEF Next

LEMMA ServerInvariant == Spec => []ServerInv
BY InitServer, NextServer, PTL DEF Spec

(* The theorems.                                                           *)

\* The descriptor of every accepted connection is in the queue of the pool or
\* in the hands of exactly one worker until it is closed, and the listening
\* socket is open exactly while listen() accepts.
THEOREM ConnectionsTracked == Spec => []OpenTracked
BY ServerInvariant, PTL DEF ServerInv, Tracked

\* listen() returns with an empty queue and no open connection: a worker leaves
\* only an empty queue, and nothing is enqueued after shutdown().
THEOREM ShutdownDrains == Spec => []Drained
<1>1. ASSUME ServerInv, owner = "done" PROVE jobs = <<>> /\ \A c \in Conns : cst[c] # "open"
  <2>1. \A w \in Workers : wpc[w] = "gone" /\ fn[w] = NoJob
    BY <1>1 DEF ServerInv, Tracked, Ending, MoreTypes
  <2>2. jobs = <<>>
    BY <1>1, <2>1, PoolAssumption DEF ServerInv, Tracked, Ending
  <2>3. Queued = {} /\ NoJob \notin Conns
    BY <2>2, PoolAssumption DEF Queued, Conns
  <2>q. QED BY <1>1, <2>1, <2>2, <2>3 DEF ServerInv, Tracked, OpenTracked
<1>2. ServerInv => Drained
  BY <1>1 DEF Drained
<1>q. QED BY <1>2, ServerInvariant, PTL

(* What is still to be read of a connection.                               *)

\* What follows the request line: the headers are part 0, then come the parts of
\* the body.
Parts(k) == IF k.len = "chunked" THEN k.body + 1 ELSE k.body
Part(n, k, i) ==
    IF i = 0 THEN Hdrs(n) ELSE IF i <= k.body THEN Data(n, k)[i] ELSE LastChunk(n)

\* From position p on, s holds the parts of request n from part m on.
Rests(s, p, n, k, m) ==
    \A i \in m .. Parts(k) : p + (i - m) \in DOMAIN s /\ s[p + (i - m)] = Part(n, k, i)

\* Every request line in s is that of a request of its own, which is not one of
\* `used', and is followed by the whole rest of this request.
Clean(s, ks, used) ==
    \A p \in DOMAIN s : s[p].part = "line" =>
        /\ s[p].of \in DOMAIN ks /\ s[p].of \notin used
        /\ Rests(s, p + 1, s[p].of, ks[s[p].of], 0)
        /\ \A q \in DOMAIN s : s[q] = s[p] => q = p

\* Reading a body whose end can be seen: b is all or a part of it.
Complete(n, k, b) == b = Data(n, k)
Partial(n, k, s, b) ==
    /\ Len(b) <= k.body /\ (k.len = "length" => Len(b) < k.body)
    /\ \A i \in 1 .. Len(b) : b[i] = Data(n, k)[i]
    /\ Rests(s, 1, n, k, Len(b) + 1)

\* A worker at st that works on request n, has read b of its body and will find
\* s: it knows where in the request it is, up to the handler.
Placed(st, n, ks, used, s, b) ==
    /\ st \in {"hdrs", "body", "dispatch"} => n \in DOMAIN ks /\ n \notin used
    /\ st \in {"line", "hdrs"} => b = <<>>
    /\ st = "hdrs" => Rests(s, 1, n, ks[n], 0)
    /\ (st = "body" /\ ks[n].len # "none") => Partial(n, ks[n], s, b)
    /\ (st = "dispatch" /\ ks[n].content /\ ks[n].len # "none") => Complete(n, ks[n], b)

Used(h, c) == {h[i].of : i \in {j \in DOMAIN h : h[j].conn = c}}

Coming(c) == sock[c] \o unsent[c]
Stream(w) == buff[w] \o Coming(fn[w])

Call == [conn : Conns, of : Nat, body : Seq(PieceType)]
StreamTypes ==
    /\ req \in [Workers -> Nat] /\ body \in [Workers -> Seq(PieceType)]
    /\ handled \in Seq(Call)
    /\ \A c \in Conns : Used(handled, c) \subseteq DOMAIN asked[c]
    /\ \A w \in Workers : wpc[w] = "running" => req[w] <= Len(asked[fn[w]])
    /\ \A w \in Workers : wpc[w] # "running" => buff[w] = <<>> /\ req[w] = 0

StreamInv ==
    /\ StreamTypes /\ HandledWhole
    /\ \A c \in Conns : Clean(Coming(c), asked[c], Used(handled, c))
    /\ \A w \in Workers : wpc[w] = "running" =>
        /\ Clean(Stream(w), asked[fn[w]], Used(handled, fn[w]) \cup {req[w]})
        /\ Placed(stage[w], req[w], asked[fn[w]], Used(handled, fn[w]), Stream(w), body[w])

\* t is s without its first d elements.
SuffixBy(t, s, d) ==
    /\ d \in 0 .. Len(s) /\ Len(t) = Len(s) - d
    /\ \A i \in 1 .. Len(t) : t[i] = s[i + d]

LEMMA ConcatElements ==
    ASSUME NEW S, NEW s \in Seq(S), NEW t \in Seq(S)
    PROVE  /\ s \o t \in Seq(S) /\ Len(s) \in Nat /\ Len(t) \in Nat
           /\ Len(s \o t) = Len(s) + Len(t) /\ DOMAIN (s \o t) = 1 .. Len(s) + Len(t)
           /\ DOMAIN s = 1 .. Len(s) /\ DOMAIN t = 1 .. Len(t)
           /\ \A i \in 1 .. Len(s) : (s \o t)[i] = s[i]
           /\ \A i \in 1 .. Len(t) : (s \o t)[Len(s) + i] = t[i]
<1>1. s \o t \in Seq(S) /\ Len(s \o t) = Len(s) + Len(t)
      /\ \A i \in 1 .. Len(s) + Len(t) :
            (s \o t)[i] = IF i <= Len(s) THEN s[i] ELSE t[i - Len(s)]
  BY ConcatProperties
<1>2. Len(s) \in Nat /\ Len(t) \in Nat /\ DOMAIN s = 1 .. Len(s) /\ DOMAIN t = 1 .. Len(t)
  BY LenProperties
<1>3. DOMAIN (s \o t) = 1 .. Len(s) + Len(t)
  BY <1>1, LenProperties
<1>4. \A i \in 1 .. Len(s) : (s \o t)[i] = s[i]
  BY <1>1, <1>2
<1>5. ASSUME NEW i \in 1 .. Len(t) PROVE (s \o t)[Len(s) + i] = t[i]
  <2>1. Len(s) + i \in 1 .. Len(s) + Len(t) /\ ~(Len(s) + i <= Len(s)) /\ Len(s) + i - Len(s) = i
    BY <1>2
  <2>q. QED BY <1>1, <2>1
<1>q. QED BY <1>1, <1>2, <1>3, <1>4, <1>5

\* What remains when the buffer is dropped, or one piece of it is consumed.
LEMMA DropSuffix ==
    ASSUME NEW S, NEW s \in Seq(S), NEW t \in Seq(S)
    PROVE  SuffixBy(t, s \o t, Len(s))
<1>1. \A i \in 1 .. Len(t) : (s \o t)[i + Len(s)] = t[i]
  <2> SUFFICES ASSUME NEW i \in 1 .. Len(t) PROVE (s \o t)[i + Len(s)] = t[i]
    OBVIOUS
  <2>1. i + Len(s) = Len(s) + i
    BY ConcatElements
  <2>q. QED BY <2>1, ConcatElements
<1>q. QED BY <1>1, ConcatElements DEF SuffixBy

LEMMA TailSuffix ==
    ASSUME NEW S, NEW s \in Seq(S), NEW t \in Seq(S), s # <<>>
    PROVE  /\ SuffixBy(Tail(s) \o t, s \o t, 1)
           /\ (s \o t)[1] = Head(s) /\ 1 \in DOMAIN (s \o t)
<1>1. /\ Tail(s) \in Seq(S) /\ Len(s) \in Nat \ {0} /\ DOMAIN Tail(s) = 1 .. Len(s) - 1
      /\ \A i \in 1 .. Len(s) - 1 : Tail(s)[i] = s[i + 1]
      /\ Head(s) = s[1]
  BY Popped
<1>2. Len(Tail(s)) = Len(s) - 1
  BY <1>1, HeadTailProperties
<1>3. /\ Len(s \o t) = Len(s) + Len(t) /\ Len(t) \in Nat
      /\ Len(Tail(s) \o t) = Len(s) - 1 + Len(t)
      /\ DOMAIN (s \o t) = 1 .. Len(s) + Len(t)
  BY <1>1, <1>2, ConcatElements
<1>4. ASSUME NEW i \in 1 .. Len(Tail(s) \o t)
      PROVE  (Tail(s) \o t)[i] = (s \o t)[i + 1]
  <2>1. CASE i <= Len(s) - 1
    <3>1. (Tail(s) \o t)[i] = Tail(s)[i]
      BY <1>1, <1>2, <1>3, <2>1, ConcatElements
    <3>2. (s \o t)[i + 1] = s[i + 1]
      BY <1>1, <1>3, <2>1, ConcatElements
    <3>q. QED BY <1>1, <1>3, <2>1, <3>1, <3>2
  <2>2. CASE ~(i <= Len(s) - 1)
    <3> DEFINE j == i - (Len(s) - 1)
    <3>1. j \in 1 .. Len(t) /\ i = Len(Tail(s)) + j /\ i + 1 = Len(s) + j
      BY <1>1, <1>2, <1>3, <2>2
    <3> HIDE DEF j
    <3>2. (Tail(s) \o t)[Len(Tail(s)) + j] = t[j] /\ (s \o t)[Len(s) + j] = t[j]
      BY <1>1, <3>1, ConcatElements
    <3>q. QED BY <3>1, <3>2
  <2>q. QED BY <2>1, <2>2
<1>5. (s \o t)[1] = s[1] /\ 1 \in DOMAIN (s \o t)
  BY <1>1, <1>3, ConcatElements
<1>q. QED BY <1>1, <1>3, <1>4, <1>5 DEF SuffixBy

\* Nothing changes in what is to be read when a piece is sent or received.
LEMMA SendSame ==
    ASSUME NEW S, NEW s \in Seq(S), NEW t \in Seq(S), t # <<>>
    PROVE  Append(s, Head(t)) \o Tail(t) = s \o t
<1>1. t = <<Head(t)>> \o Tail(t) /\ Tail(t) \in Seq(S) /\ Head(t) \in S
  BY HeadTailProperties, ConcatProperties
<1>2. Append(s, Head(t)) = s \o <<Head(t)>>
  BY <1>1, AppendIsConcat
<1>q. QED BY <1>1, <1>2, ConcatAssociative

LEMMA Regroup ==
    ASSUME NEW S, NEW r \in Seq(S), NEW s \in Seq(S), NEW t \in Seq(S)
    PROVE  r \o (s \o t) = (r \o s) \o t
BY ConcatAssociative

LEMMA RecvSame ==
    ASSUME NEW S, NEW s \in Seq(S), NEW t \in Seq(S), NEW n \in 1 .. Len(s)
    PROVE  /\ SubSeq(s, 1, n) \o (SubSeq(s, n + 1, Len(s)) \o t) = s \o t
           /\ SubSeq(s, 1, n) \in Seq(S) /\ SubSeq(s, n + 1, Len(s)) \in Seq(S)
<1>0. Len(s) \in Nat /\ n \in Nat /\ 1 <= n /\ n <= Len(s)
  BY LenProperties
<1>1. SubSeq(s, 1, n) \in Seq(S) /\ SubSeq(s, n + 1, Len(s)) \in Seq(S)
  BY <1>0
<1>2. SubSeq(s, 1, n) \o SubSeq(s, n + 1, Len(s)) = SubSeq(s, 1, Len(s))
  <2>1. 1 \in 1 .. Len(s) + 1 /\ n \in 1 - 1 .. Len(s) /\ Len(s) \in n .. Len(s)
    BY <1>0
  <2>q. QED BY <2>1, ConcatAdjacentSubSeq
<1>3. SubSeq(s, 1, Len(s)) = s
  BY SubSeqFull
<1>4. SubSeq(s, 1, n) \o (SubSeq(s, n + 1, Len(s)) \o t)
        = (SubSeq(s, 1, n) \o SubSeq(s, n + 1, Len(s))) \o t
  <2> DEFINE a == SubSeq(s, 1, n)
             b == SubSeq(s, n + 1, Len(s))
  <2>1. a \in Seq(S) /\ b \in Seq(S)
    BY <1>1
  <2> HIDE DEF a, b
  <2>2. a \o (b \o t) = (a \o b) \o t
    BY <2>1, Regroup
  <2>q. QED BY <2>2 DEF a, b
<1>q. QED BY <1>1, <1>2, <1>3, <1>4, Zenon

(* Streams of requests.                                                    *)

LEMMA PartTypes ==
    ASSUME NEW k \in Kind
    PROVE  Parts(k) \in Nat /\ k.body \in Nat /\ k.body <= Parts(k)
BY DEF Kind, Parts

LEMMA PieceEqual ==
    ASSUME NEW x \in PieceType, NEW y \in PieceType, x.part = y.part, x.of = y.of
    PROVE  x = y
<1>1. x = [part |-> x.part, of |-> x.of] /\ y = [part |-> y.part, of |-> y.of]
  BY DEF PieceType
<1>q. QED BY <1>1

\* The parts of a request as they are sent.
LEMMA BodyParts ==
    ASSUME NEW n \in Nat, NEW k \in Kind
    PROVE  /\ BodyOf(n, k) \in Seq(PieceType) /\ Len(BodyOf(n, k)) = Parts(k)
           /\ \A i \in 1 .. Parts(k) : BodyOf(n, k)[i] = Part(n, k, i)
<1>1. /\ Data(n, k) \in Seq(PieceType) /\ Len(Data(n, k)) = k.body /\ k.body \in Nat
      /\ BodyOf(n, k) \in Seq(PieceType)
  BY PiecesOfBody, PartTypes
<1>2. CASE k.len = "chunked"
  <2>1. BodyOf(n, k) = Append(Data(n, k), LastChunk(n)) /\ Parts(k) = k.body + 1
    <3>1. LastChunk(n) \in PieceType
      BY DEF LastChunk, PieceType
    <3>q. QED BY <1>1, <1>2, <3>1, AppendIsConcat DEF BodyOf, Parts
  <2>2. LastChunk(n) \in PieceType
    BY DEF LastChunk, PieceType
  <2>3. /\ Len(BodyOf(n, k)) = k.body + 1
        /\ \A i \in 1 .. k.body : BodyOf(n, k)[i] = Data(n, k)[i]
        /\ BodyOf(n, k)[k.body + 1] = LastChunk(n)
    BY <1>1, <2>1, <2>2, AppendProperties
  <2>q. QED BY <1>1, <2>1, <2>3 DEF Part
<1>3. CASE k.len # "chunked"
  <2>1. BodyOf(n, k) = Data(n, k) /\ Parts(k) = k.body
    BY <1>1, <1>3, ConcatEmptySeq DEF BodyOf, Parts
  <2>q. QED BY <1>1, <2>1 DEF Part
<1>q. QED BY <1>2, <1>3

\* A rest stays where it is when something is appended, and moves with a suffix.
LEMMA RestsLonger ==
    ASSUME NEW S, NEW s \in Seq(S), NEW t \in Seq(S), NEW n, NEW k \in Kind,
           NEW p \in Nat, NEW m \in Nat, Rests(s, p, n, k, m)
    PROVE  Rests(s \o t, p, n, k, m)
<1> SUFFICES ASSUME NEW i \in m .. Parts(k)
             PROVE  /\ p + (i - m) \in DOMAIN (s \o t)
                    /\ (s \o t)[p + (i - m)] = Part(n, k, i)
  BY DEF Rests
<1>1. p + (i - m) \in DOMAIN s /\ s[p + (i - m)] = Part(n, k, i)
  BY DEF Rests
<1>q. QED BY <1>1, ConcatElements

LEMMA RestsSuffix ==
    ASSUME NEW S, NEW s \in Seq(S), NEW t \in Seq(S), NEW d, SuffixBy(t, s, d),
           NEW n, NEW k \in Kind, NEW p \in Nat, NEW m \in Nat, p > d, Rests(s, p, n, k, m)
    PROVE  Rests(t, p - d, n, k, m)
<1>0. /\ DOMAIN s = 1 .. Len(s) /\ DOMAIN t = 1 .. Len(t) /\ Len(s) \in Nat /\ Len(t) \in Nat
      /\ Parts(k) \in Nat
  BY LenProperties, PartTypes
<1> SUFFICES ASSUME NEW i \in m .. Parts(k)
             PROVE  /\ (p - d) + (i - m) \in DOMAIN t
                    /\ t[(p - d) + (i - m)] = Part(n, k, i)
  BY DEF Rests
<1>1. p + (i - m) \in DOMAIN s /\ s[p + (i - m)] = Part(n, k, i)
  BY DEF Rests
<1>2. (p - d) + (i - m) \in 1 .. Len(t) /\ ((p - d) + (i - m)) + d = p + (i - m)
  BY <1>0, <1>1 DEF SuffixBy
<1>q. QED BY <1>0, <1>1, <1>2 DEF SuffixBy

\* The next part is the first piece; after it comes the rest from the next part.
LEMMA RestsNext ==
    ASSUME NEW S, NEW s \in Seq(S), NEW t \in Seq(S), SuffixBy(t, s, 1),
           NEW n, NEW k \in Kind, NEW m \in Nat, m <= Parts(k), Rests(s, 1, n, k, m)
    PROVE  s[1] = Part(n, k, m) /\ Rests(t, 1, n, k, m + 1)
<1>0. /\ DOMAIN s = 1 .. Len(s) /\ DOMAIN t = 1 .. Len(t) /\ Len(s) \in Nat /\ Len(t) \in Nat
      /\ Parts(k) \in Nat
  BY LenProperties, PartTypes
<1>1. s[1] = Part(n, k, m)
  <2>1. m \in m .. Parts(k) /\ 1 + (m - m) = 1
    BY <1>0
  <2>2. s[1 + (m - m)] = Part(n, k, m)
    BY <2>1 DEF Rests
  <2>q. QED BY <2>1, <2>2
<1>2. ASSUME NEW i \in m + 1 .. Parts(k)
      PROVE  /\ 1 + (i - (m + 1)) \in DOMAIN t
             /\ t[1 + (i - (m + 1))] = Part(n, k, i)
  <2>1. i \in m .. Parts(k) /\ 1 + (i - m) \in DOMAIN s /\ s[1 + (i - m)] = Part(n, k, i)
    BY <1>0 DEF Rests
  <2>2. 1 + (i - (m + 1)) \in 1 .. Len(t) /\ (1 + (i - (m + 1))) + 1 = 1 + (i - m)
    BY <1>0, <2>1 DEF SuffixBy
  <2>q. QED BY <1>0, <2>1, <2>2 DEF SuffixBy
<1>q. QED BY <1>1, <1>2 DEF Rests

LEMMA CleanSuffix ==
    ASSUME NEW s \in Seq(PieceType), NEW t \in Seq(PieceType), NEW d, SuffixBy(t, s, d),
           NEW ks \in Seq(Kind), NEW used, Clean(s, ks, used)
    PROVE  Clean(t, ks, used)
<1>0. /\ DOMAIN s = 1 .. Len(s) /\ DOMAIN t = 1 .. Len(t) /\ Len(s) \in Nat /\ Len(t) \in Nat
      /\ DOMAIN ks = 1 .. Len(ks) /\ Len(ks) \in Nat /\ d \in Nat
  BY LenProperties DEF SuffixBy
<1> SUFFICES ASSUME NEW p \in DOMAIN t, t[p].part = "line"
             PROVE  /\ t[p].of \in DOMAIN ks /\ t[p].of \notin used
                    /\ Rests(t, p + 1, t[p].of, ks[t[p].of], 0)
                    /\ \A q \in DOMAIN t : t[q] = t[p] => q = p
  BY DEF Clean
<1>1. p + d \in DOMAIN s /\ s[p + d] = t[p]
  BY <1>0 DEF SuffixBy
<1>2. /\ t[p].of \in DOMAIN ks /\ t[p].of \notin used
      /\ Rests(s, p + d + 1, t[p].of, ks[t[p].of], 0)
      /\ \A q \in DOMAIN s : s[q] = s[p + d] => q = p + d
  BY <1>1 DEF Clean
<1>3. Rests(t, p + 1, t[p].of, ks[t[p].of], 0)
  <2> DEFINE k == ks[t[p].of]
             m == p + d + 1
  <2>1. k \in Kind /\ m \in Nat /\ m > d /\ m - d = p + 1 /\ Rests(s, m, t[p].of, k, 0)
    BY <1>0, <1>2
  <2> HIDE DEF k, m
  <2>2. Rests(t, m - d, t[p].of, k, 0)
    BY <2>1, RestsSuffix
  <2>q. QED BY <2>1, <2>2 DEF k
<1>4. ASSUME NEW q \in DOMAIN t, t[q] = t[p] PROVE q = p
  <2>1. q + d \in DOMAIN s /\ s[q + d] = t[q]
    BY <1>0 DEF SuffixBy
  <2>2. q + d = p + d
    BY <1>1, <1>2, <1>4, <2>1
  <2>q. QED BY <1>0, <2>2
<1>q. QED BY <1>2, <1>3, <1>4

LEMMA CleanLess ==
    ASSUME NEW s, NEW ks, NEW used, NEW less, Clean(s, ks, used),
           \A n \in DOMAIN ks : n \in less => n \in used
    PROVE  Clean(s, ks, less)
BY DEF Clean

\* The first piece is a request line: it is read, and its request is used.
LEMMA CleanLine ==
    ASSUME NEW s \in Seq(PieceType), NEW t \in Seq(PieceType), SuffixBy(t, s, 1),
           NEW ks \in Seq(Kind), NEW used, Clean(s, ks, used), s[1].part = "line"
    PROVE  /\ s[1].of \in DOMAIN ks /\ s[1].of \notin used
           /\ Rests(t, 1, s[1].of, ks[s[1].of], 0)
           /\ Clean(t, ks, used \cup {s[1].of})
<1>0. /\ DOMAIN s = 1 .. Len(s) /\ DOMAIN t = 1 .. Len(t) /\ Len(s) \in Nat /\ Len(t) \in Nat
      /\ 1 \in DOMAIN s /\ DOMAIN ks = 1 .. Len(ks) /\ Len(ks) \in Nat
  BY LenProperties DEF SuffixBy
<1>1. /\ s[1].of \in DOMAIN ks /\ s[1].of \notin used
      /\ Rests(s, 2, s[1].of, ks[s[1].of], 0)
      /\ \A q \in DOMAIN s : s[q] = s[1] => q = 1
  <2>1. 1 + 1 = 2
    OBVIOUS
  <2>q. QED BY <1>0, <2>1 DEF Clean
<1>2. Rests(t, 1, s[1].of, ks[s[1].of], 0)
  <2>1. ks[s[1].of] \in Kind /\ 2 - 1 = 1 /\ 2 > 1 /\ 2 \in Nat /\ 0 \in Nat
    BY <1>0, <1>1
  <2>2. Rests(t, 2 - 1, s[1].of, ks[s[1].of], 0)
    BY <1>1, <2>1, RestsSuffix
  <2>q. QED BY <2>1, <2>2
<1>3. Clean(t, ks, used)
  BY CleanSuffix
<1>4. ASSUME NEW p \in DOMAIN t, t[p].part = "line" PROVE t[p].of # s[1].of
  <2>1. p + 1 \in DOMAIN s /\ s[p + 1] = t[p] /\ p + 1 # 1
    BY <1>0 DEF SuffixBy
  <2>2. s[p + 1] \in PieceType /\ s[1] \in PieceType
    BY <1>0, <2>1
  <2>3. s[p + 1].of = s[1].of => s[p + 1] = s[1]
    BY <1>4, <2>1, <2>2, PieceEqual
  <2>q. QED BY <1>1, <2>1, <2>3
<1>5. Clean(t, ks, used \cup {s[1].of})
  BY <1>3, <1>4 DEF Clean
<1>q. QED BY <1>1, <1>2, <1>5

\* What a client sends for its n-th request.
Sent(n, k) == <<Line(n), Hdrs(n)>> \o BodyOf(n, k)

LEMMA SentParts ==
    ASSUME NEW n \in Nat, NEW k \in Kind
    PROVE  /\ Sent(n, k) \in Seq(PieceType) /\ Len(Sent(n, k)) = Parts(k) + 2
           /\ <<Line(n), Hdrs(n)>> \in Seq(PieceType)
           /\ Sent(n, k)[1] = Line(n)
           /\ \A i \in 0 .. Parts(k) : Sent(n, k)[i + 2] = Part(n, k, i)
           /\ \A i \in 0 .. Parts(k) : Part(n, k, i) \in PieceType /\ Part(n, k, i).part # "line"
<1>0. Parts(k) \in Nat /\ k.body \in Nat /\ k.body <= Parts(k)
  BY PartTypes
<1>1. Line(n) \in PieceType /\ Hdrs(n) \in PieceType
  BY DEF Line, Hdrs, PieceType
<1> DEFINE h == <<Line(n), Hdrs(n)>>
<1>2. h \in Seq(PieceType) /\ Len(h) = 2 /\ h[1] = Line(n) /\ h[2] = Hdrs(n)
  BY <1>1
<1>3. /\ BodyOf(n, k) \in Seq(PieceType) /\ Len(BodyOf(n, k)) = Parts(k)
      /\ \A i \in 1 .. Parts(k) : BodyOf(n, k)[i] = Part(n, k, i)
  BY BodyParts
<1> HIDE DEF h
<1>4. /\ h \o BodyOf(n, k) \in Seq(PieceType) /\ Len(h \o BodyOf(n, k)) = 2 + Parts(k)
      /\ \A i \in 1 .. 2 : (h \o BodyOf(n, k))[i] = h[i]
      /\ \A i \in 1 .. Parts(k) : (h \o BodyOf(n, k))[2 + i] = BodyOf(n, k)[i]
  <2> DEFINE t == BodyOf(n, k)
  <2>1. h \in Seq(PieceType) /\ t \in Seq(PieceType)
    BY <1>2, <1>3
  <2>2. Len(h) = 2 /\ Len(t) = Parts(k)
    BY <1>2, <1>3
  <2> HIDE DEF t
  <2>3. /\ h \o t \in Seq(PieceType) /\ Len(h \o t) = Len(h) + Len(t)
        /\ \A i \in 1 .. Len(h) : (h \o t)[i] = h[i]
        /\ \A i \in 1 .. Len(t) : (h \o t)[Len(h) + i] = t[i]
    BY <2>1, ConcatElements
  <2>4. /\ h \o t \in Seq(PieceType) /\ Len(h \o t) = 2 + Parts(k)
        /\ \A i \in 1 .. 2 : (h \o t)[i] = h[i]
        /\ \A i \in 1 .. Parts(k) : (h \o t)[2 + i] = t[i]
    BY <2>2, <2>3
  <2>q. QED BY <2>4 DEF t
<1>5. Sent(n, k) = h \o BodyOf(n, k)
  BY DEF Sent, h
<1>6. ASSUME NEW i \in 0 .. Parts(k) PROVE Sent(n, k)[i + 2] = Part(n, k, i)
  <2>1. CASE i = 0
    <3>1. i + 2 = 2 /\ 2 \in 1 .. 2 /\ Part(n, k, i) = Hdrs(n)
      BY <2>1 DEF Part
    <3>q. QED BY <1>2, <1>4, <1>5, <3>1
  <2>2. CASE i # 0
    <3>1. i \in 1 .. Parts(k) /\ i + 2 = 2 + i
      BY <1>0, <2>2
    <3>q. QED BY <1>3, <1>4, <1>5, <3>1
  <2>q. QED BY <2>1, <2>2
<1>7. ASSUME NEW i \in 0 .. Parts(k)
      PROVE  Part(n, k, i) \in PieceType /\ Part(n, k, i).part # "line"
  <2>1. i \in 1 .. k.body => Data(n, k)[i] \in {Chunk(n), Piece(n)}
    BY <1>0 DEF Data
  <2>2. Part(n, k, i) \in {Hdrs(n), Chunk(n), Piece(n), LastChunk(n)}
    BY <1>0, <2>1 DEF Part
  <2>q. QED BY <2>2 DEF Hdrs, Chunk, Piece, LastChunk, PieceType
<1>8. h \in Seq(PieceType) => <<Line(n), Hdrs(n)>> \in Seq(PieceType)
  BY DEF h
<1>q. QED BY <1>0, <1>2, <1>4, <1>5, <1>6, <1>7, <1>8

\* A new request behind everything that was sent.
LEMMA CleanAsk ==
    ASSUME NEW s \in Seq(PieceType), NEW ks \in Seq(Kind), NEW used,
           \A m \in used : m \in Nat /\ m <= Len(ks),
           Clean(s, ks, used), NEW k \in Kind
    PROVE  Clean(s \o Sent(Len(ks) + 1, k), Append(ks, k), used)
<1> DEFINE n == Len(ks) + 1
           r == Sent(n, k)
           l == Append(ks, k)
<1>0. /\ n \in Nat /\ Len(ks) \in Nat /\ DOMAIN ks = 1 .. Len(ks) /\ n = Len(ks) + 1
      /\ DOMAIN l = 1 .. n /\ l[n] = k /\ \A i \in DOMAIN ks : l[i] = ks[i]
  BY Pushed
<1>1. /\ r \in Seq(PieceType) /\ Len(r) = Parts(k) + 2 /\ Parts(k) \in Nat
      /\ r[1] = Line(n) /\ \A i \in 0 .. Parts(k) : r[i + 2] = Part(n, k, i)
      /\ \A i \in 0 .. Parts(k) : Part(n, k, i).part # "line"
  BY <1>0, SentParts, PartTypes
<1> HIDE DEF n, r, l
<1>2. /\ s \o r \in Seq(PieceType) /\ Len(s) \in Nat /\ Len(r) \in Nat
      /\ DOMAIN (s \o r) = 1 .. Len(s) + Len(r) /\ DOMAIN s = 1 .. Len(s)
      /\ \A i \in 1 .. Len(s) : (s \o r)[i] = s[i]
      /\ \A i \in 1 .. Len(r) : (s \o r)[Len(s) + i] = r[i]
  <2>1. r \in Seq(PieceType)
    BY <1>1
  <2>q. QED BY <2>1, ConcatElements
<1>3. ASSUME NEW p \in DOMAIN (s \o r), (s \o r)[p].part = "line"
      PROVE  p \in DOMAIN s \/ p = Len(s) + 1
  <2>1. ASSUME ~(p \in DOMAIN s), p # Len(s) + 1 PROVE FALSE
    <3> DEFINE i == p - Len(s) - 2
    <3>1. i \in 0 .. Parts(k) /\ i + 2 \in 1 .. Len(r) /\ p = Len(s) + (i + 2)
      BY <1>1, <1>2, <2>1
    <3> HIDE DEF i
    <3>2. (s \o r)[p] = Part(n, k, i)
      BY <1>1, <1>2, <3>1
    <3>q. QED BY <1>1, <1>3, <3>1, <3>2
  <2>q. QED BY <2>1
<1>4. /\ (s \o r)[Len(s) + 1] = Line(n) /\ Line(n).of = n /\ Line(n).part = "line"
      /\ Len(s) + 1 \in DOMAIN (s \o r)
  <2>1. 1 \in 1 .. Len(r)
    BY <1>1
  <2>q. QED BY <1>1, <1>2, <2>1 DEF Line
<1>5. ASSUME NEW p \in DOMAIN s, s[p].part = "line"
      PROVE  /\ s[p].of \in DOMAIN ks /\ s[p].of \notin used
             /\ Rests(s \o r, p + 1, s[p].of, ks[s[p].of], 0)
             /\ \A q \in DOMAIN (s \o r) : (s \o r)[q] = s[p] => q = p
  <2>1. /\ s[p].of \in DOMAIN ks /\ s[p].of \notin used
        /\ Rests(s, p + 1, s[p].of, ks[s[p].of], 0)
        /\ \A q \in DOMAIN s : s[q] = s[p] => q = p
    BY <1>5 DEF Clean
  <2>2. Rests(s \o r, p + 1, s[p].of, ks[s[p].of], 0)
    <3>1. ks[s[p].of] \in Kind /\ p + 1 \in Nat
      BY <1>0, <1>2, <2>1
    <3>q. QED BY <1>1, <2>1, <3>1, RestsLonger
  <2>3. ASSUME NEW q \in DOMAIN (s \o r), (s \o r)[q] = s[p] PROVE q = p
    <3>1. q \in DOMAIN s \/ q = Len(s) + 1
      BY <1>3, <1>5, <2>3
    <3>2. q # Len(s) + 1
      BY <1>0, <1>4, <2>1, <2>3
    <3>3. s[q] = s[p]
      BY <1>2, <2>3, <3>1, <3>2
    <3>q. QED BY <2>1, <3>1, <3>2, <3>3
  <2>q. QED BY <2>1, <2>2, <2>3
<1>6. Rests(s \o r, Len(s) + 2, n, k, 0)
  <2> SUFFICES ASSUME NEW i \in 0 .. Parts(k)
               PROVE  /\ (Len(s) + 2) + (i - 0) \in DOMAIN (s \o r)
                      /\ (s \o r)[(Len(s) + 2) + (i - 0)] = Part(n, k, i)
    BY DEF Rests
  <2>1. i + 2 \in 1 .. Len(r) /\ (Len(s) + 2) + (i - 0) = Len(s) + (i + 2)
    BY <1>1, <1>2
  <2>2. Len(s) + (i + 2) \in 1 .. Len(s) + Len(r)
    BY <1>2, <2>1
  <2>q. QED BY <1>1, <1>2, <2>1, <2>2
<1>7. ASSUME NEW q \in DOMAIN (s \o r), (s \o r)[q] = Line(n) PROVE q = Len(s) + 1
  <2>1. q \in DOMAIN s => s[q].of \in DOMAIN ks
    BY <1>2, <1>4, <1>5, <1>7
  <2>q. QED BY <1>0, <1>2, <1>3, <1>4, <1>7, <2>1
<1>8. n \notin used /\ n \in DOMAIN l
  BY <1>0
<1>9. ASSUME NEW p \in DOMAIN (s \o r), (s \o r)[p].part = "line"
      PROVE  /\ (s \o r)[p].of \in DOMAIN l /\ (s \o r)[p].of \notin used
             /\ Rests(s \o r, p + 1, (s \o r)[p].of, l[(s \o r)[p].of], 0)
             /\ \A q \in DOMAIN (s \o r) : (s \o r)[q] = (s \o r)[p] => q = p
  <2>1. CASE p \in DOMAIN s
    <3>1. (s \o r)[p] = s[p] /\ s[p].part = "line"
      BY <1>2, <1>9, <2>1
    <3>2. s[p].of \in DOMAIN l /\ l[s[p].of] = ks[s[p].of]
      BY <1>0, <1>5, <2>1, <3>1
    <3>q. QED BY <1>5, <2>1, <3>1, <3>2
  <2>2. CASE p = Len(s) + 1
    <3>1. p + 1 = Len(s) + 2 /\ (s \o r)[p] = Line(n)
      BY <1>2, <1>4, <2>2
    <3>q. QED BY <1>0, <1>4, <1>6, <1>7, <1>8, <2>2, <3>1
  <2>q. QED BY <1>3, <1>9, <2>1, <2>2
<1>10. Clean(s \o r, l, used)
  BY <1>9 DEF Clean
<1>q. QED BY <1>10 DEF n, r, l

\* Where a worker is does not depend on what comes later.
LEMMA PlacedAsk ==
    ASSUME NEW st, NEW n, NEW ks \in Seq(Kind), NEW used, NEW s \in Seq(PieceType),
           NEW b \in Seq(PieceType), NEW r \in Seq(PieceType), NEW k \in Kind,
           Placed(st, n, ks, used, s, b)
    PROVE  Placed(st, n, Append(ks, k), used, s \o r, b)
<1> DEFINE l == Append(ks, k)
<1>0. /\ DOMAIN ks \subseteq DOMAIN l /\ \A i \in DOMAIN ks : l[i] = ks[i] /\ ks[i] \in Kind
      /\ DOMAIN ks = 1 .. Len(ks) /\ Len(ks) \in Nat
  BY Pushed
<1> HIDE DEF l
<1>1. st \in {"hdrs", "body", "dispatch"} =>
        n \in DOMAIN ks /\ n \notin used /\ n \in DOMAIN l /\ l[n] = ks[n] /\ ks[n] \in Kind
  BY <1>0 DEF Placed
<1>2. st = "hdrs" => Rests(s \o r, 1, n, l[n], 0)
  <2> HAVE st = "hdrs"
  <2>1. Rests(s, 1, n, ks[n], 0) /\ 1 \in Nat /\ 0 \in Nat
    BY DEF Placed
  <2>2. Rests(s \o r, 1, n, ks[n], 0)
    BY <1>1, <2>1, RestsLonger
  <2>q. QED BY <1>1, <2>2
<1>3. (st = "body" /\ ks[n].len # "none") => Partial(n, l[n], s \o r, b)
  <2> HAVE st = "body" /\ ks[n].len # "none"
  <2>1. /\ Rests(s, 1, n, ks[n], Len(b) + 1) /\ 1 \in Nat /\ Len(b) + 1 \in Nat
        /\ Partial(n, ks[n], s, b)
    BY LenProperties DEF Placed, Partial
  <2>2. Rests(s \o r, 1, n, ks[n], Len(b) + 1)
    BY <1>1, <2>1, RestsLonger
  <2>q. QED BY <1>1, <2>1, <2>2 DEF Partial
<1>4. Placed(st, n, l, used, s \o r, b)
  BY <1>1, <1>2, <1>3 DEF Placed
<1>q. QED BY <1>4 DEF l

(* The invariant of the streams.                                           *)

LEMMA StreamSeqs ==
    ASSUME ServerInv
    PROVE  /\ \A c \in Conns : /\ sock[c] \in Seq(PieceType) /\ unsent[c] \in Seq(PieceType)
                               /\ asked[c] \in Seq(Kind) /\ Coming(c) \in Seq(PieceType)
           /\ \A w \in Workers : buff[w] \in Seq(PieceType)
           /\ \A w \in Workers : wpc[w] = "running" =>
                fn[w] \in Conns /\ Stream(w) \in Seq(PieceType)
<1>1. \A c \in Conns : /\ sock[c] \in Seq(PieceType) /\ unsent[c] \in Seq(PieceType)
                       /\ asked[c] \in Seq(Kind)
  BY DEF ServerInv, Tracked, OpenTracked, TypeOK, MoreTypes
<1>2. \A w \in Workers : buff[w] \in Seq(PieceType)
  BY DEF ServerInv, Tracked, OpenTracked, TypeOK
<1>3. \A c \in Conns : Coming(c) \in Seq(PieceType)
  BY <1>1, ConcatProperties DEF Coming
<1>4. ASSUME NEW w \in Workers, wpc[w] = "running"
      PROVE  fn[w] \in Conns /\ Stream(w) \in Seq(PieceType)
  <2>1. fn[w] \in Conns
    BY <1>4, Serves
  <2>2. Coming(fn[w]) \in Seq(PieceType) /\ buff[w] \in Seq(PieceType)
    BY <1>2, <1>3, <2>1
  <2>q. QED BY <2>1, <2>2, ConcatProperties DEF Stream
<1>q. QED BY <1>1, <1>2, <1>3, <1>4

LEMMA InitStream == Init => StreamInv
<1> SUFFICES ASSUME Init PROVE StreamInv
  OBVIOUS
<1> USE DEF Init, PoolInit
<1>1. handled = <<>> /\ DOMAIN handled = {}
  OBVIOUS
<1>2. StreamTypes
  BY <1>1 DEF StreamTypes, Used
<1>3. HandledWhole
  BY <1>1 DEF HandledWhole
<1>4. ASSUME NEW c \in Conns PROVE Clean(Coming(c), asked[c], Used(handled, c))
  <2>1. sock[c] = <<>> /\ unsent[c] = <<>>
    OBVIOUS
  <2>2. Coming(c) = <<>>
    BY <2>1 DEF Coming
  <2>q. QED BY <2>2 DEF Clean
<1>q. QED BY <1>2, <1>3, <1>4 DEF StreamInv

\* A step of one worker on its connection.
LEMMA OneWorker ==
    ASSUME ServerInv, ServerInv', StreamInv, NEW w \in Workers, wpc[w] = "running",
           UNCHANGED <<wpc, fn, asked, unsent>>,
           \A d \in Conns : d # fn[w] => sock'[d] = sock[d],
           \A v \in Workers : v # w => /\ buff'[v] = buff[v] /\ stage'[v] = stage[v]
                                       /\ req'[v] = req[v] /\ body'[v] = body[v],
           \A d \in Conns : d # fn[w] => Used(handled', d) = Used(handled, d),
           StreamTypes', HandledWhole',
           Clean(Stream(w)', asked[fn[w]], Used(handled', fn[w]) \cup {req'[w]}),
           Placed(stage'[w], req'[w], asked[fn[w]], Used(handled', fn[w]), Stream(w)', body'[w])
    PROVE  StreamInv'
<1>0. fn[w] \in Conns
  BY StreamSeqs
<1>1. ASSUME NEW c \in Conns
      PROVE  Clean(Coming(c)', asked'[c], Used(handled', c))
  <2>1. CASE c = fn[w]
    <3> DEFINE s == Coming(c)'
               t == Stream(w)'
               b == buff'[w]
    <3>1. /\ s \in Seq(PieceType) /\ b \in Seq(PieceType) /\ t \in Seq(PieceType)
          /\ asked[c] \in Seq(Kind)
      <4>1. sock'[c] \in Seq(PieceType) /\ unsent'[c] \in Seq(PieceType) /\ b \in Seq(PieceType)
        BY DEF ServerInv, Tracked, OpenTracked, TypeOK, MoreTypes
      <4>2. s \in Seq(PieceType)
        BY <4>1, ConcatProperties DEF Coming
      <4>3. t = b \o s
        BY <2>1 DEF Stream
      <4> HIDE DEF s, t, b
      <4>4. t \in Seq(PieceType)
        BY <4>1, <4>2, <4>3, ConcatProperties
      <4>q. QED BY <4>1, <4>2, <4>4, StreamSeqs
    <3>2. t = b \o s
      BY <2>1 DEF Stream
    <3> HIDE DEF s, t, b
    <3>3. SuffixBy(s, t, Len(b))
      BY <3>1, <3>2, DropSuffix
    <3>4. Clean(t, asked[c], Used(handled', c))
      <4>1. Clean(t, asked[c], Used(handled', c) \cup {req'[w]})
        BY <2>1 DEF t
      <4>q. QED BY <4>1, CleanLess
    <3>5. Clean(s, asked[c], Used(handled', c))
      BY <3>1, <3>3, <3>4, CleanSuffix
    <3>q. QED BY <3>5 DEF s
  <2>2. CASE c # fn[w]
    <3>1. Coming(c)' = Coming(c)
      BY <2>2 DEF Coming
    <3>q. QED BY <2>2, <3>1 DEF StreamInv
  <2>q. QED BY <2>1, <2>2
<1>2. ASSUME NEW v \in Workers, wpc'[v] = "running"
      PROVE  /\ Clean(Stream(v)', asked'[fn'[v]], Used(handled', fn'[v]) \cup {req'[v]})
             /\ Placed(stage'[v], req'[v], asked'[fn'[v]], Used(handled', fn'[v]),
                       Stream(v)', body'[v])
  <2>1. CASE v = w
    BY <2>1
  <2>2. CASE v # w
    <3>1. fn[v] \in Conns /\ fn[v] # fn[w]
      BY <1>2, <2>2, Serves DEF ServerInv, Tracked, OpenTracked
    <3>2. Stream(v)' = Stream(v)
      BY <2>2, <3>1 DEF Stream, Coming
    <3>q. QED BY <1>2, <2>2, <3>1, <3>2 DEF StreamInv
  <2>q. QED BY <2>1, <2>2
<1>q. QED BY <1>1, <1>2 DEF StreamInv

\* ... when no handler is called.
LEMMA OneReader ==
    ASSUME ServerInv, ServerInv', StreamInv, NEW w \in Workers, wpc[w] = "running",
           UNCHANGED <<wpc, fn, asked, unsent, handled>>,
           \A d \in Conns : d # fn[w] => sock'[d] = sock[d],
           \A v \in Workers : v # w => /\ buff'[v] = buff[v] /\ stage'[v] = stage[v]
                                       /\ req'[v] = req[v] /\ body'[v] = body[v],
           req' \in [Workers -> Nat], body' \in [Workers -> Seq(PieceType)],
           req'[w] <= Len(asked[fn[w]]),
           Clean(Stream(w)', asked[fn[w]], Used(handled, fn[w]) \cup {req'[w]}),
           Placed(stage'[w], req'[w], asked[fn[w]], Used(handled, fn[w]), Stream(w)', body'[w])
    PROVE  StreamInv'
<1>1. StreamTypes'
  <2>1. \A v \in Workers : wpc[v] # "running" => v # w
    OBVIOUS
  <2>2. \A v \in Workers : v # w => buff'[v] = buff[v] /\ req'[v] = req[v]
    OBVIOUS
  <2>q. QED BY <2>1, <2>2 DEF StreamInv, StreamTypes
<1>2. HandledWhole'
  BY DEF StreamInv, HandledWhole
<1>q. QED BY <1>1, <1>2, OneWorker

\* Nothing is known of a worker that is at no request.
LEMMA PlacedNowhere ==
    ASSUME NEW st, st \notin {"line", "hdrs", "body", "dispatch"},
           NEW n, NEW ks, NEW used, NEW s, NEW b
    PROVE  Placed(st, n, ks, used, s, b)
BY DEF Placed

LEMMA ReaderFacts ==
    ASSUME ServerInv, StreamInv, NEW w \in Workers, wpc[w] = "running"
    PROVE  /\ fn[w] \in Conns /\ asked[fn[w]] \in Seq(Kind)
           /\ buff[w] \in Seq(PieceType) /\ Coming(fn[w]) \in Seq(PieceType)
           /\ Stream(w) \in Seq(PieceType) /\ body[w] \in Seq(PieceType)
           /\ req \in [Workers -> Nat] /\ body \in [Workers -> Seq(PieceType)]
           /\ req[w] <= Len(asked[fn[w]])
           /\ Clean(Stream(w), asked[fn[w]], Used(handled, fn[w]) \cup {req[w]})
           /\ Placed(stage[w], req[w], asked[fn[w]], Used(handled, fn[w]), Stream(w), body[w])
BY StreamSeqs DEF StreamInv, StreamTypes

\* A piece is consumed: the rest of the stream is one shorter.
LEMMA ConsumedStream ==
    ASSUME ServerInv, ServerInv', StreamInv, NEW w \in Workers, wpc[w] = "running", Consume(w)
    PROVE  /\ Stream(w)' \in Seq(PieceType) /\ SuffixBy(Stream(w)', Stream(w), 1)
           /\ Stream(w)[1] = Next_(w) /\ Next_(w) \in PieceType
           /\ UNCHANGED <<wpc, fn, asked, unsent, handled, sock>>
           /\ \A v \in Workers : v # w => buff'[v] = buff[v]
<1>1. /\ buff[w] # <<>> /\ buff' = [buff EXCEPT ![w] = Tail(@)]
      /\ UNCHANGED <<wpc, fn, asked, unsent, handled, sock>>
  BY DEF Consume, poolVars, client
<1>2. /\ fn[w] \in Conns /\ buff[w] \in Seq(PieceType) /\ Coming(fn[w]) \in Seq(PieceType)
      /\ buff \in [Workers -> Seq(PieceType)]
  BY StreamSeqs DEF ServerInv, Tracked, OpenTracked, TypeOK
<1>3. Stream(w)' = Tail(buff[w]) \o Coming(fn[w])
  BY <1>1, <1>2 DEF Stream, Coming
<1>4. /\ SuffixBy(Tail(buff[w]) \o Coming(fn[w]), buff[w] \o Coming(fn[w]), 1)
      /\ (buff[w] \o Coming(fn[w]))[1] = Head(buff[w])
  BY <1>1, <1>2, TailSuffix
<1>5. Tail(buff[w]) \in Seq(PieceType) /\ Head(buff[w]) \in PieceType
  BY <1>1, <1>2, Popped
<1>6. Tail(buff[w]) \o Coming(fn[w]) \in Seq(PieceType)
  BY <1>2, <1>5, ConcatProperties
<1>q. QED BY <1>1, <1>2, <1>3, <1>4, <1>5, <1>6 DEF Stream, Next_

\* ... and where the worker is has to be shown.
LEMMA ConsumedReader ==
    ASSUME ServerInv, ServerInv', StreamInv, NEW w \in Workers, wpc[w] = "running", Consume(w),
           NEW st, Goto(w, st) \/ (UNCHANGED stage /\ st = stage[w]),
           UNCHANGED req, body' \in [Workers -> Seq(PieceType)],
           \A v \in Workers : v # w => body'[v] = body[v],
           Placed(st, req[w], asked[fn[w]], Used(handled, fn[w]), Stream(w)', body'[w])
    PROVE  StreamInv'
<1>1. /\ Stream(w)' \in Seq(PieceType) /\ SuffixBy(Stream(w)', Stream(w), 1)
      /\ UNCHANGED <<wpc, fn, asked, unsent, handled, sock>>
      /\ \A v \in Workers : v # w => buff'[v] = buff[v]
  BY ConsumedStream
<1>2. /\ Stream(w) \in Seq(PieceType) /\ asked[fn[w]] \in Seq(Kind) /\ req \in [Workers -> Nat]
      /\ req[w] <= Len(asked[fn[w]])
      /\ Clean(Stream(w), asked[fn[w]], Used(handled, fn[w]) \cup {req[w]})
  BY ReaderFacts
<1>3. Clean(Stream(w)', asked[fn[w]], Used(handled, fn[w]) \cup {req[w]})
  <2> DEFINE t == Stream(w)'
  <2>1. t \in Seq(PieceType) /\ SuffixBy(t, Stream(w), 1)
    BY <1>1
  <2> HIDE DEF t
  <2>2. Clean(t, asked[fn[w]], Used(handled, fn[w]) \cup {req[w]})
    BY <1>2, <2>1, CleanSuffix
  <2>q. QED BY <2>2 DEF t
<1>4. stage'[w] = st /\ \A v \in Workers : v # w => stage'[v] = stage[v]
  BY DEF Goto, ServerInv, Tracked, OpenTracked, TypeOK
<1>q. QED BY <1>1, <1>2, <1>3, <1>4, OneReader

LEMMA RequestLineStream ==
    ASSUME ServerInv, ServerInv', StreamInv, NEW w \in Workers, RequestLine(w)
    PROVE  StreamInv'
<1> DEFINE t == Stream(w)'
           s == Stream(w)
           n == Next_(w).of
           ks == asked[fn[w]]
           used == Used(handled, fn[w])
<1>1. /\ wpc[w] = "running" /\ stage[w] = "line" /\ Consume(w) /\ Next_(w).part = "line"
      /\ req' = [req EXCEPT ![w] = n] /\ UNCHANGED body
      /\ \E st \in {"respond", "longhdrs", "hdrs"} : Goto(w, st)
  BY DEF RequestLine, In, Answer
<1>2. /\ t \in Seq(PieceType) /\ SuffixBy(t, s, 1) /\ s[1] = Next_(w)
      /\ UNCHANGED <<wpc, fn, asked, unsent, handled, sock>>
      /\ \A v \in Workers : v # w => buff'[v] = buff[v]
  BY <1>1, ConsumedStream
<1>3. /\ s \in Seq(PieceType) /\ ks \in Seq(Kind) /\ req \in [Workers -> Nat]
      /\ body \in [Workers -> Seq(PieceType)]
      /\ Clean(s, ks, used \cup {req[w]})
      /\ Placed(stage[w], req[w], ks, used, s, body[w])
  BY <1>1, ReaderFacts
<1>4. /\ s[1].of = n /\ s[1].part = "line"
  BY <1>1, <1>2
<1> HIDE DEF s, t, n, ks, used
<1>5. /\ n \in DOMAIN ks /\ n \notin used \cup {req[w]} /\ Rests(t, 1, n, ks[n], 0)
      /\ Clean(t, ks, (used \cup {req[w]}) \cup {n})
  BY <1>2, <1>3, <1>4, CleanLine
<1>6. n \in Nat /\ n <= Len(ks)
  BY <1>3, <1>5, LenProperties
<1>7. Clean(t, ks, used \cup {n})
  BY <1>5, CleanLess
<1>8. body[w] = <<>>
  BY <1>1, <1>3 DEF Placed
<1>9. PICK st \in {"respond", "longhdrs", "hdrs"} : Goto(w, st)
  BY <1>1
<1>10. Placed(st, n, ks, used, t, body[w])
  BY <1>5, <1>8 DEF Placed
<1>11. stage'[w] = st /\ \A v \in Workers : v # w => stage'[v] = stage[v]
  BY <1>9 DEF Goto, ServerInv, Tracked, OpenTracked, TypeOK
<1>12. /\ req' \in [Workers -> Nat] /\ req'[w] = n /\ \A v \in Workers : v # w => req'[v] = req[v]
  BY <1>1, <1>3, <1>6
<1>13. body' = body /\ body' \in [Workers -> Seq(PieceType)]
  BY <1>1, <1>3
<1>14. /\ Clean(Stream(w)', asked[fn[w]], Used(handled, fn[w]) \cup {req'[w]})
       /\ Placed(stage'[w], req'[w], asked[fn[w]], Used(handled, fn[w]), Stream(w)', body'[w])
       /\ req'[w] <= Len(asked[fn[w]])
  BY <1>6, <1>7, <1>10, <1>11, <1>12, <1>13 DEF t, ks, used
<1>q. QED BY <1>1, <1>2, <1>11, <1>12, <1>13, <1>14, OneReader

LEMMA LeftoverStream ==
    ASSUME ServerInv, ServerInv', StreamInv, NEW w \in Workers, Leftover(w)
    PROVE  StreamInv'
<1>1. /\ wpc[w] = "running" /\ Consume(w) /\ UNCHANGED <<req, body>>
      /\ \E st \in {"respond", "glued"} : Goto(w, st)
  BY DEF Leftover, In, Answer
<1>2. PICK st \in {"respond", "glued"} : Goto(w, st)
  BY <1>1
<1>3. body' \in [Workers -> Seq(PieceType)] /\ \A v \in Workers : v # w => body'[v] = body[v]
  BY <1>1, ReaderFacts
<1>4. Placed(st, req[w], asked[fn[w]], Used(handled, fn[w]), Stream(w)', body'[w])
  BY PlacedNowhere
<1>q. QED BY <1>1, <1>2, <1>3, <1>4, ConsumedReader

\* Where process_request goes after the headers.
LEMMA HeadersPlace ==
    ASSUME NEW n \in Nat, NEW ks \in Seq(Kind), NEW used, n \in DOMAIN ks, n \notin used,
           NEW t \in Seq(PieceType), Rests(t, 1, n, ks[n], 1)
    PROVE  Placed(ProcessHeaders(ks[n]).to, n, ks, used, t, <<>>)
<1> DEFINE k == ks[n]
           st == ProcessHeaders(k).to
<1>0. k \in Kind /\ k.body \in Nat /\ k.len \in {"length", "chunked", "none"}
  <2>1. k \in Kind
    OBVIOUS
  <2>q. QED BY <2>1 DEF Kind
<1>1. st \in {"skip", "dispatch", "body", "respond"}
  BY AfterHeaders
<1>2. (st = "body" /\ k.len = "length") => 0 < k.body
  BY <1>0 DEF ProcessHeaders, Routing, ReadContentCore, PrepareContentReceiver, ReadContent, Do, Give
<1>3. (st = "dispatch" /\ k.content /\ k.len # "none") => k.body = 0
  BY <1>0 DEF ProcessHeaders, Routing, ReadContentCore, PrepareContentReceiver, ReadContent, Do,
              Give, ExpectContent
<1>4. k.body = 0 => Complete(n, k, <<>>)
  <2> HAVE k.body = 0
  <2>1. Data(n, k) \in Seq(PieceType) /\ Len(Data(n, k)) = 0
    BY <1>0, PiecesOfBody
  <2>q. QED BY <2>1, EmptySeq DEF Complete
<1>5. Len(<<>>) = 0 /\ 0 + 1 = 1 /\ (1 .. 0) = {}
  OBVIOUS
<1>6. Rests(t, 1, n, k, 1)
  OBVIOUS
<1> HIDE DEF k, st
<1>7. Rests(t, 1, n, k, Len(<<>>) + 1)
  BY <1>5, <1>6
<1>8. Placed(st, n, ks, used, t, <<>>)
  <2>1. ks[n] = k
    BY DEF k
  <2>2. (st = "body" /\ k.len # "none") => Partial(n, k, t, <<>>)
    BY <1>0, <1>2, <1>5, <1>7 DEF Partial
  <2>q. QED BY <1>1, <1>3, <1>4, <2>1, <2>2 DEF Placed
<1>q. QED BY <1>8 DEF k, st

LEMMA ReadHeadersStream ==
    ASSUME ServerInv, ServerInv', StreamInv, NEW w \in Workers, ReadHeaders(w)
    PROVE  StreamInv'
<1> DEFINE t == Stream(w)'
           s == Stream(w)
           n == req[w]
           ks == asked[fn[w]]
           used == Used(handled, fn[w])
<1>1. /\ wpc[w] = "running" /\ stage[w] \in {"hdrs", "longhdrs"} /\ Consume(w)
      /\ UNCHANGED <<req, body>>
      /\ IF stage[w] = "longhdrs" THEN Goto(w, "respond")
         ELSE Goto(w, ProcessHeaders(ks[n]).to)
  BY DEF ReadHeaders, In, Answer, Follow
<1>2. t \in Seq(PieceType) /\ SuffixBy(t, s, 1)
  BY <1>1, ConsumedStream
<1>3. /\ s \in Seq(PieceType) /\ ks \in Seq(Kind) /\ n \in Nat
      /\ body \in [Workers -> Seq(PieceType)]
      /\ Placed(stage[w], n, ks, used, s, body[w])
  BY <1>1, ReaderFacts
<1>4. body' \in [Workers -> Seq(PieceType)] /\ \A v \in Workers : v # w => body'[v] = body[v]
  BY <1>1, <1>3
<1>5. CASE stage[w] = "longhdrs"
  <2>1. Placed("respond", n, ks, used, t, body'[w])
    BY PlacedNowhere
  <2>q. QED BY <1>1, <1>4, <1>5, <2>1, ConsumedReader
<1>6. CASE stage[w] = "hdrs"
  <2> HIDE DEF s, t, n, ks, used
  <2>1. n \in DOMAIN ks /\ n \notin used /\ Rests(s, 1, n, ks[n], 0) /\ body[w] = <<>>
    BY <1>3, <1>6 DEF Placed
  <2>2. ks[n] \in Kind /\ 0 <= Parts(ks[n]) /\ 0 \in Nat /\ 0 + 1 = 1
    <3>1. ks[n] \in Kind
      BY <1>3, <2>1
    <3>q. QED BY <3>1, PartTypes
  <2>3. Rests(t, 1, n, ks[n], 0 + 1)
    BY <1>2, <1>3, <2>1, <2>2, RestsNext
  <2>4. Rests(t, 1, n, ks[n], 1)
    BY <2>2, <2>3
  <2>5. Placed(ProcessHeaders(ks[n]).to, n, ks, used, t, <<>>)
    BY <1>2, <1>3, <2>1, <2>4, HeadersPlace
  <2>6. Goto(w, ProcessHeaders(ks[n]).to) /\ body'[w] = <<>>
    BY <1>1, <1>6, <2>1
  <2>7. Placed(ProcessHeaders(ks[n]).to, req[w], asked[fn[w]], Used(handled, fn[w]),
               Stream(w)', body'[w])
    BY <2>5, <2>6 DEF t, n, ks, used
  <2>q. QED BY <1>1, <1>4, <2>6, <2>7, ConsumedReader
<1>q. QED BY <1>1, <1>5, <1>6

LEMMA BodyEnd ==
    ASSUME NEW n \in Nat, NEW k \in Kind, k.len # "none", NEW s \in Seq(PieceType),
           NEW b \in Seq(PieceType), Partial(n, k, s, b), 1 \in DOMAIN s
    PROVE  /\ Len(b) = k.body => Complete(n, k, b)
           /\ (s[1].part = "last") <=> (Len(b) = k.body)
           /\ s[1] = Part(n, k, Len(b) + 1) /\ Len(b) \in Nat /\ k.body \in Nat
           /\ Len(b) + 1 <= Parts(k)
<1>1. /\ Len(b) <= k.body /\ (k.len = "length" => Len(b) < k.body)
      /\ \A i \in 1 .. Len(b) : b[i] = Data(n, k)[i]
      /\ Rests(s, 1, n, k, Len(b) + 1)
  BY DEF Partial
<1>2. Parts(k) \in Nat /\ k.body \in Nat /\ k.body <= Parts(k) /\ Len(b) \in Nat
  BY PartTypes, LenProperties
<1>3. Data(n, k) \in Seq(PieceType) /\ Len(Data(n, k)) = k.body
  BY <1>2, PiecesOfBody
<1>4. Len(b) + 1 <= Parts(k)
  <2>1. k.len \in {"length", "chunked"}
    BY DEF Kind
  <2>q. QED BY <1>1, <1>2, <2>1 DEF Parts
<1>5. s[1] = Part(n, k, Len(b) + 1)
  <2>1. /\ Len(b) + 1 \in Len(b) + 1 .. Parts(k)
        /\ 1 + ((Len(b) + 1) - (Len(b) + 1)) = 1
    BY <1>2, <1>4
  <2>2. s[1 + ((Len(b) + 1) - (Len(b) + 1))] = Part(n, k, Len(b) + 1)
    BY <1>1, <2>1 DEF Rests
  <2>q. QED BY <2>1, <2>2
<1>6. ASSUME Len(b) = k.body PROVE b = Data(n, k) /\ s[1].part = "last"
  <2>1. b = Data(n, k)
    BY <1>1, <1>3, <1>6, SeqEqual
  <2>2. s[1] = LastChunk(n)
    BY <1>2, <1>5, <1>6 DEF Part
  <2>q. QED BY <2>1, <2>2 DEF LastChunk
<1>7. ASSUME Len(b) < k.body PROVE s[1].part # "last"
  <2>1. Data(n, k)[Len(b) + 1] \in {Chunk(n), Piece(n)}
    BY <1>2, <1>7 DEF Data
  <2>2. s[1] = Data(n, k)[Len(b) + 1]
    BY <1>2, <1>5, <1>7 DEF Part
  <2>q. QED BY <2>1, <2>2 DEF Chunk, Piece
<1>8. Len(b) < k.body \/ Len(b) = k.body
  BY <1>1, <1>2
<1>q. QED BY <1>2, <1>4, <1>5, <1>6, <1>7, <1>8 DEF Complete

\* One more piece of it.
Grown(n, k, t, c) ==
    /\ c \in Seq(PieceType) /\ Len(c) <= k.body
    /\ Len(c) = k.body => Complete(n, k, c)
    /\ (k.len = "length" => Len(c) < k.body) => Partial(n, k, t, c)

LEMMA BodyGrows ==
    ASSUME NEW n \in Nat, NEW k \in Kind, k.len # "none", NEW s \in Seq(PieceType),
           NEW t \in Seq(PieceType), SuffixBy(t, s, 1), 1 \in DOMAIN s,
           NEW b \in Seq(PieceType), Partial(n, k, s, b), Len(b) < k.body,
           NEW c, c = Append(b, s[1])
    PROVE  Grown(n, k, t, c)
<1>1. s[1] = Part(n, k, Len(b) + 1) /\ Len(b) \in Nat /\ k.body \in Nat /\ Len(b) + 1 <= Parts(k)
  BY BodyEnd
<1>2. s[1] = Data(n, k)[Len(b) + 1]
  BY <1>1 DEF Part
<1>3. s[1] \in PieceType
  OBVIOUS
<1>4. /\ c \in Seq(PieceType) /\ Len(c) = Len(b) + 1
      /\ \A i \in 1 .. Len(b) : c[i] = b[i]
      /\ c[Len(b) + 1] = s[1]
  BY <1>3, AppendProperties
<1>5. \A i \in 1 .. Len(c) : c[i] = Data(n, k)[i]
  <2>1. \A i \in 1 .. Len(b) + 1 : i \in 1 .. Len(b) \/ i = Len(b) + 1
    BY <1>1
  <2>2. \A i \in 1 .. Len(b) : b[i] = Data(n, k)[i]
    BY DEF Partial
  <2>q. QED BY <1>2, <1>4, <2>1, <2>2
<1>6. Rests(t, 1, n, k, Len(c) + 1)
  <2>1. Rests(s, 1, n, k, Len(b) + 1) /\ Len(b) + 1 \in Nat
    BY <1>1 DEF Partial
  <2>2. Rests(t, 1, n, k, (Len(b) + 1) + 1)
    BY <1>1, <2>1, RestsNext
  <2>q. QED BY <1>4, <2>2
<1>7. Len(c) = k.body => c = Data(n, k)
  <2>1. Data(n, k) \in Seq(PieceType) /\ Len(Data(n, k)) = k.body
    BY PiecesOfBody
  <2>q. QED BY <1>4, <1>5, <2>1, SeqEqual
<1>q. QED BY <1>1, <1>4, <1>5, <1>6, <1>7 DEF Partial, Complete, Grown

LEMMA ReadBodyStream ==
    ASSUME ServerInv, ServerInv', StreamInv, NEW w \in Workers, ReadBody(w)
    PROVE  StreamInv'
<1> DEFINE t == Stream(w)'
           s == Stream(w)
           n == req[w]
           ks == asked[fn[w]]
           used == Used(handled, fn[w])
           b == body[w]
<1>1. /\ wpc[w] = "running" /\ Consume(w) /\ UNCHANGED <<req>>
  BY DEF ReadBody, ReadContentWithLength, ReadContentChunked, ReadContentWithoutLength,
         SkipContentWithLength, Content, In
<1>2. t \in Seq(PieceType) /\ SuffixBy(t, s, 1) /\ s[1] = Next_(w) /\ s[1] \in PieceType
  BY <1>1, ConsumedStream
<1>3. /\ s \in Seq(PieceType) /\ ks \in Seq(Kind) /\ n \in Nat /\ b \in Seq(PieceType)
      /\ body \in [Workers -> Seq(PieceType)]
      /\ Placed(stage[w], n, ks, used, s, b)
  BY <1>1, ReaderFacts
<1>4. Append(b, s[1]) \in Seq(PieceType)
  BY <1>2, <1>3
<1>5. Receive(w) => body' = [body EXCEPT ![w] = Append(b, s[1])]
  BY <1>2 DEF Receive
<1>6. ASSUME body' = [body EXCEPT ![w] = Append(b, s[1])]
      PROVE  /\ body' \in [Workers -> Seq(PieceType)] /\ body'[w] = Append(b, s[1])
             /\ \A v \in Workers : v # w => body'[v] = body[v]
  BY <1>3, <1>4, <1>6
<1>p. \A st : Placed(st, n, ks, used, t, body'[w]) =>
              Placed(st, req[w], asked[fn[w]], Used(handled, fn[w]), Stream(w)', body'[w])
  OBVIOUS
<1>d. 1 \in DOMAIN s
  BY <1>2, <1>3, LenProperties DEF SuffixBy
<1>7. CASE ReadContentWithLength(w)
  <2> DEFINE k == ks[n]
             c == body'[w]
  <2>1. /\ stage[w] = "body" /\ k.len = "length" /\ Receive(w)
        /\ IF Len(c) = k.body THEN Goto(w, "dispatch") \/ Goto(w, "respond")
           ELSE UNCHANGED stage
    BY <1>7 DEF ReadContentWithLength, Content, In, AllRead, Follow, ContentRead, Do, Give
  <2>2. /\ body' \in [Workers -> Seq(PieceType)] /\ c = Append(b, s[1])
        /\ \A v \in Workers : v # w => body'[v] = body[v]
    BY <1>5, <1>6, <2>1
  <2> HIDE DEF s, t, n, ks, used, b, c
  <2>3. /\ n \in DOMAIN ks /\ n \notin used /\ k \in Kind /\ k.len # "none"
        /\ Partial(n, k, s, b) /\ Len(b) < k.body
    BY <1>3, <2>1 DEF Placed, Partial
  <2> HIDE DEF k
  <2>4. /\ Len(c) <= k.body /\ c \in Seq(PieceType) /\ (Len(c) = k.body => Complete(n, k, c))
        /\ (k.len = "length" => Len(c) < k.body) => Partial(n, k, t, c)
    <3>1. /\ n \in Nat /\ s \in Seq(PieceType) /\ t \in Seq(PieceType)
          /\ b \in Seq(PieceType) /\ SuffixBy(t, s, 1)
      BY <1>2, <1>3
    <3>2. c = Append(b, s[1])
      BY <2>2
    <3>3. Grown(n, k, t, c)
      BY <1>d, <2>3, <3>1, <3>2, BodyGrows
    <3>q. QED BY <3>3 DEF Grown
  <2>5. CASE Len(c) = k.body
    <3>1. Placed("dispatch", n, ks, used, t, c)
      BY <2>3, <2>4, <2>5 DEF Placed, k
    <3>2. Placed("respond", n, ks, used, t, c)
      BY PlacedNowhere
    <3>q. QED BY <1>1, <1>p, <2>1, <2>2, <2>5, <3>1, <3>2, ConsumedReader
              DEF s, t, n, ks, used, b, c
  <2>6. CASE Len(c) # k.body
    <3>0. k.body \in Nat /\ Len(c) \in Nat
      BY <2>3, <2>4, PartTypes, LenProperties
    <3>1. Placed("body", n, ks, used, t, c)
      BY <2>3, <2>4, <2>6, <3>0 DEF Placed, k
    <3>q. QED BY <1>1, <1>p, <2>1, <2>2, <2>6, <3>1, ConsumedReader DEF s, t, n, ks, used, b, c
  <2>q. QED BY <2>5, <2>6
<1>8. CASE ReadContentChunked(w)
  <2> DEFINE k == ks[n]
             c == body'[w]
  <2>1. /\ stage[w] = "body" /\ k.len = "chunked"
        /\ IF s[1].part = "last"
           THEN (Goto(w, "dispatch") \/ Goto(w, "respond")) /\ UNCHANGED body
           ELSE Receive(w) /\ UNCHANGED stage
    BY <1>8, <1>2 DEF ReadContentChunked, Content, In, Follow, ContentRead, Do, Give
  <2>2. body' = body => c = b
    OBVIOUS
  <2> HIDE DEF s, t, n, ks, used, b, c
  <2>3. /\ n \in DOMAIN ks /\ n \notin used /\ k \in Kind /\ k.len # "none"
        /\ Partial(n, k, s, b) /\ Len(b) <= k.body
    BY <1>3, <2>1 DEF Placed, Partial
  <2> HIDE DEF k
  <2>4. /\ Len(b) = k.body => Complete(n, k, b)
        /\ (s[1].part = "last") <=> (Len(b) = k.body)
        /\ Len(b) \in Nat /\ k.body \in Nat
    BY <1>3, <1>d, <2>3, BodyEnd
  <2>5. CASE s[1].part = "last"
    <3>1. /\ body' = body /\ Complete(n, k, c)
          /\ Goto(w, "dispatch") \/ Goto(w, "respond")
      BY <2>1, <2>2, <2>4, <2>5
    <3>2. Placed("dispatch", n, ks, used, t, c)
      BY <2>3, <3>1 DEF Placed, k
    <3>3. Placed("respond", n, ks, used, t, c)
      BY PlacedNowhere
    <3>q. QED BY <1>1, <1>3, <1>p, <3>1, <3>2, <3>3, ConsumedReader
              DEF s, t, n, ks, used, b, c
  <2>6. CASE s[1].part # "last"
    <3>1. Len(b) < k.body /\ Receive(w) /\ UNCHANGED stage
      BY <2>1, <2>3, <2>4, <2>6
    <3>2. /\ body' \in [Workers -> Seq(PieceType)] /\ c = Append(b, s[1])
          /\ \A v \in Workers : v # w => body'[v] = body[v]
      BY <1>5, <1>6, <3>1 DEF s, b, c
    <3>3. Grown(n, k, t, c)
      BY <1>2, <1>3, <1>d, <2>3, <3>1, <3>2, BodyGrows
    <3>4. Placed("body", n, ks, used, t, c)
      BY <2>1, <2>3, <3>3 DEF Placed, k, Grown
    <3>q. QED BY <1>1, <1>p, <2>1, <3>1, <3>2, <3>4, ConsumedReader DEF s, t, n, ks, used, b, c
  <2>q. QED BY <2>5, <2>6
<1>9. CASE ReadContentWithoutLength(w)
  <2>1. stage[w] = "body" /\ ks[n].len = "none" /\ Receive(w) /\ UNCHANGED stage
    BY <1>9 DEF ReadContentWithoutLength, Content, In
  <2>2. /\ body' \in [Workers -> Seq(PieceType)]
        /\ \A v \in Workers : v # w => body'[v] = body[v]
    BY <1>5, <1>6, <2>1
  <2> HIDE DEF s, t, n, ks, used, b
  <2>3. Placed("body", n, ks, used, t, body'[w])
    BY <1>3, <2>1 DEF Placed
  <2>q. QED BY <1>1, <1>p, <2>1, <2>2, <2>3, ConsumedReader DEF s, t, n, ks, used, b
<1>10. CASE SkipContentWithLength(w)
  <2>1. /\ stage[w] = "skip" /\ Receive(w)
        /\ Goto(w, "respond") \/ UNCHANGED stage
    BY <1>10 DEF SkipContentWithLength, Content, In, Answer
  <2>2. /\ body' \in [Workers -> Seq(PieceType)]
        /\ \A v \in Workers : v # w => body'[v] = body[v]
    BY <1>5, <1>6, <2>1
  <2>3. /\ Placed("respond", n, ks, used, t, body'[w])
        /\ Placed("skip", n, ks, used, t, body'[w])
    BY PlacedNowhere
  <2>q. QED BY <1>1, <1>p, <2>1, <2>2, <2>3, ConsumedReader
<1>q. QED BY <1>7, <1>8, <1>9, <1>10 DEF ReadBody

\* A step that only moves the worker: not to a place where more is known.
LEMMA MovedReader ==
    ASSUME ServerInv, ServerInv', StreamInv, NEW w \in Workers, wpc[w] = "running",
           UNCHANGED <<poolVars, client, sock, buff, req, body, handled>>,
           NEW st, Goto(w, st),
           \/ st \notin {"line", "hdrs", "body", "dispatch"}
           \/ stage[w] = "body" /\ st = "dispatch" /\ asked[fn[w]][req[w]].len = "none"
    PROVE  StreamInv'
<1>1. UNCHANGED <<wpc, fn, asked, unsent, handled>>
  BY DEF poolVars, client
<1>2. Stream(w)' = Stream(w)
  BY <1>1 DEF Stream, Coming
<1>3. stage'[w] = st /\ \A v \in Workers : v # w => stage'[v] = stage[v]
  BY DEF Goto, ServerInv, Tracked, OpenTracked, TypeOK
<1>4. Placed(st, req[w], asked[fn[w]], Used(handled, fn[w]), Stream(w), body[w])
  BY ReaderFacts DEF Placed
<1>5. /\ req' \in [Workers -> Nat] /\ body' \in [Workers -> Seq(PieceType)]
      /\ req[w] <= Len(asked[fn[w]])
      /\ Clean(Stream(w), asked[fn[w]], Used(handled, fn[w]) \cup {req[w]})
  BY ReaderFacts
<1>6. /\ Clean(Stream(w)', asked[fn[w]], Used(handled, fn[w]) \cup {req'[w]})
      /\ Placed(stage'[w], req'[w], asked[fn[w]], Used(handled, fn[w]), Stream(w)', body'[w])
      /\ req'[w] <= Len(asked[fn[w]])
  BY <1>2, <1>3, <1>4, <1>5
<1>q. QED BY <1>1, <1>3, <1>5, <1>6, OneReader

LEMMA KeepAliveStream ==
    ASSUME ServerInv, ServerInv', StreamInv, NEW w \in Workers, KeepAlive(w)
    PROVE  StreamInv'
<1>1. /\ wpc[w] = "running" /\ UNCHANGED <<wpc, fn, asked, unsent, handled, sock>>
      /\ buff' = [buff EXCEPT ![w] = <<>>] /\ req' = [req EXCEPT ![w] = 0]
      /\ body' = [body EXCEPT ![w] = <<>>]
      /\ \E st \in {"line", "close"} : Goto(w, st)
  BY DEF KeepAlive, In, NewStream, poolVars, client
<1>2. /\ fn[w] \in Conns /\ asked[fn[w]] \in Seq(Kind) /\ Coming(fn[w]) \in Seq(PieceType)
      /\ req \in [Workers -> Nat] /\ body \in [Workers -> Seq(PieceType)]
      /\ buff \in [Workers -> Seq(PieceType)]
  BY <1>1, ReaderFacts DEF ServerInv, Tracked, OpenTracked, TypeOK
<1>3. /\ buff'[w] = <<>> /\ req'[w] = 0 /\ body'[w] = <<>>
      /\ \A v \in Workers : v # w => buff'[v] = buff[v] /\ req'[v] = req[v] /\ body'[v] = body[v]
      /\ req' \in [Workers -> Nat] /\ body' \in [Workers -> Seq(PieceType)]
  BY <1>1, <1>2
<1>4. Stream(w)' = Coming(fn[w])
  <2>1. Stream(w)' = <<>> \o Coming(fn[w])
    BY <1>1, <1>3 DEF Stream, Coming
  <2>q. QED BY <1>2, <2>1, ConcatEmptySeq
<1>5. Clean(Coming(fn[w]), asked[fn[w]], Used(handled, fn[w]) \cup {0})
  <2>1. Clean(Coming(fn[w]), asked[fn[w]], Used(handled, fn[w]))
    BY <1>2 DEF StreamInv
  <2>2. \A n \in DOMAIN asked[fn[w]] : n # 0
    BY <1>2, LenProperties
  <2>q. QED BY <2>1, <2>2, CleanLess
<1>6. PICK st \in {"line", "close"} : Goto(w, st)
  BY <1>1
<1>7. stage'[w] = st /\ \A v \in Workers : v # w => stage'[v] = stage[v]
  BY <1>6 DEF Goto, ServerInv, Tracked, OpenTracked, TypeOK
<1>8. Placed(st, 0, asked[fn[w]], Used(handled, fn[w]), Coming(fn[w]), <<>>)
  BY DEF Placed
<1>9. Len(asked[fn[w]]) \in Nat
  BY <1>2, LenProperties
<1>10. /\ Clean(Stream(w)', asked[fn[w]], Used(handled, fn[w]) \cup {req'[w]})
       /\ Placed(stage'[w], req'[w], asked[fn[w]], Used(handled, fn[w]), Stream(w)', body'[w])
       /\ req'[w] <= Len(asked[fn[w]])
  BY <1>3, <1>4, <1>5, <1>7, <1>8, <1>9
<1>q. QED BY <1>1, <1>3, <1>7, <1>10, OneReader

\* recv() moves pieces from the socket to the buffer.
LEMMA RecvKeeps ==
    ASSUME ServerInv, NEW w \in Workers, Recv(w)
    PROVE  /\ wpc[w] = "running" /\ Stream(w)' = Stream(w)
           /\ UNCHANGED <<wpc, fn, asked, unsent, handled, stage, req, body>>
           /\ \A v \in Workers : v # w => buff'[v] = buff[v]
           /\ \A d \in Conns : d # fn[w] => sock'[d] = sock[d]
<1> DEFINE c == fn[w]
<1>1. /\ wpc[w] = "running" /\ UNCHANGED <<wpc, fn, asked, unsent, handled, stage, req, body>>
      /\ buff[w] = <<>>
  BY DEF Recv, In, poolVars, client
<1>2. PICK n \in 1 .. Len(sock[c]) :
            /\ buff' = [buff EXCEPT ![w] = SubSeq(sock[c], 1, n)]
            /\ sock' = [sock EXCEPT ![c] = SubSeq(sock[c], n + 1, Len(sock[c]))]
  BY DEF Recv
<1>3. /\ c \in Conns /\ sock[c] \in Seq(PieceType) /\ unsent[c] \in Seq(PieceType)
      /\ sock \in [Conns -> Seq(PieceType)] /\ buff \in [Workers -> Seq(PieceType)]
      /\ Coming(c) \in Seq(PieceType)
  BY <1>1, StreamSeqs DEF ServerInv, Tracked, OpenTracked, TypeOK
<1>4. /\ buff'[w] = SubSeq(sock[c], 1, n) /\ sock'[c] = SubSeq(sock[c], n + 1, Len(sock[c]))
      /\ \A v \in Workers : v # w => buff'[v] = buff[v]
      /\ \A d \in Conns : d # fn[w] => sock'[d] = sock[d]
  BY <1>2, <1>3
<1>5. Stream(w)' = SubSeq(sock[c], 1, n) \o (SubSeq(sock[c], n + 1, Len(sock[c])) \o unsent[c])
  BY <1>1, <1>4 DEF Stream, Coming
<1>6. Stream(w)' = sock[c] \o unsent[c]
  <2> DEFINE s == sock[c]
             t == unsent[c]
  <2>1. s \in Seq(PieceType) /\ t \in Seq(PieceType) /\ n \in 1 .. Len(s)
    BY <1>2, <1>3
  <2>2. Stream(w)' = SubSeq(s, 1, n) \o (SubSeq(s, n + 1, Len(s)) \o t)
    BY <1>5
  <2> HIDE DEF s, t
  <2>3. SubSeq(s, 1, n) \o (SubSeq(s, n + 1, Len(s)) \o t) = s \o t
    BY <2>1, RecvSame
  <2>q. QED BY <2>2, <2>3 DEF s, t
<1>7. Stream(w) = <<>> \o Coming(c) /\ <<>> \o Coming(c) = Coming(c)
  BY <1>1, <1>3, ConcatEmptySeq DEF Stream
<1>8. Stream(w)' = Stream(w)
  BY <1>6, <1>7 DEF Coming
<1> HIDE DEF c
<1>q. QED BY <1>1, <1>4, <1>8

LEMMA RecvStream ==
    ASSUME ServerInv, ServerInv', StreamInv, NEW w \in Workers, Recv(w)
    PROVE  StreamInv'
<1>1. /\ wpc[w] = "running" /\ Stream(w)' = Stream(w)
      /\ UNCHANGED <<wpc, fn, asked, unsent, handled, stage, req, body>>
      /\ \A v \in Workers : v # w => buff'[v] = buff[v]
      /\ \A d \in Conns : d # fn[w] => sock'[d] = sock[d]
  BY RecvKeeps
<1>2. /\ req' \in [Workers -> Nat] /\ body' \in [Workers -> Seq(PieceType)]
      /\ req[w] <= Len(asked[fn[w]])
      /\ Clean(Stream(w), asked[fn[w]], Used(handled, fn[w]) \cup {req[w]})
      /\ Placed(stage[w], req[w], asked[fn[w]], Used(handled, fn[w]), Stream(w), body[w])
  BY <1>1, ReaderFacts
<1>3. /\ Clean(Stream(w)', asked[fn[w]], Used(handled, fn[w]) \cup {req'[w]})
      /\ Placed(stage'[w], req'[w], asked[fn[w]], Used(handled, fn[w]), Stream(w)', body'[w])
      /\ req'[w] <= Len(asked[fn[w]])
  BY <1>1, <1>2
<1>q. QED BY <1>1, <1>2, <1>3, OneReader

LEMMA DispatchStream ==
    ASSUME ServerInv, ServerInv', StreamInv, NEW w \in Workers, Dispatch(w)
    PROVE  StreamInv'
<1> DEFINE c == fn[w]
           n == req[w]
           k == asked[c][n]
           e == [conn |-> c, of |-> n, body |-> body[w]]
<1>1. /\ wpc[w] = "running" /\ stage[w] = "dispatch" /\ Goto(w, "respond")
      /\ UNCHANGED <<poolVars, client, sock, buff, req, body>>
      /\ UNCHANGED <<wpc, fn, asked, unsent>>
      /\ handled' = IF k.route = "missing" THEN handled ELSE Append(handled, e)
  BY DEF Dispatch, In, Answer, poolVars, client
<1>2. CASE handled' = handled
  BY <1>1, <1>2, MovedReader
<1>3. CASE handled' = Append(handled, e)
  <2>1. /\ c \in Conns /\ asked[c] \in Seq(Kind) /\ n \in Nat /\ body[w] \in Seq(PieceType)
        /\ n \in DOMAIN asked[c] /\ n \notin Used(handled, c)
        /\ (k.content /\ k.len # "none") => body[w] = Data(n, k)
    BY <1>1, ReaderFacts DEF Placed, Complete
  <2>2. e \in Call /\ e.conn = c /\ e.of = n /\ e.body = body[w] /\ handled \in Seq(Call)
    BY <2>1 DEF Call, StreamInv, StreamTypes
  <2> HIDE DEF e, c, n, k
  <2>3. /\ handled' \in Seq(Call) /\ DOMAIN handled = 1 .. Len(handled) /\ Len(handled) \in Nat
        /\ DOMAIN handled' = 1 .. Len(handled) + 1
        /\ \A i \in DOMAIN handled : handled'[i] = handled[i]
        /\ handled'[Len(handled) + 1] = e
    BY <1>3, <2>2, Pushed
  <2>4. \A i \in DOMAIN handled' : i \in DOMAIN handled \/ i = Len(handled) + 1
    BY <2>3
  <2>5. \A d : \A m : m \in Used(handled', d) <=> (m \in Used(handled, d) \/ (d = c /\ m = n))
    <3>1. \A d, m : m \in Used(handled, d) <=>
                        \E i \in DOMAIN handled : handled[i].conn = d /\ handled[i].of = m
      BY DEF Used
    <3>2. \A d, m : m \in Used(handled', d) <=>
                        \E i \in DOMAIN handled' : handled'[i].conn = d /\ handled'[i].of = m
      BY DEF Used
    <3>3. \A d, m : (\E i \in DOMAIN handled' : handled'[i].conn = d /\ handled'[i].of = m) <=>
                    ((\E i \in DOMAIN handled : handled[i].conn = d /\ handled[i].of = m)
                        \/ (d = c /\ m = n))
      <4>1. Len(handled) + 1 \in DOMAIN handled' /\ \A i \in DOMAIN handled : i \in DOMAIN handled'
        BY <2>3
      <4>q. QED BY <2>2, <2>3, <2>4, <4>1
    <3>q. QED BY <3>1, <3>2, <3>3
  <2>6. \A d \in Conns : d # fn[w] => Used(handled', d) = Used(handled, d)
    BY <2>5 DEF c
  <2>7. Used(handled', c) = Used(handled, c) \cup {n}
    BY <2>5
  <2>8. StreamTypes'
    <3>1. \A d \in Conns : Used(handled', d) \subseteq DOMAIN asked[d]
      BY <2>1, <2>5 DEF StreamInv, StreamTypes
    <3>q. QED BY <1>1, <2>3, <3>1 DEF StreamInv, StreamTypes
  <2>9. HandledWhole'
    <3>1. ASSUME NEW i \in DOMAIN handled', NEW j \in DOMAIN handled',
                 handled'[i].conn = handled'[j].conn, handled'[i].of = handled'[j].of
          PROVE  i = j
      <4>1. \A x \in DOMAIN handled : ~(handled[x].conn = c /\ handled[x].of = n)
        BY <2>1 DEF Used
      <4>q. QED BY <2>2, <2>3, <2>4, <3>1, <4>1 DEF StreamInv, HandledWhole
    <3>2. ASSUME NEW i \in DOMAIN handled'
          PROVE  LET q == asked'[handled'[i].conn][handled'[i].of]
                 IN  (q.content /\ q.len # "none") => handled'[i].body = Data(handled'[i].of, q)
      <4>1. CASE i \in DOMAIN handled
        BY <1>1, <2>3, <4>1 DEF StreamInv, HandledWhole
      <4>2. CASE i = Len(handled) + 1
        <5>1. handled'[i] = e
          BY <2>3, <4>2
        <5>2. asked'[handled'[i].conn][handled'[i].of] = k
          BY <1>1, <2>2, <5>1 DEF k
        <5>q. QED BY <2>1, <2>2, <5>1, <5>2
      <4>q. QED BY <2>4, <4>1, <4>2
    <3>q. QED BY <3>1, <3>2 DEF HandledWhole
  <2>10. Stream(w)' = Stream(w)
    BY <1>1 DEF Stream, Coming
  <2>11. Clean(Stream(w), asked[fn[w]], Used(handled', fn[w]) \cup {req[w]})
    <3>1. Clean(Stream(w), asked[fn[w]], Used(handled, fn[w]) \cup {req[w]})
      BY <1>1, ReaderFacts
    <3>q. QED BY <2>7, <3>1 DEF c, n
  <2>12. stage'[w] = "respond" /\ \A v \in Workers : v # w => stage'[v] = stage[v]
    BY <1>1 DEF Goto, ServerInv, Tracked, OpenTracked, TypeOK
  <2>13. Placed("respond", req'[w], asked[fn[w]], Used(handled', fn[w]), Stream(w)', body'[w])
    BY PlacedNowhere
  <2>14. Clean(Stream(w)', asked[fn[w]], Used(handled', fn[w]) \cup {req'[w]})
    BY <1>1, <2>10, <2>11
  <2>q. QED BY <1>1, <2>6, <2>8, <2>9, <2>12, <2>13, <2>14, OneWorker
<1>q. QED BY <1>1, <1>2, <1>3

LEMMA ServeStream ==
    ASSUME ServerInv, ServerInv', StreamInv, NEW w \in Workers, Serve(w)
    PROVE  StreamInv'
<1>1. CASE KeepAliveEnd(w)
  <2>1. /\ wpc[w] = "running" /\ Goto(w, "close")
        /\ UNCHANGED <<poolVars, client, sock, buff, req, body, handled>>
    BY <1>1 DEF KeepAliveEnd, In
  <2>q. QED BY <2>1, MovedReader
<1>2. CASE Respond(w)
  <2>1. /\ wpc[w] = "running" /\ \E st \in {"close", "keep"} : Goto(w, st)
        /\ UNCHANGED <<poolVars, client, sock, buff, req, body, handled>>
    BY <1>2 DEF Respond, In
  <2>q. QED BY <2>1, MovedReader
<1>3. CASE ReadFails(w)
  <2>1. /\ wpc[w] = "running"
        /\ UNCHANGED <<poolVars, client, sock, buff, req, body, handled>>
    BY <1>3 DEF ReadFails, In
  <2>2. \/ \E st \in {"close", "respond"} : Goto(w, st)
        \/ stage[w] = "body" /\ Goto(w, "dispatch") /\ asked[fn[w]][req[w]].len = "none"
    BY <1>3 DEF ReadFails, Answer, BodyEnds, Follow, ContentRead, Do, Give
  <2>q. QED BY <2>1, <2>2, MovedReader
<1>q. QED BY <1>1, <1>2, <1>3, KeepAliveStream, RecvStream, RequestLineStream, LeftoverStream,
             ReadHeadersStream, ReadBodyStream, DispatchStream DEF Serve

\* Steps that touch neither a stream nor a worker that reads one.
LEMMA StreamsAlone ==
    ASSUME ServerInv, StreamInv,
           UNCHANGED <<asked, unsent, sock, buff, req, body, stage, handled, fn>>,
           \A w \in Workers : (wpc'[w] = "running") <=> (wpc[w] = "running")
    PROVE  StreamInv'
<1>1. StreamTypes' /\ HandledWhole'
  BY DEF StreamInv, StreamTypes, HandledWhole
<1>2. \A c \in Conns : Coming(c)' = Coming(c)
  BY DEF Coming
<1>3. \A w \in Workers : wpc[w] = "running" => Stream(w)' = Stream(w)
  BY <1>2, Serves DEF Stream
<1>4. \A c \in Conns : Clean(Coming(c)', asked'[c], Used(handled', c))
  BY <1>2 DEF StreamInv
<1>5. ASSUME NEW w \in Workers, wpc'[w] = "running"
      PROVE  /\ Clean(Stream(w)', asked'[fn'[w]], Used(handled', fn'[w]) \cup {req'[w]})
             /\ Placed(stage'[w], req'[w], asked'[fn'[w]], Used(handled', fn'[w]),
                       Stream(w)', body'[w])
  BY <1>3, <1>5 DEF StreamInv
<1>q. QED BY <1>1, <1>4, <1>5 DEF StreamInv

LEMMA TakeStream ==
    ASSUME ServerInv, ServerInv', StreamInv, NEW w \in Workers, TakeConn(w)
    PROVE  StreamInv'
<1> DEFINE c == Head(jobs)
<1>1. /\ wpc[w] = "lock" /\ jobs # <<>> /\ fn' = [fn EXCEPT ![w] = c]
      /\ wpc' = [wpc EXCEPT ![w] = "running"] /\ stage' = [stage EXCEPT ![w] = "keep"]
      /\ UNCHANGED <<asked, unsent, sock, buff, req, body, handled>>
  BY DEF TakeConn, Take, client
<1>2. /\ jobs \in Seq(Conns) /\ fn \in [Workers -> Conns \cup {NoJob}]
      /\ wpc \in [Workers -> {"lock", "asleep", "running", "gone"}]
      /\ stage \in [Workers -> Stages]
  BY DEF ServerInv, Tracked, OpenTracked, TypeOK
<1>3. c \in Conns
  BY <1>1, <1>2, Popped
<1> HIDE DEF c
<1>4. /\ fn'[w] = c /\ wpc'[w] = "running" /\ stage'[w] = "keep"
      /\ \A v \in Workers : v # w => fn'[v] = fn[v] /\ wpc'[v] = wpc[v] /\ stage'[v] = stage[v]
  BY <1>1, <1>2
<1>5. asked[c] \in Seq(Kind) /\ Coming(c) \in Seq(PieceType) /\ buff[w] = <<>> /\ req[w] = 0
  BY <1>1, <1>3, StreamSeqs DEF StreamInv, StreamTypes
<1>6. Len(asked[c]) \in Nat /\ \A n \in DOMAIN asked[c] : n # 0
  BY <1>5, LenProperties
<1>7. StreamTypes'
  <2>1. \A v \in Workers : wpc'[v] = "running" => req'[v] <= Len(asked'[fn'[v]])
    BY <1>1, <1>4, <1>5, <1>6 DEF StreamInv, StreamTypes
  <2>2. \A v \in Workers : wpc'[v] # "running" => buff'[v] = <<>> /\ req'[v] = 0
    BY <1>1, <1>4 DEF StreamInv, StreamTypes
  <2>q. QED BY <1>1, <2>1, <2>2 DEF StreamInv, StreamTypes
<1>8. HandledWhole'
  BY <1>1 DEF StreamInv, HandledWhole
<1>9. \A d \in Conns : Clean(Coming(d)', asked'[d], Used(handled', d))
  BY <1>1 DEF StreamInv, Coming
<1>10. ASSUME NEW v \in Workers, wpc'[v] = "running"
       PROVE  /\ Clean(Stream(v)', asked'[fn'[v]], Used(handled', fn'[v]) \cup {req'[v]})
              /\ Placed(stage'[v], req'[v], asked'[fn'[v]], Used(handled', fn'[v]),
                        Stream(v)', body'[v])
  <2>1. CASE v = w
    <3>1. Stream(w)' = <<>> \o Coming(c) /\ <<>> \o Coming(c) = Coming(c)
      BY <1>1, <1>4, <1>5, ConcatEmptySeq DEF Stream, Coming
    <3>2. Clean(Coming(c), asked[c], Used(handled, c))
      BY <1>3 DEF StreamInv
    <3>3. Clean(Coming(c), asked[c], Used(handled, c) \cup {0})
      BY <1>6, <3>2, CleanLess
    <3>4. Placed("keep", req'[v], asked'[fn'[v]], Used(handled', fn'[v]), Stream(v)', body'[v])
      BY PlacedNowhere
    <3>q. QED BY <1>1, <1>4, <1>5, <2>1, <3>1, <3>3, <3>4
  <2>2. CASE v # w
    <3>1. Stream(v)' = Stream(v)
      BY <1>1, <1>4, <2>2 DEF Stream, Coming
    <3>q. QED BY <1>1, <1>4, <1>10, <2>2, <3>1 DEF StreamInv
  <2>q. QED BY <2>1, <2>2
<1>q. QED BY <1>7, <1>8, <1>9, <1>10 DEF StreamInv

LEMMA CloseStream ==
    ASSUME ServerInv, ServerInv', StreamInv, NEW w \in Workers, CloseSocket(w)
    PROVE  StreamInv'
<1>c. PICK c \in Conns : c = fn[w]
  BY Serves DEF CloseSocket, Finish
<1>1. /\ wpc[w] = "running" /\ fn' = [fn EXCEPT ![w] = NoJob]
      /\ wpc' = [wpc EXCEPT ![w] = "lock"] /\ stage' = [stage EXCEPT ![w] = "idle"]
      /\ buff' = [buff EXCEPT ![w] = <<>>] /\ req' = [req EXCEPT ![w] = 0]
      /\ body' = [body EXCEPT ![w] = <<>>] /\ sock' = [sock EXCEPT ![c] = <<>>]
      /\ UNCHANGED <<asked, unsent, handled>>
  BY <1>c DEF CloseSocket, Finish, In, NewStream, client
<1>2. /\ fn \in [Workers -> Conns \cup {NoJob}]
      /\ wpc \in [Workers -> {"lock", "asleep", "running", "gone"}]
      /\ stage \in [Workers -> Stages] /\ buff \in [Workers -> Seq(PieceType)]
      /\ sock \in [Conns -> Seq(PieceType)]
      /\ req \in [Workers -> Nat] /\ body \in [Workers -> Seq(PieceType)]
  BY DEF ServerInv, Tracked, OpenTracked, TypeOK, StreamInv, StreamTypes
<1>3. /\ c \in Conns /\ sock[c] \in Seq(PieceType) /\ unsent[c] \in Seq(PieceType)
      /\ asked[c] \in Seq(Kind)
  BY <1>1, StreamSeqs
<1>4. /\ fn'[w] = NoJob /\ wpc'[w] = "lock" /\ stage'[w] = "idle" /\ buff'[w] = <<>>
      /\ req'[w] = 0 /\ sock'[c] = <<>>
      /\ req' \in [Workers -> Nat] /\ body' \in [Workers -> Seq(PieceType)]
      /\ \A v \in Workers : v # w =>
            /\ fn'[v] = fn[v] /\ wpc'[v] = wpc[v] /\ stage'[v] = stage[v]
            /\ buff'[v] = buff[v] /\ req'[v] = req[v] /\ body'[v] = body[v]
      /\ \A d \in Conns : d # c => sock'[d] = sock[d]
  <2>1. <<>> \in Seq(PieceType)
    OBVIOUS
  <2>q. QED BY <1>1, <1>2, <1>3, <2>1
<1>5. \A v \in Workers : v # w => fn[v] # c
  BY <1>1, <1>c, Serves DEF ServerInv, Tracked, OpenTracked
<1>6. StreamTypes'
  <2>1. \A v \in Workers : wpc'[v] = "running" => req'[v] <= Len(asked'[fn'[v]])
    BY <1>1, <1>4 DEF StreamInv, StreamTypes
  <2>2. \A v \in Workers : wpc'[v] # "running" => buff'[v] = <<>> /\ req'[v] = 0
    BY <1>4 DEF StreamInv, StreamTypes
  <2>q. QED BY <1>1, <1>4, <2>1, <2>2 DEF StreamInv, StreamTypes
<1>7. HandledWhole'
  BY <1>1 DEF StreamInv, HandledWhole
<1>8. ASSUME NEW d \in Conns PROVE Clean(Coming(d)', asked'[d], Used(handled', d))
  <2>1. CASE d = c
    <3>1. Coming(c)' = <<>> \o unsent[c] /\ <<>> \o unsent[c] = unsent[c]
      BY <1>1, <1>3, <1>4, ConcatEmptySeq DEF Coming
    <3>2. SuffixBy(unsent[c], sock[c] \o unsent[c], Len(sock[c]))
      BY <1>3, DropSuffix
    <3>3. Clean(Coming(c), asked[c], Used(handled, c)) /\ Coming(c) \in Seq(PieceType)
      BY <1>3, StreamSeqs DEF StreamInv
    <3>4. Clean(unsent[c], asked[c], Used(handled, c))
      <4> DEFINE s == sock[c] \o unsent[c]
      <4>1. /\ Clean(s, asked[c], Used(handled, c)) /\ s \in Seq(PieceType)
            /\ SuffixBy(unsent[c], s, Len(sock[c]))
        BY <3>2, <3>3 DEF Coming
      <4> HIDE DEF s
      <4>q. QED BY <1>3, <4>1, CleanSuffix
    <3>q. QED BY <1>1, <2>1, <3>1, <3>4
  <2>2. CASE d # c
    <3>1. Coming(d)' = Coming(d)
      BY <1>1, <1>4, <2>2 DEF Coming
    <3>q. QED BY <1>1, <3>1 DEF StreamInv
  <2>q. QED BY <2>1, <2>2
<1>9. ASSUME NEW v \in Workers, wpc'[v] = "running"
      PROVE  /\ Clean(Stream(v)', asked'[fn'[v]], Used(handled', fn'[v]) \cup {req'[v]})
             /\ Placed(stage'[v], req'[v], asked'[fn'[v]], Used(handled', fn'[v]),
                       Stream(v)', body'[v])
  <2>1. v # w /\ wpc[v] = "running"
    BY <1>4, <1>9
  <2>2. fn[v] \in Conns /\ fn[v] # c
    BY <1>5, <2>1, Serves
  <2>3. Stream(v)' = Stream(v)
    BY <1>1, <1>4, <2>1, <2>2 DEF Stream, Coming
  <2>q. QED BY <1>1, <1>4, <2>1, <2>3 DEF StreamInv
<1>q. QED BY <1>6, <1>7, <1>8, <1>9 DEF StreamInv

\* A new request comes behind everything that was sent on its connection.
LEMMA AskSends ==
    ASSUME ServerInv, NEW c \in Conns, Ask(c)
    PROVE  /\ UNCHANGED <<wpc, fn, buff, req, body, stage, handled>>
           /\ \E k \in Kind : /\ asked'[c] = Append(asked[c], k)
                             /\ Coming(c)' = Coming(c) \o Sent(Len(asked[c]) + 1, k)
           /\ \A d \in Conns : d # c => asked'[d] = asked[d] /\ Coming(d)' = Coming(d)
<1> DEFINE ks == asked[c]
           n == Len(ks) + 1
<1>1. /\ UNCHANGED <<wpc, fn, buff, req, body, stage, handled>>
      /\ unsent[c] = <<>> /\ Len(ks) < Len(KindsOf[c])
  BY DEF Ask, MayAsk, poolVars, local
<1>2. PICK k \in KindsOf[c][n] :
            /\ asked' = [asked EXCEPT ![c] = Append(ks, k)]
            /\ sock' = [sock EXCEPT ![c] = sock[c] \o <<Line(n), Hdrs(n)>>]
            /\ unsent' = [unsent EXCEPT ![c] = BodyOf(n, k)]
  BY DEF Ask
<1>3. /\ ks \in Seq(Kind) /\ Len(ks) \in Nat /\ n \in Nat /\ DOMAIN ks = 1 .. Len(ks)
      /\ sock[c] \in Seq(PieceType)
      /\ asked \in [Conns -> Seq(Kind)] /\ sock \in [Conns -> Seq(PieceType)]
      /\ unsent \in [Conns -> Seq(PieceType)]
  <2>1. ks \in Seq(Kind)
    BY StreamSeqs
  <2>2. Len(ks) \in Nat /\ DOMAIN ks = 1 .. Len(ks)
    BY <2>1, LenProperties
  <2>q. QED BY <2>1, <2>2 DEF ServerInv, Tracked, OpenTracked, TypeOK, MoreTypes
<1>4. k \in Kind
  <2>1. KindsOf[c] \in Seq(SUBSET Kind) /\ n \in DOMAIN KindsOf[c]
    <3>1. KindsOf[c] \in Seq(SUBSET Kind)
      BY HttpAssumption
    <3>q. QED BY <1>1, <1>3, <3>1
  <2>q. QED BY <1>2, <2>1
<1>5. /\ asked'[c] = Append(ks, k) /\ sock'[c] = sock[c] \o <<Line(n), Hdrs(n)>>
      /\ unsent'[c] = BodyOf(n, k)
      /\ \A d \in Conns : d # c => asked'[d] = asked[d] /\ sock'[d] = sock[d] /\ unsent'[d] = unsent[d]
  BY <1>2, <1>3
<1>6. /\ Sent(n, k) \in Seq(PieceType) /\ <<Line(n), Hdrs(n)>> \in Seq(PieceType)
      /\ BodyOf(n, k) \in Seq(PieceType)
  BY <1>3, <1>4, SentParts, BodyParts
<1>7. Coming(c) \in Seq(PieceType) /\ Coming(c) = sock[c]
  BY <1>1, <1>3, ConcatEmptySeq DEF Coming
<1>8. Coming(c)' = Coming(c) \o Sent(n, k)
  <2> DEFINE h == <<Line(n), Hdrs(n)>>
  <2>1. Coming(c)' = (sock[c] \o h) \o BodyOf(n, k)
    BY <1>5 DEF Coming
  <2>2. h \in Seq(PieceType)
    BY <1>6
  <2>3. Sent(n, k) = h \o BodyOf(n, k)
    BY DEF Sent
  <2>4. sock[c] \o (h \o BodyOf(n, k)) = (sock[c] \o h) \o BodyOf(n, k)
    <3> DEFINE a == sock[c]
               b == BodyOf(n, k)
    <3>1. a \in Seq(PieceType) /\ b \in Seq(PieceType) /\ h \in Seq(PieceType)
      BY <1>3, <1>6, <2>2
    <3> HIDE DEF a, b, h
    <3>2. a \o (h \o b) = (a \o h) \o b
      BY <3>1, Regroup
    <3>q. QED BY <3>2 DEF a, b
  <2>q. QED BY <1>7, <2>1, <2>3, <2>4
<1>9. \A d \in Conns : d # c => Coming(d)' = Coming(d)
  BY <1>5 DEF Coming
<1>q. QED BY <1>1, <1>4, <1>5, <1>8, <1>9

LEMMA AskStream ==
    ASSUME ServerInv, ServerInv', StreamInv, NEW c \in Conns, Ask(c)
    PROVE  StreamInv'
<1> DEFINE ks == asked[c]
           n == Len(ks) + 1
<1>1. UNCHANGED <<wpc, fn, buff, req, body, stage, handled>>
  BY AskSends
<1>2. PICK k \in Kind : asked'[c] = Append(ks, k) /\ Coming(c)' = Coming(c) \o Sent(n, k)
  BY AskSends
<1>3. /\ ks \in Seq(Kind) /\ Len(ks) \in Nat /\ n \in Nat /\ DOMAIN ks = 1 .. Len(ks)
  <2>1. ks \in Seq(Kind)
    BY StreamSeqs
  <2>q. QED BY <2>1, LenProperties
<1>4. k \in Kind
  BY <1>2
<1>5. /\ asked'[c] = Append(ks, k)
      /\ \A d \in Conns : d # c => asked'[d] = asked[d] /\ Coming(d)' = Coming(d)
  BY <1>2, AskSends
<1>6. Sent(n, k) \in Seq(PieceType)
  BY <1>3, <1>4, SentParts
<1>7. Coming(c) \in Seq(PieceType)
  BY StreamSeqs
<1>8. Coming(c)' = Coming(c) \o Sent(n, k)
  BY <1>2
<1>9. /\ DOMAIN ks \subseteq DOMAIN Append(ks, k) /\ Len(Append(ks, k)) = Len(ks) + 1
      /\ \A i \in DOMAIN ks : Append(ks, k)[i] = ks[i]
  BY <1>3, <1>4, Pushed
<1> HIDE DEF ks, n
<1>10. StreamTypes'
  <2>1. \A d \in Conns : Used(handled, d) \subseteq DOMAIN asked'[d]
    BY <1>5, <1>9 DEF StreamInv, StreamTypes, ks
  <2>2. ASSUME NEW w \in Workers, wpc[w] = "running" PROVE req[w] <= Len(asked'[fn[w]])
    <3>1. req[w] \in Nat /\ req[w] <= Len(asked[fn[w]]) /\ fn[w] \in Conns
      BY <2>2, Serves DEF StreamInv, StreamTypes
    <3>2. CASE fn[w] = c
      BY <1>3, <1>5, <1>9, <3>1, <3>2 DEF ks
    <3>3. CASE fn[w] # c
      BY <1>5, <3>1, <3>3
    <3>q. QED BY <3>2, <3>3
  <2>q. QED BY <1>1, <2>1, <2>2 DEF StreamInv, StreamTypes
<1>11. HandledWhole'
  <2>1. ASSUME NEW i \in DOMAIN handled
        PROVE  asked'[handled[i].conn][handled[i].of] = asked[handled[i].conn][handled[i].of]
    <3>1. handled[i] \in Call /\ handled[i].of \in Used(handled, handled[i].conn)
      BY DEF StreamInv, StreamTypes, Used
    <3>2. handled[i].conn \in Conns /\ handled[i].of \in DOMAIN asked[handled[i].conn]
      BY <3>1 DEF Call, StreamInv, StreamTypes
    <3>3. CASE handled[i].conn = c
      BY <1>5, <1>9, <3>2, <3>3 DEF ks
    <3>4. CASE handled[i].conn # c
      BY <1>5, <3>2, <3>4
    <3>q. QED BY <3>3, <3>4
  <2>q. QED BY <1>1, <2>1 DEF StreamInv, HandledWhole
<1>12. ASSUME NEW d \in Conns PROVE Clean(Coming(d)', asked'[d], Used(handled', d))
  <2>1. CASE d = c
    <3>1. \A m \in Used(handled, c) : m \in Nat /\ m <= Len(ks)
      BY <1>3 DEF StreamInv, StreamTypes, ks
    <3>2. Clean(Coming(c), ks, Used(handled, c))
      BY DEF StreamInv, ks
    <3>3. Clean(Coming(c) \o Sent(Len(ks) + 1, k), Append(ks, k), Used(handled, c))
      BY <1>3, <1>4, <1>7, <3>1, <3>2, CleanAsk
    <3>q. QED BY <1>1, <1>5, <1>8, <2>1, <3>3 DEF n
  <2>2. CASE d # c
    <3>1. Coming(d)' = Coming(d)
      BY <1>5, <2>2
    <3>q. QED BY <1>1, <1>5, <2>2, <3>1 DEF StreamInv
  <2>q. QED BY <2>1, <2>2
<1>13. ASSUME NEW w \in Workers, wpc'[w] = "running"
       PROVE  /\ Clean(Stream(w)', asked'[fn'[w]], Used(handled', fn'[w]) \cup {req'[w]})
              /\ Placed(stage'[w], req'[w], asked'[fn'[w]], Used(handled', fn'[w]),
                        Stream(w)', body'[w])
  <2>0. /\ wpc[w] = "running" /\ fn[w] \in Conns /\ buff[w] \in Seq(PieceType)
        /\ Stream(w) \in Seq(PieceType) /\ body[w] \in Seq(PieceType) /\ req[w] \in Nat
        /\ req[w] <= Len(asked[fn[w]])
        /\ Clean(Stream(w), asked[fn[w]], Used(handled, fn[w]) \cup {req[w]})
        /\ Placed(stage[w], req[w], asked[fn[w]], Used(handled, fn[w]), Stream(w), body[w])
    BY <1>1, <1>13, ReaderFacts
  <2>1. CASE fn[w] = c
    <3>1. Stream(w)' = Stream(w) \o Sent(n, k)
      <4>1. Stream(w)' = buff[w] \o (Coming(c) \o Sent(n, k))
        BY <1>1, <1>8, <2>1 DEF Stream
      <4>2. buff[w] \o (Coming(c) \o Sent(n, k)) = (buff[w] \o Coming(c)) \o Sent(n, k)
        <5> DEFINE a == buff[w]
                   b == Coming(c)
                   d == Sent(n, k)
        <5>1. a \in Seq(PieceType) /\ b \in Seq(PieceType) /\ d \in Seq(PieceType)
          BY <1>6, <1>7, <2>0
        <5> HIDE DEF a, b, d
        <5>2. a \o (b \o d) = (a \o b) \o d
          BY <5>1, Regroup
        <5>q. QED BY <5>2 DEF a, b, d
      <4>q. QED BY <2>1, <4>1, <4>2 DEF Stream
    <3> DEFINE used == Used(handled, c) \cup {req[w]}
               s == Stream(w)
    <3>2. \A m \in used : m \in Nat /\ m <= Len(ks)
      BY <1>3, <2>0, <2>1 DEF StreamInv, StreamTypes, ks
    <3>3. Clean(s, ks, used) /\ s \in Seq(PieceType)
      BY <2>0, <2>1 DEF ks
    <3> HIDE DEF used, s
    <3>4. Clean(s \o Sent(Len(ks) + 1, k), Append(ks, k), used)
      BY <1>3, <1>4, <3>2, <3>3, CleanAsk
    <3>5. Placed(stage[w], req[w], ks, Used(handled, c), s, body[w])
      BY <2>0, <2>1 DEF ks, s
    <3>6. Placed(stage[w], req[w], Append(ks, k), Used(handled, c), s \o Sent(n, k), body[w])
      BY <1>3, <1>4, <1>6, <2>0, <3>3, <3>5, PlacedAsk
    <3>q. QED BY <1>1, <1>5, <2>1, <3>1, <3>4, <3>6 DEF used, s, n
  <2>2. CASE fn[w] # c
    <3>1. Stream(w)' = Stream(w)
      <4>1. PICK d \in Conns : d = fn[w]
        BY <2>0
      <4>2. Stream(w)' = buff[w] \o Coming(d)' /\ Stream(w) = buff[w] \o Coming(d)
        BY <1>1, <4>1 DEF Stream, Coming
      <4>q. QED BY <1>5, <2>2, <4>1, <4>2
    <3>q. QED BY <1>1, <1>5, <2>0, <2>2, <3>1
  <2>q. QED BY <2>1, <2>2
<1>q. QED BY <1>10, <1>11, <1>12, <1>13 DEF StreamInv

\* A piece is sent: nothing changes in what is to come.
LEMMA SendKeeps ==
    ASSUME ServerInv, NEW c \in Conns, Send(c)
    PROVE  \A d \in Conns : Coming(d)' = Coming(d)
<1>1. /\ unsent[c] # <<>>
      /\ sock' = [sock EXCEPT ![c] = Append(@, Head(unsent[c]))]
      /\ unsent' = [unsent EXCEPT ![c] = Tail(@)]
  BY DEF Send
<1>2. /\ sock[c] \in Seq(PieceType) /\ unsent[c] \in Seq(PieceType)
      /\ sock \in [Conns -> Seq(PieceType)] /\ unsent \in [Conns -> Seq(PieceType)]
  BY DEF ServerInv, Tracked, OpenTracked, TypeOK, MoreTypes
<1>3. /\ sock'[c] = Append(sock[c], Head(unsent[c])) /\ unsent'[c] = Tail(unsent[c])
      /\ \A d \in Conns : d # c => sock'[d] = sock[d] /\ unsent'[d] = unsent[d]
  BY <1>1, <1>2
<1>4. ASSUME NEW d \in Conns PROVE Coming(d)' = Coming(d)
  <2>1. CASE d = c
    <3>1. Coming(c)' = Append(sock[c], Head(unsent[c])) \o Tail(unsent[c])
      BY <1>3 DEF Coming
    <3> DEFINE s == sock[c]
               t == unsent[c]
    <3>2. s \in Seq(PieceType) /\ t \in Seq(PieceType) /\ t # <<>>
      BY <1>1, <1>2
    <3> HIDE DEF s, t
    <3>3. Append(s, Head(t)) \o Tail(t) = s \o t
      BY <3>2, SendSame
    <3>q. QED BY <2>1, <3>1, <3>3 DEF s, t, Coming
  <2>2. CASE d # c
    BY <1>3, <2>2 DEF Coming
  <2>q. QED BY <2>1, <2>2
<1>q. QED BY <1>4

LEMMA SendStream ==
    ASSUME ServerInv, ServerInv', StreamInv, NEW c \in Conns, Send(c)
    PROVE  StreamInv'
<1>1. UNCHANGED <<wpc, fn, asked, buff, req, body, stage, handled>>
  BY DEF Send, poolVars, local
<1>4. \A d \in Conns : Coming(d)' = Coming(d)
  BY SendKeeps
<1>5. StreamTypes' /\ HandledWhole'
  BY <1>1 DEF StreamInv, StreamTypes, HandledWhole
<1>6. \A d \in Conns : Clean(Coming(d)', asked'[d], Used(handled', d))
  BY <1>1, <1>4 DEF StreamInv
<1>7. ASSUME NEW w \in Workers, wpc'[w] = "running"
      PROVE  /\ Clean(Stream(w)', asked'[fn'[w]], Used(handled', fn'[w]) \cup {req'[w]})
             /\ Placed(stage'[w], req'[w], asked'[fn'[w]], Used(handled', fn'[w]),
                       Stream(w)', body'[w])
  <2>1. wpc[w] = "running" /\ fn[w] \in Conns
    BY <1>1, <1>7, Serves
  <2>2. Stream(w)' = Stream(w)
    <3>1. PICK d \in Conns : d = fn[w]
      BY <2>1
    <3>2. fn'[w] = d
      BY <1>1, <3>1
    <3>3. Stream(w)' = buff[w] \o Coming(d)' /\ Stream(w) = buff[w] \o Coming(d)
      BY <1>1, <3>1, <3>2 DEF Stream, Coming
    <3>q. QED BY <1>4, <3>3
  <2>q. QED BY <1>1, <2>1, <2>2 DEF StreamInv
<1>q. QED BY <1>5, <1>6, <1>7 DEF StreamInv

\* Every step keeps the invariant of the streams.
LEMMA NextStream == ServerInv /\ ServerInv' /\ StreamInv /\ [Next]_vars => StreamInv'
<1> SUFFICES ASSUME ServerInv, ServerInv', StreamInv, [Next]_vars PROVE StreamInv'
  OBVIOUS
<1>1. ASSUME NEW c \in Conns, ClientStep(c) PROVE StreamInv'
  <2>1. CASE Connect(c) \/ Leave(c)
    <3>1. /\ UNCHANGED <<asked, unsent, sock, buff, req, body, stage, handled, fn>>
          /\ UNCHANGED wpc
      BY <2>1 DEF Connect, Leave, poolVars, client, local
    <3>q. QED BY <3>1, StreamsAlone
  <2>q. QED BY <1>1, <2>1, AskStream, SendStream DEF ClientStep
<1>2. CASE ListenStep \/ AcceptFails
  <2>1. /\ UNCHANGED <<asked, unsent, sock, buff, req, body, stage, handled, fn>>
        /\ \/ UNCHANGED wpc
           \/ \E w \in Workers : wpc[w] = "asleep" /\ wpc' = [wpc EXCEPT ![w] = "lock"]
           \/ wpc' = [w \in Workers |-> IF w \in Sleeping THEN "lock" ELSE wpc[w]]
    BY <1>2 DEF ListenStep, AcceptFails, CreateSocket, NewSocket, SetCloexec,
                BindAndListen, CloseAndContinue, BindFails, Binding, Accept, Listener,
                NotifyOne, NotifyAll, Join, Enqueue, Shutdown, Sleeping, poolVars, client, local
  <2>2. wpc \in [Workers -> {"lock", "asleep", "running", "gone"}]
    BY DEF ServerInv, Tracked, OpenTracked, TypeOK
  <2>3. \A w \in Workers : (wpc'[w] = "running") <=> (wpc[w] = "running")
    BY <2>1, <2>2 DEF Sleeping
  <2>q. QED BY <2>1, <2>3, StreamsAlone
<1>3. ASSUME NEW w \in Workers, Idling(Wait(w)) \/ Idling(Exit(w)) \/ Idling(Spurious(w))
      PROVE  StreamInv'
  <2>1. /\ UNCHANGED <<asked, unsent, sock, buff, req, body, stage, handled, fn>>
        /\ wpc[w] \in {"lock", "asleep"}
        /\ \E x \in {"asleep", "lock", "gone"} : wpc' = [wpc EXCEPT ![w] = x]
    BY <1>3 DEF Idling, Wait, Exit, Spurious, client, local
  <2>2. wpc \in [Workers -> {"lock", "asleep", "running", "gone"}]
    BY DEF ServerInv, Tracked, OpenTracked, TypeOK
  <2>3. \A v \in Workers : (wpc'[v] = "running") <=> (wpc[v] = "running")
    BY <2>1, <2>2
  <2>q. QED BY <2>1, <2>3, StreamsAlone
<1>4. ASSUME NEW w \in Workers, WorkerStep(w) \/ Idling(Spurious(w)) PROVE StreamInv'
  BY <1>3, <1>4, TakeStream, ServeStream, CloseStream DEF WorkerStep, ServeStep, Serve
<1>5. CASE UNCHANGED vars
  <2>1. /\ UNCHANGED <<asked, unsent, sock, buff, req, body, stage, handled, fn>>
        /\ UNCHANGED wpc
    BY <1>5 DEF vars, poolVars, client, local
  <2>q. QED BY <2>1, StreamsAlone
<1>q. QED BY <1>1, <1>2, <1>4, <1>5 DEF Next

\* A handler is called at most once for a request, with its whole body, wherever
\* the pieces are cut by recv(), whenever the client leaves or stalls, and
\* whatever an earlier request of the connection left unread.  Only a body that
\* ends with the connection is excepted.
THEOREM HandlersGetWhole == Spec => []HandledWhole
<1>1. Init => StreamInv
  BY InitStream
<1>2. ServerInv /\ ServerInv' /\ StreamInv /\ [Next]_vars => StreamInv'
  BY NextStream
<1>3. StreamInv => HandledWhole
  BY DEF StreamInv
<1>q. QED BY <1>1, <1>2, <1>3, ServerInvariant, PTL DEF Spec

-----------------------------------------------------------------------------
(* Responses in order.                                                     *)

\* Between two requests: s is empty, or the next request is there as a whole.
Fresh(s, ks, done) ==
    \/ Len(ks) = done /\ Len(s) = 0
    \/ /\ Len(ks) = done + 1 /\ Len(s) = 2 + Parts(ks[done + 1])
       /\ s[1] = Line(done + 1)

Codes == {200, 404, 500}
OfRequest == {"hdrs", "longhdrs", "body", "skip", "dispatch", "respond"}

\* A worker at st whose client has `done' responses: it works on the next
\* request, knows how much of it is still to come, and finds nothing behind it.
Turn(st, n, ks, s, b, code, done) ==
    /\ st # "glued"
    /\ st \in {"keep", "line"} => Fresh(s, ks, done)
    /\ st \in OfRequest => n = done + 1 /\ Len(ks) = n
    /\ st = "hdrs" => Len(s) = 1 + Parts(ks[n])
    /\ (st = "body" /\ ks[n].len # "none") => Len(s) = Parts(ks[n]) - Len(b)
    /\ (st = "dispatch" /\ BodyRead(ks[n])) => Len(s) = 0
    /\ (st = "respond" /\ code \in Codes /\ BodyRead(ks[n])) => Len(s) = 0

TurnOf(w) ==
    /\ Turn(stage[w], req[w], asked[fn[w]], Stream(w), body[w], status[w],
            Len(resp[fn[w]]))
    /\ stage[w] = "keep" => buff[w] = <<>>

\* A connection on which all that has happened was settled, and that can still be
\* written to.
Smooth(c) == Writable(c) /\ \A m \in DOMAIN resp[c] : Settled(c, resp[c][m])
Unserved(c) == cst[c] # "closed" /\ \A w \in Workers : fn[w] # c

Response == [of : Nat, status : Nat, close : BOOLEAN]
OrderTypes ==
    /\ resp \in [Conns -> Seq(Response)] /\ gone \in [Conns -> BOOLEAN]
    /\ status \in [Workers -> Nat] /\ conn_close \in [Workers -> BOOLEAN]
    /\ \A c \in Conns : \A m \in DOMAIN resp[c] :
        Dispatched(resp[c][m]) => resp[c][m].of \in DOMAIN asked[c]
    /\ \A w \in Workers : (stage[w] = "respond" /\ status[w] \in Codes) =>
        req[w] \in DOMAIN asked[fn[w]]

OrderInv ==
    /\ OrderTypes /\ InOrder
    /\ \A c \in Conns : Unserved(c) =>
        resp[c] = <<>> /\ (Writable(c) => Fresh(Coming(c), asked[c], 0))
    /\ \A w \in Workers : (wpc[w] = "running" /\ Smooth(fn[w])) => TurnOf(w)

LEMMA OrderFacts ==
    ASSUME ServerInv, StreamInv, OrderInv, NEW w \in Workers, wpc[w] = "running"
    PROVE  /\ fn[w] \in Conns /\ asked[fn[w]] \in Seq(Kind) /\ Len(asked[fn[w]]) \in Nat
           /\ DOMAIN asked[fn[w]] = 1 .. Len(asked[fn[w]])
           /\ resp[fn[w]] \in Seq(Response) /\ Len(resp[fn[w]]) \in Nat
           /\ Stream(w) \in Seq(PieceType) /\ Len(Stream(w)) \in Nat
           /\ body[w] \in Seq(PieceType) /\ Len(body[w]) \in Nat
           /\ Placed(stage[w], req[w], asked[fn[w]], Used(handled, fn[w]), Stream(w), body[w])
           /\ Smooth(fn[w]) => TurnOf(w)
<1>1. /\ fn[w] \in Conns /\ asked[fn[w]] \in Seq(Kind) /\ Stream(w) \in Seq(PieceType)
      /\ body[w] \in Seq(PieceType)
      /\ Placed(stage[w], req[w], asked[fn[w]], Used(handled, fn[w]), Stream(w), body[w])
  BY ReaderFacts
<1>2. resp[fn[w]] \in Seq(Response) /\ (Smooth(fn[w]) => TurnOf(w))
  BY <1>1 DEF OrderInv, OrderTypes
<1>q. QED BY <1>1, <1>2, LenProperties

\* A step of one worker on its connection, without a response.
LEMMA OrderStep ==
    ASSUME ServerInv, ServerInv', OrderInv, NEW w \in Workers, wpc[w] = "running",
           UNCHANGED <<wpc, fn, cst, asked, unsent, gone, resp>>,
           \A d \in Conns : d # fn[w] => sock'[d] = sock[d],
           \A v \in Workers : v # w =>
                /\ buff'[v] = buff[v] /\ stage'[v] = stage[v] /\ req'[v] = req[v]
                /\ body'[v] = body[v] /\ status'[v] = status[v],
           status' \in [Workers -> Nat], conn_close' \in [Workers -> BOOLEAN],
           (stage'[w] = "respond" /\ status'[w] \in Codes) => req'[w] \in DOMAIN asked[fn[w]],
           Writable(fn[w])' => Writable(fn[w]), Smooth(fn[w]) => TurnOf(w)'
    PROVE  OrderInv'
<1>1. OrderTypes'
  <2>1. \A v \in Workers : (stage'[v] = "respond" /\ status'[v] \in Codes) =>
            req'[v] \in DOMAIN asked'[fn'[v]]
    BY DEF OrderInv, OrderTypes
  <2>2. resp' \in [Conns -> Seq(Response)] /\ gone' \in [Conns -> BOOLEAN]
    BY DEF OrderInv, OrderTypes
  <2>3. \A c \in Conns : \A m \in DOMAIN resp'[c] :
            Dispatched(resp'[c][m]) => resp'[c][m].of \in DOMAIN asked'[c]
    BY DEF OrderInv, OrderTypes
  <2>q. QED BY <2>1, <2>2, <2>3 DEF OrderTypes
<1>2. InOrder'
  BY DEF OrderInv, InOrder, Settled
<1>3. ASSUME NEW c \in Conns, Unserved(c)'
      PROVE  resp'[c] = <<>> /\ (Writable(c)' => Fresh(Coming(c)', asked'[c], 0))
  <2>1. Unserved(c) /\ c # fn[w]
    BY <1>3 DEF Unserved
  <2>2. Coming(c)' = Coming(c) /\ Writable(c)' = Writable(c)
    BY <2>1 DEF Coming, Writable
  <2>q. QED BY <2>1, <2>2 DEF OrderInv
<1>4. ASSUME NEW v \in Workers, wpc'[v] = "running", Smooth(fn[v])'
      PROVE  TurnOf(v)'
  <2>0. fn[v] \in Conns /\ wpc[v] = "running" /\ (fn[v] # fn[w] => sock'[fn[v]] = sock[fn[v]])
    BY <1>4, Serves
  <2>1. Smooth(fn[v]) /\ wpc[v] = "running"
    BY <1>4, <2>0 DEF Smooth, Settled, Writable
  <2>2. CASE v = w
    BY <2>1, <2>2
  <2>3. CASE v # w
    <3>1. fn[v] \in Conns /\ fn[v] # fn[w]
      BY <2>1, <2>3, Serves DEF ServerInv, Tracked, OpenTracked
    <3>2. Stream(v)' = Stream(v)
      BY <2>3, <3>1 DEF Stream, Coming
    <3>3. TurnOf(v)
      BY <2>1 DEF OrderInv
    <3>q. QED BY <2>3, <3>2, <3>3 DEF TurnOf
  <2>q. QED BY <2>2, <2>3
<1>5. \A c \in Conns : Unserved(c)' =>
        resp'[c] = <<>> /\ (Writable(c)' => Fresh(Coming(c)', asked'[c], 0))
  BY <1>3
<1>6. \A v \in Workers : (wpc'[v] = "running" /\ Smooth(fn[v])') => TurnOf(v)'
  BY <1>4
<1>q. QED BY <1>1, <1>2, <1>5, <1>6 DEF OrderInv

\* The places of which little is said.
LEMMA TurnLoose ==
    ASSUME NEW st, NEW n, NEW ks, NEW s, NEW b, NEW code, NEW done,
           \/ st = "close"
           \/ st \in {"skip", "longhdrs"} /\ n = done + 1 /\ Len(ks) = n
           \/ st = "respond" /\ n = done + 1 /\ Len(ks) = n /\ code \notin Codes
    PROVE  Turn(st, n, ks, s, b, code, done)
BY DEF Turn, OfRequest

\* A step that reads nothing.
LEMMA OrderMove ==
    ASSUME ServerInv, ServerInv', StreamInv, OrderInv, NEW w \in Workers, wpc[w] = "running",
           UNCHANGED <<poolVars, cst, client, sock, resp, buff, req, body, conn_close>>,
           NEW st, Goto(w, st), st # "keep", NEW code \in Nat,
           status' = [status EXCEPT ![w] = code],
           (st = "respond" /\ code \in Codes) => req[w] \in DOMAIN asked[fn[w]],
           Smooth(fn[w]) => Turn(st, req[w], asked[fn[w]], Stream(w), body[w], code,
                                 Len(resp[fn[w]]))
    PROVE  OrderInv'
<1>1. UNCHANGED <<wpc, fn, asked, unsent, gone>>
  BY DEF poolVars, client
<1>2. Stream(w)' = Stream(w)
  BY <1>1 DEF Stream, Coming
<1>3. stage'[w] = st /\ \A v \in Workers : v # w => stage'[v] = stage[v]
  BY DEF Goto, ServerInv, Tracked, OpenTracked, TypeOK
<1>4. /\ status' \in [Workers -> Nat] /\ status'[w] = code
      /\ \A v \in Workers : v # w => status'[v] = status[v]
      /\ conn_close' \in [Workers -> BOOLEAN]
  BY DEF OrderInv, OrderTypes
<1>5. Smooth(fn[w]) => TurnOf(w)'
  BY <1>1, <1>2, <1>3, <1>4 DEF TurnOf
<1>6. (stage'[w] = "respond" /\ status'[w] \in Codes) => req'[w] \in DOMAIN asked[fn[w]]
  BY <1>3, <1>4
<1>7. Writable(fn[w])' => Writable(fn[w])
  BY <1>1 DEF Writable
<1>q. QED BY <1>1, <1>3, <1>4, <1>5, <1>6, <1>7, OrderStep

\* A step that consumes a piece.
LEMMA OrderConsume ==
    ASSUME ServerInv, ServerInv', StreamInv, OrderInv, NEW w \in Workers, wpc[w] = "running",
           Consume(w), NEW st, Goto(w, st) \/ (UNCHANGED stage /\ st = stage[w]), st # "keep",
           \A v \in Workers : v # w =>
                req'[v] = req[v] /\ body'[v] = body[v] /\ status'[v] = status[v],
           status' \in [Workers -> Nat], conn_close' \in [Workers -> BOOLEAN],
           (st = "respond" /\ status'[w] \in Codes) => req'[w] \in DOMAIN asked[fn[w]],
           Smooth(fn[w]) => Turn(st, req'[w], asked[fn[w]], Stream(w)', body'[w], status'[w],
                                 Len(resp[fn[w]]))
    PROVE  OrderInv'
<1>1. /\ UNCHANGED <<wpc, fn, cst, asked, unsent, gone, resp, sock>>
      /\ \A v \in Workers : v # w => buff'[v] = buff[v]
  BY ConsumedStream DEF Consume, client
<1>2. stage'[w] = st /\ \A v \in Workers : v # w => stage'[v] = stage[v]
  BY DEF Goto, ServerInv, Tracked, OpenTracked, TypeOK
<1>3. Smooth(fn[w]) => TurnOf(w)'
  BY <1>1, <1>2 DEF TurnOf
<1>4. (stage'[w] = "respond" /\ status'[w] \in Codes) => req'[w] \in DOMAIN asked[fn[w]]
  BY <1>2
<1>5. Writable(fn[w])' => Writable(fn[w])
  BY <1>1 DEF Writable
<1>q. QED BY <1>1, <1>2, <1>3, <1>4, <1>5, OrderStep

\* One piece less is to come.
LEMMA OneLess ==
    ASSUME ServerInv, ServerInv', StreamInv, OrderInv, NEW w \in Workers, wpc[w] = "running",
           Consume(w)
    PROVE  /\ Len(Stream(w)') = Len(Stream(w)) - 1 /\ Len(Stream(w)) > 0
           /\ Stream(w)[1] = Next_(w) /\ 1 \in DOMAIN Stream(w)
<1> DEFINE t == Stream(w)'
           s == Stream(w)
<1>1. t \in Seq(PieceType) /\ SuffixBy(t, s, 1) /\ s[1] = Next_(w)
  BY ConsumedStream
<1>2. s \in Seq(PieceType) /\ Len(s) \in Nat
  BY OrderFacts
<1> HIDE DEF s, t
<1>3. Len(t) \in Nat /\ DOMAIN s = 1 .. Len(s)
  BY <1>1, <1>2, LenProperties
<1>4. Len(t) = Len(s) - 1 /\ Len(s) > 0 /\ 1 \in DOMAIN s
  BY <1>1, <1>2, <1>3 DEF SuffixBy
<1>q. QED BY <1>1, <1>4 DEF s, t

LEMMA KeepAliveOrder ==
    ASSUME ServerInv, ServerInv', StreamInv, OrderInv, NEW w \in Workers, KeepAlive(w)
    PROVE  OrderInv'
<1>1. /\ wpc[w] = "running" /\ stage[w] = "keep"
      /\ UNCHANGED <<wpc, fn, cst, asked, unsent, gone, resp, sock>>
      /\ buff' = [buff EXCEPT ![w] = <<>>] /\ req' = [req EXCEPT ![w] = 0]
      /\ body' = [body EXCEPT ![w] = <<>>] /\ status' = [status EXCEPT ![w] = 0]
      /\ conn_close' = [conn_close EXCEPT ![w] = FALSE]
      /\ \E st \in {"line", "close"} : Goto(w, st)
  BY DEF KeepAlive, In, NewStream, poolVars, client
<1>2. PICK st \in {"line", "close"} : Goto(w, st)
  BY <1>1
<1>3. stage'[w] = st /\ \A v \in Workers : v # w => stage'[v] = stage[v]
  BY <1>2 DEF Goto, ServerInv, Tracked, OpenTracked, TypeOK
<1>4. /\ buff \in [Workers -> Seq(PieceType)] /\ req \in [Workers -> Nat]
      /\ body \in [Workers -> Seq(PieceType)] /\ status \in [Workers -> Nat]
      /\ conn_close \in [Workers -> BOOLEAN]
  BY DEF ServerInv, Tracked, OpenTracked, TypeOK, StreamInv, StreamTypes, OrderInv, OrderTypes
<1>5. /\ buff'[w] = <<>> /\ status'[w] = 0
      /\ status' \in [Workers -> Nat] /\ conn_close' \in [Workers -> BOOLEAN]
      /\ \A v \in Workers : v # w => /\ buff'[v] = buff[v] /\ req'[v] = req[v]
                                     /\ body'[v] = body[v] /\ status'[v] = status[v]
  BY <1>1, <1>4
<1>6. ASSUME Smooth(fn[w]) PROVE TurnOf(w)'
  <2>1. buff[w] = <<>> /\ Fresh(Stream(w), asked[fn[w]], Len(resp[fn[w]]))
    BY <1>1, <1>6, OrderFacts DEF TurnOf, Turn
  <2>2. Stream(w)' = Stream(w)
    BY <1>1, <1>5, <2>1 DEF Stream, Coming
  <2>3. Turn(st, req'[w], asked[fn[w]], Stream(w), body'[w], status'[w], Len(resp[fn[w]]))
    BY <2>1 DEF Turn, OfRequest
  <2>q. QED BY <1>1, <1>2, <1>3, <2>2, <2>3 DEF TurnOf
<1>7. stage'[w] # "respond"
  BY <1>2, <1>3
<1>8. Writable(fn[w])' => Writable(fn[w])
  BY <1>1 DEF Writable
<1>q. QED BY <1>1, <1>3, <1>5, <1>6, <1>7, <1>8, OrderStep

LEMMA RecvOrder ==
    ASSUME ServerInv, ServerInv', StreamInv, OrderInv, NEW w \in Workers, Recv(w)
    PROVE  OrderInv'
<1>1. /\ wpc[w] = "running" /\ Stream(w)' = Stream(w)
      /\ UNCHANGED <<wpc, fn, asked, unsent, stage, req, body>>
      /\ \A v \in Workers : v # w => buff'[v] = buff[v]
      /\ \A d \in Conns : d # fn[w] => sock'[d] = sock[d]
  BY RecvKeeps
<1>2. UNCHANGED <<cst, gone, resp, status, conn_close>> /\ stage[w] # "keep"
  BY DEF Recv, client, In, Reading
<1>3. Smooth(fn[w]) => TurnOf(w)'
  BY <1>1, <1>2, OrderFacts DEF TurnOf
<1>4. /\ status' \in [Workers -> Nat] /\ conn_close' \in [Workers -> BOOLEAN]
      /\ (stage'[w] = "respond" /\ status'[w] \in Codes) => req'[w] \in DOMAIN asked[fn[w]]
  BY <1>1, <1>2 DEF OrderInv, OrderTypes
<1>5. Writable(fn[w])
  BY DEF Recv, Writable
<1>q. QED BY <1>1, <1>2, <1>3, <1>4, <1>5, OrderStep

LEMMA ReadFailsOrder ==
    ASSUME ServerInv, ServerInv', StreamInv, OrderInv, NEW w \in Workers, ReadFails(w)
    PROVE  OrderInv'
<1> DEFINE k == asked[fn[w]][req[w]]
<1>1. /\ wpc[w] = "running" /\ stage[w] \in Reading
      /\ UNCHANGED <<poolVars, cst, client, sock, resp, buff, req, body, conn_close>>
  BY DEF ReadFails, In
<1>2. \/ Goto(w, "close") /\ UNCHANGED status
      \/ /\ stage[w] \in {"glued", "hdrs", "longhdrs", "skip", "body"}
         /\ Goto(w, "respond") /\ \E code \in Nat \ Codes : status' = [status EXCEPT ![w] = code]
      \/ /\ stage[w] = "body" /\ Goto(w, "dispatch") /\ ~Writable(fn[w])
         /\ status' = [status EXCEPT ![w] = 0]
  <2>1. \A code \in {400, 413, 414} : code \in Nat \ Codes
    BY DEF Codes
  <2>2. ASSUME stage[w] = "body", BodyEnds(k, gone[fn[w]]), Follow(w, ContentRead(k)),
               sock[fn[w]] = <<>>
        PROVE  \/ /\ Goto(w, "respond") /\ status' = [status EXCEPT ![w] = 413]
               \/ /\ Goto(w, "dispatch") /\ ~Writable(fn[w])
                  /\ status' = [status EXCEPT ![w] = 0]
    <3>1. ~Writable(fn[w])
      BY <2>2 DEF BodyEnds, Writable
    <3>2. CASE k.head = "form"
      BY <2>2, <3>2 DEF Follow, ContentRead, Give
    <3>3. CASE k.head # "form"
      BY <2>2, <3>1, <3>3 DEF Follow, ContentRead, Do
    <3>q. QED BY <3>2, <3>3
  <2>q. QED BY <2>1, <2>2 DEF ReadFails, Answer
<1>3. status \in [Workers -> Nat]
  BY DEF OrderInv, OrderTypes
<1>4. status[w] \in Nat /\ (status' = status => status' = [status EXCEPT ![w] = status[w]])
  BY <1>3
<1>5. CASE Goto(w, "close") /\ UNCHANGED status
  <2>1. Turn("close", req[w], asked[fn[w]], Stream(w), body[w], status[w], Len(resp[fn[w]]))
    BY TurnLoose
  <2>q. QED BY <1>1, <1>4, <1>5, <2>1, OrderMove
<1>6. ASSUME stage[w] \in {"glued", "hdrs", "longhdrs", "skip", "body"},
             Goto(w, "respond"), NEW code \in Nat \ Codes,
             status' = [status EXCEPT ![w] = code]
      PROVE  OrderInv'
  <2>1. code \in Nat /\ code \notin Codes
    OBVIOUS
  <2>2. ASSUME Smooth(fn[w])
        PROVE  Turn("respond", req[w], asked[fn[w]], Stream(w), body[w], code,
                    Len(resp[fn[w]]))
    <3>1. req[w] = Len(resp[fn[w]]) + 1 /\ Len(asked[fn[w]]) = req[w]
      BY <1>1, <1>6, <2>2, OrderFacts DEF TurnOf, Turn, OfRequest
    <3>q. QED BY <2>1, <3>1, TurnLoose
  <2>q. QED BY <1>1, <1>6, <2>1, <2>2, OrderMove
<1>7. CASE /\ stage[w] = "body" /\ Goto(w, "dispatch") /\ ~Writable(fn[w])
          /\ status' = [status EXCEPT ![w] = 0]
  <2>1. ~Smooth(fn[w])
    BY <1>7 DEF Smooth
  <2>2. PICK code \in Nat : status' = [status EXCEPT ![w] = code]
    BY <1>7
  <2>3. PICK st : st = "dispatch" /\ Goto(w, st) /\ st # "keep" /\ st # "respond"
    BY <1>7
  <2>q. QED BY <1>1, <2>1, <2>2, <2>3, OrderMove
<1>q. QED BY <1>2, <1>5, <1>6, <1>7

LEMMA RequestLineOrder ==
    ASSUME ServerInv, ServerInv', StreamInv, OrderInv, NEW w \in Workers, RequestLine(w)
    PROVE  OrderInv'
<1> DEFINE n == Next_(w).of
           ks == asked[fn[w]]
           done == Len(resp[fn[w]])
           t == Stream(w)'
<1>1. /\ wpc[w] = "running" /\ stage[w] = "line" /\ Consume(w) /\ Next_(w).part = "line"
      /\ req' = [req EXCEPT ![w] = n] /\ UNCHANGED <<body, conn_close>>
      /\ \/ Goto(w, "respond") /\ status' = [status EXCEPT ![w] = 400]
         \/ Goto(w, "longhdrs") /\ UNCHANGED status
         \/ Goto(w, "hdrs") /\ UNCHANGED status
  BY DEF RequestLine, In, Answer
<1>2. /\ req \in [Workers -> Nat] /\ status \in [Workers -> Nat]
      /\ conn_close \in [Workers -> BOOLEAN]
  BY DEF StreamInv, StreamTypes, OrderInv, OrderTypes
<1>3. /\ req'[w] = n /\ status' \in [Workers -> Nat] /\ conn_close' \in [Workers -> BOOLEAN]
      /\ \A v \in Workers : v # w =>
            req'[v] = req[v] /\ body'[v] = body[v] /\ status'[v] = status[v]
  BY <1>1, <1>2
<1>4. ASSUME Smooth(fn[w])
      PROVE  n = done + 1 /\ Len(ks) = n /\ Len(t) = 1 + Parts(ks[n])
  <2>1. Fresh(Stream(w), ks, done)
    BY <1>1, <1>4, OrderFacts DEF TurnOf, Turn
  <2>2. Len(t) = Len(Stream(w)) - 1 /\ Len(Stream(w)) > 0 /\ Stream(w)[1] = Next_(w)
    BY <1>1, OneLess
  <2>3. /\ Len(ks) = done + 1 /\ Len(Stream(w)) = 2 + Parts(ks[done + 1])
        /\ Stream(w)[1] = Line(done + 1)
    BY <2>1, <2>2 DEF Fresh
  <2>4. n = done + 1
    BY <2>2, <2>3 DEF Line
  <2>5. ks[n] \in Kind
    <3>1. ks \in Seq(Kind) /\ DOMAIN ks = 1 .. Len(ks) /\ Len(ks) \in Nat /\ done \in Nat
      BY <1>1, OrderFacts
    <3>2. n \in DOMAIN ks
      BY <2>3, <2>4, <3>1
    <3>q. QED BY <3>1, <3>2
  <2>6. Parts(ks[n]) \in Nat
    BY <2>5, PartTypes
  <2>q. QED BY <2>2, <2>3, <2>4, <2>6
<1>5. CASE Goto(w, "respond") /\ status' = [status EXCEPT ![w] = 400]
  <2>1. status'[w] = 400 /\ 400 \notin Codes
    BY <1>2, <1>5 DEF Codes
  <2>2. Smooth(fn[w]) => Turn("respond", req'[w], ks, t, body'[w], status'[w], done)
    BY <1>3, <1>4, <2>1, TurnLoose
  <2>q. QED BY <1>1, <1>3, <1>5, <2>1, <2>2, OrderConsume
<1>6. CASE Goto(w, "longhdrs")
  <2>2. Smooth(fn[w]) => Turn("longhdrs", req'[w], ks, t, body'[w], status'[w], done)
    BY <1>3, <1>4, TurnLoose
  <2>q. QED BY <1>1, <1>3, <1>6, <2>2, OrderConsume
<1>7. CASE Goto(w, "hdrs")
  <2>2. Smooth(fn[w]) => Turn("hdrs", req'[w], ks, t, body'[w], status'[w], done)
    BY <1>3, <1>4 DEF Turn, OfRequest
  <2>q. QED BY <1>1, <1>3, <1>7, <2>2, OrderConsume
<1>q. QED BY <1>1, <1>5, <1>6, <1>7

LEMMA LeftoverOrder ==
    ASSUME ServerInv, ServerInv', StreamInv, OrderInv, NEW w \in Workers, Leftover(w)
    PROVE  OrderInv'
<1>1. /\ wpc[w] = "running" /\ stage[w] \in {"line", "glued"} /\ Consume(w)
      /\ UNCHANGED <<req, body, conn_close>>
      /\ stage[w] = "line" => Next_(w).part # "line"
      /\ \/ Goto(w, "respond") /\ status' = [status EXCEPT ![w] = 400]
         \/ Goto(w, "glued") /\ UNCHANGED status
  BY DEF Leftover, In, Answer
<1>2. ~Smooth(fn[w])
  <2> SUFFICES ASSUME Smooth(fn[w]) PROVE FALSE
    OBVIOUS
  <2>1. stage[w] = "line" /\ Fresh(Stream(w), asked[fn[w]], Len(resp[fn[w]]))
    BY <1>1, OrderFacts DEF TurnOf, Turn
  <2>2. Len(Stream(w)) > 0 /\ Stream(w)[1] = Next_(w)
    BY <1>1, OneLess
  <2>3. Next_(w) = Line(Len(resp[fn[w]]) + 1)
    BY <2>1, <2>2 DEF Fresh
  <2>q. QED BY <1>1, <2>1, <2>3 DEF Line
<1>3. status \in [Workers -> Nat] /\ conn_close \in [Workers -> BOOLEAN]
  BY DEF OrderInv, OrderTypes
<1>4. /\ status' \in [Workers -> Nat] /\ conn_close' \in [Workers -> BOOLEAN]
      /\ \A v \in Workers : v # w =>
            req'[v] = req[v] /\ body'[v] = body[v] /\ status'[v] = status[v]
  BY <1>1, <1>3
<1>5. CASE Goto(w, "respond") /\ status' = [status EXCEPT ![w] = 400]
  <2>1. status'[w] \notin Codes
    BY <1>3, <1>5 DEF Codes
  <2>q. QED BY <1>1, <1>2, <1>4, <1>5, <2>1, OrderConsume
<1>6. CASE Goto(w, "glued")
  BY <1>1, <1>2, <1>4, <1>6, OrderConsume
<1>q. QED BY <1>1, <1>5, <1>6

\* Where process_request goes after the headers: to a handler without a body only
\* if there is none to read.
LEMMA HeadersTurn ==
    ASSUME NEW k \in Kind, NEW n \in Nat, NEW ks, Len(ks) = n, ks[n] = k, NEW done, n = done + 1,
           NEW t, Len(t) = Parts(k)
    PROVE  Turn(ProcessHeaders(k).to, n, ks, t, <<>>, ProcessHeaders(k).code, done)
<1> DEFINE st == ProcessHeaders(k).to
           code == ProcessHeaders(k).code
<1>0. k.body \in Nat /\ k.len \in {"length", "chunked", "none"} /\ Parts(k) \in Nat
  BY PartTypes DEF Kind
<1>1. st \in {"skip", "dispatch", "body", "respond"}
  BY AfterHeaders
<1>2. st = "respond" => code \notin Codes
  BY DEF ProcessHeaders, Routing, ReadContentCore, PrepareContentReceiver, ReadContent, Do, Give,
         Codes
<1>3. (st = "dispatch" /\ BodyRead(k)) => Parts(k) = 0
  BY <1>0 DEF ProcessHeaders, Routing, ReadContentCore, PrepareContentReceiver, ReadContent, Do,
              Give, BodyRead, ExpectContent, Parts
<1>4. Parts(k) - Len(<<>>) = Parts(k)
  BY <1>0
<1> HIDE DEF st, code
<1>5. Turn(st, n, ks, t, <<>>, code, done)
  BY <1>1, <1>2, <1>3, <1>4 DEF Turn, OfRequest
<1>q. QED BY <1>5 DEF st, code

LEMMA ReadHeadersOrder ==
    ASSUME ServerInv, ServerInv', StreamInv, OrderInv, NEW w \in Workers, ReadHeaders(w)
    PROVE  OrderInv'
<1> DEFINE n == req[w]
           ks == asked[fn[w]]
           k == ks[n]
           done == Len(resp[fn[w]])
           t == Stream(w)'
<1>1. /\ wpc[w] = "running" /\ stage[w] \in {"hdrs", "longhdrs"} /\ Consume(w)
      /\ UNCHANGED <<req, body>>
      /\ IF stage[w] = "longhdrs"
         THEN /\ Goto(w, "respond") /\ status' = [status EXCEPT ![w] = 414]
              /\ UNCHANGED conn_close
         ELSE /\ conn_close' = [conn_close EXCEPT ![w] = k.close]
              /\ Goto(w, ProcessHeaders(k).to)
              /\ status' = [status EXCEPT ![w] = ProcessHeaders(k).code]
  BY DEF ReadHeaders, In, Answer, Follow
<1>2. status \in [Workers -> Nat] /\ conn_close \in [Workers -> BOOLEAN]
  BY DEF OrderInv, OrderTypes
<1>3. /\ ks \in Seq(Kind) /\ DOMAIN ks = 1 .. Len(ks) /\ Len(ks) \in Nat /\ done \in Nat
      /\ Placed(stage[w], n, ks, Used(handled, fn[w]), Stream(w), body[w])
      /\ Smooth(fn[w]) => TurnOf(w)
  BY <1>1, OrderFacts
<1>4. CASE stage[w] = "longhdrs"
  <2>1. /\ Goto(w, "respond") /\ status'[w] = 414 /\ 414 \notin Codes
        /\ status' \in [Workers -> Nat] /\ conn_close' \in [Workers -> BOOLEAN]
        /\ \A v \in Workers : v # w =>
              req'[v] = req[v] /\ body'[v] = body[v] /\ status'[v] = status[v]
    BY <1>1, <1>2, <1>4 DEF Codes
  <2>2. ASSUME Smooth(fn[w]) PROVE Turn("respond", req'[w], ks, t, body'[w], status'[w], done)
    <3>1. req'[w] = done + 1 /\ Len(ks) = req'[w]
      BY <1>1, <1>3, <1>4, <2>2 DEF TurnOf, Turn, OfRequest
    <3>q. QED BY <2>1, <3>1, TurnLoose
  <2>q. QED BY <1>1, <2>1, <2>2, OrderConsume
<1>5. CASE stage[w] = "hdrs"
  <2> DEFINE st == ProcessHeaders(k).to
             code == ProcessHeaders(k).code
  <2>1. n \in DOMAIN ks /\ body[w] = <<>>
    BY <1>3, <1>5 DEF Placed
  <2>2. k \in Kind /\ n \in Nat /\ k.close \in BOOLEAN
    <3>1. k \in Kind
      BY <1>3, <2>1
    <3>q. QED BY <1>3, <2>1, <3>1 DEF Kind
  <2>3. code \in Nat /\ (st = "respond" => code \notin Codes) /\ st # "keep"
    <3>1. code \in {0, 400, 415, 416} /\ (st = "respond" => code # 0) /\ st # "keep"
      BY DEF ProcessHeaders, Routing, ReadContentCore, PrepareContentReceiver, ReadContent, Do,
             Give
    <3>q. QED BY <3>1 DEF Codes
  <2> HIDE DEF st, code
  <2>4. Goto(w, st) /\ status' = [status EXCEPT ![w] = code]
        /\ conn_close' = [conn_close EXCEPT ![w] = k.close]
    BY <1>1, <1>5 DEF st, code
  <2>5. /\ status'[w] = code
        /\ status' \in [Workers -> Nat] /\ conn_close' \in [Workers -> BOOLEAN]
        /\ \A v \in Workers : v # w =>
              req'[v] = req[v] /\ body'[v] = body[v] /\ status'[v] = status[v]
    BY <1>1, <1>2, <2>2, <2>3, <2>4
  <2>6. ASSUME Smooth(fn[w]) PROVE Turn(st, req'[w], ks, t, body'[w], status'[w], done)
    <3>1. n = done + 1 /\ Len(ks) = n /\ Len(Stream(w)) = 1 + Parts(k)
      BY <1>3, <1>5, <2>6 DEF TurnOf, Turn, OfRequest
    <3>2. Len(t) = Parts(k)
      <4>1. Len(t) = Len(Stream(w)) - 1 /\ Parts(k) \in Nat
        BY <1>1, <2>2, OneLess, PartTypes
      <4>q. QED BY <3>1, <4>1
    <3> HIDE DEF t, n, k, ks, done
    <3>3. Turn(ProcessHeaders(k).to, n, ks, t, <<>>, ProcessHeaders(k).code, done)
      <4>1. ks[n] = k
        BY DEF k
      <4>q. QED BY <2>2, <3>1, <3>2, <4>1, HeadersTurn
    <3>4. req'[w] = n /\ body'[w] = <<>>
      BY <1>1, <2>1 DEF n
    <3>q. QED BY <2>5, <3>3, <3>4 DEF st, code
  <2>q. QED BY <1>1, <2>3, <2>4, <2>5, <2>6, OrderConsume
<1>q. QED BY <1>1, <1>4, <1>5

LEMMA ReadBodyOrder ==
    ASSUME ServerInv, ServerInv', StreamInv, OrderInv, NEW w \in Workers, ReadBody(w)
    PROVE  OrderInv'
<1> DEFINE s == Stream(w)
           t == Stream(w)'
           n == req[w]
           ks == asked[fn[w]]
           k == ks[n]
           b == body[w]
           c == body'[w]
           done == Len(resp[fn[w]])
<1>1. wpc[w] = "running" /\ Consume(w) /\ UNCHANGED <<req, conn_close>>
  BY DEF ReadBody, ReadContentWithLength, ReadContentChunked, ReadContentWithoutLength,
         SkipContentWithLength, Content, In
<1>2. /\ Len(t) = Len(s) - 1 /\ s[1] = Next_(w) /\ 1 \in DOMAIN s
  BY <1>1, OneLess
<1>3. /\ s \in Seq(PieceType) /\ b \in Seq(PieceType) /\ Len(b) \in Nat /\ Len(s) \in Nat
      /\ ks \in Seq(Kind) /\ n \in Nat /\ body \in [Workers -> Seq(PieceType)]
      /\ Placed(stage[w], n, ks, Used(handled, fn[w]), s, b)
      /\ Smooth(fn[w]) => Turn(stage[w], n, ks, s, b, status[w], done)
  BY <1>1, OrderFacts, ReaderFacts DEF TurnOf
<1>4. status \in [Workers -> Nat] /\ conn_close' \in [Workers -> BOOLEAN]
  BY <1>1 DEF OrderInv, OrderTypes
<1>5. /\ Receive(w) => Len(c) = Len(b) + 1 /\ \A v \in Workers : v # w => body'[v] = body[v]
      /\ UNCHANGED body => c = b /\ \A v \in Workers : v # w => body'[v] = body[v]
  <2>1. ASSUME Receive(w)
        PROVE  Len(c) = Len(b) + 1 /\ \A v \in Workers : v # w => body'[v] = body[v]
    <3>1. body' = [body EXCEPT ![w] = Append(b, Next_(w))]
      BY <2>1 DEF Receive
    <3>2. c = Append(b, Next_(w)) /\ \A v \in Workers : v # w => body'[v] = body[v]
      BY <1>3, <3>1
    <3>3. s[1] \in PieceType
      BY <1>2, <1>3
    <3>q. QED BY <1>2, <1>3, <3>2, <3>3, AppendProperties
  <2>q. QED BY <2>1
<1>6. ASSUME NEW st \in {"body", "dispatch", "skip", "respond"}, NEW code \in Nat,
             status' = [status EXCEPT ![w] = code], st = "respond" => code \notin Codes,
             Goto(w, st) \/ (UNCHANGED stage /\ st = stage[w]),
             \A v \in Workers : v # w => body'[v] = body[v],
             Smooth(fn[w]) => Turn(st, n, ks, t, c, code, done)
      PROVE  OrderInv'
  <2>1. /\ status' \in [Workers -> Nat] /\ st # "keep" /\ status'[w] = code
        /\ \A v \in Workers : v # w =>
              req'[v] = req[v] /\ body'[v] = body[v] /\ status'[v] = status[v]
    BY <1>1, <1>4, <1>6
  <2>2. Smooth(fn[w]) => Turn(st, req'[w], asked[fn[w]], Stream(w)', body'[w], status'[w],
                              Len(resp[fn[w]]))
    BY <1>1, <1>6, <2>1
  <2>q. QED BY <1>1, <1>4, <1>6, <2>1, <2>2, OrderConsume
<1>s. /\ status[w] \in Nat /\ (UNCHANGED status => status' = [status EXCEPT ![w] = status[w]])
      /\ 0 \in Nat /\ 413 \in Nat /\ 413 \notin Codes
  BY <1>4 DEF Codes
<1>f. ASSUME Follow(w, ContentRead(k))
      PROVE  \/ Goto(w, "dispatch") /\ status' = [status EXCEPT ![w] = 0]
             \/ Goto(w, "respond") /\ status' = [status EXCEPT ![w] = 413]
  BY <1>f DEF Follow, ContentRead, Do, Give
<1>e. ASSUME \A v \in Workers : v # w => body'[v] = body[v], Follow(w, ContentRead(k)),
             Smooth(fn[w]) => n = done + 1 /\ Len(ks) = n /\ Len(t) = 0
      PROVE  OrderInv'
  <2>1. CASE Goto(w, "dispatch") /\ status' = [status EXCEPT ![w] = 0]
    <3>1. Smooth(fn[w]) => Turn("dispatch", n, ks, t, c, 0, done)
      BY <1>e DEF Turn, OfRequest
    <3>q. QED BY <1>6, <1>e, <1>s, <2>1, <3>1
  <2>2. CASE Goto(w, "respond") /\ status' = [status EXCEPT ![w] = 413]
    <3>1. PICK code \in Nat \ Codes : status' = [status EXCEPT ![w] = code]
      BY <1>s, <2>2
    <3>2. Smooth(fn[w]) => Turn("respond", n, ks, t, c, code, done)
      BY <1>e, <3>1, TurnLoose
    <3>q. QED BY <1>6, <1>e, <2>2, <3>1, <3>2
  <2>q. QED BY <1>e, <1>f, <2>1, <2>2
<1>7. ASSUME stage[w] = "body", k.len # "none"
      PROVE  /\ Partial(n, k, s, b) /\ k \in Kind /\ k.body \in Nat /\ Parts(k) \in Nat
             /\ Smooth(fn[w]) => n = done + 1 /\ Len(ks) = n /\ Len(s) = Parts(k) - Len(b)
  <2>1. Partial(n, k, s, b) /\ n \in DOMAIN ks
    BY <1>3, <1>7 DEF Placed
  <2>2. k \in Kind
    BY <1>3, <2>1
  <2>3. Smooth(fn[w]) => n = done + 1 /\ Len(ks) = n /\ Len(s) = Parts(k) - Len(b)
    BY <1>3, <1>7 DEF Turn, OfRequest
  <2>q. QED BY <2>1, <2>2, <2>3, PartTypes
<1>8. ASSUME stage[w] = "body", k.len # "none", Len(c) = Len(b) + 1, Smooth(fn[w])
      PROVE  Len(t) = Parts(k) - Len(c)
  BY <1>2, <1>3, <1>7, <1>8
<1>9. CASE ReadContentWithLength(w)
  <2>1. /\ stage[w] = "body" /\ k.len = "length" /\ Receive(w)
        /\ IF Len(c) = k.body THEN Follow(w, ContentRead(k)) ELSE UNCHANGED <<stage, status>>
    BY <1>9 DEF ReadContentWithLength, Content, In, AllRead
  <2>2. Len(c) = Len(b) + 1 /\ \A v \in Workers : v # w => body'[v] = body[v]
    BY <1>5, <2>1
  <2>3. Smooth(fn[w]) => n = done + 1 /\ Len(ks) = n /\ Len(t) = Parts(k) - Len(c)
    BY <1>7, <1>8, <2>1, <2>2
  <2>4. CASE Len(c) = k.body
    <3>1. Parts(k) - Len(c) = 0
      BY <1>7, <2>1, <2>4 DEF Parts
    <3>q. QED BY <1>e, <2>1, <2>2, <2>3, <2>4, <3>1
  <2>5. CASE Len(c) # k.body
    <3>1. Smooth(fn[w]) => Turn("body", n, ks, t, c, status[w], done)
      BY <2>3 DEF Turn, OfRequest
    <3>q. QED BY <1>6, <1>s, <2>1, <2>2, <2>5, <3>1
  <2>q. QED BY <2>4, <2>5
<1>10. CASE ReadContentChunked(w)
  <2>1. /\ stage[w] = "body" /\ k.len = "chunked"
        /\ IF s[1].part = "last" THEN Follow(w, ContentRead(k)) /\ UNCHANGED body
           ELSE Receive(w) /\ UNCHANGED <<stage, status>>
    BY <1>2, <1>10 DEF ReadContentChunked, Content, In
  <2>2. CASE s[1].part = "last"
    <3>1. Len(b) = k.body
      <4> HIDE DEF s, b, k, n
      <4>q. QED BY <1>2, <1>3, <1>7, <2>1, <2>2, BodyEnd
    <3>2. ASSUME Smooth(fn[w]) PROVE Len(t) = 0
      <4>1. Len(s) = Parts(k) - Len(b) /\ k.body \in Nat
        BY <1>7, <2>1, <3>2
      <4>2. Parts(k) = k.body + 1
        BY <2>1 DEF Parts
      <4>q. QED BY <1>2, <3>1, <4>1, <4>2
    <3>3. Smooth(fn[w]) => n = done + 1 /\ Len(ks) = n /\ Len(t) = 0
      BY <1>7, <2>1, <3>2
    <3>q. QED BY <1>5, <1>e, <2>1, <2>2, <3>3
  <2>3. CASE s[1].part # "last"
    <3>1. Len(c) = Len(b) + 1 /\ \A v \in Workers : v # w => body'[v] = body[v]
      BY <1>5, <2>1, <2>3
    <3>2. Smooth(fn[w]) => n = done + 1 /\ Len(ks) = n /\ Len(t) = Parts(k) - Len(c)
      BY <1>7, <1>8, <2>1, <3>1
    <3>3. Smooth(fn[w]) => Turn("body", n, ks, t, c, status[w], done)
      BY <3>2 DEF Turn, OfRequest
    <3>q. QED BY <1>6, <1>s, <2>1, <2>3, <3>1, <3>3
  <2>q. QED BY <2>2, <2>3
<1>11. CASE ReadContentWithoutLength(w)
  <2>1. /\ stage[w] = "body" /\ k.len = "none" /\ Receive(w) /\ UNCHANGED <<stage, status>>
    BY <1>11 DEF ReadContentWithoutLength, Content, In
  <2>2. Smooth(fn[w]) => Turn("body", n, ks, t, c, status[w], done)
    BY <1>3, <2>1 DEF Turn, OfRequest
  <2>q. QED BY <1>5, <1>6, <1>s, <2>1, <2>2
<1>12. CASE SkipContentWithLength(w)
  <2>1. /\ stage[w] = "skip" /\ Receive(w)
        /\ Answer(w, 413) \/ UNCHANGED <<stage, status>>
    BY <1>12 DEF SkipContentWithLength, Content, In
  <2>2. Smooth(fn[w]) => n = done + 1 /\ Len(ks) = n
    BY <1>3, <2>1 DEF Turn, OfRequest
  <2>3. CASE UNCHANGED <<stage, status>>
    <3>1. Smooth(fn[w]) => Turn("skip", n, ks, t, c, status[w], done)
      BY <2>2, TurnLoose
    <3>q. QED BY <1>5, <1>6, <1>s, <2>1, <2>3, <3>1
  <2>4. CASE Answer(w, 413)
    <3>1. Goto(w, "respond") /\ status' = [status EXCEPT ![w] = 413]
      BY <2>4 DEF Answer
    <3>2. PICK code \in Nat \ Codes : status' = [status EXCEPT ![w] = code]
      BY <1>s, <3>1
    <3>3. Smooth(fn[w]) => Turn("respond", n, ks, t, c, code, done)
      BY <2>2, <3>2, TurnLoose
    <3>q. QED BY <1>5, <1>6, <2>1, <3>1, <3>2, <3>3
  <2>q. QED BY <2>1, <2>3, <2>4
<1>q. QED BY <1>9, <1>10, <1>11, <1>12 DEF ReadBody

LEMMA DispatchOrder ==
    ASSUME ServerInv, ServerInv', StreamInv, OrderInv, NEW w \in Workers, Dispatch(w)
    PROVE  OrderInv'
<1> DEFINE k == asked[fn[w]][req[w]]
<1>1. /\ wpc[w] = "running" /\ stage[w] = "dispatch" /\ Goto(w, "respond")
      /\ status' = [status EXCEPT ![w] = Routed(k)]
      /\ UNCHANGED <<poolVars, cst, client, sock, resp, buff, req, body, conn_close>>
  BY DEF Dispatch, In, Answer
<1>2. /\ req[w] \in DOMAIN asked[fn[w]] /\ k \in Kind
      /\ Smooth(fn[w]) => TurnOf(w)
  BY <1>1, OrderFacts DEF Placed
<1>3. Routed(k) \in Nat
  BY <1>2 DEF Routed, Kind
<1>4. Smooth(fn[w]) => Turn("respond", req[w], asked[fn[w]], Stream(w), body[w], Routed(k),
                            Len(resp[fn[w]]))
  BY <1>1, <1>2 DEF TurnOf, Turn, OfRequest
<1>q. QED BY <1>1, <1>2, <1>3, <1>4, OrderMove

\* Nothing to come: the buffer is empty as well.
LEMMA NothingLeft ==
    ASSUME ServerInv, NEW w \in Workers, wpc[w] = "running", Len(Stream(w)) = 0
    PROVE  buff[w] = <<>> /\ Coming(fn[w]) = <<>>
<1> DEFINE a == buff[w]
           b == Coming(fn[w])
<1>1. a \in Seq(PieceType) /\ b \in Seq(PieceType) /\ Len(a \o b) = 0
  BY StreamSeqs DEF Stream
<1> HIDE DEF a, b
<1>2. Len(a \o b) = Len(a) + Len(b) /\ Len(a) \in Nat /\ Len(b) \in Nat
  BY <1>1, ConcatElements
<1>3. Len(a) = 0 /\ Len(b) = 0
  BY <1>1, <1>2
<1>4. a = <<>> /\ b = <<>>
  BY <1>1, <1>3, EmptySeq
<1>q. QED BY <1>4 DEF a, b

\* The response answers the next request if everything before was settled.
LEMMA RespondOrder ==
    ASSUME ServerInv, ServerInv', StreamInv, OrderInv, NEW w \in Workers, Respond(w)
    PROVE  OrderInv'
<1>c. PICK c \in Conns : c = fn[w]
  BY Serves DEF Respond, In
<1> DEFINE r == [of |-> req[w], status |-> status[w],
                 close |-> CloseConnection(w) \/ conn_close[w]]
           done == Len(resp[c])
           ks == asked[c]
<1>1. /\ wpc[w] = "running" /\ stage[w] = "respond"
      /\ UNCHANGED <<wpc, fn, cst, asked, unsent, gone, sock, buff, req, body, status, conn_close>>
      /\ resp' = IF Writable(c) THEN [resp EXCEPT ![c] = Append(@, r)] ELSE resp
      /\ \E st \in {"close", "keep"} : Goto(w, st)
  BY <1>c DEF Respond, In, poolVars, client
<1>2. PICK st \in {"close", "keep"} : Goto(w, st)
  BY <1>1
<1>3. stage'[w] = st /\ \A v \in Workers : v # w => stage'[v] = stage[v]
  BY <1>2 DEF Goto, ServerInv, Tracked, OpenTracked, TypeOK
<1>4. /\ resp \in [Conns -> Seq(Response)] /\ status \in [Workers -> Nat]
      /\ conn_close \in [Workers -> BOOLEAN] /\ req \in [Workers -> Nat]
      /\ gone \in [Conns -> BOOLEAN]
      /\ status[w] \in Codes => req[w] \in DOMAIN ks
  BY <1>1, <1>c DEF OrderInv, OrderTypes, StreamInv, StreamTypes
<1>w. \A d \in Conns : Writable(d)' <=> Writable(d)
  BY <1>1 DEF Writable
<1>5. CASE ~Writable(c)
  <2>1. resp' = resp /\ ~Smooth(fn[w]) /\ stage'[w] # "respond" /\ ~Writable(fn[w])'
    BY <1>1, <1>2, <1>3, <1>5, <1>c, <1>w DEF Smooth
  <2>q. QED BY <1>1, <1>3, <1>4, <2>1, OrderStep
<1>6. CASE Writable(c)
  <2>1. r \in Response /\ r.of = req[w] /\ r.status = status[w]
    BY <1>4 DEF Response, CloseConnection
  <2> HIDE DEF r
  <2>2. /\ resp[c] \in Seq(Response)
        /\ resp'[c] = Append(resp[c], r) /\ \A d \in Conns : d # c => resp'[d] = resp[d]
    BY <1>1, <1>4, <1>6
  <2>3. /\ resp'[c] \in Seq(Response) /\ done \in Nat
        /\ DOMAIN resp[c] = 1 .. done /\ DOMAIN resp'[c] = 1 .. done + 1
        /\ Len(resp'[c]) = done + 1
        /\ \A i \in DOMAIN resp[c] : resp'[c][i] = resp[c][i]
        /\ resp'[c][done + 1] = r
    BY <2>1, <2>2, Pushed
  <2>4. \A i \in DOMAIN resp'[c] : i \in DOMAIN resp[c] \/ i = done + 1
    BY <2>3
  <2>5. Smooth(c) => TurnOf(w)
    BY <1>1, <1>c, OrderFacts
  <2>6. OrderTypes'
    <3>1. resp' \in [Conns -> Seq(Response)]
      BY <1>1, <1>4, <1>6, <2>2, <2>3
    <3>2. ASSUME NEW d \in Conns, NEW m \in DOMAIN resp'[d], Dispatched(resp'[d][m])
          PROVE  resp'[d][m].of \in DOMAIN asked'[d]
      <4>1. CASE d = c
        <5>1. CASE m \in DOMAIN resp[c]
          BY <1>1, <2>3, <3>2, <4>1, <5>1 DEF OrderInv, OrderTypes
        <5>2. CASE m = done + 1
          BY <1>1, <1>4, <2>1, <2>3, <3>2, <4>1, <5>2 DEF Dispatched, Codes
        <5>q. QED BY <2>4, <4>1, <5>1, <5>2
      <4>2. CASE d # c
        BY <1>1, <2>2, <3>2, <4>2 DEF OrderInv, OrderTypes
      <4>q. QED BY <4>1, <4>2
    <3>3. \A v \in Workers : (stage'[v] = "respond" /\ status'[v] \in Codes) =>
            req'[v] \in DOMAIN asked'[fn'[v]]
      BY <1>1, <1>2, <1>3 DEF OrderInv, OrderTypes
    <3>q. QED BY <1>1, <1>4, <3>1, <3>2, <3>3 DEF OrderTypes
  <2>7. InOrder'
    <3> SUFFICES ASSUME NEW d \in Conns, NEW n \in DOMAIN resp'[d],
                        \A m \in 1 .. n - 1 : Settled(d, resp[d][m])'
                 PROVE  resp'[d][n].of = n
      BY DEF InOrder
    <3>0. \A m \in 1 .. n - 1 :
            Dispatched(resp'[d][m]) /\ BodyRead(asked[d][resp'[d][m].of])
      BY <1>1 DEF Settled
    <3>1. CASE d # c
      <4>1. resp'[d] = resp[d]
        BY <2>2, <3>1
      <4>2. \A m \in 1 .. n - 1 : Settled(d, resp[d][m])
        BY <3>0, <4>1 DEF Settled
      <4>q. QED BY <4>1, <4>2 DEF OrderInv, InOrder
    <3>2. CASE d = c /\ n \in DOMAIN resp[c]
      <4>1. \A m \in 1 .. n - 1 : m \in DOMAIN resp[c]
        BY <2>3, <3>2
      <4>2. \A m \in 1 .. n - 1 : Settled(c, resp[c][m])
        BY <2>3, <3>0, <3>2, <4>1 DEF Settled
      <4>3. resp[c][n].of = n
        BY <3>2, <4>2 DEF OrderInv, InOrder
      <4>q. QED BY <2>3, <3>2, <4>3
    <3>3. CASE d = c /\ n = done + 1
      <4>1. \A m \in DOMAIN resp[c] : m \in 1 .. n - 1
        BY <2>3, <3>3
      <4>2. \A m \in DOMAIN resp[c] : Settled(c, resp[c][m])
        BY <2>3, <3>0, <3>3, <4>1 DEF Settled
      <4>3. TurnOf(w)
        BY <1>6, <2>5, <4>2 DEF Smooth
      <4>4. req[w] = done + 1
        BY <1>1, <1>c, <4>3 DEF TurnOf, Turn, OfRequest
      <4>q. QED BY <2>1, <2>3, <3>3, <4>4
    <3>q. QED BY <2>4, <3>1, <3>2, <3>3
  <2>8. ASSUME NEW d \in Conns, Unserved(d)'
        PROVE  resp'[d] = <<>> /\ (Writable(d)' => Fresh(Coming(d)', asked'[d], 0))
    <3>1. Unserved(d) /\ d # c
      BY <1>1, <1>c, <2>8 DEF Unserved
    <3>2. Coming(d)' = Coming(d) /\ resp'[d] = resp[d]
      BY <1>1, <2>2, <3>1 DEF Coming
    <3>q. QED BY <1>1, <1>w, <3>1, <3>2 DEF OrderInv
  <2>9. ASSUME NEW v \in Workers, wpc'[v] = "running", Smooth(fn[v])'
        PROVE  TurnOf(v)'
    <3>1. CASE v = w
      <4>1. \A m \in DOMAIN resp'[c] : Dispatched(resp'[c][m]) /\ BodyRead(ks[resp'[c][m].of])
        BY <1>1, <1>c, <2>9, <3>1 DEF Smooth, Settled
      <4>2. Smooth(c)
        BY <1>6, <2>3, <2>4, <4>1 DEF Smooth, Settled
      <4>3. TurnOf(w)
        BY <2>5, <4>2
      <4>4. req[w] = done + 1 /\ Len(ks) = done + 1
        BY <1>1, <1>c, <4>3 DEF TurnOf, Turn, OfRequest
      <4>5. Dispatched(r) /\ BodyRead(ks[r.of])
        <5>1. done + 1 \in DOMAIN resp'[c]
          BY <2>3
        <5>q. QED BY <2>3, <4>1, <5>1
      <4>6. status[w] \in Codes /\ BodyRead(ks[req[w]])
        BY <2>1, <4>5 DEF Dispatched, Codes
      <4>7. Len(Stream(w)) = 0
        BY <1>1, <1>c, <4>3, <4>6 DEF TurnOf, Turn
      <4>8. buff[w] = <<>>
        BY <1>1, <4>7, NothingLeft
      <4>9. Stream(w)' = Stream(w)
        BY <1>1 DEF Stream, Coming
      <4>10. Fresh(Stream(w), ks, done + 1)
        BY <4>4, <4>7 DEF Fresh
      <4>11. Turn(st, req[w], ks, Stream(w), body[w], status[w], done + 1)
        BY <4>10 DEF Turn, OfRequest
      <4>q. QED BY <1>1, <1>c, <1>3, <2>3, <3>1, <4>8, <4>9, <4>11 DEF TurnOf
    <3>2. CASE v # w
      <4>1. wpc[v] = "running" /\ fn[v] \in Conns /\ fn[v] # c
        BY <1>1, <1>c, <2>9, <3>2, Serves DEF ServerInv, Tracked, OpenTracked
      <4>2. Stream(v)' = Stream(v) /\ resp'[fn[v]] = resp[fn[v]]
        BY <1>1, <2>2, <4>1 DEF Stream, Coming
      <4>3. Smooth(fn[v])
        BY <1>1, <1>w, <2>9, <4>1, <4>2 DEF Smooth, Settled
      <4>4. TurnOf(v)
        BY <4>1, <4>3 DEF OrderInv
      <4>q. QED BY <1>1, <1>3, <3>2, <4>2, <4>4 DEF TurnOf
    <3>q. QED BY <3>1, <3>2
  <2>10. \A d \in Conns : Unserved(d)' =>
            resp'[d] = <<>> /\ (Writable(d)' => Fresh(Coming(d)', asked'[d], 0))
    BY <2>8
  <2>11. \A v \in Workers : (wpc'[v] = "running" /\ Smooth(fn[v])') => TurnOf(v)'
    BY <2>9
  <2>q. QED BY <2>6, <2>7, <2>10, <2>11 DEF OrderInv
<1>q. QED BY <1>5, <1>6

LEMMA ServeOrder ==
    ASSUME ServerInv, ServerInv', StreamInv, OrderInv, NEW w \in Workers, Serve(w)
    PROVE  OrderInv'
<1>1. CASE KeepAliveEnd(w)
  <2>1. PICK st : st = "close"
    OBVIOUS
  <2>2. PICK code \in Nat : code = status[w]
    BY DEF OrderInv, OrderTypes
  <2>3. /\ wpc[w] = "running" /\ Goto(w, st) /\ st # "keep" /\ st # "respond"
        /\ UNCHANGED <<poolVars, cst, client, sock, resp, buff, req, body, conn_close>>
    BY <1>1, <2>1 DEF KeepAliveEnd, In
  <2>4. status' = [status EXCEPT ![w] = code]
    BY <1>1, <2>2 DEF KeepAliveEnd, OrderInv, OrderTypes
  <2>5. Turn(st, req[w], asked[fn[w]], Stream(w), body[w], code, Len(resp[fn[w]]))
    BY <2>1, TurnLoose
  <2>q. QED BY <2>3, <2>4, <2>5, OrderMove
<1>q. QED BY <1>1, KeepAliveOrder, RecvOrder, ReadFailsOrder, RequestLineOrder, LeftoverOrder,
             ReadHeadersOrder, ReadBodyOrder, DispatchOrder, RespondOrder DEF Serve

\* Steps that leave alone what is to come and those who read it.
LEMMA OrderAlone ==
    ASSUME ServerInv, OrderInv,
           UNCHANGED <<asked, resp, buff, req, body, stage, status, conn_close, fn>>,
           \A d \in Conns : Coming(d)' = Coming(d),
           gone' \in [Conns -> BOOLEAN], \A d \in Conns : Writable(d)' => Writable(d),
           \A d \in Conns : cst'[d] # "closed" => cst[d] # "closed",
           \A v \in Workers : (wpc'[v] = "running") <=> (wpc[v] = "running")
    PROVE  OrderInv'
<1>1. OrderTypes'
  BY DEF OrderInv, OrderTypes
<1>2. InOrder'
  BY DEF OrderInv, InOrder, Settled
<1>3. ASSUME NEW d \in Conns, Unserved(d)'
      PROVE  resp'[d] = <<>> /\ (Writable(d)' => Fresh(Coming(d)', asked'[d], 0))
  <2>1. Unserved(d)
    BY <1>3 DEF Unserved
  <2>q. QED BY <2>1 DEF OrderInv
<1>4. ASSUME NEW v \in Workers, wpc'[v] = "running", Smooth(fn[v])'
      PROVE  TurnOf(v)'
  <2>1. PICK d \in Conns : d = fn[v] /\ fn'[v] = d
    BY <1>4, Serves
  <2>2. Smooth(fn[v])
    BY <1>4, <2>1 DEF Smooth, Settled
  <2>3. TurnOf(v)
    BY <1>4, <2>2 DEF OrderInv
  <2>4. Stream(v)' = Stream(v)
    <3>1. Stream(v)' = buff[v] \o Coming(d)' /\ Stream(v) = buff[v] \o Coming(d)
      BY <2>1 DEF Stream, Coming
    <3>q. QED BY <3>1
  <2>q. QED BY <2>3, <2>4 DEF TurnOf
<1>5. \A d \in Conns : Unserved(d)' =>
        resp'[d] = <<>> /\ (Writable(d)' => Fresh(Coming(d)', asked'[d], 0))
  BY <1>3
<1>6. \A v \in Workers : (wpc'[v] = "running" /\ Smooth(fn[v])') => TurnOf(v)'
  BY <1>4
<1>q. QED BY <1>1, <1>2, <1>5, <1>6 DEF OrderInv

\* A worker begins with a connection: nobody has read from it.
LEMMA TakeOrder ==
    ASSUME ServerInv, ServerInv', StreamInv, OrderInv, NEW w \in Workers, TakeConn(w)
    PROVE  OrderInv'
<1> DEFINE c == Head(jobs)
<1>1. /\ wpc[w] = "lock" /\ jobs # <<>> /\ fn' = [fn EXCEPT ![w] = c]
      /\ wpc' = [wpc EXCEPT ![w] = "running"] /\ stage' = [stage EXCEPT ![w] = "keep"]
      /\ UNCHANGED <<asked, unsent, gone, cst, sock, resp, buff, req, body, status, conn_close>>
  BY DEF TakeConn, Take, client
<1>2. /\ jobs \in Seq(Conns) /\ fn \in [Workers -> Conns \cup {NoJob}]
      /\ wpc \in [Workers -> {"lock", "asleep", "running", "gone"}]
      /\ stage \in [Workers -> Stages]
  BY DEF ServerInv, Tracked, OpenTracked, TypeOK
<1>3. c \in Conns /\ Unserved(c)
  <2>1. c \in Conns /\ 1 \in Queued /\ jobs[1] = c
    <3>1. c \in Conns
      BY <1>1, <1>2, Popped
    <3>2. Len(jobs) \in Nat /\ DOMAIN jobs = 1 .. Len(jobs) /\ Len(jobs) # 0
      BY <1>1, <1>2, LenProperties, EmptySeq
    <3>q. QED BY <1>2, <3>1, <3>2 DEF Queued
  <2> HIDE DEF c
  <2>2. cst[c] = "open" /\ \A v \in Workers : fn[v] # c
    BY <2>1 DEF ServerInv, Tracked, OpenTracked
  <2>q. QED BY <2>1, <2>2 DEF Unserved
<1> HIDE DEF c
<1>4. /\ fn'[w] = c /\ wpc'[w] = "running" /\ stage'[w] = "keep"
      /\ \A v \in Workers : v # w => fn'[v] = fn[v] /\ wpc'[v] = wpc[v] /\ stage'[v] = stage[v]
  BY <1>1, <1>2
<1>5. Coming(c) \in Seq(PieceType) /\ buff[w] = <<>>
  BY <1>1, <1>3, StreamSeqs DEF StreamInv, StreamTypes
<1>6. \A d \in Conns : Coming(d)' = Coming(d)
  BY <1>1 DEF Coming
<1>7. \A v \in Workers : v # w => fn[v] # c
  BY <1>3 DEF Unserved
<1>w. \A d \in Conns : Writable(d)' <=> Writable(d)
  BY <1>1 DEF Writable
<1>8. OrderTypes'
  <2>1. \A v \in Workers : (stage'[v] = "respond" /\ status'[v] \in Codes) =>
            req'[v] \in DOMAIN asked'[fn'[v]]
    BY <1>1, <1>4 DEF OrderInv, OrderTypes
  <2>q. QED BY <1>1, <2>1 DEF OrderInv, OrderTypes
<1>9. InOrder'
  BY <1>1 DEF OrderInv, InOrder, Settled
<1>10. ASSUME NEW d \in Conns, Unserved(d)'
       PROVE  resp'[d] = <<>> /\ (Writable(d)' => Fresh(Coming(d)', asked'[d], 0))
  <2>1. d # c
    BY <1>4, <1>10 DEF Unserved
  <2>2. Unserved(d)
    <3>1. fn[w] # d
      <4>1. fn[w] = NoJob
        BY <1>1 DEF ServerInv, Tracked, MoreTypes
      <4>q. QED BY <4>1, PoolAssumption DEF Conns
    <3>q. QED BY <1>1, <1>4, <1>10, <3>1 DEF Unserved
  <2>q. QED BY <1>1, <1>6, <1>w, <2>2 DEF OrderInv
<1>11. ASSUME NEW v \in Workers, wpc'[v] = "running", Smooth(fn[v])'
       PROVE  TurnOf(v)'
  <2>1. CASE v = w
    <3>1. Stream(w)' = <<>> \o Coming(c) /\ <<>> \o Coming(c) = Coming(c)
      BY <1>1, <1>4, <1>5, ConcatEmptySeq DEF Stream, Coming
    <3>2. Writable(c)
      BY <1>3, <1>4, <1>11, <1>w, <2>1 DEF Smooth
    <3>3. resp[c] = <<>> /\ Fresh(Coming(c), asked[c], 0)
      BY <1>3, <3>2 DEF OrderInv
    <3>4. Len(resp[c]) = 0
      BY <3>3
    <3>5. Turn("keep", req[w], asked[c], Coming(c), body[w], status[w], 0)
      BY <3>3 DEF Turn, OfRequest
    <3>q. QED BY <1>1, <1>4, <1>5, <2>1, <3>1, <3>4, <3>5 DEF TurnOf
  <2>2. CASE v # w
    <3>1. wpc[v] = "running" /\ fn'[v] = fn[v] /\ fn[v] \in Conns
      BY <1>4, <1>11, <2>2, Serves
    <3>2. Smooth(fn[v])
      BY <1>1, <1>11, <1>w, <3>1 DEF Smooth, Settled
    <3>3. TurnOf(v)
      BY <3>1, <3>2 DEF OrderInv
    <3>4. Stream(v)' = Stream(v)
      BY <1>1, <3>1 DEF Stream, Coming
    <3>q. QED BY <1>1, <1>4, <2>2, <3>1, <3>3, <3>4 DEF TurnOf
  <2>q. QED BY <2>1, <2>2
<1>12. \A d \in Conns : Unserved(d)' =>
        resp'[d] = <<>> /\ (Writable(d)' => Fresh(Coming(d)', asked'[d], 0))
  BY <1>10
<1>13. \A v \in Workers : (wpc'[v] = "running" /\ Smooth(fn[v])') => TurnOf(v)'
  BY <1>11
<1>q. QED BY <1>8, <1>9, <1>12, <1>13 DEF OrderInv

LEMMA CloseOrder ==
    ASSUME ServerInv, ServerInv', StreamInv, OrderInv, NEW w \in Workers, CloseSocket(w)
    PROVE  OrderInv'
<1>c. PICK c \in Conns : c = fn[w]
  BY Serves DEF CloseSocket, Finish
<1>1. /\ wpc[w] = "running" /\ fn' = [fn EXCEPT ![w] = NoJob]
      /\ wpc' = [wpc EXCEPT ![w] = "lock"] /\ stage' = [stage EXCEPT ![w] = "idle"]
      /\ buff' = [buff EXCEPT ![w] = <<>>] /\ req' = [req EXCEPT ![w] = 0]
      /\ body' = [body EXCEPT ![w] = <<>>] /\ sock' = [sock EXCEPT ![c] = <<>>]
      /\ status' = [status EXCEPT ![w] = 0] /\ conn_close' = [conn_close EXCEPT ![w] = FALSE]
      /\ cst' = [cst EXCEPT ![c] = "closed"]
      /\ UNCHANGED <<asked, unsent, gone, resp>>
  BY <1>c DEF CloseSocket, Finish, In, NewStream, client
<1>u. UNCHANGED <<asked, unsent, gone, resp>>
  BY <1>1
<1>2. /\ fn \in [Workers -> Conns \cup {NoJob}]
      /\ wpc \in [Workers -> {"lock", "asleep", "running", "gone"}]
      /\ stage \in [Workers -> Stages] /\ buff \in [Workers -> Seq(PieceType)]
      /\ sock \in [Conns -> Seq(PieceType)]
      /\ cst \in [Conns -> {"new", "backlog", "open", "closed"}]
      /\ req \in [Workers -> Nat] /\ body \in [Workers -> Seq(PieceType)]
      /\ status \in [Workers -> Nat] /\ conn_close \in [Workers -> BOOLEAN]
  BY DEF ServerInv, Tracked, OpenTracked, TypeOK, StreamInv, StreamTypes, OrderInv, OrderTypes
<1>3. /\ wpc'[w] = "lock" /\ stage'[w] = "idle" /\ cst'[c] = "closed"
      /\ status' \in [Workers -> Nat] /\ conn_close' \in [Workers -> BOOLEAN]
      /\ \A v \in Workers : v # w =>
            /\ fn'[v] = fn[v] /\ wpc'[v] = wpc[v] /\ stage'[v] = stage[v]
            /\ buff'[v] = buff[v] /\ req'[v] = req[v] /\ body'[v] = body[v]
            /\ status'[v] = status[v]
      /\ \A d \in Conns : d # c => sock'[d] = sock[d] /\ cst'[d] = cst[d]
  BY <1>1, <1>2
<1>w. \A d \in Conns : d # c => (Writable(d)' <=> Writable(d))
  BY <1>1, <1>3 DEF Writable
<1>4. \A v \in Workers : v # w => fn[v] # c
  BY <1>1, <1>c, Serves DEF ServerInv, Tracked, OpenTracked
<1>5. OrderTypes'
  <2>1. \A v \in Workers : (stage'[v] = "respond" /\ status'[v] \in Codes) =>
            req'[v] \in DOMAIN asked'[fn'[v]]
    BY <1>1, <1>3 DEF OrderInv, OrderTypes
  <2>q. QED BY <1>1, <1>3, <2>1 DEF OrderInv, OrderTypes
<1>6. InOrder'
  BY <1>1 DEF OrderInv, InOrder, Settled
<1>7. ASSUME NEW d \in Conns, Unserved(d)'
      PROVE  resp'[d] = <<>> /\ (Writable(d)' => Fresh(Coming(d)', asked'[d], 0))
  <2>1. d # c
    BY <1>3, <1>7 DEF Unserved
  <2>2. Unserved(d)
    <3>1. \A v \in Workers : fn[v] # d
      BY <1>3, <1>7, <1>c, <2>1 DEF Unserved
    <3>q. QED BY <1>3, <1>7, <2>1, <3>1 DEF Unserved
  <2>3. Coming(d)' = Coming(d)
    BY <1>3, <1>u, <2>1 DEF Coming
  <2>q. QED BY <1>u, <1>w, <2>1, <2>2, <2>3 DEF OrderInv
<1>8. ASSUME NEW v \in Workers, wpc'[v] = "running", Smooth(fn[v])'
      PROVE  TurnOf(v)'
  <2>1. v # w
    BY <1>3, <1>8
  <2>2. wpc[v] = "running" /\ fn'[v] = fn[v] /\ fn[v] \in Conns /\ fn[v] # c
    BY <1>3, <1>4, <1>8, <2>1, Serves
  <2>3. Smooth(fn[v])
    BY <1>8, <1>u, <1>w, <2>2 DEF Smooth, Settled
  <2>4. TurnOf(v)
    BY <2>2, <2>3 DEF OrderInv
  <2>5. Stream(v)' = Stream(v)
    BY <1>3, <1>u, <2>1, <2>2 DEF Stream, Coming
  <2>q. QED BY <1>3, <1>u, <2>1, <2>2, <2>4, <2>5 DEF TurnOf
<1>9. \A d \in Conns : Unserved(d)' =>
        resp'[d] = <<>> /\ (Writable(d)' => Fresh(Coming(d)', asked'[d], 0))
  BY <1>7
<1>10. \A v \in Workers : (wpc'[v] = "running" /\ Smooth(fn[v])') => TurnOf(v)'
  BY <1>8
<1>q. QED BY <1>5, <1>6, <1>9, <1>10 DEF OrderInv

\* A request behind nothing.
LEMMA FreshAsk ==
    ASSUME NEW ks \in Seq(Kind), NEW k \in Kind
    PROVE  Fresh(Sent(Len(ks) + 1, k), Append(ks, k), Len(ks))
<1> DEFINE n == Len(ks) + 1
           s == Sent(n, k)
           l == Append(ks, k)
<1>1. n \in Nat /\ Len(ks) \in Nat /\ Len(l) = n /\ l[n] = k
  BY Pushed
<1>2. Len(s) = Parts(k) + 2 /\ s[1] = Line(n) /\ Parts(k) \in Nat
  BY <1>1, SentParts, PartTypes
<1> HIDE DEF s, l
<1>3. Fresh(s, l, Len(ks))
  BY <1>1, <1>2 DEF Fresh
<1>q. QED BY <1>3 DEF s, l

\* A client asks when it has all its responses: nothing is left to be read.
LEMMA AskOrder ==
    ASSUME ServerInv, ServerInv', StreamInv, OrderInv, NEW c \in Conns, Ask(c)
    PROVE  OrderInv'
<1> DEFINE ks == asked[c]
<1>1. /\ UNCHANGED <<wpc, fn, cst, gone, resp, buff, req, body, stage, status, conn_close>>
      /\ ~gone[c] /\ Len(resp[c]) >= Len(ks)
  BY DEF Ask, MayAsk, poolVars, local
<1>2. PICK k \in Kind : /\ asked'[c] = Append(ks, k)
                        /\ Coming(c)' = Coming(c) \o Sent(Len(ks) + 1, k)
  BY AskSends
<1>3. \A d \in Conns : d # c => asked'[d] = asked[d] /\ Coming(d)' = Coming(d)
  BY AskSends
<1>w. \A d \in Conns : /\ d # c => (Writable(d)' <=> Writable(d))
                      /\ Writable(c)' /\ Writable(c)
  <2>1. \A d \in Conns : d # c => sock'[d] = sock[d]
    BY StreamSeqs DEF Ask, ServerInv, Tracked, OpenTracked, TypeOK
  <2>q. QED BY <1>1, <2>1 DEF Writable
<1>4. /\ ks \in Seq(Kind) /\ Len(ks) \in Nat /\ resp[c] \in Seq(Response)
      /\ Len(resp[c]) \in Nat
  <2>1. ks \in Seq(Kind) /\ resp[c] \in Seq(Response)
    BY StreamSeqs DEF OrderInv, OrderTypes
  <2>q. QED BY <2>1, LenProperties
<1>5. Sent(Len(ks) + 1, k) \in Seq(PieceType) /\ Fresh(Sent(Len(ks) + 1, k), asked'[c], Len(ks))
  <2> HIDE DEF ks
  <2>1. Len(ks) + 1 \in Nat
    BY <1>4
  <2>2. Sent(Len(ks) + 1, k) \in Seq(PieceType)
    BY <2>1, SentParts
  <2>3. Fresh(Sent(Len(ks) + 1, k), Append(ks, k), Len(ks))
    BY <1>4, FreshAsk
  <2>q. QED BY <1>2, <2>2, <2>3
<1>6. \A d \in Conns : \A i \in DOMAIN asked[d] :
        i \in DOMAIN asked'[d] /\ asked'[d][i] = asked[d][i]
  <2>1. \A i \in DOMAIN ks : i \in DOMAIN asked'[c] /\ asked'[c][i] = ks[i]
    BY <1>2, <1>4, Pushed
  <2>q. QED BY <1>3, <2>1
<1>7. ASSUME NEW d \in Conns, NEW m \in DOMAIN resp[d]
      PROVE  /\ Settled(d, resp[d][m])' => Settled(d, resp[d][m])
             /\ Dispatched(resp[d][m]) => resp[d][m].of \in DOMAIN asked'[d]
  <2>1. Dispatched(resp[d][m]) => resp[d][m].of \in DOMAIN asked[d]
    BY DEF OrderInv, OrderTypes
  <2>q. QED BY <1>1, <1>6, <2>1 DEF Settled
<1>8. OrderTypes'
  <2>1. resp \in [Conns -> Seq(Response)] /\ gone \in [Conns -> BOOLEAN]
        /\ status \in [Workers -> Nat] /\ conn_close \in [Workers -> BOOLEAN]
    BY DEF OrderInv, OrderTypes
  <2>2. ASSUME NEW v \in Workers, stage'[v] = "respond", status'[v] \in Codes
        PROVE  req'[v] \in DOMAIN asked'[fn'[v]]
    <3>1. req[v] \in DOMAIN asked[fn[v]]
      BY <1>1, <2>2 DEF OrderInv, OrderTypes
    <3>2. fn[v] \in Conns
      BY <1>1, <2>2 DEF ServerInv, Tracked, OpenTracked, TypeOK, MoreTypes
    <3>q. QED BY <1>1, <1>6, <3>1, <3>2
  <2>q. QED BY <1>1, <1>7, <2>1, <2>2 DEF OrderTypes
<1>9. InOrder'
  <2> SUFFICES ASSUME NEW d \in Conns, NEW n \in DOMAIN resp[d],
                      \A m \in 1 .. n - 1 : Settled(d, resp[d][m])'
               PROVE  resp[d][n].of = n
    BY <1>1 DEF InOrder
  <2>1. \A m \in 1 .. n - 1 : m \in DOMAIN resp[d]
    <3>1. resp[d] \in Seq(Response)
      BY DEF OrderInv, OrderTypes
    <3>2. DOMAIN resp[d] = 1 .. Len(resp[d]) /\ Len(resp[d]) \in Nat
      BY <3>1, LenProperties
    <3>q. QED BY <3>2
  <2>2. \A m \in 1 .. n - 1 : Settled(d, resp[d][m])
    BY <1>7, <2>1
  <2>q. QED BY <2>2 DEF OrderInv, InOrder
<1>10. ASSUME NEW d \in Conns, Unserved(d)'
       PROVE  resp'[d] = <<>> /\ (Writable(d)' => Fresh(Coming(d)', asked'[d], 0))
  <2>1. Unserved(d)
    BY <1>1, <1>10 DEF Unserved
  <2>2. resp[d] = <<>> /\ (Writable(d) => Fresh(Coming(d), asked[d], 0))
    BY <2>1 DEF OrderInv
  <2>3. CASE d = c
    <3>1. Len(resp[c]) = 0
      BY <2>2, <2>3
    <3>2. Len(ks) = 0 /\ Fresh(Coming(c), ks, 0)
      BY <1>1, <1>4, <1>w, <2>2, <2>3, <3>1
    <3>3. Coming(c) = <<>>
      <4>1. Coming(c) \in Seq(PieceType)
        BY StreamSeqs
      <4>2. Len(Coming(c)) = 0
        BY <3>2 DEF Fresh
      <4>q. QED BY <4>1, <4>2, EmptySeq
    <3>4. Coming(c)' = Sent(Len(ks) + 1, k)
      BY <1>2, <1>5, <3>3, ConcatEmptySeq
    <3>q. QED BY <1>1, <1>5, <2>2, <2>3, <3>2, <3>4
  <2>4. CASE d # c
    BY <1>1, <1>3, <1>w, <2>2, <2>4
  <2>q. QED BY <2>3, <2>4
<1>11. ASSUME NEW v \in Workers, wpc'[v] = "running", Smooth(fn[v])'
       PROVE  TurnOf(v)'
  <2>1. wpc[v] = "running" /\ fn[v] \in Conns /\ stage[v] \in Stages
    BY <1>1, <1>11, Serves
  <2>2. Smooth(fn[v])
    BY <1>1, <1>7, <1>11, <1>w, <2>1 DEF Smooth
  <2>3. TurnOf(v)
    BY <2>1, <2>2 DEF OrderInv
  <2>4. PICK d \in Conns : d = fn[v]
    BY <2>1
  <2>5. Stream(v)' = buff[v] \o Coming(d)'
    BY <1>1, <2>4 DEF Stream, Coming
  <2>6. CASE d # c
    <3>1. Stream(v)' = Stream(v) /\ asked'[d] = asked[d]
      BY <1>3, <2>4, <2>5, <2>6 DEF Stream
    <3>q. QED BY <1>1, <2>3, <2>4, <3>1 DEF TurnOf
  <2>7. CASE d = c
    <3> DEFINE done == Len(resp[c])
    <3>1. /\ Turn(stage[v], req[v], ks, Stream(v), body[v], status[v], done)
          /\ stage[v] = "keep" => buff[v] = <<>>
      BY <2>3, <2>4, <2>7 DEF TurnOf
    <3>2. stage[v] # "glued" /\ stage[v] \notin OfRequest
      BY <1>1, <1>4, <3>1 DEF Turn
    <3>3. CASE stage[v] \in {"keep", "line"}
      <4>1. Fresh(Stream(v), ks, done)
        BY <3>1, <3>3 DEF Turn
      <4>2. Len(ks) = done /\ Len(Stream(v)) = 0
        BY <1>1, <1>4, <4>1 DEF Fresh
      <4>3. buff[v] = <<>> /\ Coming(c) = <<>>
        BY <2>1, <2>4, <2>7, <4>2, NothingLeft
      <4>4. Stream(v)' = <<>> \o (<<>> \o Sent(Len(ks) + 1, k))
        BY <1>2, <2>5, <2>7, <4>3
      <4>5. Stream(v)' = Sent(Len(ks) + 1, k)
        BY <1>5, <4>4, ConcatEmptySeq
      <4>6. Fresh(Stream(v)', asked'[c], done)
        BY <1>5, <4>2, <4>5
      <4>7. Turn(stage[v], req[v], asked'[c], Stream(v)', body[v], status[v], done)
        BY <3>3, <4>6 DEF Turn, OfRequest
      <4>q. QED BY <1>1, <2>4, <2>7, <4>3, <4>7 DEF TurnOf
    <3>4. CASE stage[v] \notin {"keep", "line"}
      <4>1. stage[v] = "close"
        BY <2>1, <3>2, <3>4, Serves DEF Stages, Reading, OfRequest
      <4>2. Turn(stage[v], req[v], asked'[c], Stream(v)', body[v], status[v], done)
        BY <4>1, TurnLoose
      <4>q. QED BY <1>1, <2>4, <2>7, <4>1, <4>2 DEF TurnOf
    <3>q. QED BY <3>3, <3>4
  <2>q. QED BY <2>6, <2>7
<1>12. \A d \in Conns : Unserved(d)' =>
        resp'[d] = <<>> /\ (Writable(d)' => Fresh(Coming(d)', asked'[d], 0))
  BY <1>10
<1>13. \A v \in Workers : (wpc'[v] = "running" /\ Smooth(fn[v])') => TurnOf(v)'
  BY <1>11
<1>q. QED BY <1>8, <1>9, <1>12, <1>13 DEF OrderInv

LEMMA InitOrder == Init => OrderInv
<1> SUFFICES ASSUME Init PROVE OrderInv
  OBVIOUS
<1>1. /\ resp = [c \in Conns |-> <<>>] /\ gone = [c \in Conns |-> FALSE]
      /\ status = [w \in Workers |-> 0] /\ conn_close = [w \in Workers |-> FALSE]
      /\ asked = [c \in Conns |-> <<>>] /\ unsent = [c \in Conns |-> <<>>]
      /\ sock = [c \in Conns |-> <<>>] /\ stage = [w \in Workers |-> "idle"]
      /\ wpc = [w \in Workers |-> "lock"]
  BY DEF Init, PoolInit
<1>2. <<>> \in Seq(Response) /\ DOMAIN << >> = {} /\ Len(<<>>) = 0
  OBVIOUS
<1>3. OrderTypes
  BY <1>1, <1>2 DEF OrderTypes
<1>4. InOrder
  BY <1>1, <1>2 DEF InOrder
<1>5. ASSUME NEW c \in Conns PROVE resp[c] = <<>> /\ Fresh(Coming(c), asked[c], 0)
  <2>1. Coming(c) = <<>> \o <<>> /\ asked[c] = <<>> /\ resp[c] = <<>>
    BY <1>1 DEF Coming
  <2>2. Len(<<>> \o <<>>) = 0
    OBVIOUS
  <2>q. QED BY <1>2, <2>1, <2>2 DEF Fresh
<1>q. QED BY <1>1, <1>3, <1>4, <1>5 DEF OrderInv

LEMMA NextOrder ==
    ServerInv /\ ServerInv' /\ StreamInv /\ OrderInv /\ [Next]_vars => OrderInv'
<1> SUFFICES ASSUME ServerInv, ServerInv', StreamInv, OrderInv, [Next]_vars PROVE OrderInv'
  OBVIOUS
<1>t. /\ gone \in [Conns -> BOOLEAN] /\ wpc \in [Workers -> {"lock", "asleep", "running", "gone"}]
      /\ cst \in [Conns -> {"new", "backlog", "open", "closed"}]
  BY DEF ServerInv, Tracked, OpenTracked, TypeOK, OrderInv, OrderTypes
<1>1. ASSUME NEW c \in Conns, ClientStep(c) PROVE OrderInv'
  <2>1. CASE Connect(c) \/ Leave(c)
    <3>1. /\ UNCHANGED <<asked, unsent, sock, resp, wpc>>
          /\ UNCHANGED <<asked, resp, buff, req, body, stage, status, conn_close, fn>>
          /\ gone' = gone \/ gone' = [gone EXCEPT ![c] = TRUE]
          /\ cst' = cst \/ (cst' = [cst EXCEPT ![c] = "backlog"] /\ cst[c] = "new")
      BY <2>1 DEF Connect, Leave, poolVars, client, local
    <3>2. gone' \in [Conns -> BOOLEAN] /\ \A d \in Conns : Writable(d)' => Writable(d)
      BY <1>t, <3>1 DEF Writable
    <3>3. \A d \in Conns : cst'[d] # "closed" => cst[d] # "closed"
      BY <1>t, <3>1
    <3>4. \A d \in Conns : Coming(d)' = Coming(d)
      BY <3>1 DEF Coming
    <3>q. QED BY <3>1, <3>2, <3>3, <3>4, OrderAlone
  <2>2. CASE Send(c)
    <3>1. /\ UNCHANGED <<wpc, cst, gone>>
          /\ UNCHANGED <<asked, resp, buff, req, body, stage, status, conn_close, fn>>
      BY <2>2 DEF Send, poolVars, local
    <3>2. \A d \in Conns : Coming(d)' = Coming(d)
      BY <2>2, SendKeeps
    <3>3. \A d \in Conns : Writable(d)' => Writable(d)
      <4>1. \A d \in Conns : sock'[d] = sock[d] \/ ~gone[d]
        BY <2>2 DEF Send, ServerInv, Tracked, OpenTracked, TypeOK
      <4>q. QED BY <3>1, <4>1 DEF Writable
    <3>q. QED BY <1>t, <3>1, <3>2, <3>3, OrderAlone
  <2>q. QED BY <1>1, <2>1, <2>2, AskOrder DEF ClientStep
<1>2. CASE ListenStep \/ AcceptFails
  <2>1. /\ UNCHANGED <<unsent, sock, gone>>
        /\ UNCHANGED <<asked, resp, buff, req, body, stage, status, conn_close, fn>>
        /\ \/ UNCHANGED wpc
           \/ \E w \in Workers : wpc[w] = "asleep" /\ wpc' = [wpc EXCEPT ![w] = "lock"]
           \/ wpc' = [w \in Workers |-> IF w \in Sleeping THEN "lock" ELSE wpc[w]]
    BY <1>2 DEF ListenStep, AcceptFails, CreateSocket, NewSocket, SetCloexec,
                BindAndListen, CloseAndContinue, BindFails, Binding, Accept, Listener,
                NotifyOne, NotifyAll, Join, Enqueue, Shutdown, Sleeping, poolVars, client, local
  <2>2. \/ UNCHANGED cst
        \/ \E c \in Conns : cst[c] = "backlog" /\ cst' = [cst EXCEPT ![c] = "open"]
        \/ cst' = [c \in Conns |-> IF cst[c] = "backlog" THEN "closed" ELSE cst[c]]
    BY <1>2 DEF ListenStep, AcceptFails, CreateSocket, NewSocket, SetCloexec,
                BindAndListen, CloseAndContinue, BindFails, Binding, Accept, Listener
  <2>3. \A w \in Workers : (wpc'[w] = "running") <=> (wpc[w] = "running")
    BY <1>t, <2>1 DEF Sleeping
  <2>4. \A d \in Conns : cst'[d] # "closed" => cst[d] # "closed"
    BY <1>t, <2>2
  <2>5. \A d \in Conns : Coming(d)' = Coming(d)
    BY <2>1 DEF Coming
  <2>6. \A d \in Conns : Writable(d)' => Writable(d)
    BY <2>1 DEF Writable
  <2>q. QED BY <1>t, <2>1, <2>3, <2>4, <2>5, <2>6, OrderAlone
<1>3. ASSUME NEW w \in Workers, Idling(Wait(w)) \/ Idling(Exit(w)) \/ Idling(Spurious(w))
      PROVE  OrderInv'
  <2>1. /\ UNCHANGED <<unsent, sock, gone, cst>>
        /\ UNCHANGED <<asked, resp, buff, req, body, stage, status, conn_close, fn>>
        /\ wpc[w] \in {"lock", "asleep"}
        /\ \E x \in {"asleep", "lock", "gone"} : wpc' = [wpc EXCEPT ![w] = x]
    BY <1>3 DEF Idling, Wait, Exit, Spurious, client, local
  <2>2. \A v \in Workers : (wpc'[v] = "running") <=> (wpc[v] = "running")
    BY <1>t, <2>1
  <2>3. \A d \in Conns : Coming(d)' = Coming(d)
    BY <2>1 DEF Coming
  <2>4. \A d \in Conns : Writable(d)' => Writable(d)
    BY <2>1 DEF Writable
  <2>q. QED BY <1>t, <2>1, <2>2, <2>3, <2>4, OrderAlone
<1>4. ASSUME NEW w \in Workers, WorkerStep(w) \/ Idling(Spurious(w)) PROVE OrderInv'
  BY <1>3, <1>4, TakeOrder, ServeOrder, CloseOrder DEF WorkerStep, ServeStep, Serve
<1>5. CASE UNCHANGED vars
  <2>1. /\ UNCHANGED <<unsent, sock, gone, cst, wpc>>
        /\ UNCHANGED <<asked, resp, buff, req, body, stage, status, conn_close, fn>>
    BY <1>5 DEF vars, poolVars, client, local
  <2>2. \A d \in Conns : Coming(d)' = Coming(d)
    BY <2>1 DEF Coming
  <2>3. \A d \in Conns : Writable(d)' => Writable(d)
    BY <2>1 DEF Writable
  <2>q. QED BY <1>t, <2>1, <2>2, <2>3, OrderAlone
<1>q. QED BY <1>1, <1>2, <1>4, <1>5 DEF Next

\* A client that counts responses takes each for the answer to the request it
\* is the answer to, however many connections, workers and requests there are,
\* as long as the requests before came to dispatch_request with their bodies
\* read: a worker leaves nothing of a request for the next one to trip over.
THEOREM ResponsesInOrder == Spec => []InOrder
<1>1. Init => StreamInv /\ OrderInv
  BY InitStream, InitOrder
<1>2. ServerInv /\ ServerInv' /\ StreamInv /\ OrderInv /\ [Next]_vars => StreamInv' /\ OrderInv'
  BY NextStream, NextOrder
<1>3. OrderInv => InOrder
  BY DEF OrderInv
<1>q. QED BY <1>1, <1>2, <1>3, ServerInvariant, PTL DEF Spec
=============================================================================

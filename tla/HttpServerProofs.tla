-------------------------- MODULE HttpServerProofs --------------------------
(***************************************************************************)
(* For every number of threads, requests and elections: what the handlers   *)
(* of HttpServer answer is true of the log and of the leaders of the call.  *)
(***************************************************************************)
EXTENDS HttpServer, SequenceTheorems, FiniteSetTheorems, WellFoundedInduction, TLAPS

(* The log, seen from one call.                                            *)

Entry == [key : Keys, of : Nat]
Free(lg, i) == \A j \in 1 .. Len(lg) : lg[j].of # i
Once(lg, i) == \A j, k \in 1 .. Len(lg) : lg[j].of = i /\ lg[k].of = i => j = k
Off(lg, keep) == {lg[i].of : i \in keep + 1 .. Len(lg)}

\* push_back of an entry: the calls of other entries see no difference.
LEMMA Appended ==
    ASSUME NEW lg \in Seq(Entry), NEW e \in Entry
    PROVE  /\ Append(lg, e) \in Seq(Entry) /\ Len(Append(lg, e)) = Len(lg) + 1
           /\ ~Free(Append(lg, e), e.of)
           /\ Free(lg, e.of) => Once(Append(lg, e), e.of)
           /\ \A i \in Nat \ {e.of} :
                /\ Free(Append(lg, e), i) <=> Free(lg, i)
                /\ Once(lg, i) => Once(Append(lg, e), i)
<1> DEFINE a == Append(lg, e)
<1>1. /\ a \in Seq(Entry) /\ Len(a) = Len(lg) + 1 /\ Len(lg) \in Nat
      /\ \A i \in 1 .. Len(lg) : a[i] = lg[i]
      /\ a[Len(lg) + 1] = e
  BY AppendProperties, LenProperties
<1> HIDE DEF a
<1>2. ~Free(a, e.of)
  BY <1>1 DEF Free
<1>3. Free(lg, e.of) => Once(a, e.of)
  BY <1>1 DEF Free, Once
<1>4. ASSUME NEW i \in Nat \ {e.of}
      PROVE  (Free(a, i) <=> Free(lg, i)) /\ (Once(lg, i) => Once(a, i))
  BY <1>1 DEF Free, Once
<1>q. QED BY <1>1, <1>2, <1>3, <1>4 DEF a

\* A new leader cuts off the end: what a call loses is remembered as cut.
LEMMA CutOff ==
    ASSUME NEW lg \in Seq(Entry), NEW keep \in 0 .. Len(lg)
    PROVE  /\ SubSeq(lg, 1, keep) \in Seq(Entry) /\ Len(SubSeq(lg, 1, keep)) = keep
           /\ Off(lg, keep) \subseteq Nat
           /\ \A i \in Nat :
                /\ Free(lg, i) => Free(SubSeq(lg, 1, keep), i) /\ i \notin Off(lg, keep)
                /\ Once(lg, i) => Once(SubSeq(lg, 1, keep), i)
                /\ Free(SubSeq(lg, 1, keep), i) => Free(lg, i) \/ i \in Off(lg, keep)
<1> DEFINE s == SubSeq(lg, 1, keep)
<1>0. Len(lg) \in Nat /\ keep \in Nat /\ \A i \in 1 .. Len(lg) : lg[i] \in Entry
  BY LenProperties, ElementOfSeq
<1>1. /\ s \in Seq(Entry) /\ Len(s) = keep
      /\ \A i \in 1 .. keep : s[i] = lg[i]
  BY <1>0, SubSeqProperties
<1> HIDE DEF s
<1>2. Off(lg, keep) \subseteq Nat
  BY <1>0 DEF Off, Entry
<1>3. ASSUME NEW i \in Nat
      PROVE  /\ Free(lg, i) => Free(s, i) /\ i \notin Off(lg, keep)
             /\ Once(lg, i) => Once(s, i)
             /\ Free(s, i) => Free(lg, i) \/ i \in Off(lg, keep)
  <2>1. Free(lg, i) => Free(s, i) /\ i \notin Off(lg, keep)
    BY <1>0, <1>1 DEF Free, Off
  <2>2. Once(lg, i) => Once(s, i)
    BY <1>0, <1>1 DEF Once
  <2>3. Free(s, i) => Free(lg, i) \/ i \in Off(lg, keep)
    <3> SUFFICES ASSUME Free(s, i), ~Free(lg, i) PROVE i \in Off(lg, keep)
      OBVIOUS
    <3>1. PICK j \in 1 .. Len(lg) : lg[j].of = i
      BY DEF Free
    <3>2. j \in keep + 1 .. Len(lg)
      BY <1>0, <1>1, <3>1 DEF Free
    <3>q. QED BY <3>1, <3>2 DEF Off
  <2>q. QED BY <2>1, <2>2, <2>3
<1>q. QED BY <1>1, <1>2, <1>3 DEF s

-----------------------------------------------------------------------------
(* The inductive invariant.                                                *)

Places == {"idle", "handle", "append", "wait", "addSrv", "list", "aborted"}

\* The node's variables, and the thread's own ones as functions of the threads.
NodeShaped ==
    /\ leader \in Nodes \cup {None} /\ members \subseteq Nodes /\ Self \in members
    /\ log \in Seq(Entry) /\ applied \in 0 .. Len(log)
    /\ stored \subseteq Keys \cup {BlobKey} /\ cut \subseteq Nat
ThreadShaped ==
    /\ pc \in [Threads -> Places] /\ id \in [Threads -> Nat]
    /\ DOMAIN rq = Threads /\ DOMAIN list = Threads
    /\ DOMAIN ans = Threads /\ DOMAIN led = Threads

\* A request is one that a client may send, or the reader.
Sound(r) ==
    /\ r.op \in {"insert", "upsert"} => r.arg \in Keys
    /\ r.op = "addFollower" => r.arg \in Peers
    /\ r.op = "listNode" => ~Rejected(r)

\* Every call has a number of its own, and who leads now is among those who
\* led during a call that is not over.
Numbered ==
    /\ calls \in Nat /\ (\A i \in cut : i <= calls)
    /\ \A j \in 1 .. Len(log) : log[j].of <= calls
    /\ \A t \in Threads :
        /\ Sound(rq[t]) /\ id[t] <= calls
        /\ ans[t].code \in {0, 200, 400}
        /\ pc[t] # "idle" => ans[t].code = 0 /\ leader \in led[t] /\ id[t] # 0
        /\ rq[t].op \in {"insert", "upsert"} => id[t] # 0
    /\ \A t, u \in Threads : id[t] = id[u] /\ id[t] # 0 => t = u

\* An upsert, from its arrival on.
Upserting(p, i, a, ld, lg, ct) ==
    /\ Once(lg, i)
    /\ p \in {"handle", "append"} \/ (p = "idle" /\ a.code = 400)
            => Free(lg, i) /\ i \notin ct
    /\ (p = "wait" \/ (p = "idle" /\ a.code = 200)) /\ ld = {Self}
            => ~Free(lg, i) \/ i \in ct
    /\ Self \notin ld => Free(lg, i) /\ i \notin ct
Upserts ==
    \A t \in Threads : rq[t].op = "upsert" =>
        Upserting(pc[t], id[t], ans[t], led[t], log, cut)

\* A list of nodes, finished or not.
Truthful(l, ld) ==
    /\ Self \in {e.node : e \in l}
    /\ \A e \in l : e.state = "leader" => e.node \in ld
Lists ==
    \A t \in Threads : rq[t].op = "listNode" =>
        /\ pc[t] = "list" => Truthful(list[t], led[t])
        /\ pc[t] = "idle" => Truthful(ans[t].body, led[t])

HandlerInv == NodeShaped /\ ThreadShaped /\ Numbered /\ Upserts /\ Lists

-----------------------------------------------------------------------------
(* What the threads do.                                                    *)

\* The part of the invariant that is about the calls.
CallInv == ThreadShaped /\ Numbered /\ Upserts /\ Lists

\* A call ends: its answer is kept if the model remembers it.
LEMMA Replied ==
    ASSUME CallInv, NEW t \in Threads, NEW code \in {200, 400}, NEW body,
           pc[t] # "idle", Reply(t, code, body), UNCHANGED <<leader, log, cut>>,
           rq[t].op = "upsert" => Upserting("idle", id[t], [code |-> code, body |-> body],
                                            led[t], log, cut),
           rq[t].op = "listNode" => Truthful(body, led[t])
    PROVE  CallInv'
<1> USE DEF CallInv, ThreadShaped
<1>1. pc' = [pc EXCEPT ![t] = "idle"] /\ calls' = calls /\ list' = [list EXCEPT ![t] = {}]
  BY DEF Reply
<1>2. CASE Remembered(rq[t])
  <2>1. ans' = [ans EXCEPT ![t] = [code |-> code, body |-> body]] /\ UNCHANGED <<rq, id, led>>
    BY <1>2 DEF Reply
  <2>2. ThreadShaped'
    BY <1>1, <2>1 DEF Places
  <2>3. Numbered'
    BY <1>1, <2>1 DEF Numbered, Places
  <2>4. Upserts'
    BY <1>1, <2>1 DEF Upserts, Places
  <2>5. Lists'
    BY <1>1, <2>1 DEF Lists, Places
  <2>q. QED BY <2>2, <2>3, <2>4, <2>5
<1>3. CASE ~Remembered(rq[t])
  <2>1. /\ rq' = [rq EXCEPT ![t] = NoRequest] /\ id' = [id EXCEPT ![t] = 0]
        /\ led' = [led EXCEPT ![t] = {}] /\ UNCHANGED ans
    BY <1>3 DEF Reply
  <2>0. NoRequest.op = "none"
    BY DEF NoRequest, Call
  <2>2. ThreadShaped'
    BY <1>1, <2>1 DEF Places
  <2>3. Numbered'
    BY <1>1, <2>0, <2>1 DEF Numbered, Places, Sound
  <2>4. Upserts'
    BY <1>1, <2>0, <2>1 DEF Upserts, Places
  <2>5. Lists'
    BY <1>1, <2>0, <2>1 DEF Lists, Places
  <2>q. QED BY <2>2, <2>3, <2>4, <2>5
<1>q. QED BY <1>2, <1>3

\* A call goes on, and asks NuRaft nothing.
LEMMA Moved ==
    ASSUME CallInv, NEW t \in Threads, NEW place \in Places \ {"idle"},
           pc[t] # "idle", Goto(t, place), UNCHANGED <<leader, log, cut>>,
           rq[t].op = "upsert" => Upserting(place, id[t], ans[t], led[t], log, cut),
           place # "list"
    PROVE  CallInv'
<1> USE DEF CallInv, ThreadShaped
<1>1. pc' = [pc EXCEPT ![t] = place] /\ UNCHANGED <<rq, id, list, ans, led, calls>>
  BY DEF Goto
<1>2. ThreadShaped'
  BY <1>1 DEF Places
<1>3. Numbered'
  BY <1>1 DEF Numbered, Places
<1>4. Upserts'
  BY <1>1 DEF Upserts, Places
<1>5. Lists'
  BY <1>1 DEF Lists, Places
<1>q. QED BY <1>2, <1>3, <1>4, <1>5

\* A call begins: its number is new, so nothing of it is in the log.
LEMMA Taken ==
    ASSUME NodeShaped, CallInv, NEW t \in Threads, NEW r, Sound(r),
           Take(t, r), UNCHANGED <<leader, log, cut>>
    PROVE  CallInv'
<1> USE DEF CallInv, ThreadShaped
<1>1. /\ pc' = [pc EXCEPT ![t] = "handle"] /\ rq' = [rq EXCEPT ![t] = r]
      /\ id' = [id EXCEPT ![t] = calls + 1] /\ calls' = calls + 1
      /\ list' = [list EXCEPT ![t] = {}] /\ ans' = [ans EXCEPT ![t] = NoAnswer]
      /\ led' = [led EXCEPT ![t] = {leader}]
  BY DEF Take
<1>2. NoAnswer.code = 0
  BY DEF NoAnswer
<1>3. Len(log) \in Nat /\ calls \in Nat /\ \A j \in 1 .. Len(log) : log[j].of \in Nat
  <2>1. log \in Seq(Entry) /\ calls \in Nat
    BY DEF NodeShaped, Numbered
  <2>2. Len(log) \in Nat /\ \A j \in 1 .. Len(log) : log[j] \in Entry
    BY <2>1, ElementOfSeq, LenProperties
  <2>q. QED BY <2>1, <2>2 DEF Entry
<1>4. Free(log, calls + 1) /\ Once(log, calls + 1) /\ calls + 1 \notin cut
  BY <1>3 DEF Numbered, Free, Once, NodeShaped
<1>5. ThreadShaped'
  BY <1>1, <1>3 DEF Places
<1>6. Numbered'
  <2>1. calls' \in Nat /\ (\A i \in cut' : i <= calls')
        /\ \A j \in 1 .. Len(log') : log'[j].of <= calls'
    <3>1. calls' \in Nat /\ (\A i \in cut' : i <= calls')
      BY <1>1, <1>3 DEF Numbered, NodeShaped
    <3>2. \A j \in 1 .. Len(log) : log[j].of <= calls + 1
      BY <1>3 DEF Numbered
    <3>q. QED BY <1>1, <3>1, <3>2
  <2>2. ASSUME NEW u \in Threads
        PROVE  /\ Sound(rq'[u]) /\ id'[u] <= calls'
               /\ ans'[u].code \in {0, 200, 400}
               /\ pc'[u] # "idle" => ans'[u].code = 0 /\ leader' \in led'[u] /\ id'[u] # 0
               /\ rq'[u].op \in {"insert", "upsert"} => id'[u] # 0
    <3>1. CASE u = t
      BY <1>1, <1>2, <1>3, <3>1
    <3>2. CASE u # t
      BY <1>1, <1>3, <3>2 DEF Numbered
    <3>q. QED BY <3>1, <3>2
  <2>3. ASSUME NEW u \in Threads, NEW v \in Threads, id'[u] = id'[v], id'[u] # 0
        PROVE  u = v
    BY <1>1, <1>3, <2>3 DEF Numbered
  <2>q. QED BY <2>1, <2>2, <2>3 DEF Numbered
<1>7. Upserts'
  <2> SUFFICES ASSUME NEW u \in Threads, rq'[u].op = "upsert"
               PROVE  Upserting(pc'[u], id'[u], ans'[u], led'[u], log', cut')
    BY DEF Upserts
  <2>1. CASE u = t
    BY <1>1, <1>2, <1>4, <2>1 DEF Upserting
  <2>2. CASE u # t
    BY <1>1, <2>2 DEF Upserts
  <2>q. QED BY <2>1, <2>2
<1>8. Lists'
  BY <1>1 DEF Lists, Places
<1>q. QED BY <1>5, <1>6, <1>7, <1>8

-----------------------------------------------------------------------------
(* What the node and NuRaft do, with the calls left alone.                 *)

\* Nothing of the calls changes.
LEMMA CallsAlone ==
    ASSUME CallInv, UNCHANGED <<pc, rq, id, list, ans, led, calls, leader, log, cut>>
    PROVE  CallInv'
<1>1. ThreadShaped'
  BY DEF CallInv, ThreadShaped
<1>2. Numbered'
  BY DEF CallInv, Numbered
<1>3. Upserts'
  BY DEF CallInv, Upserts
<1>4. Lists'
  BY DEF CallInv, Lists
<1>q. QED BY <1>1, <1>2, <1>3, <1>4 DEF CallInv

\* An entry of another call, or of another node, goes into the log: a thread u
\* whose call it is not keeps what it has.
LEMMA OthersAppend ==
    ASSUME NodeShaped, NEW e \in Entry, NEW i \in Nat, i # e.of, NEW p, NEW a, NEW ld,
           Upserting(p, i, a, ld, log, cut)
    PROVE  Upserting(p, i, a, ld, Append(log, e), cut)
<1>1. /\ Free(Append(log, e), i) <=> Free(log, i)
      /\ Once(log, i) => Once(Append(log, e), i)
  BY Appended DEF NodeShaped
<1>q. QED BY <1>1 DEF Upserting

\* The numbers of calls after an entry is appended.
LEMMA AppendNumbers ==
    ASSUME NodeShaped, Numbered, NEW e \in Entry, e.of <= calls
    PROVE  \A j \in 1 .. Len(Append(log, e)) : Append(log, e)[j].of <= calls
<1>1. /\ Len(Append(log, e)) = Len(log) + 1 /\ Len(log) \in Nat
      /\ \A i \in 1 .. Len(log) : Append(log, e)[i] = log[i]
      /\ Append(log, e)[Len(log) + 1] = e
  BY AppendProperties, LenProperties DEF NodeShaped
<1> DEFINE a == Append(log, e)
<1> HIDE DEF a
<1>2. /\ Len(a) = Len(log) + 1 /\ Len(log) \in Nat
      /\ \A i \in 1 .. Len(log) : a[i] = log[i]
      /\ a[Len(log) + 1] = e
  BY <1>1 DEF a
<1>3. \A j \in 1 .. Len(a) : a[j].of <= calls
  BY <1>2 DEF Numbered
<1>q. QED BY <1>3 DEF a

LEMMA ReplicateStep ==
    ASSUME HandlerInv, NEW k \in Keys, Replicate(k)
    PROVE  HandlerInv'
<1> DEFINE e == [key |-> k, of |-> 0]
<1>0. e \in Entry /\ e.of = 0
  BY DEF Entry
<1>1. log' = Append(log, e) /\ UNCHANGED <<leader, members, applied, cut, stored, flat>>
  BY DEF Replicate
<1>2. UNCHANGED <<pc, rq, id, list, ans, led, calls>>
  BY DEF Replicate, thread
<1> HIDE DEF e
<1>3. NodeShaped'
  <2>1. Append(log, e) \in Seq(Entry) /\ Len(Append(log, e)) = Len(log) + 1 /\ Len(log) \in Nat
    BY <1>0, Appended, LenProperties DEF HandlerInv, NodeShaped
  <2>q. QED BY <1>1, <2>1 DEF HandlerInv, NodeShaped
<1>4. ThreadShaped'
  BY <1>2 DEF HandlerInv, ThreadShaped
<1>5. Numbered'
  <2>1. e.of <= calls
    BY <1>0 DEF HandlerInv, Numbered
  <2>2. \A j \in 1 .. Len(log') : log'[j].of <= calls
    BY <1>0, <1>1, <2>1, AppendNumbers DEF HandlerInv
  <2>q. QED BY <1>1, <1>2, <2>2 DEF HandlerInv, Numbered
<1>6. Upserts'
  <2> SUFFICES ASSUME NEW u \in Threads, rq[u].op = "upsert"
               PROVE  Upserting(pc[u], id[u], ans[u], led[u], Append(log, e), cut)
    BY <1>1, <1>2 DEF Upserts
  <2>1. id[u] \in Nat /\ id[u] # e.of
    BY <1>0 DEF HandlerInv, Numbered, ThreadShaped
  <2>2. Upserting(pc[u], id[u], ans[u], led[u], log, cut)
    BY DEF HandlerInv, Upserts
  <2>q. QED BY <1>0, <2>1, <2>2, OthersAppend DEF HandlerInv
<1>7. Lists'
  BY <1>2 DEF HandlerInv, Lists
<1>q. QED BY <1>3, <1>4, <1>5, <1>6, <1>7 DEF HandlerInv

LEMMA AppendStep ==
    ASSUME HandlerInv, NEW t \in Threads, AppendEntries(t)
    PROVE  HandlerInv'
<1> DEFINE e == [key |-> rq[t].arg, of |-> id[t]]
<1>1. /\ pc[t] = "append" /\ rq[t].op = "upsert"
      /\ pc' = [pc EXCEPT ![t] = "wait"]
      /\ UNCHANGED <<rq, id, list, ans, led, calls>>
      /\ UNCHANGED <<leader, members, applied, cut, stored, flat>>
  BY DEF AppendEntries, In, Goto
<1>2. log' = IF leader = Self THEN Append(log, e) ELSE log
  BY DEF AppendEntries
<1>3. e \in Entry /\ e.of = id[t] /\ id[t] \in Nat /\ id[t] <= calls /\ id[t] # 0
  BY <1>1 DEF HandlerInv, Numbered, Sound, ThreadShaped, Entry
<1> HIDE DEF e
<1>4. NodeShaped'
  <2>1. Append(log, e) \in Seq(Entry) /\ Len(Append(log, e)) = Len(log) + 1 /\ Len(log) \in Nat
    BY <1>3, Appended, LenProperties DEF HandlerInv, NodeShaped
  <2>2. CASE leader = Self
    BY <1>1, <1>2, <2>1, <2>2 DEF HandlerInv, NodeShaped
  <2>3. CASE leader # Self
    BY <1>1, <1>2, <2>3 DEF HandlerInv, NodeShaped
  <2>q. QED BY <2>2, <2>3
<1>5. ThreadShaped'
  BY <1>1 DEF HandlerInv, ThreadShaped, Places
<1>6. Numbered'
  <2>2. \A j \in 1 .. Len(log') : log'[j].of <= calls
    <3>1. CASE leader = Self
      BY <1>2, <1>3, <3>1, AppendNumbers DEF HandlerInv
    <3>2. CASE leader # Self
      BY <1>2, <3>2 DEF HandlerInv, Numbered
    <3>q. QED BY <3>1, <3>2
  <2>q. QED BY <1>1, <2>2 DEF HandlerInv, Numbered, ThreadShaped, Places
<1>7. Upserts'
  <2> SUFFICES ASSUME NEW u \in Threads, rq[u].op = "upsert"
               PROVE  Upserting(pc'[u], id[u], ans[u], led[u], log', cut)
    BY <1>1 DEF Upserts
  <2>1. Upserting(pc[u], id[u], ans[u], led[u], log, cut)
    BY DEF HandlerInv, Upserts
  <2>2. CASE u = t
    <3>0. pc'[t] = "wait"
      BY <1>1 DEF HandlerInv, ThreadShaped
    <3>1. Free(log, id[t]) /\ Once(log, id[t])
      BY <1>1, <2>1, <2>2 DEF Upserting
    <3>2. CASE leader = Self
      <4>1. ~Free(log', id[t]) /\ Once(log', id[t])
        BY <1>2, <1>3, <3>1, <3>2, Appended DEF HandlerInv, NodeShaped
      <4>2. Self \in led[t]
        BY <1>1, <3>2 DEF HandlerInv, Numbered
      <4>q. QED BY <2>2, <3>0, <4>1, <4>2 DEF Upserting
    <3>3. CASE leader # Self
      <4>1. led[t] # {Self}
        BY <1>1, <3>3 DEF HandlerInv, Numbered
      <4>2. Self \notin led[t] => id[t] \notin cut
        BY <2>1, <2>2 DEF Upserting
      <4>q. QED BY <1>2, <2>2, <3>0, <3>1, <3>3, <4>1, <4>2 DEF Upserting
    <3>q. QED BY <3>2, <3>3
  <2>3. CASE u # t
    <3>1. pc'[u] = pc[u] /\ id[u] \in Nat /\ id[u] # e.of
      BY <1>1, <1>3, <2>3 DEF HandlerInv, ThreadShaped, Numbered
    <3>2. Upserting(pc[u], id[u], ans[u], led[u], Append(log, e), cut)
      BY <1>3, <2>1, <3>1, OthersAppend DEF HandlerInv
    <3>q. QED BY <1>2, <2>1, <3>1, <3>2
  <2>q. QED BY <2>2, <2>3
<1>8. Lists'
  BY <1>1 DEF HandlerInv, Lists, ThreadShaped
<1>q. QED BY <1>4, <1>5, <1>6, <1>7, <1>8 DEF HandlerInv

LEMMA ElectStep ==
    ASSUME HandlerInv, NEW n \in members \cup {None}, NEW keep, Elect(n, keep)
    PROVE  HandlerInv'
<1>1. /\ leader' = n /\ keep \in applied .. Len(log)
      /\ led' = [t \in Threads |-> IF pc[t] = "idle" THEN led[t] ELSE led[t] \cup {n}]
      /\ log' = SubSeq(log, 1, keep) /\ cut' = cut \cup Off(log, keep)
      /\ UNCHANGED <<members, applied, stored, flat, pc, rq, id, list, ans, calls>>
  BY DEF Elect, Off
<1>2. keep \in 0 .. Len(log) /\ applied \in 0 .. keep /\ Len(log) \in Nat
  BY <1>1, LenProperties DEF HandlerInv, NodeShaped
<1>3. log' \in Seq(Entry) /\ Len(log') = keep /\ Off(log, keep) \subseteq Nat
  BY <1>1, <1>2, CutOff DEF HandlerInv, NodeShaped
<1>4. NodeShaped'
  BY <1>1, <1>2, <1>3 DEF HandlerInv, NodeShaped
<1>5. ThreadShaped'
  BY <1>1 DEF HandlerInv, ThreadShaped
<1>6. Numbered'
  <2>1. \A i \in Off(log, keep) : i <= calls
    BY <1>2 DEF Off, HandlerInv, Numbered
  <2>2. \A j \in 1 .. keep : log'[j] = log[j]
    BY <1>1, <1>2, SubSeqProperties DEF HandlerInv, NodeShaped
  <2>3. \A j \in 1 .. Len(log') : log'[j].of <= calls'
    BY <1>1, <1>2, <1>3, <2>2 DEF HandlerInv, Numbered
  <2>4. \A i \in cut' : i <= calls'
    BY <1>1, <2>1 DEF HandlerInv, Numbered
  <2>5. \A t \in Threads : pc'[t] # "idle" => leader' \in led'[t]
    BY <1>1
  <2>q. QED BY <1>1, <2>3, <2>4, <2>5 DEF HandlerInv, Numbered
<1>7. Upserts'
  <2> SUFFICES ASSUME NEW u \in Threads, rq[u].op = "upsert"
               PROVE  Upserting(pc[u], id[u], ans[u], led'[u], log', cut')
    BY <1>1 DEF Upserts
  <2>1. Upserting(pc[u], id[u], ans[u], led[u], log, cut) /\ id[u] \in Nat
    BY DEF HandlerInv, Upserts, ThreadShaped
  <2>2. /\ Free(log, id[u]) => Free(log', id[u]) /\ id[u] \notin Off(log, keep)
        /\ Once(log, id[u]) => Once(log', id[u])
        /\ Free(log', id[u]) => Free(log, id[u]) \/ id[u] \in Off(log, keep)
    BY <1>1, <1>2, <2>1, CutOff DEF HandlerInv, NodeShaped
  <2>3. led'[u] = {Self} =>
          (pc[u] = "idle" /\ led[u] = {Self}) \/ (leader \in led[u] /\ led[u] = {Self})
    BY <1>1 DEF HandlerInv, Numbered
  <2>4. led'[u] = {Self} => led[u] = {Self}
    BY <2>3
  <2>5. Self \notin led'[u] => Self \notin led[u]
    BY <1>1
  <2>q. QED BY <1>1, <2>1, <2>2, <2>4, <2>5 DEF Upserting
<1>8. Lists'
  <2> SUFFICES ASSUME NEW u \in Threads, rq[u].op = "listNode"
               PROVE  /\ pc[u] = "list" => Truthful(list[u], led'[u])
                      /\ pc[u] = "idle" => Truthful(ans[u].body, led'[u])
    BY <1>1 DEF Lists
  <2>1. led[u] \subseteq led'[u]
    BY <1>1
  <2>q. QED BY <2>1 DEF HandlerInv, Lists, Truthful
<1>q. QED BY <1>4, <1>5, <1>6, <1>7, <1>8 DEF HandlerInv

LEMMA CommitStep ==
    ASSUME HandlerInv, Commit
    PROVE  HandlerInv'
<1>1. /\ applied < Len(log) /\ applied' = applied + 1
      /\ stored' = stored \cup {log[applied + 1].key}
      /\ UNCHANGED <<leader, members, log, cut, flat>>
  BY DEF Commit
<1>2. UNCHANGED <<pc, rq, id, list, ans, led, calls>>
  BY DEF Commit, thread
<1>3. NodeShaped'
  <2>1. applied + 1 \in 1 .. Len(log) /\ Len(log) \in Nat
    BY <1>1, LenProperties DEF HandlerInv, NodeShaped
  <2>2. log[applied + 1] \in Entry
    BY <2>1, ElementOfSeq DEF HandlerInv, NodeShaped
  <2>q. QED BY <1>1, <2>1, <2>2 DEF HandlerInv, NodeShaped, Entry
<1>4. CallInv'
  BY <1>1, <1>2, CallsAlone DEF HandlerInv, CallInv
<1>q. QED BY <1>3, <1>4 DEF HandlerInv, CallInv

-----------------------------------------------------------------------------
(* One lemma per kind of handler.                                          *)

\* A handler that answers at once, and leaves the log alone.
LEMMA Answers ==
    ASSUME HandlerInv, NEW t \in Threads, NEW code \in {200, 400}, NEW body,
           pc[t] # "idle", Reply(t, code, body), UNCHANGED raft,
           rq[t].op \notin {"upsert", "listNode"}, stored' \subseteq Keys \cup {BlobKey}
    PROVE  HandlerInv'
<1>1. UNCHANGED <<leader, members, log, applied, cut>>
  BY DEF raft
<1>0. /\ rq[t].op = "upsert" => Upserting("idle", id[t], [code |-> code, body |-> body],
                                           led[t], log, cut)
      /\ rq[t].op = "listNode" => Truthful(body, led[t])
  OBVIOUS
<1>2. CallInv'
  <2>1. CallInv
    BY DEF HandlerInv, CallInv
  <2>q. QED BY <1>0, <1>1, <2>1, Replied
<1>3. NodeShaped'
  BY <1>1 DEF HandlerInv, NodeShaped
<1>q. QED BY <1>2, <1>3 DEF HandlerInv, CallInv

\* A handler that touches nothing but its own call.
LEMMA OnlyCall ==
    ASSUME HandlerInv, CallInv', UNCHANGED <<raft, stored>>
    PROVE  HandlerInv'
<1>1. NodeShaped'
  BY DEF HandlerInv, NodeShaped, raft
<1>q. QED BY <1>1 DEF HandlerInv, CallInv

LEMMA RejectStep ==
    ASSUME HandlerInv, NEW t \in Threads, Reject(t)
    PROVE  HandlerInv'
<1>1. /\ pc[t] = "handle" /\ Rejected(rq[t]) /\ Reply(t, 400, {})
      /\ UNCHANGED <<raft, stored, flat>> /\ UNCHANGED <<leader, log, cut>>
  BY DEF Reject, raft
<1>2. rq[t].op # "listNode"
  BY <1>1 DEF HandlerInv, Numbered, Sound
<1>3. rq[t].op = "upsert" =>
          Upserting("idle", id[t], [code |-> 400, body |-> {}], led[t], log, cut)
  <2> SUFFICES ASSUME rq[t].op = "upsert"
               PROVE  Upserting("idle", id[t], [code |-> 400, body |-> {}], led[t], log, cut)
    OBVIOUS
  <2>1. Upserting("handle", id[t], ans[t], led[t], log, cut)
    BY <1>1 DEF HandlerInv, Upserts
  <2>q. QED BY <2>1 DEF Upserting
<1>4. CallInv'
  BY <1>1, <1>2, <1>3, Replied DEF HandlerInv, CallInv
<1>q. QED BY <1>1, <1>4, OnlyCall

\* The process is gone: nothing is answered any more.
LEMMA AbortStep ==
    ASSUME HandlerInv, NEW t \in Threads, Abort(t)
    PROVE  HandlerInv'
<1>1. /\ pc[t] = "handle" /\ Goto(t, "aborted")
      /\ UNCHANGED <<raft, stored>> /\ UNCHANGED <<leader, log, cut>>
  BY DEF Abort, raft
<1>2. rq[t].op = "upsert" => Upserting("aborted", id[t], ans[t], led[t], log, cut)
  BY <1>1 DEF HandlerInv, Upserts, Upserting
<1>3. CallInv'
  BY <1>1, <1>2, Moved DEF HandlerInv, CallInv, Places
<1>q. QED BY <1>1, <1>3, OnlyCall

LEMMA UpsertStep ==
    ASSUME HandlerInv, NEW t \in Threads, UpsertHandler(t) \/ UpsertAnswer(t)
    PROVE  HandlerInv'
<1>0. UNCHANGED <<raft, stored, flat>> /\ UNCHANGED <<leader, log, cut>> /\ CallInv
  BY DEF UpsertHandler, UpsertAnswer, raft, HandlerInv, CallInv
<1>1. rq[t].op = "upsert" /\ Upserting(pc[t], id[t], ans[t], led[t], log, cut)
  BY DEF UpsertHandler, UpsertAnswer, Runs, In, HandlerInv, Upserts
<1>2. CASE UpsertHandler(t) /\ leader = Self
  <2>1. pc[t] = "handle" /\ Goto(t, "append")
    BY <1>2 DEF UpsertHandler, Runs, In
  <2>2. Upserting("append", id[t], ans[t], led[t], log, cut)
    BY <1>1, <2>1 DEF Upserting
  <2>3. CallInv'
    BY <1>0, <2>1, <2>2, Moved DEF Places
  <2>q. QED BY <1>0, <2>3, OnlyCall
<1>3. CASE UpsertHandler(t) /\ leader # Self
  <2>1. pc[t] = "handle" /\ Reply(t, 200, {})
    BY <1>3 DEF UpsertHandler, Runs, In
  <2>2. led[t] # {Self}
    BY <1>3, <2>1 DEF HandlerInv, Numbered
  <2>3. Upserting("idle", id[t], [code |-> 200, body |-> {}], led[t], log, cut)
    BY <1>1, <2>1, <2>2 DEF Upserting
  <2>4. CallInv'
    BY <1>0, <1>1, <2>1, <2>3, Replied
  <2>q. QED BY <1>0, <2>4, OnlyCall
<1>4. CASE UpsertAnswer(t)
  <2>1. pc[t] = "wait" /\ Reply(t, 200, {})
    BY <1>4 DEF UpsertAnswer, In
  <2>2. Upserting("idle", id[t], [code |-> 200, body |-> {}], led[t], log, cut)
    BY <1>1, <2>1 DEF Upserting
  <2>3. CallInv'
    BY <1>0, <1>1, <2>1, <2>2, Replied
  <2>q. QED BY <1>0, <2>3, OnlyCall
<1>q. QED BY <1>2, <1>3, <1>4

LEMMA FollowerStep ==
    ASSUME HandlerInv, NEW t \in Threads, AddFollowerHandler(t) \/ AddSrv(t)
    PROVE  HandlerInv'
<1>0. /\ UNCHANGED <<leader, log, cut, applied, stored, flat>> /\ CallInv
      /\ rq[t].op = "addFollower" /\ pc[t] # "idle"
  BY DEF AddFollowerHandler, AddSrv, Runs, In, raft, HandlerInv, CallInv
<1>1. CallInv'
  <2>1. CASE Goto(t, "addSrv")
    <3>1. rq[t].op = "upsert" => Upserting("addSrv", id[t], ans[t], led[t], log, cut)
      BY <1>0
    <3>2. "addSrv" \in Places \ {"idle"} /\ "addSrv" # "list"
      BY DEF Places
    <3>q. QED BY <1>0, <2>1, <3>1, <3>2, Moved
  <2>2. ASSUME NEW code \in {200, 400}, NEW body, Reply(t, code, body)
        PROVE  CallInv'
    <3>1. rq[t].op = "upsert" =>
              Upserting("idle", id[t], [code |-> code, body |-> body], led[t], log, cut)
      BY <1>0
    <3>2. rq[t].op = "listNode" => Truthful(body, led[t])
      BY <1>0
    <3>3. /\ CallInv /\ pc[t] # "idle" /\ Reply(t, code, body)
          /\ UNCHANGED <<leader, log, cut>>
      BY <1>0, <2>2
    <3>q. QED BY ONLY <3>3, <2>2, <3>1, <3>2, Replied
  <2>q. QED BY <2>1, <2>2 DEF AddFollowerHandler, AddSrv
<1>2. members' \subseteq Nodes /\ Self \in members'
  <2>1. rq[t].arg \in Peers
    BY <1>0 DEF HandlerInv, Numbered, Sound
  <2>q. QED BY <2>1 DEF AddFollowerHandler, AddSrv, raft, HandlerInv, NodeShaped, Nodes
<1>3. NodeShaped'
  BY <1>0, <1>2 DEF HandlerInv, NodeShaped
<1>q. QED BY <1>1, <1>3 DEF HandlerInv, CallInv

\* A step of getAllNodesInfo inside its call.
LEMMA Listed ==
    ASSUME CallInv, NEW t \in Threads, NEW l, pc[t] # "idle", rq[t].op = "listNode",
           pc' = [pc EXCEPT ![t] = "list"], list' = [list EXCEPT ![t] = l],
           Truthful(l, led[t]),
           UNCHANGED <<leader, log, cut, rq, id, ans, led, calls>>
    PROVE  CallInv'
<1> USE DEF CallInv, ThreadShaped
<1>1. ThreadShaped'
  BY DEF Places
<1>2. Numbered'
  BY DEF Numbered, Places
<1>3. Upserts'
  BY DEF Upserts, Places
<1>4. Lists'
  BY DEF Lists, Places
<1>q. QED BY <1>1, <1>2, <1>3, <1>4

LEMMA ListStep ==
    ASSUME HandlerInv, NEW t \in Threads,
           ListNodeHandler(t) \/ ListOne(t) \/ ListDone(t)
    PROVE  HandlerInv'
<1>0. /\ UNCHANGED <<raft, stored, flat>> /\ UNCHANGED <<leader, log, cut>> /\ CallInv
      /\ rq[t].op = "listNode" /\ pc[t] # "idle" /\ leader \in led[t]
  BY DEF ListNodeHandler, ListOne, ListDone, Runs, In, raft, HandlerInv, CallInv, Numbered
<1>1. CASE ListNodeHandler(t)
  <2> DEFINE l == {[node |-> n, state |-> "?"] : n \in members}
  <2>1. /\ pc' = [pc EXCEPT ![t] = "list"] /\ list' = [list EXCEPT ![t] = l]
        /\ UNCHANGED <<rq, id, ans, led, calls>>
    BY <1>1 DEF ListNodeHandler
  <2>2. Truthful(l, led[t])
    <3>1. [node |-> Self, state |-> "?"] \in l
      BY DEF HandlerInv, NodeShaped
    <3>2. Self \in {e.node : e \in l}
      <4>1. [node |-> Self, state |-> "?"].node = Self
        OBVIOUS
      <4> HIDE DEF l
      <4>q. QED BY <3>1, <4>1
    <3>3. \A e \in l : e.state # "leader"
      OBVIOUS
    <3> HIDE DEF l
    <3>q. QED BY <3>2, <3>3 DEF Truthful
  <2> HIDE DEF l
  <2>3. CallInv'
    BY <1>0, <2>1, <2>2, Listed
  <2>q. QED BY <1>0, <2>3, OnlyCall
<1>2. CASE ListOne(t)
  <2>1. PICK e \in list[t] :
          list' = [list EXCEPT ![t] =
                      (list[t] \ {e}) \cup {[node |-> e.node, state |-> StateOf(e.node)]}]
    BY <1>2 DEF ListOne
  <2> DEFINE f == [node |-> e.node, state |-> StateOf(e.node)]
  <2> DEFINE l == (list[t] \ {e}) \cup {f}
  <2>2. f.node = e.node /\ (f.state = "leader" => e.node = leader)
    BY DEF StateOf
  <2>3. list' = [list EXCEPT ![t] = l]
    BY <2>1
  <2> HIDE DEF f
  <2>4. Truthful(list[t], led[t]) /\ pc[t] = "list" /\ UNCHANGED <<pc, rq, id, ans, led, calls>>
    BY <1>0, <1>2 DEF ListOne, In, HandlerInv, Lists
  <2>5. Truthful(l, led[t])
    BY <1>0, <2>2, <2>4 DEF Truthful
  <2> HIDE DEF l
  <2>6. pc' = [pc EXCEPT ![t] = "list"]
    BY <1>0, <2>4 DEF CallInv, ThreadShaped
  <2>7. CallInv'
    BY <1>0, <2>3, <2>4, <2>5, <2>6, Listed
  <2>q. QED BY <1>0, <2>7, OnlyCall
<1>3. CASE ListDone(t)
  <2>1. Reply(t, 200, list[t]) /\ Truthful(list[t], led[t])
    BY <1>0, <1>3 DEF ListDone, In, HandlerInv, Lists
  <2>2. rq[t].op = "upsert" =>
            Upserting("idle", id[t], [code |-> 200, body |-> list[t]], led[t], log, cut)
    BY <1>0
  <2>4. rq[t].op = "listNode" => Truthful(list[t], led[t])
    BY <2>1
  <2>3. CallInv'
    <3>1. /\ CallInv /\ pc[t] # "idle" /\ Reply(t, 200, list[t])
          /\ UNCHANGED <<leader, log, cut>> /\ 200 \in {200, 400}
      BY <1>0, <2>1
    <3>q. QED BY ONLY <3>1, <2>2, <2>4, Replied
  <2>q. QED BY <1>0, <2>3, OnlyCall
<1>q. QED BY <1>1, <1>2, <1>3

\* A request arrives, from any client or from the reader.
LEMMA ArrivalStep ==
    ASSUME HandlerInv, NEW t \in Threads,
           ReadFirst(t) \/ ReadNext(t) \/ \E r \in Requests : Receive(t, r)
    PROVE  HandlerInv'
<1>1. UNCHANGED <<raft, stored, flat>> /\ UNCHANGED <<leader, log, cut>>
  BY DEF ReadFirst, ReadNext, Receive, raft
<1>2. ASSUME NEW r \in Requests PROVE Sound(r)
  BY RequestsAssumption DEF AllRequests, Call, Sound, Rejected, Shapes
<1>3. ASSUME NEW n PROVE Sound(Call("getScalar", "ok", n))
  BY DEF Call, Sound
<1>4. \E r : Sound(r) /\ Take(t, r)
  BY <1>2, <1>3 DEF ReadFirst, ReadNext, Receive
<1>5. CallInv'
  BY <1>1, <1>4, Taken DEF HandlerInv, CallInv
<1>q. QED BY <1>1, <1>5, OnlyCall

-----------------------------------------------------------------------------

LEMMA InitHolds == Init => HandlerInv
<1> SUFFICES ASSUME Init PROVE HandlerInv
  OBVIOUS
<1>1. NodeShaped
  BY EmptySeq DEF Init, NodeShaped, Nodes
<1>2. ThreadShaped
  BY DEF Init, ThreadShaped, Places
<1>3. \A t \in Threads : rq[t].op = "none" /\ ans[t].code = 0 /\ pc[t] = "idle" /\ id[t] = 0
  BY DEF Init, NoRequest, NoAnswer, Call
<1>4. Numbered
  BY <1>3 DEF Init, Numbered, Sound
<1>5. Upserts /\ Lists
  BY <1>3 DEF Upserts, Lists
<1>q. QED BY <1>1, <1>2, <1>4, <1>5 DEF HandlerInv

LEMMA StepKeeps == HandlerInv /\ [Next]_vars => HandlerInv'
<1> SUFFICES ASSUME HandlerInv, [Next]_vars PROVE HandlerInv'
  OBVIOUS
<1>1. ASSUME NEW t \in Threads, Handle(t) PROVE HandlerInv'
  <2>0. stored \subseteq Keys \cup {BlobKey}
    BY DEF HandlerInv, NodeShaped
  <2>1. CASE SearchHandler(t)
    BY <2>0, <2>1, Answers DEF SearchHandler, Runs, In
  <2>2. CASE InsertHandler(t)
    BY <2>0, <2>2, Answers DEF InsertHandler, Runs, In
  <2>3. CASE QueryHandler(t)
    BY <2>0, <2>3, Answers DEF QueryHandler, Runs, In
  <2>4. CASE SnapshotHandler(t)
    BY <2>0, <2>4, Answers DEF SnapshotHandler, Runs, In
  <2>5. CASE SetLeaderHandler(t)
    BY <2>0, <2>5, Answers DEF SetLeaderHandler, Runs, In
  <2>6. CASE GetNodeHandler(t)
    BY <2>0, <2>6, Answers DEF GetNodeHandler, Runs, In
  <2>7. CASE GetScalarHandler(t)
    BY <2>0, <2>7, Answers DEF GetScalarHandler, Runs, In
  <2>q. QED BY <1>1, <2>1, <2>2, <2>3, <2>4, <2>5, <2>6, <2>7, RejectStep, AbortStep,
               UpsertStep, AppendStep, FollowerStep, ListStep DEF Handle
<1>2. CASE UNCHANGED vars
  <2>1. /\ UNCHANGED <<leader, members, log, applied, cut, stored>>
        /\ UNCHANGED <<pc, rq, id, list, ans, led, calls>>
    BY <1>2 DEF vars, raft, thread
  <2>2. CallInv'
    BY <2>1, CallsAlone DEF HandlerInv, CallInv
  <2>3. NodeShaped'
    BY <2>1 DEF HandlerInv, NodeShaped
  <2>q. QED BY <2>2, <2>3 DEF HandlerInv, CallInv
<1>q. QED BY <1>1, <1>2, ArrivalStep, ElectStep, CommitStep, ReplicateStep
          DEF Next, Steps

-----------------------------------------------------------------------------
(* The index.                                                              *)

Absent(fl, i) == \A e \in fl : e.of # i
Answered(t) == pc[t] = "idle" /\ ans[t].code = 200

\* What is in the index is from a call that was made, and not from an upsert; an
\* insert is there when it has been answered with 200, and never in the log.
InsertInv ==
    /\ flat \subseteq Entry /\ \A e \in flat : e.of # 0 /\ e.of <= calls
    /\ \A t \in Threads : rq[t].op = "upsert" => Absent(flat, id[t])
    /\ \A t \in Threads : rq[t].op = "insert" =>
        /\ Free(log, id[t]) /\ id[t] \notin cut
        /\ Absent(flat, id[t]) <=> ~Answered(t)

\* No trace of a call that has not begun.
LEMMA NewNumber ==
    ASSUME HandlerInv, InsertInv
    PROVE  /\ calls + 1 \in Nat /\ Free(log, calls + 1) /\ calls + 1 \notin cut
           /\ Absent(flat, calls + 1)
<1>1. log \in Seq(Entry) /\ calls \in Nat /\ cut \subseteq Nat
  BY DEF HandlerInv, NodeShaped, Numbered
<1>2. \A j \in 1 .. Len(log) : log[j].of \in Nat /\ log[j].of <= calls
  <2>1. ASSUME NEW j \in 1 .. Len(log) PROVE log[j] \in Entry
    BY <1>1, ElementOfSeq
  <2>2. \A j \in 1 .. Len(log) : log[j].of <= calls
    BY DEF HandlerInv, Numbered
  <2>q. QED BY <2>1, <2>2 DEF Entry
<1>3. \A e \in flat : e.of \in Nat /\ e.of <= calls
  BY DEF InsertInv, Entry
<1>4. \A i \in cut : i \in Nat /\ i <= calls
  BY <1>1 DEF HandlerInv, Numbered
<1>5. Free(log, calls + 1)
  <2>1. ASSUME NEW j \in 1 .. Len(log) PROVE log[j].of # calls + 1
    BY <1>1, <1>2
  <2>q. QED BY <2>1 DEF Free
<1>6. calls + 1 \notin cut
  BY <1>1, <1>4
<1>7. Absent(flat, calls + 1)
  <2>1. ASSUME NEW e \in flat PROVE e.of # calls + 1
    BY <1>1, <1>3
  <2>q. QED BY <2>1 DEF Absent
<1>q. QED BY <1>1, <1>5, <1>6, <1>7

\* A step that leaves the index alone, and with each call what is said of it.
SameCall(u) ==
    /\ rq'[u] = rq[u] /\ id'[u] = id[u]
    /\ rq[u].op = "insert" => (Answered(u)' <=> Answered(u))
LEMMA IndexAlone ==
    ASSUME HandlerInv, HandlerInv', InsertInv, UNCHANGED flat, calls <= calls',
           \A u \in Threads : rq'[u].op \in {"insert", "upsert"} =>
                SameCall(u) \/ (id'[u] = calls + 1 /\ ~Answered(u)'),
           \A u \in Threads : (rq[u].op = "insert" /\ rq'[u].op = "insert" /\ SameCall(u)) =>
                Free(log', id[u]) /\ id[u] \notin cut',
           Free(log', calls + 1) /\ calls + 1 \notin cut'
    PROVE  InsertInv'
<1>1. Absent(flat, calls + 1)
  BY NewNumber
<1>2. \A e \in flat' : e.of # 0 /\ e.of <= calls'
  <2>1. calls \in Nat /\ calls' \in Nat /\ \A e \in flat : e.of \in Nat
    BY DEF HandlerInv, Numbered, InsertInv, Entry
  <2>q. QED BY <2>1 DEF InsertInv
<1>3. ASSUME NEW u \in Threads, rq'[u].op = "upsert" PROVE Absent(flat', id'[u])
  BY <1>1, <1>3 DEF InsertInv, SameCall
<1>4. ASSUME NEW u \in Threads, rq'[u].op = "insert"
      PROVE  /\ Free(log', id'[u]) /\ id'[u] \notin cut'
             /\ Absent(flat', id'[u]) <=> ~Answered(u)'
  <2>1. CASE SameCall(u)
    BY <1>4, <2>1 DEF InsertInv, SameCall
  <2>2. CASE id'[u] = calls + 1 /\ ~Answered(u)'
    BY <1>1, <2>2
  <2>q. QED BY <1>4, <2>1, <2>2
<1>q. QED BY <1>2, <1>3, <1>4 DEF InsertInv

\* The log and the cut of a step that is no request's own.
LEMMA LogAlone ==
    ASSUME HandlerInv, HandlerInv', InsertInv, UNCHANGED <<flat, log, cut, calls>>,
           \A u \in Threads : rq'[u].op \in {"insert", "upsert"} => SameCall(u)
    PROVE  InsertInv'
<1>1. /\ \A u \in Threads : rq[u].op = "insert" => Free(log', id[u]) /\ id[u] \notin cut'
      /\ Free(log', calls + 1) /\ calls + 1 \notin cut' /\ calls <= calls'
  BY NewNumber DEF InsertInv, HandlerInv, Numbered
<1>q. QED BY <1>1, IndexAlone

LEMMA HandlersInsert ==
    ASSUME HandlerInv, HandlerInv', InsertInv, NEW t \in Threads, Handle(t)
    PROVE  InsertInv'
<1>t. ThreadShaped
  BY DEF HandlerInv
<1>1. ASSUME NEW code, NEW body, Reply(t, code, body), pc[t] # "idle",
             rq[t].op = "insert" => code = 400, UNCHANGED <<flat, log, cut>>
      PROVE  InsertInv'
  <2>1. /\ pc' = [pc EXCEPT ![t] = "idle"] /\ calls' = calls
        /\ \A u \in Threads : u # t => /\ rq'[u] = rq[u] /\ id'[u] = id[u]
                                      /\ ans'[u] = ans[u] /\ pc'[u] = pc[u]
        /\ pc'[t] = "idle"
    BY <1>1, <1>t DEF Reply, ThreadShaped
  <2>2. CASE Remembered(rq[t])
    <3>1. rq' = rq /\ id' = id /\ ans'[t].code = code
      BY <1>1, <1>t, <2>2 DEF Reply, ThreadShaped
    <3>2. rq[t].op = "insert" => ~Answered(t)' /\ ~Answered(t)
      BY <1>1, <3>1 DEF Answered
    <3>3. \A u \in Threads : SameCall(u)
      BY <2>1, <3>1, <3>2 DEF SameCall, Answered
    <3>q. QED BY <1>1, <2>1, <3>3, LogAlone
  <2>3. CASE ~Remembered(rq[t])
    <3>1. rq'[t].op = "none"
      BY <1>1, <1>t, <2>3 DEF Reply, ThreadShaped, NoRequest, Call
    <3>2. \A u \in Threads : rq'[u].op \in {"insert", "upsert"} => SameCall(u)
      BY <2>1, <3>1 DEF SameCall, Answered
    <3>q. QED BY <1>1, <2>1, <3>2, LogAlone
  <2>q. QED BY <2>2, <2>3
<1>2. ASSUME UNCHANGED <<rq, id, ans>>, \A u \in Threads : (pc'[u] = "idle") <=> (pc[u] = "idle")
      PROVE  \A u \in Threads : SameCall(u)
  BY <1>2 DEF SameCall, Answered
<1>3. ASSUME NEW place \in Places \ {"idle"}, Goto(t, place), pc[t] # "idle"
      PROVE  UNCHANGED calls /\ \A u \in Threads : SameCall(u)
  <2>1. /\ UNCHANGED <<rq, id, ans, calls>>
        /\ \A u \in Threads : (pc'[u] = "idle") <=> (pc[u] = "idle")
    BY <1>3, <1>t DEF Goto, ThreadShaped
  <2>q. QED BY <1>2, <2>1
<1>4. CASE Reject(t)
  BY <1>1, <1>4 DEF Reject, raft
<1>5. CASE SearchHandler(t) \/ QueryHandler(t) \/ SnapshotHandler(t) \/ SetLeaderHandler(t)
           \/ GetNodeHandler(t) \/ GetScalarHandler(t)
  BY <1>1, <1>5 DEF SearchHandler, QueryHandler, SnapshotHandler, SetLeaderHandler,
                    GetNodeHandler, GetScalarHandler, Runs, In, raft
<1>6. CASE UpsertAnswer(t) \/ AddSrv(t) \/ ListDone(t)
  BY <1>1, <1>6 DEF UpsertAnswer, AddSrv, ListDone, In, raft
<1>7. CASE Abort(t)
  <2>1. Goto(t, "aborted") /\ pc[t] # "idle" /\ UNCHANGED <<flat, log, cut>>
    BY <1>7 DEF Abort, raft
  <2>q. QED BY <1>3, <2>1, LogAlone DEF Places
<1>8. CASE UpsertHandler(t)
  <2>1. /\ pc[t] # "idle" /\ UNCHANGED <<flat, log, cut>> /\ rq[t].op = "upsert"
        /\ Goto(t, "append") \/ Reply(t, 200, {})
    BY <1>8 DEF UpsertHandler, Runs, In, raft
  <2>q. QED BY <1>1, <1>3, <2>1, LogAlone DEF Places
<1>9. CASE AddFollowerHandler(t)
  <2>1. /\ pc[t] # "idle" /\ UNCHANGED <<flat, log, cut>> /\ rq[t].op = "addFollower"
        /\ Goto(t, "addSrv") \/ Reply(t, 400, {})
    BY <1>9 DEF AddFollowerHandler, In, raft
  <2>q. QED BY <1>1, <1>3, <2>1, LogAlone DEF Places
<1>10. CASE ListNodeHandler(t) \/ ListOne(t)
  <2>1. /\ UNCHANGED <<flat, log, cut>> /\ UNCHANGED <<rq, id, ans, calls>>
        /\ \A u \in Threads : (pc'[u] = "idle") <=> (pc[u] = "idle")
    BY <1>10, <1>t DEF ListNodeHandler, ListOne, Runs, In, raft, ThreadShaped
  <2>q. QED BY <1>2, <2>1, LogAlone
<1>11. CASE AppendEntries(t)
  <2> DEFINE e == [key |-> rq[t].arg, of |-> id[t]]
  <2>1. /\ pc[t] = "append" /\ rq[t].op = "upsert" /\ Goto(t, "wait")
        /\ UNCHANGED <<flat, cut>> /\ (log' = log \/ log' = Append(log, e))
    BY <1>11 DEF AppendEntries, In
  <2>2. UNCHANGED calls /\ \A u \in Threads : SameCall(u)
    BY <1>3, <2>1 DEF Places
  <2>3. e \in Entry /\ e.of = id[t] /\ id[t] # 0 /\ id[t] \in Nat /\ id[t] <= calls /\ calls \in Nat
    BY <2>1 DEF HandlerInv, Numbered, Sound, ThreadShaped, Entry
  <2> HIDE DEF e
  <2>4. ASSUME NEW i \in Nat, i # id[t], Free(log, i) PROVE Free(log', i)
    <3>1. Free(Append(log, e), i)
      BY <2>3, <2>4, Appended DEF HandlerInv, NodeShaped
    <3>q. QED BY <2>1, <2>4, <3>1
  <2>5. ASSUME NEW u \in Threads, rq[u].op = "insert"
        PROVE  Free(log', id[u]) /\ id[u] \notin cut'
    <3>1. id[u] \in Nat /\ id[u] # id[t]
      BY <2>1, <2>3, <2>5 DEF HandlerInv, Numbered, ThreadShaped
    <3>q. QED BY <2>1, <2>4, <2>5, <3>1 DEF InsertInv
  <2>6. Free(log', calls + 1) /\ calls + 1 \notin cut'
    BY <2>1, <2>3, <2>4, NewNumber
  <2>7. calls <= calls'
    BY <2>2, <2>3
  <2>q. QED BY <2>1, <2>2, <2>5, <2>6, <2>7, IndexAlone
<1>12. CASE InsertHandler(t)
  <2> DEFINE e == [key |-> rq[t].arg, of |-> id[t]]
  <2>1. /\ pc[t] # "idle" /\ rq[t].op = "insert" /\ Reply(t, 200, {})
        /\ flat' = flat \cup {e} /\ UNCHANGED <<log, cut>>
    BY <1>12 DEF InsertHandler, Runs, In, raft
  <2>2. /\ UNCHANGED <<rq, id, calls>> /\ Answered(t)'
        /\ \A u \in Threads : u # t => (Answered(u)' <=> Answered(u))
    BY <1>t, <2>1 DEF Reply, Remembered, Answered, ThreadShaped
  <2>3. e \in Entry /\ e.of = id[t] /\ id[t] # 0 /\ id[t] <= calls
    BY <2>1 DEF HandlerInv, Numbered, Sound, ThreadShaped, Entry
  <2> HIDE DEF e
  <2>4. \A u \in Threads : (u # t /\ rq[u].op \in {"insert", "upsert"}) => id[u] # id[t]
    BY <2>1 DEF HandlerInv, Numbered
  <2>5. \A i : Absent(flat', i) <=> (Absent(flat, i) /\ i # id[t])
    BY <2>1, <2>3 DEF Absent
  <2>6. flat' \subseteq Entry /\ \A d \in flat' : d.of # 0 /\ d.of <= calls'
    BY <2>1, <2>2, <2>3 DEF InsertInv
  <2>7. \A u \in Threads : rq'[u].op = "upsert" => Absent(flat', id'[u])
    BY <2>1, <2>2, <2>4, <2>5 DEF InsertInv
  <2>8. ASSUME NEW u \in Threads, rq'[u].op = "insert"
        PROVE  /\ Free(log', id'[u]) /\ id'[u] \notin cut'
               /\ Absent(flat', id'[u]) <=> ~Answered(u)'
    BY <2>1, <2>2, <2>4, <2>5, <2>8 DEF InsertInv
  <2>q. QED BY <2>6, <2>7, <2>8 DEF InsertInv
<1>q. QED BY <1>4, <1>5, <1>6, <1>7, <1>8, <1>9, <1>10, <1>11, <1>12 DEF Handle

LEMMA StepInserts == HandlerInv /\ HandlerInv' /\ InsertInv /\ [Next]_vars => InsertInv'
<1> SUFFICES ASSUME HandlerInv, HandlerInv', InsertInv, [Next]_vars PROVE InsertInv'
  OBVIOUS
<1>1. ASSUME NEW t \in Threads, NEW r, Take(t, r), UNCHANGED <<flat, log, cut>> PROVE InsertInv'
  <2>1. /\ calls' = calls + 1 /\ id'[t] = calls + 1 /\ ~Answered(t)'
        /\ \A u \in Threads : u # t => SameCall(u)
    BY <1>1 DEF Take, Answered, SameCall, HandlerInv, ThreadShaped
  <2>2. /\ Free(log', calls + 1) /\ calls + 1 \notin cut' /\ calls <= calls'
        /\ \A u \in Threads : rq[u].op = "insert" => Free(log', id[u]) /\ id[u] \notin cut'
    BY <1>1, <2>1, NewNumber DEF InsertInv, HandlerInv, Numbered
  <2>q. QED BY <1>1, <2>1, <2>2, IndexAlone
<1>2. ASSUME NEW t \in Threads,
             ReadFirst(t) \/ ReadNext(t) \/ \E r \in Requests : Receive(t, r)
      PROVE  InsertInv'
  BY <1>1, <1>2 DEF ReadFirst, ReadNext, Receive, raft
<1>3. ASSUME UNCHANGED <<pc, rq, id, ans, calls, flat>> PROVE
        /\ \A u \in Threads : SameCall(u)
        /\ calls <= calls'
  BY <1>3 DEF SameCall, Answered, HandlerInv, Numbered
<1>4. ASSUME NEW n, NEW keep, Elect(n, keep) PROVE InsertInv'
  <2>1. /\ UNCHANGED <<pc, rq, id, ans, calls, flat>> /\ keep \in applied .. Len(log)
        /\ log' = SubSeq(log, 1, keep) /\ cut' = cut \cup Off(log, keep)
    BY <1>4 DEF Elect, Off
  <2>2. keep \in 0 .. Len(log)
    BY <2>1, LenProperties DEF HandlerInv, NodeShaped
  <2>3. \A i \in Nat : Free(log, i) /\ i \notin cut => Free(log', i) /\ i \notin cut'
    BY <2>1, <2>2, CutOff DEF HandlerInv, NodeShaped
  <2>4. /\ \A u \in Threads : rq[u].op = "insert" => Free(log', id[u]) /\ id[u] \notin cut'
        /\ Free(log', calls + 1) /\ calls + 1 \notin cut'
    BY <2>3, NewNumber DEF InsertInv, HandlerInv, ThreadShaped
  <2>q. QED BY <1>3, <2>1, <2>4, IndexAlone
<1>5. ASSUME NEW k \in Keys, Replicate(k) PROVE InsertInv'
  <2> DEFINE e == [key |-> k, of |-> 0]
  <2>1. /\ UNCHANGED <<pc, rq, id, ans, calls, flat>> /\ log' = Append(log, e) /\ cut' = cut
    BY <1>5 DEF Replicate, thread
  <2>2. e \in Entry /\ e.of = 0
    BY DEF Entry
  <2> HIDE DEF e
  <2>3. \A i \in Nat \ {0} : Free(log, i) => Free(log', i)
    BY <2>1, <2>2, Appended DEF HandlerInv, NodeShaped
  <2>4. \A u \in Threads : rq[u].op = "insert" => Free(log', id[u]) /\ id[u] \notin cut'
    BY <2>1, <2>3 DEF InsertInv, HandlerInv, ThreadShaped, Numbered
  <2>5. Free(log', calls + 1) /\ calls + 1 \notin cut'
    <3>1. calls + 1 \in Nat \ {0}
      BY DEF HandlerInv, Numbered
    <3>q. QED BY <2>1, <2>3, <3>1, NewNumber
  <2>q. QED BY <1>3, <2>1, <2>4, <2>5, IndexAlone
<1>6. CASE Commit \/ UNCHANGED vars
  <2>1. UNCHANGED <<pc, rq, id, ans, calls, flat>> /\ UNCHANGED <<flat, log, cut, calls>>
    BY <1>6 DEF Commit, vars, raft, thread
  <2>q. QED BY <1>3, <2>1, LogAlone
<1>q. QED BY <1>2, <1>4, <1>5, <1>6, HandlersInsert DEF Next, Steps

LEMMA InitInserts == Init => InsertInv
BY DEF Init, InsertInv, NoRequest, Call

-----------------------------------------------------------------------------

\* The invariants say what the properties say.
LEMMA Implied == HandlerInv => ListTruthful
BY DEF ListTruthful, In, HandlerInv, Lists, Truthful

LEMMA AcksImplied == HandlerInv /\ InsertInv => Acked
<1> SUFFICES ASSUME HandlerInv, InsertInv PROVE Acked
  OBVIOUS
<1>1. TypeOK
  <2> DEFINE S == [key : Keys, of : 0 .. calls]
  <2>1. log \in Seq(Entry) /\ calls \in Nat /\ Len(log) \in Nat
    BY LenProperties DEF HandlerInv, NodeShaped, Numbered
  <2>2. \A j \in 1 .. Len(log) : log[j] \in Entry /\ log[j].of <= calls
    BY <2>1, ElementOfSeq DEF HandlerInv, Numbered
  <2>3. \A j \in 1 .. Len(log) : log[j] \in S
    BY <2>1, <2>2 DEF Entry
  <2>4. log = [j \in 1 .. Len(log) |-> log[j]]
    BY <2>1, SeqDef
  <2> HIDE DEF S
  <2>5. log \in Seq(S)
    BY <2>1, <2>3, <2>4
  <2>6. flat \subseteq [key : Keys, of : 1 .. calls]
    <3> SUFFICES ASSUME NEW e \in flat PROVE e \in [key : Keys, of : 1 .. calls]
      OBVIOUS
    <3>1. e \in [key : Keys, of : Nat] /\ e.of \in 1 .. calls
      BY <2>1 DEF InsertInv, Entry
    <3>q. QED BY <3>1
  <2>q. QED BY <2>5, <2>6 DEF S, TypeOK, HandlerInv, NodeShaped, ThreadShaped, Numbered, Places
<1>0. \A i : /\ Free(log, i) <=> EntriesOf(i) = {}
             /\ Absent(flat, i) <=> InsertsOf(i) = {}
             /\ Once(log, i) => \A j, k \in EntriesOf(i) : j = k
  BY DEF Free, EntriesOf, Absent, InsertsOf, Once
<1>2. ASSUME NEW t \in Threads, In(t, "idle", "upsert")
      PROVE  LET logged == EntriesOf(id[t]) # {} \/ id[t] \in cut
             IN  /\ \A i, j \in EntriesOf(id[t]) : i = j
                 /\ InsertsOf(id[t]) = {}
                 /\ (ans[t].code = 400 \/ Self \notin led[t]) => ~logged
                 /\ (ans[t].code = 200 /\ led[t] = {Self}) => logged
  <2>1. Upserting("idle", id[t], ans[t], led[t], log, cut) /\ Absent(flat, id[t])
    BY <1>2 DEF In, HandlerInv, Upserts, InsertInv
  <2>q. QED BY <1>0, <2>1 DEF Upserting
<1>3. ASSUME NEW t \in Threads, In(t, "idle", "insert")
      PROVE  LET logged == EntriesOf(id[t]) # {} \/ id[t] \in cut
             IN  ~logged /\ (InsertsOf(id[t]) # {} <=> ans[t].code = 200)
  <2>1. /\ Free(log, id[t]) /\ id[t] \notin cut
        /\ Absent(flat, id[t]) <=> ~Answered(t)
    BY <1>3 DEF In, InsertInv
  <2>q. QED BY <1>0, <1>3, <2>1 DEF Answered, In
<1>q. QED BY <1>1, <1>2, <1>3 DEF Acked

\* upsertHandler and insertHandler: an upsert answered with 200 while this node
\* led all along has its entry in the log, once, unless a later leader cut it
\* off, and while it never led none; an insert answered with 200 is in the index;
\* one of either answered with 400 has left nothing.  For every number of
\* threads, calls and elections.
THEOREM UpsertAcked == Spec => []Acked
<1>1. Spec => []HandlerInv
  BY InitHolds, StepKeeps, PTL DEF Spec
<1>2. Spec => []InsertInv
  BY <1>1, InitInserts, StepInserts, PTL DEF Spec
<1>q. QED BY <1>1, <1>2, AcksImplied, PTL

\* getAllNodesInfo: a node that the list calls leader led during the call,
\* although get_leader is asked anew for every server.
THEOREM NodeListTruthful == Spec => []ListTruthful
<1>1. Spec => []HandlerInv
  BY InitHolds, StepKeeps, PTL DEF Spec
<1>q. QED BY <1>1, Implied, PTL

-----------------------------------------------------------------------------
(* A page of scan_page: which keys are on it, and whether there are more.   *)

\* A set of numbers has a least one.
LEMMA Least ==
    ASSUME NEW S, S \subseteq Nat, S # {}
    PROVE  \E r \in S : \A s \in S : r <= s
<1> DEFINE R == {ss \in Nat \X Nat : ss[1] < ss[2]}
<1>1. IsWellFoundedOn(R, Nat)
  BY NatLessThanWellFounded DEF OpToRel
<1> HIDE DEF R
<1>2. PICK r \in S : \A y \in S : ~(<<y, r>> \in R)
  BY <1>1, WFMin
<1>3. \A y \in S : ~(y < r)
  BY <1>2 DEF R
<1>q. QED BY <1>3

IsAscending(ks, S) ==
    /\ ks \in [1 .. Cardinality(S) -> S]
    /\ \A i, j \in 1 .. Cardinality(S) : i < j => ks[i] < ks[j]

\* Every finite set of keys can be put in order: its least key comes first.
LEMMA InOrder ==
    ASSUME NEW S, S \subseteq Nat, IsFiniteSet(S)
    PROVE  \E ks : IsAscending(ks, S)
<1> DEFINE Bad == {n \in Nat : \E T \in SUBSET Nat : /\ IsFiniteSet(T) /\ Cardinality(T) = n
                                                     /\ ~\E ks : IsAscending(ks, T)}
<1>1. SUFFICES ASSUME Bad # {} PROVE FALSE
  BY FS_CardinalityType
<1>2. PICK n \in Bad : \A m \in Bad : n <= m
  BY <1>1, Least
<1>3. PICK T \in SUBSET Nat : /\ IsFiniteSet(T) /\ Cardinality(T) = n
                              /\ ~\E ks : IsAscending(ks, T)
  BY <1>2
<1>4. n \in Nat /\ (n = 0 <=> T = {})
  BY <1>2, <1>3, FS_EmptySet
<1>5. n # 0
  <2>1. SUFFICES ASSUME n = 0 PROVE FALSE
    OBVIOUS
  <2> DEFINE none == [i \in 1 .. 0 |-> i]
  <2>2. none \in [1 .. 0 -> T] /\ 1 .. 0 = {}
    OBVIOUS
  <2> HIDE DEF none
  <2>3. IsAscending(none, T)
    BY <1>3, <2>1, <2>2 DEF IsAscending
  <2>q. QED BY <1>3, <2>3
<1>6. PICK r \in T : \A s \in T : r <= s
  BY <1>4, <1>5, Least
<1>7. IsFiniteSet(T \ {r}) /\ Cardinality(T \ {r}) = n - 1
  BY <1>3, <1>6, FS_RemoveElement
<1>8. PICK ks : IsAscending(ks, T \ {r})
  <2>1. n - 1 \notin Bad /\ n - 1 \in Nat
    BY <1>2, <1>4, <1>5
  <2>2. T \ {r} \in SUBSET Nat
    OBVIOUS
  <2>q. QED BY <1>7, <2>1, <2>2
<1> HIDE DEF Bad
<1> DEFINE ls == [i \in 1 .. n |-> IF i = 1 THEN r ELSE ks[i - 1]]
<1>9. \A i \in 2 .. n : ls[i] = ks[i - 1] /\ ks[i - 1] \in T \ {r}
  <2> SUFFICES ASSUME NEW i \in 2 .. n PROVE ls[i] = ks[i - 1] /\ ks[i - 1] \in T \ {r}
    OBVIOUS
  <2>1. i \in 1 .. n /\ i # 1 /\ i - 1 \in 1 .. n - 1
    BY <1>4
  <2>2. ks[i - 1] \in T \ {r}
    BY <1>7, <1>8, <2>1 DEF IsAscending
  <2>q. QED BY <2>1, <2>2
<1>10. ls[1] = r /\ ls \in [1 .. n -> T]
  <2>1. 1 \in 1 .. n /\ \A i \in 1 .. n : i = 1 \/ i \in 2 .. n
    BY <1>4, <1>5
  <2>2. \A i \in 1 .. n : ls[i] \in T
    BY <1>6, <1>9, <2>1
  <2>q. QED BY <2>1, <2>2
<1>11. ASSUME NEW i \in 1 .. n, NEW j \in 1 .. n, i < j PROVE ls[i] < ls[j]
  <2>1. j \in 2 .. n /\ n \in Nat
    BY <1>4, <1>11
  <2>2. CASE i = 1
    <3>1. r <= ls[j] /\ r # ls[j] /\ r \in Nat /\ ls[j] \in Nat
      BY <1>6, <1>9, <2>1
    <3>q. QED BY <1>10, <2>2, <3>1
  <2>3. CASE i # 1
    <3>1. i \in 2 .. n /\ i - 1 \in 1 .. n - 1 /\ j - 1 \in 1 .. n - 1 /\ i - 1 < j - 1
      BY <1>11, <2>1, <2>3
    <3>q. QED BY <1>7, <1>8, <1>9, <2>1, <3>1 DEF IsAscending
  <2>q. QED BY <2>2, <2>3
<1>12. IsAscending(ls, T)
  BY <1>3, <1>10, <1>11 DEF IsAscending
<1>q. QED BY <1>3, <1>12

\* The iterator visits every key once, in order.
LEMMA AscendingIs ==
    ASSUME NEW S, S \subseteq Nat, IsFiniteSet(S)
    PROVE  /\ Cardinality(S) \in Nat
           /\ Ascending(S) \in [1 .. Cardinality(S) -> S]
           /\ \A i, j \in 1 .. Cardinality(S) : i < j => Ascending(S)[i] < Ascending(S)[j]
           /\ \A k \in S : \E i \in 1 .. Cardinality(S) : Ascending(S)[i] = k
<1> DEFINE n == Cardinality(S) ks == Ascending(S)
<1>1. n \in Nat
  BY FS_CardinalityType
<1>2. ks \in [1 .. n -> S] /\ \A i, j \in 1 .. n : i < j => ks[i] < ks[j]
  BY InOrder DEF Ascending, IsAscending
<1> HIDE DEF ks
<1>3. \A i, j \in 1 .. n : ks[i] = ks[j] => i = j
  <2>1. \A i \in 1 .. n : ks[i] \in Nat
    BY <1>2
  <2> HIDE DEF n
  <2>q. QED BY <1>1, <1>2, <2>1
<1>4. ks \in Injection(1 .. n, S)
  BY <1>2, <1>3 DEF Injection, IsInjective
<1>5. IsFiniteSet(1 .. n) /\ Cardinality(1 .. n) = n
  BY <1>1, FS_Interval
<1>6. ks \in Surjection(1 .. n, S)
  BY <1>4, <1>5, FS_Injection
<1>q. QED BY <1>1, <1>2, <1>6 DEF Surjection, ks

\* The state of the loop after i keys, of which the first m are in the range.
At(skip, n, more, over) == [skip |-> skip, n |-> n, more |-> more, over |-> over]
Within(m, i) == IF i <= m THEN i ELSE m
ToSkip(off, j) == IF j < off THEN off - j ELSE 0
Items(off, size, j) == IF j <= off THEN 0 ELSE IF j <= off + size THEN j - off ELSE size
More(off, size, j) == IF j > off + size THEN TRUE ELSE FALSE
Over(off, size, m, i) == IF i > m /\ m <= off + size THEN TRUE ELSE FALSE
Seen(off, size, m, i) ==
    At(ToSkip(off, Within(m, i)), Items(off, size, Within(m, i)),
       More(off, size, Within(m, i)), Over(off, size, m, i))

LEMMA AtExcept ==
    ASSUME NEW a, NEW b, NEW c, NEW d, NEW x
    PROVE  /\ [At(a, b, c, d) EXCEPT !.skip = x] = At(x, b, c, d)
           /\ [At(a, b, c, d) EXCEPT !.n = x] = At(a, x, c, d)
           /\ [At(a, b, c, d) EXCEPT !.more = x] = At(a, b, x, d)
           /\ [At(a, b, c, d) EXCEPT !.over = x] = At(a, b, c, x)
           /\ At(a, b, c, d).skip = a /\ At(a, b, c, d).n = b
           /\ At(a, b, c, d).more = c /\ At(a, b, c, d).over = d
<1> DEFINE s == At(a, b, c, d)
<1>1. s.skip = a /\ s.n = b /\ s.more = c /\ s.over = d
  BY DEF At
<1>2. [s EXCEPT !.skip = x] = At(x, b, c, d)
  BY DEF At
<1>3. [s EXCEPT !.n = x] = At(a, x, c, d)
  BY DEF At
<1>4. [s EXCEPT !.more = x] = At(a, b, x, d)
  BY DEF At
<1>5. [s EXCEPT !.over = x] = At(a, b, c, x)
  BY DEF At
<1>q. QED BY <1>1, <1>2, <1>3, <1>4, <1>5

\* One round of the loop.
Round(ks, size, s, i) ==
    IF s.more \/ s.over THEN s
    ELSE IF ~InRange(ks[i]) THEN [s EXCEPT !.over = TRUE]
    ELSE IF s.skip > 0 THEN [s EXCEPT !.skip = @ - 1]
    ELSE IF s.n < size THEN [s EXCEPT !.n = @ + 1]
    ELSE [s EXCEPT !.more = TRUE]
Rounds(ks, num, size, loop) ==
    [i \in 0 .. Len(ks) |->
        IF i = 0 THEN [skip |-> (num - 1) * size, n |-> 0, more |-> FALSE, over |-> FALSE]
        ELSE Round(ks, size, loop[i - 1], i)]

LEMMA RoundSeen ==
    ASSUME NEW ks, NEW off \in Nat, NEW size \in Nat, NEW m \in Nat, NEW i \in Nat, i # 0,
           InRange(ks[i]) <=> i <= m
    PROVE  Round(ks, size, Seen(off, size, m, i - 1), i) = Seen(off, size, m, i)
<1> DEFINE h == Within(m, i - 1)
           j == Within(m, i)
           a == ToSkip(off, h)
           b == Items(off, size, h)
           c == More(off, size, h)
           d == Over(off, size, m, i - 1)
<1>1. Seen(off, size, m, i - 1) = At(a, b, c, d)
  BY DEF Seen
<1>2. Seen(off, size, m, i) =
         At(ToSkip(off, j), Items(off, size, j), More(off, size, j), Over(off, size, m, i))
  BY DEF Seen
<1>3. /\ c \/ d => Round(ks, size, At(a, b, c, d), i) = At(a, b, c, d)
      /\ ~c /\ ~d /\ ~InRange(ks[i]) => Round(ks, size, At(a, b, c, d), i) = At(a, b, c, TRUE)
      /\ ~c /\ ~d /\ InRange(ks[i]) /\ a > 0 => Round(ks, size, At(a, b, c, d), i) = At(a - 1, b, c, d)
      /\ ~c /\ ~d /\ InRange(ks[i]) /\ ~(a > 0) /\ b < size => Round(ks, size, At(a, b, c, d), i) = At(a, b + 1, c, d)
      /\ ~c /\ ~d /\ InRange(ks[i]) /\ ~(a > 0) /\ ~(b < size) => Round(ks, size, At(a, b, c, d), i) = At(a, b, TRUE, d)
  <2>1. c \in BOOLEAN /\ d \in BOOLEAN
    BY DEF More, Over
  <2> HIDE DEF a, b, c, d
  <2> DEFINE s == At(a, b, c, d)
  <2>2. s.skip = a /\ s.n = b /\ s.more = c /\ s.over = d
    BY AtExcept
  <2>3. /\ [s EXCEPT !.skip = s.skip - 1] = At(a - 1, b, c, d)
        /\ [s EXCEPT !.n = s.n + 1] = At(a, b + 1, c, d)
        /\ [s EXCEPT !.more = TRUE] = At(a, b, TRUE, d)
        /\ [s EXCEPT !.over = TRUE] = At(a, b, c, TRUE)
    <3>1. /\ \A x : [s EXCEPT !.skip = x] = At(x, b, c, d)
          /\ \A x : [s EXCEPT !.n = x] = At(a, x, c, d)
          /\ \A x : [s EXCEPT !.more = x] = At(a, b, x, d)
          /\ \A x : [s EXCEPT !.over = x] = At(a, b, c, x)
      BY AtExcept
    <3> HIDE DEF s
    <3>q. QED BY <2>2, <3>1
  <2> HIDE DEF s
  <2>q. QED BY <2>1, <2>2, <2>3 DEF Round, s
<1>4. /\ h = IF i - 1 <= m THEN i - 1 ELSE m
      /\ j = IF i <= m THEN i ELSE m
  BY DEF Within
<1>5. /\ c = IF h > off + size THEN TRUE ELSE FALSE
      /\ d = IF i - 1 > m /\ m <= off + size THEN TRUE ELSE FALSE
  BY DEF More, Over
<1> HIDE DEF h, j
<1>6. CASE i > m
  <2>1. h = m /\ j = m /\ ~InRange(ks[i])
    BY <1>4, <1>6
  <2>2. /\ m > off + size => c = TRUE /\ d = FALSE /\ Over(off, size, m, i) = FALSE
        /\ ~(m > off + size) => c = FALSE /\ Over(off, size, m, i) = TRUE
    BY <1>5, <1>6, <2>1 DEF Over
  <2>3. d \in BOOLEAN /\ (d => Over(off, size, m, i) = d)
    BY <1>5, <1>6 DEF Over
  <2> HIDE DEF d
  <2>4. CASE m > off + size
    BY <1>1, <1>2, <1>3, <2>1, <2>2, <2>4
  <2>5. CASE ~(m > off + size)
    BY <1>1, <1>2, <1>3, <2>1, <2>2, <2>3, <2>5
  <2>q. QED BY <2>4, <2>5
<1>7. CASE i <= m
  <2>1. h = i - 1 /\ j = i /\ InRange(ks[i]) /\ d = FALSE /\ Over(off, size, m, i) = FALSE
    BY <1>4, <1>5, <1>7 DEF Over
  <2>2. CASE i - 1 > off + size
    <3>1. /\ ToSkip(off, j) = a /\ Items(off, size, j) = b /\ More(off, size, j) = c /\ c = TRUE
      BY <1>7, <2>1, <2>2 DEF ToSkip, Items, More
    <3> HIDE DEF a, b, c, d
    <3>q. QED BY <1>1, <1>2, <1>3, <2>1, <3>1
  <2>3. CASE i - 1 < off
    <3>1. /\ a > 0 /\ ToSkip(off, j) = a - 1 /\ Items(off, size, j) = b /\ More(off, size, j) = c
          /\ c = FALSE
      BY <1>7, <2>1, <2>3 DEF ToSkip, Items, More
    <3> HIDE DEF a, b, c, d
    <3>q. QED BY <1>1, <1>2, <1>3, <2>1, <3>1
  <2>4. CASE i - 1 >= off /\ i - 1 < off + size
    <3>1. /\ ~(a > 0) /\ b < size /\ c = FALSE
          /\ ToSkip(off, j) = a /\ Items(off, size, j) = b + 1 /\ More(off, size, j) = c
      BY <1>7, <2>1, <2>4 DEF ToSkip, Items, More
    <3> HIDE DEF a, b, c, d
    <3>q. QED BY <1>1, <1>2, <1>3, <2>1, <3>1
  <2>5. CASE i - 1 = off + size
    <3>1. /\ ~(a > 0) /\ ~(b < size) /\ c = FALSE
          /\ ToSkip(off, j) = a /\ Items(off, size, j) = b /\ More(off, size, j) = TRUE
      BY <1>7, <2>1, <2>5 DEF ToSkip, Items, More
    <3> HIDE DEF a, b, c, d
    <3>q. QED BY <1>1, <1>2, <1>3, <2>1, <3>1
  <2>q. QED BY <2>2, <2>3, <2>4, <2>5
<1>q. QED BY <1>4, <1>6, <1>7

\* The whole loop: a function that obeys it exists, and there is no other.
LEMMA ScanIs ==
    ASSUME NEW ks, Len(ks) \in Nat, NEW num, NEW size \in Nat, (num - 1) * size \in Nat,
           NEW m \in Nat, \A i \in 1 .. Len(ks) : InRange(ks[i]) <=> i <= m
    PROVE  Scan(ks, num, size) = Seen((num - 1) * size, size, m, Len(ks))
<1> DEFINE off == (num - 1) * size
           Start == [skip |-> off, n |-> 0, more |-> FALSE, over |-> FALSE]
           g == [i \in 0 .. Len(ks) |-> Seen(off, size, m, i)]
           loop == CHOOSE f : f = Rounds(ks, num, size, f)
<1>0. off \in Nat
  OBVIOUS
<1>1. Scan(ks, num, size) = loop[Len(ks)]
  BY DEF Scan, Rounds, Round
<1>2. \A f : Rounds(ks, num, size, f)
             = [i \in 0 .. Len(ks) |-> IF i = 0 THEN Start ELSE Round(ks, size, f[i - 1], i)]
  BY DEF Rounds
<1> HIDE DEF off
<1>3. Seen(off, size, m, 0) = Start
  <2>1. /\ ToSkip(off, Within(m, 0)) = off /\ Items(off, size, Within(m, 0)) = 0
        /\ More(off, size, Within(m, 0)) = FALSE /\ Over(off, size, m, 0) = FALSE
    BY <1>0 DEF ToSkip, Items, More, Over, Within
  <2>q. QED BY <2>1 DEF Seen, At
<1>4. \A i \in 0 .. Len(ks) : i # 0 => Round(ks, size, Seen(off, size, m, i - 1), i) = Seen(off, size, m, i)
  BY <1>0, RoundSeen
<1> HIDE DEF Start
<1>5. \A i \in 0 .. Len(ks) : g[i] = IF i = 0 THEN Start ELSE Round(ks, size, g[i - 1], i)
  BY <1>3, <1>4
<1>6. g = Rounds(ks, num, size, g)
  <2>1. g = [i \in 0 .. Len(ks) |-> IF i = 0 THEN Start ELSE Round(ks, size, g[i - 1], i)]
    <3>1. g = [i \in 0 .. Len(ks) |-> g[i]]
      OBVIOUS
    <3> HIDE DEF g
    <3>q. QED BY <1>5, <3>1
  <2> HIDE DEF g
  <2>q. QED BY <1>2, <2>1
<1> HIDE DEF g
<1>7. loop = Rounds(ks, num, size, loop)
  BY <1>6
<1> HIDE DEF loop
<1>8. \A i \in 0 .. Len(ks) : loop[i] = IF i = 0 THEN Start ELSE Round(ks, size, loop[i - 1], i)
  BY <1>2, <1>7
<1> DEFINE Bad == {i \in 0 .. Len(ks) : loop[i] # g[i]}
<1>9. Bad = {}
  <2>1. SUFFICES ASSUME Bad # {} PROVE FALSE
    OBVIOUS
  <2>2. PICK i \in Bad : \A j \in Bad : i <= j
    <3>1. Bad \subseteq Nat
      OBVIOUS
    <3> HIDE DEF Bad
    <3>q. QED BY <2>1, <3>1, Least
  <2>3. i \in 0 .. Len(ks) /\ loop[i] # g[i] /\ i # 0
    BY <1>5, <1>8, <2>2
  <2>4. i - 1 \in 0 .. Len(ks) /\ i - 1 \notin Bad
    BY <2>2, <2>3
  <2>5. loop[i - 1] = g[i - 1]
    BY <2>4
  <2> HIDE DEF Bad
  <2>q. QED BY <1>5, <1>8, <2>3, <2>5
<1>10. loop[Len(ks)] = g[Len(ks)]
  BY <1>9
<1>q. QED BY <1>1, <1>10 DEF g, off

\* How many keys of the database an iterator that starts at Low has visited when
\* it has visited k.
Selected(db) == {k \in db : InRange(k)}
Rank(db, k) == Cardinality({j \in db : Low <= j /\ j <= k})

\* The keys that come first, up to some place, are as many as the place says.
LEMMA First ==
    ASSUME NEW S, S \subseteq Nat, IsFiniteSet(S), NEW x \in 0 .. Cardinality(S),
           NEW T \in SUBSET S,
           \A i \in 1 .. Cardinality(S) : Ascending(S)[i] \in T <=> i <= x
    PROVE  Cardinality(T) = x
<1> DEFINE n == Cardinality(S) ks == Ascending(S) f == [i \in 1 .. x |-> ks[i]]
<1>1. /\ n \in Nat /\ ks \in [1 .. n -> S] /\ (\A i, j \in 1 .. n : i < j => ks[i] < ks[j])
      /\ \A k \in S : \E i \in 1 .. n : ks[i] = k
  BY AscendingIs
<1>2. x \in Nat /\ \A i \in 1 .. x : i \in 1 .. n
  BY <1>1
<1>3. \A i \in 1 .. n : ks[i] \in T <=> i <= x
  OBVIOUS
<1> HIDE DEF n, ks
<1>4. \A i \in 1 .. x : f[i] = ks[i] /\ f[i] \in T
  BY <1>2, <1>3
<1>5. \A i, j \in 1 .. x : f[i] = f[j] => i = j
  <2> SUFFICES ASSUME NEW i \in 1 .. x, NEW j \in 1 .. x, f[i] = f[j] PROVE i = j
    OBVIOUS
  <2>1. ks[i] = ks[j] /\ ks[i] \in Nat
    BY <1>1, <1>2, <1>4
  <2>2. ~(i < j) /\ ~(j < i)
    BY <1>1, <1>2, <2>1
  <2>q. QED BY <1>2, <2>2
<1>6. \A k \in T : \E i \in 1 .. x : f[i] = k
  <2> SUFFICES ASSUME NEW k \in T PROVE \E i \in 1 .. x : f[i] = k
    OBVIOUS
  <2>1. PICK i \in 1 .. n : ks[i] = k
    BY <1>1
  <2>2. i \in 1 .. x
    BY <1>1, <1>2, <1>3, <2>1
  <2>q. QED BY <1>4, <2>1, <2>2
<1>7. f \in [1 .. x -> T]
  BY <1>4
<1> HIDE DEF f
<1>8. f \in Bijection(1 .. x, T)
  BY <1>5, <1>6, <1>7 DEF Bijection, Injection, IsInjective, Surjection
<1>9. IsFiniteSet(1 .. x) /\ Cardinality(1 .. x) = x
  BY <1>2, FS_Interval
<1>q. QED BY <1>8, <1>9, FS_Bijection DEF ExistsBijection

\* The keys that a page of size keys shows after the first off ones.
OnPage(db, off, size) == {k \in Selected(db) : off < Rank(db, k) /\ Rank(db, k) <= off + size}

\* A page of size keys after the first off ones is what scan_page answers, in
\* the key order of the iterator and from the keys that key_prefix and key
\* select: the ones that the pages before it leave out, and no others.
THEOREM PageIs ==
    ASSUME NEW db, db \subseteq Nat, IsFiniteSet(db), NEW size \in Nat \ {0}, NEW num \in Nat,
           (num - 1) * size \in Nat
    PROVE  /\ ScanPage(db, num, size).items = OnPage(db, (num - 1) * size, size)
           /\ ScanPage(db, num, size).more <=> Cardinality(Selected(db)) > (num - 1) * size + size
           /\ \A k \in Selected(db) : /\ Rank(db, k) \in Nat \ {0} /\ Cardinality(Selected(db)) \in Nat
                                      /\ Rank(db, k) <= Cardinality(Selected(db))
<1> DEFINE S == {k \in db : k >= Low}
           n == Cardinality(S)
           ks == Ascending(S)
           m == Cardinality(Selected(db))
           off == (num - 1) * size
           last == Items(off, size, m)
<1>0. Low \in Nat /\ High \in Nat
  BY ServerAssumption
<1>1. S \subseteq Nat /\ IsFiniteSet(S)
  BY FS_Subset
<1>2. /\ n \in Nat /\ ks \in [1 .. n -> S] /\ (\A i, j \in 1 .. n : i < j => ks[i] < ks[j])
      /\ \A k \in S : \E i \in 1 .. n : ks[i] = k
  BY <1>1, AscendingIs
<1>3. Len(ks) = n
  BY <1>2
<1>4. Selected(db) = {k \in S : k <= High} /\ Selected(db) \in SUBSET S
  BY <1>0 DEF Selected, InRange
<1>5. \A x \in 0 .. n, T \in SUBSET S : (\A i \in 1 .. n : ks[i] \in T <=> i <= x) => Cardinality(T) = x
  BY <1>1, First
<1>6. \A k \in S : {j \in db : Low <= j /\ j <= k} = {j \in S : j <= k}
  BY <1>0
<1>s. \A k \in S : k \in Nat /\ k \in db
  OBVIOUS
<1> HIDE DEF n, ks, S
<1>7. \A i \in 1 .. n : ks[i] \in S /\ ks[i] \in Nat /\ i \in Nat
  <2>1. \A i \in 1 .. n : ks[i] \in S
    BY <1>2
  <2>2. \A i \in 1 .. n : i \in Nat
    BY <1>2
  <2>3. \A k \in S : k \in Nat
    BY <1>1
  <2> HIDE DEF n, ks
  <2>q. QED BY <2>1, <2>2, <2>3
\* A key is on the place of its rank.
<1>8. \A i \in 1 .. n : Rank(db, ks[i]) = i
  <2> SUFFICES ASSUME NEW i \in 1 .. n PROVE Rank(db, ks[i]) = i
    OBVIOUS
  <2> DEFINE T == {j \in S : j <= ks[i]}
  <2>1. Rank(db, ks[i]) = Cardinality(T)
    BY <1>6, <1>7 DEF Rank
  <2>2. i \in 0 .. n
    BY <1>2
  <2>3. ASSUME NEW j \in 1 .. n PROVE ks[j] \in T <=> j <= i
    <3>1. ks[j] \in T <=> ks[j] <= ks[i]
      BY <1>7
    <3>2. i < j => ks[i] < ks[j]
      BY <1>2
    <3>3. j < i => ks[j] < ks[i]
      BY <1>2
    <3> HIDE DEF T
    <3>q. QED BY <1>7, <3>1, <3>2, <3>3
  <2>4. T \in SUBSET S
    OBVIOUS
  <2> HIDE DEF T
  <2>q. QED BY <1>5, <2>1, <2>2, <2>3, <2>4
\* The keys in the range are the first m.
<1>9. m \in 0 .. n /\ \A i \in 1 .. n : ks[i] \in Selected(db) <=> i <= m
  <2> DEFINE Beyond == {i \in 1 .. n : ks[i] > High}
  <2>1. \A i \in 1 .. n : ks[i] \in Selected(db) <=> ~(ks[i] > High)
    BY <1>0, <1>4, <1>7
  <2>2. PICK x \in 0 .. n : \A i \in 1 .. n : ks[i] \in Selected(db) <=> i <= x
    <3>1. CASE Beyond = {}
      <4>1. n \in 0 .. n /\ \A i \in 1 .. n : ks[i] \in Selected(db) /\ i <= n
        BY <1>2, <2>1, <3>1
      <4>q. QED BY <4>1
    <3>2. CASE Beyond # {}
      <4>1. PICK x \in Beyond : \A y \in Beyond : x <= y
        <5>1. Beyond \subseteq Nat
          OBVIOUS
        <5> HIDE DEF Beyond
        <5>q. QED BY <3>2, <5>1, Least
      <4>2. ASSUME NEW i \in 1 .. n PROVE ks[i] \in Selected(db) <=> i <= x - 1
        <5>1. x \in 1 .. n /\ ks[x] > High
          BY <4>1
        <5>2. i < x => ~(ks[i] > High)
          BY <1>7, <4>1, <5>1
        <5>3. x < i => ks[x] < ks[i]
          BY <1>2, <5>1
        <5>4. ks[i] > High <=> i >= x
          BY <1>0, <1>7, <5>1, <5>2, <5>3
        <5>q. QED BY <1>7, <2>1, <5>1, <5>4
      <4>3. x - 1 \in 0 .. n
        BY <1>2, <4>1
      <4> HIDE DEF Beyond
      <4>q. QED BY <4>2, <4>3
    <3>q. QED BY <3>1, <3>2
  <2>3. m = x
    BY <1>4, <1>5, <2>2
  <2>q. QED BY <2>2, <2>3
<1>10. \A i \in 1 .. n : InRange(ks[i]) <=> i <= m
  BY <1>7, <1>9, <1>s DEF Selected
<1>11. Scan(ks, num, size) = Seen(off, size, m, n)
  <2>1. m \in Nat /\ size \in Nat
    BY <1>2, <1>9
  <2> HIDE DEF m
  <2>q. QED BY <1>2, <1>3, <1>10, <2>1, ScanIs
<1>12. off \in Nat
  OBVIOUS
<1> HIDE DEF off, m
<1>13. Within(m, n) = m
  BY <1>2, <1>9 DEF Within
<1>14. Scan(ks, num, size).n = last /\ Scan(ks, num, size).more = More(off, size, m)
  BY <1>11, <1>13, AtExcept DEF Seen
<1>15. /\ ScanPage(db, num, size).items = {ks[i] : i \in off + 1 .. off + last}
       /\ ScanPage(db, num, size).more = More(off, size, m)
  BY <1>14 DEF ScanPage, off, ks, S
<1>16. \A i \in 1 .. n : i \in off + 1 .. off + last <=> i <= m /\ off < i /\ i <= off + size
  BY <1>2, <1>9, <1>12 DEF Items
<1>17. \A i \in off + 1 .. off + last : i \in 1 .. n
  BY <1>2, <1>9, <1>12 DEF Items
<1> HIDE DEF last
<1>18. {ks[i] : i \in off + 1 .. off + last} =
          {k \in Selected(db) : off < Rank(db, k) /\ Rank(db, k) <= off + size}
  <2>1. ASSUME NEW i \in off + 1 .. off + last
        PROVE  ks[i] \in Selected(db) /\ off < Rank(db, ks[i]) /\ Rank(db, ks[i]) <= off + size
    BY <1>8, <1>9, <1>16, <1>17
  <2>2. ASSUME NEW k \in Selected(db), off < Rank(db, k), Rank(db, k) <= off + size
        PROVE  \E i \in off + 1 .. off + last : ks[i] = k
    <3>1. PICK i \in 1 .. n : ks[i] = k
      BY <1>2, <1>4
    <3>2. i <= m /\ off < i /\ i <= off + size
      BY <1>8, <1>9, <2>2, <3>1
    <3>q. QED BY <1>16, <3>1, <3>2
  <2>q. QED BY <2>1, <2>2
<1>19. More(off, size, m) <=> m > off + size
  BY DEF More
<1>20. ASSUME NEW k \in Selected(db) PROVE Rank(db, k) \in Nat \ {0} /\ m \in Nat /\ Rank(db, k) <= m
  <2>1. PICK i \in 1 .. n : ks[i] = k
    BY <1>2, <1>4
  <2>q. QED BY <1>2, <1>8, <1>9, <2>1
<1>q. QED BY <1>15, <1>18, <1>19, <1>20 DEF off, m, OnPage

-----------------------------------------------------------------------------
(* The walk of the reader.                                                 *)

\* A call that brings the reader a page.
Reading(t) == rq[t].op = "getScalar" /\ rq[t].shape # "badPage" /\ pc[t] # "idle"

\* What the reader does not have yet of what it began with is behind the pages
\* it has read: keys that are put in front of it only push it further back.
Walked ==
    /\ reader.page \in Nat /\ reader.since \subseteq Selected(stored)
    /\ reader.page = 0 => reader.since \subseteq reader.got
    /\ reader.page # 0 =>
        \A k \in reader.since \ reader.got : (reader.page - 1) * PageSize < Rank(stored, k)

\* At most one page is under way, the one that the reader waits for.
OnePage ==
    /\ \A t \in Threads : Reading(t) => reader.page # 0 /\ rq[t].arg = reader.page
    /\ \A t, u \in Threads : Reading(t) /\ Reading(u) => t = u

Stored == IsFiniteSet(stored) /\ stored \subseteq Nat
WalkInv == Stored /\ Walked /\ OnePage

\* No page is asked for or answered.
Quiet == \A t \in Threads : Reading(t)' => Reading(t) /\ rq'[t].arg = rq[t].arg

\* Keys that are put into the database take none of its keys to the front.
LEMMA FurtherBack ==
    ASSUME NEW db, NEW more, db \subseteq more, IsFiniteSet(more), NEW k
    PROVE  Rank(db, k) \in Nat /\ Rank(more, k) \in Nat /\ Rank(db, k) <= Rank(more, k)
<1> DEFINE A == {j \in db : Low <= j /\ j <= k}
           B == {j \in more : Low <= j /\ j <= k}
<1>1. B \in SUBSET more /\ A \in SUBSET B
  OBVIOUS
<1>2. Rank(db, k) = Cardinality(A) /\ Rank(more, k) = Cardinality(B)
  BY DEF Rank
<1> HIDE DEF A, B
<1>3. IsFiniteSet(B) /\ Cardinality(A) <= Cardinality(B) /\ IsFiniteSet(A)
  BY <1>1, FS_Subset
<1>q. QED BY <1>2, <1>3, FS_CardinalityType

LEMMA WalkKept ==
    ASSUME WalkInv, UNCHANGED reader, Quiet, stored \subseteq stored', Stored'
    PROVE  WalkInv'
<1>1. Walked'
  <2>1. Selected(stored) \subseteq Selected(stored')
    BY DEF Selected
  <2>2. \A k \in reader.since : k \in stored
    BY DEF WalkInv, Walked, Selected
  <2>3. ASSUME reader.page # 0, NEW k \in reader.since \ reader.got
        PROVE  (reader.page - 1) * PageSize < Rank(stored', k)
    <3>1. (reader.page - 1) * PageSize < Rank(stored, k)
      BY <2>3 DEF WalkInv, Walked
    <3>2. Rank(stored, k) \in Nat /\ Rank(stored', k) \in Nat /\ Rank(stored, k) <= Rank(stored', k)
      BY FurtherBack DEF Stored
    <3>3. (reader.page - 1) * PageSize \in Int
      BY ServerAssumption DEF WalkInv, Walked
    <3> DEFINE x == (reader.page - 1) * PageSize
    <3> HIDE DEF x
    <3>q. QED BY <3>1, <3>2, <3>3 DEF x
  <2>q. QED BY <2>1, <2>3 DEF WalkInv, Walked
<1>2. OnePage'
  BY DEF WalkInv, OnePage, Quiet
<1>q. QED BY <1>1, <1>2 DEF WalkInv

\* The reader begins: every key it is to see has a place of at least 1.
LEMMA WalkBegins ==
    ASSUME WalkInv, ThreadShaped, NEW t \in Threads, ReadFirst(t)
    PROVE  WalkInv'
<1>1. /\ reader' = [page |-> 1, got |-> {}, since |-> Selected(stored)]
      /\ stored' = stored /\ ~InWalk
      /\ pc' = [pc EXCEPT ![t] = "handle"] /\ rq' = [rq EXCEPT ![t] = Call("getScalar", "ok", 1)]
  BY DEF ReadFirst, Take, Selected
<1>2. reader'.page = 1 /\ reader'.since = Selected(stored)
  BY <1>1
<1>3. ASSUME NEW k \in Selected(stored) PROVE (1 - 1) * PageSize < Rank(stored, k)
  <2>1. (1 - 1) * PageSize = 0 /\ PageSize \in Nat \ {0}
    BY ServerAssumption
  <2>2. stored \subseteq Nat /\ IsFiniteSet(stored) /\ (1 - 1) * PageSize \in Nat
    BY <2>1 DEF WalkInv, Stored
  <2>3. \A j \in Selected(stored) : Rank(stored, j) \in Nat \ {0}
    BY <2>1, <2>2, PageIs
  <2>q. QED BY <2>1, <2>3
<1>4. Walked'
  BY <1>1, <1>2, <1>3 DEF Walked
<1>5. OnePage'
  <2>1. \A u \in Threads : Reading(u)' => u = t
    BY <1>1 DEF Reading, InWalk, ThreadShaped
  <2>2. rq'[t].arg = 1
    BY <1>1 DEF ThreadShaped, Call
  <2>q. QED BY <1>2, <2>1, <2>2 DEF OnePage
<1>q. QED BY <1>1, <1>4, <1>5 DEF WalkInv, Stored

LEMMA WalkGoesOn ==
    ASSUME WalkInv, ThreadShaped, NEW t \in Threads, ReadNext(t)
    PROVE  WalkInv'
<1>1. /\ reader' = reader /\ stored' = stored /\ ~InWalk /\ reader.page > 1
      /\ pc' = [pc EXCEPT ![t] = "handle"]
      /\ rq' = [rq EXCEPT ![t] = Call("getScalar", "ok", reader.page)]
  BY DEF ReadNext, Take
<1>2. OnePage'
  <2>1. \A u \in Threads : Reading(u)' => u = t
    BY <1>1 DEF Reading, InWalk, ThreadShaped
  <2>2. rq'[t].arg = reader.page /\ reader.page # 0
    BY <1>1 DEF ThreadShaped, Call, WalkInv, Walked
  <2>q. QED BY <1>1, <2>1, <2>2 DEF OnePage
<1>q. QED BY <1>1, <1>2 DEF WalkInv, Stored, Walked

\* A page is answered.
LEMMA WalkAnswered ==
    ASSUME WalkInv, ThreadShaped, NEW t \in Threads, GetScalarHandler(t)
    PROVE  WalkInv'
<1> DEFINE page == ScanPage(stored, rq[t].arg, PageSize)
           off == (reader.page - 1) * PageSize
<1>1. /\ Reading(t) /\ pc[t] = "handle" /\ stored' = stored
      /\ Reply(t, 200, page.items)
      /\ reader' = [page |-> IF page.more THEN reader.page + 1 ELSE 0,
                    got |-> reader.got \cup page.items, since |-> reader.since]
  BY DEF GetScalarHandler, Runs, In, Rejected, Reading
<1>2. reader.page \in Nat /\ reader.page # 0 /\ rq[t].arg = reader.page
  BY <1>1 DEF WalkInv, Walked, OnePage
<1>3. PageSize \in Nat \ {0} /\ off \in Nat /\ (reader.page + 1 - 1) * PageSize = off + PageSize
  BY <1>2, ServerAssumption
<1>4. /\ page.items = {k \in Selected(stored) : off < Rank(stored, k) /\ Rank(stored, k) <= off + PageSize}
      /\ page.more <=> Cardinality(Selected(stored)) > off + PageSize
      /\ \A k \in Selected(stored) :
            /\ Rank(stored, k) \in Nat /\ Cardinality(Selected(stored)) \in Nat
            /\ Rank(stored, k) <= Cardinality(Selected(stored))
  <2>1. stored \subseteq Nat /\ IsFiniteSet(stored)
    BY DEF WalkInv, Stored
  <2>2. page = ScanPage(stored, reader.page, PageSize)
    BY <1>2
  <2>3. PageSize \in Nat \ {0} /\ reader.page \in Nat /\ (reader.page - 1) * PageSize \in Nat
    BY <1>2, <1>3
  <2> DEFINE answer == ScanPage(stored, reader.page, PageSize)
  <2>4. /\ answer.items = OnPage(stored, off, PageSize)
        /\ answer.more <=> Cardinality(Selected(stored)) > off + PageSize
    BY <2>1, <2>3, PageIs
  <2>5. \A k \in Selected(stored) :
            /\ Rank(stored, k) \in Nat \ {0} /\ Cardinality(Selected(stored)) \in Nat
            /\ Rank(stored, k) <= Cardinality(Selected(stored))
    BY <2>1, <2>3, PageIs
  <2> HIDE DEF page, answer, off
  <2>6. page = answer
    BY <2>2 DEF answer
  <2>q. QED BY <2>4, <2>5, <2>6 DEF OnPage
<1>5. /\ reader.since \subseteq Selected(stored)
      /\ \A k \in reader.since \ reader.got : off < Rank(stored, k)
  BY <1>2 DEF WalkInv, Walked
<1> HIDE DEF off, page
<1>6. /\ reader'.page = IF page.more THEN reader.page + 1 ELSE 0
      /\ reader'.got = reader.got \cup page.items /\ reader'.since = reader.since
  BY <1>1
<1>7. \A k \in reader.since \ reader'.got : Rank(stored, k) > off + PageSize
  BY <1>3, <1>4, <1>5, <1>6
<1>8. Walked'
  <2>1. CASE page.more
    BY <1>1, <1>2, <1>3, <1>5, <1>6, <1>7, <2>1 DEF Walked
  <2>2. CASE ~page.more
    <3>1. reader.since \ reader'.got = {}
      BY <1>3, <1>4, <1>5, <1>7, <2>2
    <3>q. QED BY <1>1, <1>5, <1>6, <2>2, <3>1 DEF Walked
  <2>q. QED BY <2>1, <2>2
<1>9. OnePage'
  <2>1. /\ rq' = [rq EXCEPT ![t] = NoRequest] /\ pc' = [pc EXCEPT ![t] = "idle"]
    BY <1>1 DEF Reply, Remembered, Reading
  <2>2. \A u \in Threads : Reading(u)' => Reading(u) /\ u # t
    BY <2>1 DEF Reading, ThreadShaped
  <2>3. \A u \in Threads : Reading(u) => u = t
    BY <1>1 DEF WalkInv, OnePage
  <2>q. QED BY <2>2, <2>3 DEF OnePage
<1>q. QED BY <1>1, <1>8, <1>9 DEF WalkInv, Stored

\* The database only grows, by one key at a time.
LEMMA StoredGrows ==
    ASSUME HandlerInv, HandlerInv', IsFiniteSet(stored), [Next]_vars
    PROVE  stored \subseteq stored' /\ Stored'
<1>1. \A k : IsFiniteSet(stored \cup {k})
  BY FS_AddElement
<1>2. stored' = stored \/ \E k : stored' = stored \cup {k}
  BY DEF Next, Steps, vars, Handle, Reject, SearchHandler, InsertHandler, QueryHandler, SnapshotHandler,
         SetLeaderHandler, Abort, UpsertHandler, AppendEntries, UpsertAnswer, AddFollowerHandler, AddSrv,
         ListNodeHandler, ListOne, ListDone, GetNodeHandler, GetScalarHandler, ReadFirst, ReadNext,
         Receive, Elect, Commit, Replicate
<1>3. stored' \subseteq Nat
  BY ServerAssumption DEF HandlerInv, NodeShaped
<1>q. QED BY <1>1, <1>2, <1>3 DEF Stored

\* Every handler but getScalarHandler leaves the page that is under way alone.
LEMMA HandlersQuiet ==
    ASSUME ThreadShaped, NEW t \in Threads, Handle(t), ~GetScalarHandler(t)
    PROVE  Quiet /\ UNCHANGED reader
<1>1. ASSUME NEW code, NEW body, Reply(t, code, body) PROVE Quiet
  <2>1. pc' = [pc EXCEPT ![t] = "idle"] /\ \A u \in Threads : u # t => rq'[u] = rq[u]
    BY <1>1 DEF Reply, ThreadShaped
  <2>q. QED BY <2>1 DEF Quiet, Reading, ThreadShaped
<1>2. ASSUME UNCHANGED rq, pc[t] # "idle", \A u \in Threads : u # t => pc'[u] = pc[u] PROVE Quiet
  BY <1>2 DEF Quiet, Reading
<1>3. ASSUME NEW place, Goto(t, place), pc[t] # "idle" PROVE Quiet
  <2>1. UNCHANGED rq /\ \A u \in Threads : u # t => pc'[u] = pc[u]
    BY <1>3 DEF Goto, ThreadShaped
  <2>q. QED BY <1>2, <1>3, <2>1
<1>4. UNCHANGED reader
  BY DEF Handle, Reject, SearchHandler, InsertHandler, QueryHandler, SnapshotHandler,
         SetLeaderHandler, Abort, UpsertHandler, AppendEntries, UpsertAnswer, AddFollowerHandler, AddSrv,
         ListNodeHandler, ListOne, ListDone, GetNodeHandler
<1>5. Quiet
  <2>1. CASE Reject(t) \/ SearchHandler(t) \/ InsertHandler(t) \/ QueryHandler(t)
             \/ SnapshotHandler(t) \/ SetLeaderHandler(t)
    BY <1>1, <2>1 DEF Reject, SearchHandler, InsertHandler, QueryHandler, SnapshotHandler,
                      SetLeaderHandler
  <2>2. CASE UpsertAnswer(t) \/ AddSrv(t) \/ ListDone(t) \/ GetNodeHandler(t)
    BY <1>1, <2>2 DEF UpsertAnswer, AddSrv, ListDone, GetNodeHandler
  <2>3. CASE UpsertHandler(t) \/ AddFollowerHandler(t)
    BY <1>1, <1>3, <2>3 DEF UpsertHandler, AddFollowerHandler, Runs, In, Rejected
  <2>4. CASE AppendEntries(t) \/ Abort(t)
    BY <1>3, <2>4 DEF AppendEntries, Abort, In
  <2>5. CASE ListNodeHandler(t)
    <3>1. UNCHANGED rq /\ pc[t] # "idle" /\ \A u \in Threads : u # t => pc'[u] = pc[u]
      BY <2>5 DEF ListNodeHandler, Runs, In, ThreadShaped
    <3>q. QED BY <1>2, <3>1
  <2>6. CASE ListOne(t)
    <3>1. UNCHANGED rq /\ pc[t] # "idle" /\ \A u \in Threads : u # t => pc'[u] = pc[u]
      BY <2>6 DEF ListOne, In
    <3>q. QED BY <1>2, <3>1
  <2>q. QED BY <2>1, <2>2, <2>3, <2>4, <2>5, <2>6 DEF Handle
<1>q. QED BY <1>4, <1>5

\* A client's own getScalar request is only ever the one with a bad page number.
LEMMA ReceiveQuiet ==
    ASSUME ThreadShaped, NEW t \in Threads, NEW r \in Requests, Receive(t, r)
    PROVE  Quiet /\ UNCHANGED reader
<1>1. r.op = "getScalar" => r.shape = "badPage"
  BY RequestsAssumption DEF AllRequests, Call
<1>2. pc' = [pc EXCEPT ![t] = "handle"] /\ rq' = [rq EXCEPT ![t] = r] /\ UNCHANGED reader
  BY DEF Receive, Take
<1>3. Quiet
  BY <1>1, <1>2 DEF Quiet, Reading, ThreadShaped
<1>q. QED BY <1>2, <1>3

LEMMA StepWalks == HandlerInv /\ WalkInv /\ [Next]_vars => WalkInv'
<1> SUFFICES ASSUME HandlerInv, WalkInv, [Next]_vars PROVE WalkInv'
  OBVIOUS
<1>1. ThreadShaped /\ IsFiniteSet(stored)
  BY DEF HandlerInv, WalkInv, Stored
<1>2. stored \subseteq stored' /\ Stored'
  BY <1>1, StepKeeps, StoredGrows
<1>3. ASSUME Quiet, UNCHANGED reader PROVE WalkInv'
  BY <1>2, <1>3, WalkKept
<1>4. ASSUME NEW t \in Threads, Handle(t) PROVE WalkInv'
  BY <1>1, <1>3, <1>4, HandlersQuiet, WalkAnswered
<1>5. ASSUME NEW t \in Threads, ReadFirst(t) \/ ReadNext(t) PROVE WalkInv'
  BY <1>1, <1>5, WalkBegins, WalkGoesOn
<1>6. ASSUME NEW t \in Threads, NEW r \in Requests, Receive(t, r) PROVE WalkInv'
  BY <1>1, <1>3, <1>6, ReceiveQuiet
<1>7. ASSUME UNCHANGED <<pc, rq, reader>> PROVE WalkInv'
  <2>1. Quiet
    BY <1>7 DEF Quiet, Reading
  <2>q. QED BY <1>3, <1>7, <2>1
<1>8. ASSUME NEW n, NEW keep, Elect(n, keep) PROVE WalkInv'
  BY <1>7, <1>8 DEF Elect
<1>9. CASE Commit \/ \E k \in Keys : Replicate(k)
  BY <1>7, <1>9 DEF Commit, Replicate, thread
<1>10. CASE UNCHANGED vars
  BY <1>7, <1>10 DEF vars, thread
<1>q. QED BY <1>4, <1>5, <1>6, <1>8, <1>9, <1>10 DEF Next, Steps

LEMMA WalkStarts == Init => WalkInv
<1> SUFFICES ASSUME Init PROVE WalkInv
  OBVIOUS
<1>1. Stored
  BY FS_EmptySet DEF Init, Stored
<1>2. reader.page = 0 /\ reader.since = {} /\ reader.got = {}
  BY DEF Init
<1>3. OnePage
  BY DEF Init, OnePage, Reading
<1>q. QED BY <1>1, <1>2, <1>3 DEF WalkInv, Walked

\* getScalarHandler over scan_page: a client that asks for page after page until
\* hasMore is false has seen every document that was there when it began,
\* whatever is put between its pages; for every page size and every database.
THEOREM WalkMissesNothing == Spec => []WalkComplete
<1>1. Spec => [](HandlerInv /\ WalkInv)
  BY InitHolds, StepKeeps, WalkStarts, StepWalks, PTL DEF Spec
<1>2. WalkInv => WalkComplete
  BY DEF WalkInv, Walked, WalkComplete
<1>q. QED BY <1>1, <1>2, PTL
=============================================================================

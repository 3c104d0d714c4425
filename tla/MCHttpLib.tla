----------------------------- MODULE MCHttpLib -----------------------------
(***************************************************************************)
(* HttpLib for TLC: three connections and two workers.  The client of c1     *)
(* sends a request of every kind and another one behind it.  That of c2 only *)
(* keeps a worker busy; as long as c1 is silent it may leave, and that of c3 *)
(* may come.                                                               *)
(***************************************************************************)
EXTENDS HttpLib

CONSTANTS c1, c2, c3, w1, w2

Make(head, content, len, n, big, close, route) ==
    [head |-> head, content |-> content, len |-> len, body |-> n, big |-> big,
     close |-> close, route |-> route]

\* /upsert and the like; one that throws; a path without a handler; GET.
Upsert == Make("ok", TRUE, "length", 2, FALSE, FALSE, "ok")
Throws == Make("ok", TRUE, "chunked", 1, FALSE, TRUE, "throws")
Missing == Make("ok", TRUE, "length", 1, FALSE, FALSE, "missing")
ListNode == Make("ok", FALSE, "none", 0, FALSE, FALSE, "ok")
\* A GET whose body nobody reads.
GetWithBody == Make("ok", FALSE, "length", 1, FALSE, FALSE, "ok")
\* No length, too long, and requests that are given up early.
Endless == Make("ok", TRUE, "none", 1, FALSE, FALSE, "ok")
TooBig == Make("ok", TRUE, "length", 1, TRUE, FALSE, "ok")
BadLine == Make("bad", TRUE, "length", 1, FALSE, FALSE, "ok")
LongLine == Make("long", FALSE, "none", 0, FALSE, FALSE, "ok")
BadRange == Make("range", TRUE, "length", 1, FALSE, FALSE, "ok")
Gzipped == Make("encoded", TRUE, "length", 1, FALSE, FALSE, "ok")
NoBoundary == Make("boundary", TRUE, "length", 1, FALSE, FALSE, "ok")
LongForm == Make("form", TRUE, "chunked", 1, FALSE, FALSE, "ok")

\* The second request follows a first one of any kind.
MCKindsOf ==
    [c \in {c1, c2, c3} |->
        IF c = c1
        THEN <<{Upsert, Throws, Missing, GetWithBody, Endless, TooBig, BadLine,
                LongLine, BadRange, Gzipped, NoBoundary, LongForm}, {ListNode}>>
        ELSE <<>>]

\* It leaves out steps of clients only, which no fairness asks for.
Bounded == (cst[c3] # "new" \/ gone[c2]) => asked[c1] = <<>>
=============================================================================

---------------------------- MODULE MCHttpServer ----------------------------
(* HttpServer with two threads, two nodes, three keys and the filter blob.    *)
EXTENDS HttpServer, TLC

CONSTANTS t1, t2, n1, n2

MCThreads == {t1, t2}
Symmetry == Permutations(MCThreads)
MCPeers == {n2}
\* "__filter_index__" sorts behind the decimal ids.
MCKeys == {1, 2}
\* Every endpoint, every way of being refused, and fields that cannot be read.
MCRequests ==
    {Call("upsert", s, 1) : s \in Shapes} \cup {Call("upsert", "ok", 2)}
    \cup {Call("insert", s, 1) : s \in {"ok", "unknownType"}}
    \cup {Call("search", s, 0) : s \in {"ok", "missing"}}
    \cup {Call("query", s, 1) : s \in {"ok", "badField"}}
    \cup {Call("addFollower", s, n2) : s \in {"ok", "badField"}}
    \cup {Call(op, "ok", 0) : op \in {"snapshot", "setLeader", "listNode", "getNode"}}
    \cup {Call("getScalar", "badPage", 0)}
=============================================================================

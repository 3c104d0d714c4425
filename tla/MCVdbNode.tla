----------------------------- MODULE MCVdbNode -----------------------------
(***************************************************************************)
(* Small instances of VdbNode for TLC: two documents, two vectors, two     *)
(* field values, WALs of two or three lines.                               *)
(***************************************************************************)
EXTENDS VdbNode

CONSTANTS d1, d2, v1, v2, t1, t2

Req(d, type, v, t) == [doc |-> d, type |-> type, vec |-> v, tag |-> t]

\* A tagged document that is rewritten in FLAT, and an untagged HNSW one.
MCUniform == {Req(d1, "FLAT", v1, t1), Req(d1, "FLAT", v2, t2),
              Req(d2, "HNSW", v1, NoTag)}

\* A document that moves between the indexes and gains and loses its field.
MCMixed == {Req(d1, "FLAT", v1, t1), Req(d1, "HNSW", v2, NoTag),
            Req(d2, "UNKNOWN", v1, t2)}

\* One document whose field value changes.
MCOneDoc == {Req(d1, "FLAT", v1, t1), Req(d1, "FLAT", v2, t2)}

\* A body that was sent with a line break in it.
MCBroken == {Req(d1, "FLAT", v2, t2)}

MCInserts == {Req(d2, "FLAT", v2, NoTag), Req(d2, "HNSW", v1, NoTag)}

Ration(crash, snapshot, insert, conf, overwrite, pack) ==
    [op \in Ops |-> CASE op = "crash" -> crash
                      [] op = "snapshot" -> snapshot
                      [] op = "insert" -> insert
                      [] op = "conf" -> conf
                      [] op = "overwrite" -> overwrite
                      [] op = "pack" -> pack]

MCRestart == Ration(2, 2, 0, 0, 0, 0)
MCRaft == Ration(1, 1, 1, 1, 1, 1)

\* At most two of the things that happen beside upserts, crashes and snapshots.
AnyTwo ==
    Cardinality({op \in {"insert", "conf", "overwrite", "pack"} : budget[op] < Budget[op]}) <= 2

MCCrashSnap == Ration(2, 1, 0, 0, 0, 0)
MCCrashOnly == Ration(1, 0, 0, 0, 0, 0)
MCOverwrite == Ration(1, 0, 0, 0, 1, 0)
=============================================================================

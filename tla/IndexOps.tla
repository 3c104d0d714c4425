------------------------------ MODULE IndexOps ------------------------------
(***************************************************************************)
(* The three in-memory indexes that IndexFactory owns, as pure operators.  *)
(*                                                                         *)
(*   flat    FaissIndex over faiss::IndexIDMap(IndexFlat): how many copies *)
(*           of vector v are stored under label d.  add_with_ids never     *)
(*           looks for the label, remove_ids drops every copy of it.       *)
(*   hnsw    HNSWLibIndex: at most one vector per label.                   *)
(*   filter  FilterIndex, one integer field: value -> bitmap of labels.    *)
(*                                                                         *)
(* A request is the JSON body of /upsert reduced to what these indexes tell *)
(* apart: its id, its indexType, its vector and its integer field (NoTag:  *)
(* the body has no such member).                                           *)
(***************************************************************************)
EXTENDS Integers, FiniteSets

CONSTANTS
    Docs,       \* document ids
    Vecs,       \* vectors
    Tags,       \* values of the integer field
    NoTag,      \* "the body has no integer field"
    NoVec,      \* "the label is not in the HNSW graph"
    NoData,     \* RocksDB has no value for the key: a null Document
    HnswCap,    \* HNSWLibIndex::max_elements
    SplitDocs   \* ids whose serialized form in a bitmap contains a newline byte

ASSUME IndexAssumption ==
    /\ NoTag \notin Tags
    /\ NoVec \notin Vecs
    /\ HnswCap \in Nat
    /\ SplitDocs \subseteq Docs

\* IndexFactory::IndexType; a body without a usable indexType is UNKNOWN.
IndexTypes == {"FLAT", "HNSW", "UNKNOWN"}

Request ==
    [doc : Docs, type : IndexTypes, vec : Vecs, tag : Tags \cup {NoTag}]

ASSUME NoDataAssumption == NoData \notin Request

EmptyFlat == [p \in Docs \X Vecs |-> 0]
EmptyHnsw == [d \in Docs |-> NoVec]
EmptyFilter == [t \in Tags |-> {}]

FlatType == [Docs \X Vecs -> Nat]
HnswType == [Docs -> Vecs \cup {NoVec}]
FilterType == [Tags -> SUBSET Docs]

\* FaissIndex::insert_vectors
FlatInsert(flat, d, v) == [flat EXCEPT ![<<d, v>>] = @ + 1]

\* FaissIndex::remove_vectors: every copy under the label.
FlatRemove(flat, d) ==
    [p \in DOMAIN flat |-> IF p[1] = d THEN 0 ELSE flat[p]]

\* HierarchicalNSW::addPoint: updates a label it has, and throws when a new
\* label would exceed max_elements.
HnswInsert(hnsw, d, v) == [hnsw EXCEPT ![d] = v]
HnswLabels(hnsw) == {d \in DOMAIN hnsw : hnsw[d] # NoVec}
HnswThrows(hnsw, d) ==
    hnsw[d] = NoVec /\ Cardinality(HnswLabels(hnsw)) >= HnswCap

\* Slip: the old value is cleared after the new one was set.
FilterUpdateSwapped(filter, d, old, new) ==
    [t \in DOMAIN filter |->
        IF t = old THEN filter[t] \ {d}
        ELSE IF t = new THEN filter[t] \cup {d}
        ELSE filter[t]]

\* FilterIndex::updateIntFieldFilter; old is the value read from the existing
\* document, NoTag when there is no existing document.
FilterUpdate(filter, d, old, new) ==
    [t \in DOMAIN filter |->
        IF t = new THEN filter[t] \cup {d}
        ELSE IF t = old THEN filter[t] \ {d}
        ELSE filter[t]]

\* FilterIndex::getIntFieldFilterBitmap for the operators "=" and "!=".
FilterBitmap(filter, op, value) ==
    IF op = "=" THEN filter[value]
    ELSE UNION {filter[t] : t \in DOMAIN filter \ {value}}

\* serializeIntFieldFilter writes the binary bitmaps one per line, and
\* deserializeIntFieldFilter splits at newlines: a bitmap that contains one
\* is cut in two, and std::stol throws on the second part.
BlobReadable(blob) == \A t \in DOMAIN blob : blob[t] \cap SplitDocs = {}

(***************************************************************************)
(* The stages of VectorDatabase::upsert, on a request r and the document   *)
(* old that scalar_storage_ held for r.doc when the upsert began.          *)
(***************************************************************************)

\* Slip: the FLAT removal is commented out as the HNSW one is.
UpsertKeep(flat, r, old) == flat

\* Stage 1: drop the old vector; only the FLAT branch removes anything.
UpsertRemove(flat, r, old) ==
    IF old # NoData /\ r.type = "FLAT" THEN FlatRemove(flat, r.doc) ELSE flat

\* Stage 2: insert into the index that the request names.
UpsertFlat(flat, r) ==
    IF r.type = "FLAT" THEN FlatInsert(flat, r.doc, r.vec) ELSE flat
UpsertHnsw(hnsw, r) ==
    IF r.type = "HNSW" THEN HnswInsert(hnsw, r.doc, r.vec) ELSE hnsw
UpsertThrows(hnsw, r) == r.type = "HNSW" /\ HnswThrows(hnsw, r.doc)

\* Stage 3: the loop over integer members.  existingData[field].GetInt64()
\* asserts (and the process aborts) when the existing document has no such
\* member.
FieldMissing(r, old) == r.tag # NoTag /\ old # NoData /\ old.tag = NoTag
UpsertFilter(filter, r, old) ==
    IF r.tag = NoTag THEN filter
    ELSE FilterUpdate(filter, r.doc, IF old = NoData THEN NoTag ELSE old.tag, r.tag)

\* What FaissIndex and HNSWLibIndex return from the FLAT or HNSW index when
\* only the labels in the bitmap are admitted (k large enough; a distance
\* stands for the vector it was computed from).
SearchFlat(flat, bitmap) ==
    {p \in DOMAIN flat : p[1] \in bitmap /\ flat[p] > 0}
SearchHnsw(hnsw, bitmap) ==
    {<<d, hnsw[d]>> : d \in HnswLabels(hnsw) \cap bitmap}

\* The "filter" member of a search request: none, or an operator and a value.
NoFilter == [op |-> "none"]
Where(op, value) == [op |-> op, value |-> value]
Admitted(filter, cond) ==
    IF cond = NoFilter THEN Docs ELSE FilterBitmap(filter, cond.op, cond.value)

\* VectorDatabase::search; an index type it does not know has no results.
Search(flat, hnsw, filter, type, cond) ==
    CASE type = "FLAT" -> SearchFlat(flat, Admitted(filter, cond))
      [] type = "HNSW" -> SearchHnsw(hnsw, Admitted(filter, cond))
      [] OTHER -> {}
=============================================================================

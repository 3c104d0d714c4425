----------------------------- MODULE AnnoyIndex -----------------------------
(***************************************************************************)
(* AnnoyIndex (annoy_index.cpp) over the Annoy library (annoylib.h): insert, *)
(* remove, search, ensure_built, saveIndex and loadIndex in any order.  The  *)
(* vectors are positions on a line; of a forest, what a search can tell: the *)
(* labels in its trees, and how many of them it has to visit.  Both metrics  *)
(* run through the same code.                                              *)
(***************************************************************************)
EXTENDS VectorSimilarity

CONSTANTS
    Labels,     \* labels of vectors
    VectorsOf,  \* the vectors that a label may have
    Queries,    \* vectors to search for
    Ks,         \* the k of searches
    Bitmaps,    \* their filters; a null bitmap is the one of all labels
    SearchKs,   \* their search_k
    NTrees,     \* n_trees_
    NoFile      \* the index file does not exist

ASSUME AnnoyAssumption ==
    /\ Labels \subseteq Nat /\ VectorsOf \in [Labels -> SUBSET Int]
    /\ Queries \subseteq Int /\ Ks \subseteq Int /\ Bitmaps \subseteq SUBSET Labels
    /\ SearchKs \subseteq Int /\ NTrees \in Nat \ {0}

VARIABLES
    items,      \* the items of the Annoy index: label -> vector
    trees,      \* the labels that its trees hold
    built, loaded,      \* its _built and _loaded
    need_rebuild, deleted_ids,
    file,       \* the index file: the items in it
    res,        \* the last call: what it returned
    live,       \* bookkeeping: what should be found, ...
    kept,       \* ... what of it is in the file,
    forgotten,  \* labels that were deleted before the save that was loaded,
    late        \* and whether a vector was added to a built index

annoy == <<items, trees, built, loaded>>
vars == <<annoy, need_rebuild, deleted_ids, file, res, live, kept, forgotten, late>>

Empty == [l \in {} |-> 0]
Silent == [call |-> "none"]
Throws(call) == [call |-> "throws", in |-> call]

\* create_index_by_metric
Init ==
    /\ items = Empty /\ trees = {} /\ built = FALSE /\ loaded = FALSE
    /\ need_rebuild = FALSE /\ deleted_ids = {} /\ file = NoFile
    /\ res = Silent /\ live = Empty /\ kept = Empty /\ forgotten = {} /\ late = FALSE

\* Another AnnoyIndex, in this process or the next.
Construct ==
    /\ items' = Empty /\ trees' = {} /\ built' = FALSE /\ loaded' = FALSE
    /\ need_rebuild' = FALSE /\ deleted_ids' = {} /\ res' = Silent
    /\ live' = Empty /\ forgotten' = {} /\ late' = FALSE
    /\ UNCHANGED <<file, kept>>

With(f, l, v) == [x \in DOMAIN f \cup {l} |-> IF x = l THEN v ELSE f[x]]
Without(f, ls) == [x \in DOMAIN f \ ls |-> f[x]]

-----------------------------------------------------------------------------
(* The library.                                                            *)

\* add_item: refused by a loaded index only.
CanAdd == ~loaded

\* build: refused by a built or loaded index.
CanBuild == ~built /\ ~loaded

\* _get_all_nns: the labels that a search for n collects from the forest.  It goes
\* down the trees until it has met search_k labels, each at most once in a tree, or
\* all; -1 stands for n in every tree, and less, as a size_t, for no limit.  Which
\* ones it meets first is up to the splits, which are random.
Visits(ls, n, search_k) ==
    {C \in SUBSET ls : \/ C = ls
                       \/ search_k = -1 /\ Cardinality(C) >= n
                       \/ search_k >= 0 /\ NTrees * Cardinality(C) >= search_k}

\* Slip: the label is compared first.
NearerByLabel(q, x, y) == x < y

\* The n nearest of them, by distance, then label.
Nearer(q, x, y) ==
    LET dx == EuclideanDistance(q, items[x]) dy == EuclideanDistance(q, items[y])
    IN  dx < dy \/ (dx = dy /\ x < y)
NearestOf(ls, q, n) ==
    LET all == Ordered(ls, LAMBDA x, y : Nearer(q, x, y))
    IN  SubSeq(all, 1, IF n < Len(all) THEN n ELSE Len(all))

-----------------------------------------------------------------------------
(* The wrapper.                                                            *)

\* insert_vectors
InsertVectors(l, v) ==
    IF CanAdd
    THEN /\ items' = With(items, l, v) /\ live' = With(live, l, v)
         /\ deleted_ids' = deleted_ids \ {l} /\ forgotten' = forgotten \ {l}
         /\ need_rebuild' = TRUE /\ late' = (late \/ built) /\ res' = Silent
         /\ UNCHANGED <<trees, built, loaded, file, kept>>
    ELSE res' = Throws("insert")
         /\ UNCHANGED <<annoy, need_rebuild, deleted_ids, file, live, kept, forgotten, late>>

\* The dimension does not fit, of a vector to insert or to search for.
WrongDim ==
    /\ res' = Throws("dim")
    /\ UNCHANGED <<annoy, need_rebuild, deleted_ids, file, live, kept, forgotten, late>>

\* remove_vectors
RemoveVectors(ls) ==
    /\ deleted_ids' = deleted_ids \cup ls /\ live' = Without(live, ls) /\ res' = Silent
    /\ forgotten' = forgotten \ ls
    /\ UNCHANGED <<annoy, need_rebuild, file, kept, late>>

BuildFails == need_rebuild /\ ~CanBuild

\* Slip: need_rebuild_ is not reset.
RebuildAgain ==
    /\ ~BuildFails /\ UNCHANGED need_rebuild
    /\ IF need_rebuild THEN built' = TRUE /\ trees' = DOMAIN items ELSE UNCHANGED <<built, trees>>

\* rebuild_if_needed, when it returns ...
RebuildIfNeeded ==
    /\ ~BuildFails /\ need_rebuild' = FALSE
    /\ IF need_rebuild THEN built' = TRUE /\ trees' = DOMAIN items ELSE UNCHANGED <<built, trees>>

\* ... and when it throws, in a search, a save or ensure_built.
RebuildThrows ==
    /\ BuildFails /\ res' = Throws("build")
    /\ UNCHANGED <<annoy, need_rebuild, deleted_ids, file, live, kept, forgotten, late>>

\* ensure_built
EnsureBuilt ==
    /\ RebuildIfNeeded /\ res' = Silent
    /\ UNCHANGED <<items, loaded, deleted_ids, file, live, kept, forgotten, late>>

\* Slip: no more candidates than results.
CandidatesOnly(k) == k

\* candidate_k
Candidates(k) == 4 * k

\* Slip: what is deleted is not left out.
AllowedAny(l, bitmap) == l \in bitmap
Allowed(l, bitmap) == l \notin deleted_ids /\ l \in bitmap

\* The loop that picks the results, and the padding.
Picked(nns, k, bitmap) ==
    LET ids[i \in 0 .. Len(nns)] ==
            IF i = 0 THEN <<>>
            ELSE LET so_far == ids[i - 1]
                 IN  IF Len(so_far) < k /\ Allowed(nns[i], bitmap)
                     THEN Append(so_far, nns[i]) ELSE so_far
        ok == ids[Len(nns)]
    IN  [j \in 1 .. k |-> IF j <= Len(ok) THEN ok[j] ELSE -1]

\* search_vectors, for k = 0 or less ...
SearchNothing(k) ==
    /\ k <= 0 /\ res' = Silent
    /\ UNCHANGED <<annoy, need_rebuild, deleted_ids, file, live, kept, forgotten, late>>

\* ... and for more.
SearchVectors(q, k, bitmap, search_k) ==
    /\ k > 0 /\ RebuildIfNeeded
    /\ \E C \in Visits(trees', Candidates(k), search_k) :
        res' = [call |-> "search", q |-> q, k |-> k, bitmap |-> bitmap, search_k |-> search_k,
                ids |-> Picked(NearestOf(C, q, Candidates(k)), k, bitmap)]
    /\ UNCHANGED <<items, loaded, deleted_ids, file, live, kept, forgotten, late>>

\* saveIndex: Annoy's save ends with unload and load of the new file.
SaveIndex ==
    /\ RebuildIfNeeded
    /\ IF built'
       THEN file' = items /\ loaded' = TRUE /\ res' = Silent /\ kept' = live
       ELSE res' = Throws("save") /\ UNCHANGED <<file, loaded, kept>>
    /\ UNCHANGED <<items, deleted_ids, live, forgotten, late>>

\* loadIndex, when there is a file.
LoadIndex ==
    /\ file # NoFile
    /\ items' = file /\ trees' = DOMAIN file /\ built' = TRUE /\ loaded' = TRUE
    /\ deleted_ids' = {} /\ need_rebuild' = FALSE /\ late' = FALSE /\ res' = Silent
    /\ live' = kept /\ forgotten' = DOMAIN file \ DOMAIN kept
    /\ UNCHANGED <<file, kept>>

Next ==
    \/ \E l \in Labels : \E v \in VectorsOf[l] : InsertVectors(l, v)
    \/ \E l \in Labels : RemoveVectors({l})
    \/ \E k \in Ks : SearchNothing(k)
    \/ \E q \in Queries, k \in Ks, bitmap \in Bitmaps, search_k \in SearchKs :
        SearchVectors(q, k, bitmap, search_k)
    \/ Construct \/ WrongDim \/ EnsureBuilt \/ RebuildThrows \/ SaveIndex \/ LoadIndex

Spec == Init /\ [][Next]_vars

-----------------------------------------------------------------------------

\* The trees hold labels of the index only, and all of a loaded one; what should
\* be found has its vector in the index.
TypeOK ==
    /\ DOMAIN items \subseteq Labels /\ trees \subseteq DOMAIN items
    /\ deleted_ids \subseteq Labels /\ (loaded => built /\ trees = DOMAIN items)
    /\ DOMAIN live \subseteq DOMAIN items

Searched == res.call = "search"
Hits == {j \in 1 .. res.k : res.ids[j] # -1}
Findable == (DOMAIN live \cup forgotten) \cap res.bitmap

\* What search_vectors returns is in the index, not deleted, in the bitmap, no
\* label twice and the padding behind it, after any order of inserts, removals,
\* saves and loads; a deleted vector can only be back through the load of a file
\* that was saved after its removal, which forgets deleted_ids_.
SearchSound ==
    /\ TypeOK
    /\ Searched =>
        /\ \A j \in Hits : res.ids[j] \in Findable /\ 1 .. j \subseteq Hits
        /\ \A i, j \in Hits : res.ids[i] = res.ids[j] => i = j

\* Filtering comes after the search, in 4 k candidates.  With the default search_k a
\* result that could be found is missing only for a candidate that was filtered out
\* or deleted: the rest of the 4 k are results, until there are k or all.
SearchFull ==
    Searched /\ res.search_k = -1 =>
        \/ Cardinality(Hits) \in {res.k, Cardinality(Findable)}
        \/ Cardinality(Hits) >= 4 * res.k - Cardinality(trees \ Findable)

\* The results come the most similar first, whatever the trees let the search meet.
\* With the default search_k and no more labels than candidates, they are the k that
\* find_top_k_similar_vectors, asked for all, ranks highest.
SearchBest ==
    Searched =>
        LET Sim(j) == ComputeSimilarity(res.q, items[res.ids[j]])
            vectors == SetToSeq(Findable)
            all == FindTopK(res.q, [i \in DOMAIN vectors |-> items[vectors[i]]], Len(vectors))
        IN  /\ \A i, j \in Hits : i < j => Sim(i) >= Sim(j)
            /\ res.search_k = -1 /\ Cardinality(trees) <= 4 * res.k =>
                /\ Cardinality(Hits) = IF Len(all) < res.k THEN Len(all) ELSE res.k
                /\ \A j \in Hits : Sim(j) = all[Len(all) + 1 - j].sim

\* insert_vectors succeeds on a built index, but Annoy can build only once:
\* exactly then all searches and saves throw, until loadIndex drops the vector.
LateInsertBreaks ==
    /\ Searched => ~late
    /\ res = Throws("build") => late

\* find_top_k_similar_vectors returns "the k vectors most similar to the target".
TopKMostSimilar ==
    \A q \in Queries, k \in 1 .. Cardinality(DOMAIN live) :
        LET vectors == SetToSeq(DOMAIN live)
            all == [i \in DOMAIN vectors |-> live[vectors[i]]]
            top == FindTopK(q, all, k)
        IN  \A i \in DOMAIN all : (\A j \in DOMAIN top : top[j].i # i) =>
                \A j \in DOMAIN top : top[j].sim >= ComputeSimilarity(q, all[i])
=============================================================================

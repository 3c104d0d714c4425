-------------------------- MODULE VectorSimilarity --------------------------
(***************************************************************************)
(* VectorSimilarity (in_mem_vector_similarity.h), which the repository keeps *)
(* for comparison with the indexes.  Vectors are positions on a line and the *)
(* metric is EUCLIDEAN, the only one that the comparison needs: the other    *)
(* two differ in the numbers, not in what is done with them.                *)
(***************************************************************************)
EXTENDS Integers, Sequences, SequencesExt, FiniteSets

\* euclidean_distance, on a line.
EuclideanDistance(v1, v2) == IF v1 < v2 THEN v2 - v1 ELSE v1 - v2

\* compute_similarity: the negated distance.
ComputeSimilarity(v1, v2) == -EuclideanDistance(v1, v2)

\* The order of std::pair<float, int>, and the top of the max-heap.
Less(p, q) == p.sim < q.sim \/ (p.sim = q.sim /\ p.i < q.i)
Top(pq) == CHOOSE p \in pq : \A q \in pq \ {p} : Less(q, p)

\* push, and pop when the heap has become too large.
Push(pq, p, k) ==
    LET all == pq \cup {p} IN IF Cardinality(all) > k THEN all \ {Top(all)} ELSE all

\* The members of S in order: each has as many before it as its place says.
Ordered(S, Before(_, _)) ==
    LET before == [x \in S |-> Cardinality({y \in S : Before(y, x)})]
    IN  [i \in 1 .. Cardinality(S) |-> CHOOSE x \in S : before[x] = i - 1]

\* find_top_k_similar_vectors: the loop over the vectors, then the heap from its
\* top down, reversed.
FindTopK(target, vectors, k) ==
    LET pair(i) == [sim |-> ComputeSimilarity(target, vectors[i]), i |-> i]
        heap[i \in 0 .. Len(vectors)] == IF i = 0 THEN {} ELSE Push(heap[i - 1], pair(i), k)
    IN  Ordered(heap[Len(vectors)], Less)
=============================================================================

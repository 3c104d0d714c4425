-------------------------- MODULE AnnoyIndexProofs --------------------------
(***************************************************************************)
(* For every set of labels, vectors and queries and every k: what a search  *)
(* of AnnoyIndex returns, after any order of inserts, removals, builds,     *)
(* saves and loads.                                                        *)
(***************************************************************************)
EXTENDS AnnoyIndex, FiniteSetTheorems, SequenceTheorems, WellFoundedInduction, TLAPS

-----------------------------------------------------------------------------
(* The inductive invariant.                                                *)

\* An index that was built and changed after it cannot be built again; a loaded
\* one is built and cannot change.
Flags ==
    /\ built \in BOOLEAN /\ loaded \in BOOLEAN /\ need_rebuild \in BOOLEAN /\ late \in BOOLEAN
    /\ loaded => built /\ ~need_rebuild
    /\ late <=> need_rebuild /\ built

Vectors(f) == f \in [DOMAIN f -> Int] /\ DOMAIN f \subseteq Labels /\ IsFiniteSet(DOMAIN f)

\* What is in the index and not deleted should be found, or was deleted before
\* the save; what is not in the trees makes need_rebuild_ true.
Content ==
    /\ Vectors(items) /\ deleted_ids \subseteq Labels
    /\ trees \subseteq DOMAIN items /\ (~need_rebuild => trees = DOMAIN items)
    /\ DOMAIN live \cup forgotten = DOMAIN items \ deleted_ids

Filed == file # NoFile => Vectors(file) /\ DOMAIN kept \subseteq DOMAIN file

\* The results of a search that met C.
Found(C) == res.ids = Picked(NearestOf(C, res.q, Candidates(res.k)), res.k, res.bitmap)

\* The last call: a search saw the index as it is now.
Result ==
    /\ res = Throws("build") => late
    /\ Searched =>
        /\ ~need_rebuild /\ res.q \in Queries /\ res.bitmap \subseteq Labels
        /\ res.k \in Nat \ {0} /\ \E C \in Visits(trees, Candidates(res.k), res.search_k) : Found(C)

IndexInv == Flags /\ Content /\ Filed /\ Result

LEMMA NotASearch ==
    ASSUME NEW c
    PROVE  /\ Silent.call = "none" /\ Throws(c).call = "throws"
           /\ Silent # Throws("build") /\ (c # "build" => Throws(c) # Throws("build"))
<1>1. Silent.call = "none" /\ Throws(c).call = "throws" /\ Throws(c).in = c
      /\ Throws("build").call = "throws" /\ Throws("build").in = "build"
  BY DEF Silent, Throws
<1>q. QED BY <1>1

LEMMA InitIndex == Init => IndexInv
<1> SUFFICES ASSUME Init PROVE IndexInv
  OBVIOUS
<1>1. Flags
  BY DEF Init, Flags
<1>2. Content /\ Filed
  <2>1. IsFiniteSet({})
    BY FS_EmptySet
  <2>q. QED BY <2>1 DEF Init, Content, Filed, Vectors, Empty
<1>3. Result
  BY NotASearch DEF Init, Result, Searched
<1>q. QED BY <1>1, <1>2, <1>3 DEF IndexInv

\* A call that returns nothing, or throws, leaves Result true.
LEMMA NoResult ==
    ASSUME res' = Silent \/ (\E c : res' = Throws(c) /\ (c = "build" => late'))
    PROVE  Result'
BY NotASearch DEF Result, Searched

LEMMA WithIs ==
    ASSUME NEW f, Vectors(f), NEW l \in Labels, NEW v \in Int
    PROVE  Vectors(With(f, l, v)) /\ DOMAIN With(f, l, v) = DOMAIN f \cup {l}
<1>1. IsFiniteSet(DOMAIN f \cup {l})
  BY FS_AddElement DEF Vectors
<1>q. QED BY <1>1 DEF Vectors, With

\* rebuild_if_needed, when it returns, has everything in the trees.
LEMMA Rebuilt ==
    ASSUME Flags, Content, RebuildIfNeeded, UNCHANGED <<items, deleted_ids, live, forgotten, late>>
    PROVE  /\ Content' /\ need_rebuild' = FALSE /\ late' = FALSE /\ trees' = DOMAIN items
           /\ built' \in BOOLEAN
           /\ UNCHANGED loaded => Flags'
<1>1. need_rebuild' = FALSE /\ built' \in BOOLEAN /\ trees' = DOMAIN items
  BY DEF RebuildIfNeeded, BuildFails, CanBuild, Flags, Content
<1>2. late' = FALSE
  <2>1. ~late /\ late \in BOOLEAN
    BY DEF RebuildIfNeeded, BuildFails, CanBuild, Flags
  <2>q. QED BY <2>1
<1>3. Content'
  BY <1>1 DEF Content, Vectors
<1>4. loaded \in BOOLEAN /\ (loaded => built')
  BY DEF RebuildIfNeeded, BuildFails, CanBuild, Flags
<1>5. ASSUME UNCHANGED loaded PROVE Flags'
  <2>1. loaded' \in BOOLEAN /\ (loaded' => built')
    BY <1>4, <1>5
  <2>q. QED BY <1>1, <1>2, <2>1 DEF Flags
<1>q. QED BY <1>1, <1>2, <1>3, <1>5

LEMMA StepIndex == IndexInv /\ [Next]_vars => IndexInv'
<1> SUFFICES ASSUME IndexInv, [Next]_vars PROVE IndexInv'
  OBVIOUS
<1> USE AnnoyAssumption
<1>0. Flags /\ Content /\ Filed /\ Result
  BY DEF IndexInv
<1>1. ASSUME NEW l \in Labels, NEW v \in VectorsOf[l], InsertVectors(l, v) PROVE IndexInv'
  <2>1. CASE CanAdd
    <3>1. v \in Int
      OBVIOUS
    <3>2. Vectors(items') /\ DOMAIN items' = DOMAIN items \cup {l}
      BY <1>0, <1>1, <2>1, <3>1, WithIs DEF InsertVectors, Content
    <3>3. DOMAIN live' = DOMAIN live \cup {l}
      BY <1>1, <2>1 DEF InsertVectors, With
    <3>4. Flags'
      BY <1>0, <1>1, <2>1 DEF InsertVectors, CanAdd, Flags
    <3>5. Content'
      BY <1>0, <1>1, <2>1, <3>2, <3>3 DEF InsertVectors, Content
    <3>6. Filed'
      BY <1>0, <1>1, <2>1 DEF InsertVectors, Filed, Vectors
    <3>7. Result'
      BY <1>1, <2>1, NoResult DEF InsertVectors
    <3>q. QED BY <3>4, <3>5, <3>6, <3>7 DEF IndexInv
  <2>2. CASE ~CanAdd
    <3>1. UNCHANGED <<annoy, need_rebuild, deleted_ids, file, live, kept, forgotten, late>>
      BY <1>1, <2>2 DEF InsertVectors
    <3>2. Result'
      BY <1>1, <2>2, NoResult DEF InsertVectors
    <3>q. QED BY <1>0, <3>1, <3>2 DEF IndexInv, Flags, Content, Filed, Vectors, annoy
  <2>q. QED BY <2>1, <2>2
<1>2. ASSUME NEW l \in Labels, RemoveVectors({l}) PROVE IndexInv'
  <2>1. Flags' /\ Filed'
    BY <1>0, <1>2 DEF RemoveVectors, annoy, Flags, Filed, Vectors
  <2>2. DOMAIN live' = DOMAIN live \ {l}
    BY <1>2 DEF RemoveVectors, Without
  <2>3. Content'
    BY <1>0, <1>2, <2>2 DEF RemoveVectors, annoy, Content, Vectors
  <2>4. Result'
    BY <1>2, NoResult DEF RemoveVectors
  <2>q. QED BY <2>1, <2>3, <2>4 DEF IndexInv
<1>3. ASSUME NEW q \in Queries, NEW k \in Ks, NEW bitmap \in Bitmaps, NEW search_k \in SearchKs,
             SearchVectors(q, k, bitmap, search_k)
      PROVE  IndexInv'
  <2>1. /\ UNCHANGED <<items, loaded, deleted_ids, file, live, kept, forgotten, late>>
        /\ RebuildIfNeeded /\ k \in Nat \ {0}
    BY <1>3 DEF SearchVectors
  <2>2. Content' /\ ~need_rebuild' /\ Flags'
    BY <1>0, <2>1, Rebuilt
  <2>3. Filed'
    BY <1>0, <2>1 DEF Filed, Vectors
  <2>4. PICK C \in Visits(trees', Candidates(k), search_k) :
            res' = [call |-> "search", q |-> q, k |-> k, bitmap |-> bitmap, search_k |-> search_k,
                    ids |-> Picked(NearestOf(C, q, Candidates(k)), k, bitmap)]
    BY <1>3 DEF SearchVectors
  <2>5. /\ res'.call = "search" /\ res'.q = q /\ res'.k = k /\ res'.bitmap = bitmap
        /\ res'.search_k = search_k /\ res'.ids = Picked(NearestOf(C, q, Candidates(k)), k, bitmap)
    BY <2>4
  <2>6. C \in Visits(trees, Candidates(res.k), res.search_k)'
    BY <2>4, <2>5 DEF Visits, Candidates
  <2>7. Found(C)'
    <3>1. NearestOf(C, q, Candidates(k))' = NearestOf(C, q, Candidates(k))
      BY <2>1 DEF NearestOf, Ordered, Nearer, Candidates
    <3> DEFINE nns == NearestOf(C, q, Candidates(k))
    <3> HIDE DEF nns
    <3>2. \A s : Picked(s, k, bitmap)' = Picked(s, k, bitmap)
      BY <2>1 DEF Picked, Allowed
    <3>3. (NearestOf(C, res.q, Candidates(res.k)))' = nns
      BY <2>5, <3>1 DEF nns
    <3>4. (Picked(NearestOf(C, res.q, Candidates(res.k)), res.k, res.bitmap))' = Picked(nns, k, bitmap)
      BY <2>5, <3>2, <3>3
    <3>q. QED BY <2>5, <3>4 DEF Found, nns
  <2>9. Result'
    <3>1. res' # Throws("build")
      BY <2>5, NotASearch
    <3>q. QED BY <2>1, <2>2, <2>5, <2>6, <2>7, <3>1 DEF Result
  <2>q. QED BY <2>2, <2>3, <2>9 DEF IndexInv
<1>4. CASE Construct
  <2>1. IsFiniteSet({})
    BY FS_EmptySet
  <2>2. Flags' /\ Content' /\ Filed'
    BY <1>0, <1>4, <2>1 DEF Construct, Flags, Content, Filed, Vectors, Empty
  <2>3. Result'
    BY <1>4, NoResult DEF Construct
  <2>q. QED BY <2>2, <2>3 DEF IndexInv
<1>5. CASE WrongDim
  <2>1. Result'
    BY <1>5, NoResult DEF WrongDim
  <2>q. QED BY <1>0, <1>5, <2>1 DEF WrongDim, IndexInv, Flags, Content, Filed, Vectors, annoy
<1>6. CASE EnsureBuilt
  <2>1. Content' /\ Flags'
    BY <1>0, <1>6, Rebuilt DEF EnsureBuilt
  <2>2. Filed'
    BY <1>0, <1>6 DEF EnsureBuilt, Filed, Vectors
  <2>3. Result'
    BY <1>6, NoResult DEF EnsureBuilt
  <2>q. QED BY <2>1, <2>2, <2>3 DEF IndexInv
<1>7. CASE RebuildThrows
  <2>1. late'
    BY <1>0, <1>7 DEF RebuildThrows, BuildFails, CanBuild, Flags
  <2>2. Result'
    BY <1>7, <2>1, NoResult DEF RebuildThrows
  <2>q. QED BY <1>0, <1>7, <2>2 DEF RebuildThrows, IndexInv, Flags, Content, Filed, Vectors, annoy
<1>8. CASE SaveIndex
  <2>1. /\ Content' /\ late' = FALSE /\ need_rebuild' = FALSE /\ built' \in BOOLEAN
        /\ UNCHANGED loaded => Flags'
    BY <1>0, <1>8, Rebuilt DEF SaveIndex
  <2>2. CASE built'
    <3>1. Flags'
      <4>1. loaded' = TRUE
        BY <1>8, <2>2 DEF SaveIndex
      <4>q. QED BY <2>1, <2>2, <4>1 DEF Flags
    <3>2. Filed'
      BY <1>0, <1>8, <2>2 DEF SaveIndex, Filed, Content, Vectors
    <3>3. Result'
      BY <1>8, <2>2, NoResult DEF SaveIndex
    <3>q. QED BY <2>1, <3>1, <3>2, <3>3 DEF IndexInv
  <2>3. CASE ~built'
    <3>1. UNCHANGED <<file, loaded, kept>> /\ res' = Throws("save")
      BY <1>8, <2>3 DEF SaveIndex
    <3>2. Filed'
      BY <1>0, <3>1 DEF Filed, Vectors
    <3>3. Result'
      BY <3>1, NoResult
    <3>q. QED BY <2>1, <3>1, <3>2, <3>3 DEF IndexInv
  <2>q. QED BY <2>2, <2>3
<1>9. CASE LoadIndex
  <2>1. Flags' /\ Content' /\ Filed'
    BY <1>0, <1>9 DEF LoadIndex, Flags, Content, Filed, Vectors
  <2>2. Result'
    BY <1>9, NoResult DEF LoadIndex
  <2>q. QED BY <2>1, <2>2 DEF IndexInv
<1>10. CASE UNCHANGED vars
  <2>1. UNCHANGED <<items, trees, built, loaded, need_rebuild, deleted_ids, file, res, live, kept, forgotten, late>>
    BY <1>10 DEF vars, annoy
  <2>2. Flags' /\ Content' /\ Filed'
    BY <1>0, <2>1 DEF Flags, Content, Filed, Vectors
  <2>3. Result'
    <3>1. \A C : Found(C)' <=> Found(C)
      BY <2>1 DEF Found, Picked, Allowed, NearestOf, Ordered, Nearer, Candidates
    <3>2. Visits(trees, Candidates(res.k), res.search_k)' = Visits(trees, Candidates(res.k), res.search_k)
      BY <2>1 DEF Visits, Candidates
    <3>q. QED BY <1>0, <2>1, <3>1, <3>2 DEF Result, Searched
  <2>q. QED BY <2>2, <2>3 DEF IndexInv
<1>11. ASSUME NEW k \in Ks, SearchNothing(k) PROVE IndexInv'
  <2>1. Result'
    BY <1>11, NoResult DEF SearchNothing
  <2>q. QED BY <1>0, <1>11, <2>1
           DEF SearchNothing, IndexInv, Flags, Content, Filed, Vectors, annoy
<1>q. QED BY <1>1, <1>2, <1>3, <1>4, <1>5, <1>6, <1>7, <1>8, <1>9, <1>10, <1>11 DEF Next

LEMMA Invariant == Spec => []IndexInv
BY InitIndex, StepIndex, PTL DEF Spec

\* insert_vectors on an index that is built already: from then on no search
\* returns, until a file is loaded, and nothing else makes a build throw.
THEOREM LateInsertThrows == Spec => []LateInsertBreaks
<1>1. IndexInv => LateInsertBreaks
  BY DEF IndexInv, Flags, Result, LateInsertBreaks
<1>q. QED BY <1>1, Invariant, PTL

-----------------------------------------------------------------------------
(* A finite set in a strict total order.                                   *)

Orders(R, S) ==
    /\ \A x \in S : <<x, x>> \notin R
    /\ \A x, y \in S : x = y \/ <<x, y>> \in R \/ <<y, x>> \in R
    /\ \A x, y, z \in S : <<x, y>> \in R /\ <<y, z>> \in R => <<x, z>> \in R

\* Who comes before x, and how many.
Ahead(R, S, x) == {y \in S : <<y, x>> \in R}
Place(R, S, x) == Cardinality(Ahead(R, S, x))

\* A set of numbers has a least one.
LEMMA Least ==
    ASSUME NEW S, S \subseteq Nat, S # {}
    PROVE  \E r \in S : \A s \in S : r <= s
<1> DEFINE R == {ss \in Nat \X Nat : ss[1] < ss[2]}
<1>1. IsWellFoundedOn(R, Nat)
  BY NatLessThanWellFounded DEF OpToRel
<1> HIDE DEF R
<1>2. PICK r \in S : \A y \in S : ~(<<y, r>> \in R)
  BY <1>1, WFMin
<1>3. \A y \in S : ~(y < r)
  BY <1>2 DEF R
<1>q. QED BY <1>3

LEMMA PlaceIs ==
    ASSUME NEW S, IsFiniteSet(S), NEW R, Orders(R, S), NEW x \in S
    PROVE  /\ IsFiniteSet(Ahead(R, S, x)) /\ Place(R, S, x) \in Nat
           /\ Place(R, S, x) < Cardinality(S) /\ Cardinality(S) \in Nat
<1>1. IsFiniteSet(S \ {x}) /\ Cardinality(S \ {x}) = Cardinality(S) - 1 /\ Cardinality(S) \in Nat
  BY FS_RemoveElement, FS_CardinalityType
<1>2. Ahead(R, S, x) \in SUBSET (S \ {x})
  BY DEF Ahead, Orders
<1>3. IsFiniteSet(Ahead(R, S, x)) /\ Cardinality(Ahead(R, S, x)) <= Cardinality(S \ {x})
  BY <1>1, <1>2, FS_Subset
<1>4. Cardinality(Ahead(R, S, x)) \in Nat
  BY <1>3, FS_CardinalityType
<1>q. QED BY <1>1, <1>3, <1>4 DEF Place

LEMMA PlacesRise ==
    ASSUME NEW S, IsFiniteSet(S), NEW R, Orders(R, S), NEW x \in S, NEW y \in S, <<x, y>> \in R
    PROVE  Place(R, S, x) < Place(R, S, y)
<1>1. IsFiniteSet(Ahead(R, S, x)) /\ IsFiniteSet(Ahead(R, S, y))
      /\ Place(R, S, x) \in Nat /\ Place(R, S, y) \in Nat
  BY PlaceIs
<1>2. x \notin Ahead(R, S, x)
  BY DEF Ahead, Orders
<1>3. Cardinality(Ahead(R, S, x) \cup {x}) = Place(R, S, x) + 1
  BY <1>1, <1>2, FS_AddElement DEF Place
<1>4. Ahead(R, S, x) \cup {x} \in SUBSET Ahead(R, S, y)
  BY DEF Ahead, Orders
<1>5. Cardinality(Ahead(R, S, x) \cup {x}) <= Cardinality(Ahead(R, S, y))
  BY <1>1, <1>4, FS_Subset
<1>q. QED BY <1>1, <1>3, <1>5 DEF Place

\* Places order as R does, so every place is taken by one member.
LEMMA PlacesTell ==
    ASSUME NEW S, IsFiniteSet(S), NEW R, Orders(R, S), NEW x \in S, NEW y \in S
    PROVE  /\ <<x, y>> \in R <=> Place(R, S, x) < Place(R, S, y)
           /\ Place(R, S, x) = Place(R, S, y) => x = y
<1>1. Place(R, S, x) \in Nat /\ Place(R, S, y) \in Nat
  BY PlaceIs
<1>2. <<x, y>> \in R => Place(R, S, x) < Place(R, S, y)
  BY PlacesRise
<1>3. <<y, x>> \in R => Place(R, S, y) < Place(R, S, x)
  BY PlacesRise
<1>4. x = y \/ <<x, y>> \in R \/ <<y, x>> \in R
  BY DEF Orders
<1>q. QED BY <1>1, <1>2, <1>3, <1>4

LEMMA PlacesFull ==
    ASSUME NEW S, IsFiniteSet(S), NEW R, Orders(R, S), NEW i \in 1 .. Cardinality(S)
    PROVE  \E x \in S : Place(R, S, x) = i - 1
<1> DEFINE n == Cardinality(S)
           f == [x \in S |-> Place(R, S, x) + 1]
<1>1. n \in Nat
  BY FS_CardinalityType
<1>2. \A x \in S : Place(R, S, x) \in Nat /\ Place(R, S, x) < n
  BY PlaceIs
<1>3. \A x, y \in S : Place(R, S, x) = Place(R, S, y) => x = y
  BY PlacesTell
<1>4. f \in Injection(S, 1 .. n)
  <2>1. f \in [S -> 1 .. n]
    BY <1>1, <1>2
  <2>2. \A x, y \in S : f[x] = f[y] => x = y
    BY <1>2, <1>3
  <2>q. QED BY <2>1, <2>2 DEF Injection, IsInjective
<1>5. IsFiniteSet(1 .. n) /\ Cardinality(1 .. n) = n
  BY <1>1, FS_Interval
<1>6. f \in Surjection(S, 1 .. n)
  BY <1>4, <1>5, FS_Injection
<1>7. PICK x \in S : f[x] = i
  BY <1>6 DEF Surjection
<1>q. QED BY <1>2, <1>7

\* The sequence in which everyone stands in his place.
InPlaces(R, S) == [i \in 1 .. Cardinality(S) |-> CHOOSE x \in S : Place(R, S, x) = i - 1]
LEMMA InPlacesIs ==
    ASSUME NEW S, IsFiniteSet(S), NEW R, Orders(R, S)
    PROVE  /\ InPlaces(R, S) \in [1 .. Cardinality(S) -> S]
           /\ InPlaces(R, S) \in Seq(S) /\ Len(InPlaces(R, S)) = Cardinality(S)
           /\ Cardinality(S) \in Nat
           /\ \A i \in 1 .. Cardinality(S) : Place(R, S, InPlaces(R, S)[i]) = i - 1
           /\ \A x \in S : /\ Place(R, S, x) + 1 \in 1 .. Cardinality(S)
                            /\ InPlaces(R, S)[Place(R, S, x) + 1] = x
<1> DEFINE n == Cardinality(S)
           s == InPlaces(R, S)
<1>1. n \in Nat
  BY FS_CardinalityType
<1>2. \A i \in 1 .. n : \E x \in S : Place(R, S, x) = i - 1
  BY PlacesFull
<1>3. \A i \in 1 .. n : s[i] \in S /\ Place(R, S, s[i]) = i - 1
  BY <1>2 DEF InPlaces
<1>4. s \in [1 .. n -> S]
  BY <1>3 DEF InPlaces
<1>5. s \in Seq(S) /\ Len(s) = n
  BY <1>1, <1>4
<1>6. ASSUME NEW x \in S
      PROVE  Place(R, S, x) + 1 \in 1 .. n /\ s[Place(R, S, x) + 1] = x
  <2>1. Place(R, S, x) \in Nat /\ Place(R, S, x) < n
    BY PlaceIs
  <2>2. Place(R, S, x) + 1 \in 1 .. n
    BY <1>1, <2>1
  <2>3. s[Place(R, S, x) + 1] \in S /\ Place(R, S, s[Place(R, S, x) + 1]) = Place(R, S, x)
    BY <1>3, <2>1, <2>2
  <2>q. QED BY <2>2, <2>3, PlacesTell
<1>q. QED BY <1>1, <1>3, <1>4, <1>5, <1>6

\* A part of the set is in the same order.
LEMMA PartOrdered ==
    ASSUME NEW S, NEW R, Orders(R, S), NEW T, T \subseteq S
    PROVE  Orders(R, T)
BY DEF Orders

-----------------------------------------------------------------------------
(* A search: the candidates, and those that are picked.                    *)

Near(q) == {d \in (DOMAIN items) \X (DOMAIN items) : Nearer(q, d[1], d[2])}

LEMMA IsNear ==
    ASSUME NEW q, NEW x \in DOMAIN items, NEW y \in DOMAIN items
    PROVE  <<x, y>> \in Near(q) <=> Nearer(q, x, y)
BY DEF Near

LEMMA NearOrders ==
    ASSUME Vectors(items), NEW q \in Int
    PROVE  Orders(Near(q), DOMAIN items)
<1> USE AnnoyAssumption
<1> DEFINE dist == [l \in DOMAIN items |-> EuclideanDistance(q, items[l])]
<1>1. \A l \in DOMAIN items : dist[l] \in Int /\ l \in Nat
  BY DEF Vectors, EuclideanDistance
<1>2. \A x, y \in DOMAIN items :
        <<x, y>> \in Near(q) <=> dist[x] < dist[y] \/ (dist[x] = dist[y] /\ x < y)
  <2> TAKE x, y \in DOMAIN items
  <2>1. <<x, y>> \in Near(q) <=> Nearer(q, x, y)
    BY IsNear
  <2>2. Nearer(q, x, y) <=> dist[x] < dist[y] \/ (dist[x] = dist[y] /\ x < y)
    BY DEF Nearer
  <2>q. QED BY <2>1, <2>2
<1> HIDE DEF dist
<1>3. \A x \in DOMAIN items : <<x, x>> \notin Near(q)
  BY <1>1, <1>2
<1>4. \A x, y \in DOMAIN items : x = y \/ <<x, y>> \in Near(q) \/ <<y, x>> \in Near(q)
  <2> TAKE x, y \in DOMAIN items
  <2>1. dist[x] \in Int /\ dist[y] \in Int /\ x \in Int /\ y \in Int
    BY <1>1
  <2>2. x = y \/ dist[x] < dist[y] \/ dist[y] < dist[x] \/ (dist[x] = dist[y] /\ (x < y \/ y < x))
    BY <2>1
  <2>q. QED BY <1>2, <2>2
<1>5. \A x, y, z \in DOMAIN items :
        <<x, y>> \in Near(q) /\ <<y, z>> \in Near(q) => <<x, z>> \in Near(q)
  BY <1>1, <1>2
<1>q. QED BY <1>3, <1>4, <1>5 DEF Orders

LEMMA NearestIs ==
    ASSUME Vectors(items), NEW q \in Int, NEW T, T \subseteq DOMAIN items, NEW n \in Nat
    PROVE  LET m == IF n < Cardinality(T) THEN n ELSE Cardinality(T)
           IN  /\ Cardinality(T) \in Nat
               /\ NearestOf(T, q, n) \in Seq(T) /\ Len(NearestOf(T, q, n)) = m
               /\ \A i \in 1 .. m : NearestOf(T, q, n)[i] = InPlaces(Near(q), T)[i]
<1> DEFINE R == Near(q)
           all == InPlaces(R, T)
           m == IF n < Cardinality(T) THEN n ELSE Cardinality(T)
<1>1. IsFiniteSet(T)
  BY FS_Subset DEF Vectors
<1>2. Orders(R, T)
  BY NearOrders, PartOrdered
<1>3. /\ all \in Seq(T) /\ Len(all) = Cardinality(T) /\ Cardinality(T) \in Nat
      /\ \A i \in 1 .. Cardinality(T) : all[i] \in T
  BY <1>1, <1>2, InPlacesIs
<1>4. \A x \in T : {y \in T : Nearer(q, y, x)} = Ahead(R, T, x)
  <2> TAKE x \in T
  <2>1. \A y \in T : <<y, x>> \in R <=> Nearer(q, y, x)
    BY IsNear
  <2> HIDE DEF R
  <2>q. QED BY <2>1 DEF Ahead
<1>5. Ordered(T, LAMBDA x, y : Nearer(q, x, y)) = all
  <2>1. [i \in 1 .. Cardinality(T) |->
            CHOOSE x \in T : [z \in T |-> Cardinality({y \in T : Nearer(q, y, z)})][x] = i - 1]
        = all
    <3>1. \A x \in T : [z \in T |-> Cardinality({y \in T : Nearer(q, y, z)})][x] = Place(R, T, x)
      BY <1>4 DEF Place
    <3> HIDE DEF R
    <3>q. QED BY <3>1 DEF InPlaces
  <2>q. QED BY <2>1 DEF Ordered
<1>6. NearestOf(T, q, n) = SubSeq(all, 1, m)
  BY <1>3, <1>5 DEF NearestOf
<1> HIDE DEF all
<1>7. m \in Nat /\ m <= Len(all)
  BY <1>3
<1>8. SubSeq(all, 1, m) = [i \in 1 .. m |-> all[i]]
  BY <1>3, <1>7
<1>9. [i \in 1 .. m |-> all[i]] \in Seq(T)
  BY <1>3, <1>7
<1>10. Len([i \in 1 .. m |-> all[i]]) = m
  BY <1>7
<1>q. QED BY <1>3, <1>6, <1>8, <1>9, <1>10 DEF all

\* Those of F among the first i of T.
Met(R, T, F, i) == {l \in F : Place(R, T, l) < i}

LEMMA MetIs ==
    ASSUME NEW T, IsFiniteSet(T), NEW R, Orders(R, T), NEW F, F \subseteq T
    PROVE  /\ Cardinality(Met(R, T, F, 0)) = 0
           /\ \A i \in Nat : Cardinality(Met(R, T, F, i)) \in Nat
           /\ Met(R, T, F, Cardinality(T)) = F
<1>1. \A x \in T : Place(R, T, x) \in Nat /\ Place(R, T, x) < Cardinality(T)
  BY PlaceIs
<1>2. Met(R, T, F, 0) = {}
  BY <1>1 DEF Met
<1>3. \A i \in Nat : IsFiniteSet(Met(R, T, F, i))
  <2> TAKE i \in Nat
  <2>1. Met(R, T, F, i) \in SUBSET T
    BY DEF Met
  <2>q. QED BY <2>1, FS_Subset
<1>4. \A i \in Nat : Cardinality(Met(R, T, F, i)) \in Nat
  BY <1>3, FS_CardinalityType
<1>5. Met(R, T, F, Cardinality(T)) = F
  BY <1>1 DEF Met
<1>q. QED BY <1>2, <1>4, <1>5, FS_EmptySet

\* The next of F is the one whose place in F is how many were met.
LEMMA MeetNext ==
    ASSUME NEW T, IsFiniteSet(T), NEW R, Orders(R, T), NEW F, F \subseteq T,
           NEW i \in 1 .. Cardinality(T), NEW x, x = InPlaces(R, T)[i]
    PROVE  LET c == Cardinality(Met(R, T, F, i - 1))
           IN  /\ x \notin F => Cardinality(Met(R, T, F, i)) = c
               /\ x \in F => /\ Cardinality(Met(R, T, F, i)) = c + 1
                             /\ c + 1 \in 1 .. Cardinality(F)
                             /\ InPlaces(R, F)[c + 1] = x
<1>1. x \in T /\ Place(R, T, x) = i - 1 /\ Cardinality(T) \in Nat
  BY InPlacesIs
<1>2. \A y \in T : Place(R, T, y) \in Nat
  BY PlaceIs
<1>3. \A y \in T : /\ <<y, x>> \in R <=> Place(R, T, y) < Place(R, T, x)
                   /\ Place(R, T, y) = Place(R, T, x) => y = x
  BY <1>1, PlacesTell
<1>4. IsFiniteSet(Met(R, T, F, i - 1))
  <2>1. Met(R, T, F, i - 1) \in SUBSET T
    BY DEF Met
  <2>q. QED BY <2>1, FS_Subset
<1>5. i \in Int
  OBVIOUS
<1>6. Met(R, T, F, i) = IF x \in F THEN Met(R, T, F, i - 1) \cup {x} ELSE Met(R, T, F, i - 1)
  <2>1. \A y \in F : Place(R, T, y) < i <=> y = x \/ Place(R, T, y) < i - 1
    <3> TAKE y \in F
    <3>1. Place(R, T, y) \in Nat /\ (Place(R, T, y) = i - 1 <=> y = x)
      BY <1>1, <1>2, <1>3
    <3>q. QED BY <1>5, <3>1
  <2>q. QED BY <2>1 DEF Met
<1>7. x \notin Met(R, T, F, i - 1)
  BY <1>1 DEF Met
<1>8. ASSUME x \in F
      PROVE  /\ Cardinality(Met(R, T, F, i)) = Cardinality(Met(R, T, F, i - 1)) + 1
             /\ Cardinality(Met(R, T, F, i - 1)) + 1 \in 1 .. Cardinality(F)
             /\ InPlaces(R, F)[Cardinality(Met(R, T, F, i - 1)) + 1] = x
  <2>1. Ahead(R, F, x) = Met(R, T, F, i - 1)
    BY <1>1, <1>3 DEF Ahead, Met
  <2>2. Place(R, F, x) = Cardinality(Met(R, T, F, i - 1))
    BY <2>1 DEF Place
  <2>3. IsFiniteSet(F) /\ Orders(R, F)
    BY FS_Subset, PartOrdered
  <2>4. Place(R, F, x) + 1 \in 1 .. Cardinality(F) /\ InPlaces(R, F)[Place(R, F, x) + 1] = x
    <3>1. \A y \in F : /\ Place(R, F, y) + 1 \in 1 .. Cardinality(F)
                       /\ InPlaces(R, F)[Place(R, F, y) + 1] = y
      BY <2>3, InPlacesIs
    <3>q. QED BY <1>8, <3>1
  <2>5. Cardinality(Met(R, T, F, i)) = Cardinality(Met(R, T, F, i - 1)) + 1
    BY <1>4, <1>6, <1>7, <1>8, FS_AddElement
  <2>q. QED BY <2>2, <2>4, <2>5
<1>q. QED BY <1>6, <1>8

AtMost(k, c) == IF c < k THEN c ELSE k

\* What is picked of F in i rounds of the loop.
PickedBy(k, R, T, F, i) == [j \in 1 .. AtMost(k, Cardinality(Met(R, T, F, i))) |-> InPlaces(R, F)[j]]

\* One round of the loop of search_vectors.
Round(k, so_far, l, bitmap) ==
    IF Len(so_far) < k /\ Allowed(l, bitmap) THEN Append(so_far, l) ELSE so_far

\* F is what may be picked of T.
Choice(R, T, bitmap, F) == IsFiniteSet(T) /\ Orders(R, T) /\ F = {l \in T : Allowed(l, bitmap)}

LEMMA RoundPicks ==
    ASSUME NEW k \in Nat \ {0}, NEW R, NEW T, NEW bitmap, NEW F, Choice(R, T, bitmap, F),
           NEW i \in 1 .. Cardinality(T)
    PROVE  Round(k, PickedBy(k, R, T, F, i - 1), InPlaces(R, T)[i], bitmap) = PickedBy(k, R, T, F, i)
<1> USE DEF Choice
<1> DEFINE x == InPlaces(R, T)[i]
           c == Cardinality(Met(R, T, F, i - 1))
           s == InPlaces(R, F)
           old == PickedBy(k, R, T, F, i - 1)
<1>0. k \in Nat \ {0} /\ x = InPlaces(R, T)[i]
  OBVIOUS
<1> HIDE DEF x
<1>1. F \subseteq T /\ Cardinality(T) \in Nat /\ x \in T
  BY <1>0, InPlacesIs
<1>2. c \in Nat
  <2>1. \A h \in Nat : Cardinality(Met(R, T, F, h)) \in Nat
    BY <1>1, MetIs
  <2>2. i - 1 \in Nat
    BY <1>1
  <2>q. QED BY <2>1, <2>2
<1>3. /\ x \notin F => Cardinality(Met(R, T, F, i)) = c
      /\ x \in F => /\ Cardinality(Met(R, T, F, i)) = c + 1
                    /\ c + 1 \in 1 .. Cardinality(F) /\ s[c + 1] = x
  <2>1. IsFiniteSet(T) /\ Orders(R, T)
    OBVIOUS
  <2> HIDE DEF Choice
  <2>q. QED BY <1>0, <1>1, <2>1, MeetNext
<1>4. x \in F <=> Allowed(x, bitmap)
  BY <1>1
<1>5. old = [j \in 1 .. AtMost(k, c) |-> s[j]]
  BY DEF PickedBy
<1> HIDE DEF c, s, old
<1>6. AtMost(k, c) \in Nat
  BY <1>0, <1>2 DEF AtMost
<1>7. Len(old) = AtMost(k, c)
  BY <1>5, <1>6
<1>8. CASE x \in F /\ c < k
  <2>1. AtMost(k, c) = c /\ AtMost(k, c + 1) = c + 1
    BY <1>0, <1>2, <1>8 DEF AtMost
  <2>2. Append(old, x) = [j \in 1 .. c + 1 |-> s[j]]
    <3>1. old = [j \in 1 .. c |-> s[j]] /\ Len(old) = c
      BY <1>5, <1>7, <2>1
    <3>2. Append(old, x) = [j \in 1 .. c + 1 |-> IF j = c + 1 THEN x ELSE old[j]]
      BY <1>2, <3>1
    <3>3. \A j \in 1 .. c + 1 : (IF j = c + 1 THEN x ELSE old[j]) = s[j]
      BY <1>2, <1>3, <1>8, <3>1
    <3>q. QED BY <3>2, <3>3
  <2>3. Round(k, old, x, bitmap) = Append(old, x)
    BY <1>4, <1>7, <1>8, <2>1 DEF Round
  <2>4. PickedBy(k, R, T, F, i) = [j \in 1 .. c + 1 |-> s[j]]
    BY <1>3, <1>8, <2>1 DEF PickedBy, s
  <2>q. QED BY <2>2, <2>3, <2>4 DEF old, x
<1>9. CASE ~(x \in F /\ c < k)
  <2>1. Round(k, old, x, bitmap) = old
    BY <1>0, <1>2, <1>4, <1>7, <1>9 DEF Round, AtMost
  <2>2. AtMost(k, Cardinality(Met(R, T, F, i))) = AtMost(k, c)
    BY <1>0, <1>2, <1>3, <1>9 DEF AtMost
  <2>3. PickedBy(k, R, T, F, i) = old
    BY <1>5, <2>2 DEF PickedBy, s
  <2>q. QED BY <2>1, <2>3 DEF old, x
<1>q. QED BY <1>8, <1>9

\* The whole loop over candidates that are the first of T.
LoopOf(k, nns, bitmap, f) ==
    [i \in 0 .. Len(nns) |-> IF i = 0 THEN <<>> ELSE Round(k, f[i - 1], nns[i], bitmap)]

FirstOf(R, T, nns) ==
    Len(nns) \in 0 .. Cardinality(T) /\ \A i \in 1 .. Len(nns) : nns[i] = InPlaces(R, T)[i]

\* The first m of F, and the padding.
Padded(k, R, F, m) == [j \in 1 .. k |-> IF j <= m THEN InPlaces(R, F)[j] ELSE -1]

LEMMA PickedIs ==
    ASSUME NEW k \in Nat \ {0}, NEW R, NEW T, NEW bitmap, NEW F, Choice(R, T, bitmap, F), NEW nns, FirstOf(R, T, nns)
    PROVE  Picked(nns, k, bitmap) = Padded(k, R, F, AtMost(k, Cardinality(Met(R, T, F, Len(nns)))))
<1> DEFINE n == Len(nns)
           g == [i \in 0 .. n |-> PickedBy(k, R, T, F, i)]
           loop == CHOOSE f : f = LoopOf(k, nns, bitmap, f)
           ok == loop[n]
<1>0. Choice(R, T, bitmap, F)
  OBVIOUS
<1>a. /\ IsFiniteSet(T) /\ Orders(R, T) /\ F = {l \in T : Allowed(l, bitmap)}
      /\ n \in 0 .. Cardinality(T) /\ \A i \in 1 .. n : nns[i] = InPlaces(R, T)[i]
  BY DEF Choice, FirstOf
<1>1. Picked(nns, k, bitmap) = [j \in 1 .. k |-> IF j <= Len(ok) THEN ok[j] ELSE -1]
  BY DEF Picked, LoopOf, Round
<1>2. F \subseteq T /\ k \in Nat \ {0} /\ n \in Nat /\ n <= Cardinality(T) /\ Cardinality(T) \in Nat
  BY <1>a, FS_CardinalityType
<1>3. \A f : LoopOf(k, nns, bitmap, f)
             = [i \in 0 .. n |-> IF i = 0 THEN <<>> ELSE Round(k, f[i - 1], nns[i], bitmap)]
  BY DEF LoopOf
<1>4. PickedBy(k, R, T, F, 0) = <<>>
  <2>1. Cardinality(Met(R, T, F, 0)) = 0
    BY <1>a, <1>2, MetIs
  <2>2. AtMost(k, Cardinality(Met(R, T, F, 0))) = 0
    BY <1>2, <2>1 DEF AtMost
  <2>3. PickedBy(k, R, T, F, 0) = [j \in 1 .. 0 |-> InPlaces(R, F)[j]]
    BY <2>2 DEF PickedBy
  <2>4. \A s : [j \in 1 .. 0 |-> s[j]] = <<>>
    OBVIOUS
  <2>q. QED BY <2>3, <2>4
<1>5. \A i \in 1 .. n : Round(k, PickedBy(k, R, T, F, i - 1), nns[i], bitmap) = PickedBy(k, R, T, F, i)
  <2> TAKE i \in 1 .. n
  <2>1. i \in 1 .. Cardinality(T) /\ nns[i] = InPlaces(R, T)[i]
    BY <1>a, <1>2
  <2>2. Round(k, PickedBy(k, R, T, F, i - 1), InPlaces(R, T)[i], bitmap) = PickedBy(k, R, T, F, i)
    BY <1>0, <2>1, RoundPicks
  <2>q. QED BY <2>1, <2>2
<1>6. \A i \in 0 .. n : g[i] = IF i = 0 THEN <<>> ELSE Round(k, g[i - 1], nns[i], bitmap)
  <2> TAKE i \in 0 .. n
  <2>1. g[i] = PickedBy(k, R, T, F, i) /\ (i # 0 => i \in 1 .. n /\ g[i - 1] = PickedBy(k, R, T, F, i - 1))
    BY <1>2
  <2>q. QED BY <1>4, <1>5, <2>1
<1>7. g = LoopOf(k, nns, bitmap, g)
  <2>1. g = [i \in 0 .. n |-> g[i]]
    OBVIOUS
  <2> HIDE DEF g, n
  <2>2. [i \in 0 .. n |-> g[i]] = [i \in 0 .. n |-> IF i = 0 THEN <<>> ELSE Round(k, g[i - 1], nns[i], bitmap)]
    BY ONLY <1>6
  <2>3. LoopOf(k, nns, bitmap, g) = [i \in 0 .. n |-> IF i = 0 THEN <<>> ELSE Round(k, g[i - 1], nns[i], bitmap)]
    BY ONLY <1>3
  <2>q. QED BY ONLY <2>1, <2>2, <2>3
<1> HIDE DEF g
<1>8. loop = LoopOf(k, nns, bitmap, loop)
  BY <1>7
<1> HIDE DEF loop
<1>9. \A i \in 0 .. n : loop[i] = IF i = 0 THEN <<>> ELSE Round(k, loop[i - 1], nns[i], bitmap)
  BY <1>3, <1>8
<1> DEFINE Bad == {i \in 0 .. n : loop[i] # g[i]}
<1>10. Bad = {}
  <2>1. SUFFICES ASSUME Bad # {} PROVE FALSE
    OBVIOUS
  <2>2. PICK i \in Bad : \A j \in Bad : i <= j
    <3>1. Bad \subseteq Nat
      BY <1>2
    <3> HIDE DEF Bad
    <3>q. QED BY <2>1, <3>1, Least
  <2>3. i \in 0 .. n /\ loop[i] # g[i] /\ i # 0
    BY <1>6, <1>9, <2>2
  <2>4. i - 1 \in 0 .. n /\ i - 1 \notin Bad
    BY <1>2, <2>2, <2>3
  <2>5. loop[i - 1] = g[i - 1]
    BY <2>4
  <2> HIDE DEF Bad
  <2>q. QED BY <1>6, <1>9, <2>3, <2>5
<1>11. ok = PickedBy(k, R, T, F, n)
  <2>1. n \in 0 .. n
    BY <1>2
  <2>q. QED BY <1>10, <2>1 DEF g
<1> DEFINE m == AtMost(k, Cardinality(Met(R, T, F, n)))
<1>12. m \in Nat
  BY <1>a, <1>2, MetIs DEF AtMost
<1>13. ok = [j \in 1 .. m |-> InPlaces(R, F)[j]]
  BY <1>11 DEF PickedBy
<1> HIDE DEF ok, m
<1>14. Len(ok) = m
  BY <1>12, <1>13
<1>15. \A j \in 1 .. k : (IF j <= Len(ok) THEN ok[j] ELSE -1) = IF j <= m THEN InPlaces(R, F)[j] ELSE -1
  BY <1>2, <1>12, <1>13, <1>14
<1>q. QED BY <1>1, <1>15 DEF m, Padded

\* What a search that met C has returned, when m is how many it found of G.
Returned(G, m) == res.ids = Padded(res.k, Near(res.q), G, m)
MetOf(C) ==
    LET n == Cardinality(C)
        c == IF Candidates(res.k) < n THEN Candidates(res.k) ELSE n
    IN  Met(Near(res.q), C, Findable \cap C, c)

LEMMA SearchIs ==
    ASSUME IndexInv, Searched
    PROVE  /\ Vectors(items) /\ trees = DOMAIN items /\ res.q \in Int /\ res.k \in Nat \ {0}
           /\ IsFiniteSet(trees) /\ Orders(Near(res.q), trees) /\ Findable \subseteq trees
           /\ \E C \in Visits(trees, Candidates(res.k), res.search_k) :
                Returned(Findable \cap C, AtMost(res.k, Cardinality(MetOf(C))))
<1> DEFINE R == Near(res.q)
<1>1. /\ Vectors(items) /\ trees = DOMAIN items /\ res.q \in Int /\ IsFiniteSet(trees)
      /\ res.k \in Nat \ {0}
  BY AnnoyAssumption DEF IndexInv, Content, Result, Vectors
<1>2. PICK C \in Visits(trees, Candidates(res.k), res.search_k) : Found(C)
  BY DEF IndexInv, Result
<1>3. C \subseteq trees
  BY <1>2 DEF Visits
<1>4. Orders(R, trees) /\ Orders(R, C) /\ IsFiniteSet(C)
  BY <1>1, <1>3, NearOrders, PartOrdered, FS_Subset
<1>5. Findable = {l \in trees : Allowed(l, res.bitmap)}
  BY <1>1 DEF IndexInv, Content, Findable, Allowed
<1> DEFINE n == Cardinality(C)
           c == IF Candidates(res.k) < n THEN Candidates(res.k) ELSE n
           nns == NearestOf(C, res.q, Candidates(res.k))
           G == Findable \cap C
<1>6. Candidates(res.k) \in Nat
  BY <1>1 DEF Candidates
<1>7. /\ n \in Nat /\ Len(nns) = c
      /\ \A i \in 1 .. c : nns[i] = InPlaces(R, C)[i]
  BY <1>1, <1>3, <1>6, NearestIs
<1>8. Choice(R, C, res.bitmap, G)
  BY <1>3, <1>4, <1>5 DEF Choice
<1>9. Len(nns) \in 0 .. n
  BY <1>6, <1>7
<1>10. res.ids = Picked(nns, res.k, res.bitmap)
  BY <1>2 DEF Found
<1>11. MetOf(C) = Met(R, C, G, c)
  BY DEF MetOf
<1> HIDE DEF R, nns, n, c, G
<1>12. Picked(nns, res.k, res.bitmap) = Padded(res.k, R, G, AtMost(res.k, Cardinality(Met(R, C, G, Len(nns)))))
  <2>1. FirstOf(R, C, nns)
    BY <1>7, <1>9 DEF n, FirstOf
  <2>q. QED BY <1>1, <1>8, <2>1, PickedIs
<1>13. Returned(G, AtMost(res.k, Cardinality(MetOf(C))))
  BY <1>7, <1>10, <1>11, <1>12 DEF Returned, R
<1>14. Findable \subseteq trees
  BY <1>5
<1>q. QED BY <1>1, <1>2, <1>4, <1>13, <1>14 DEF R, G

\* Which places of the result are no padding.
LEMMA HitsAre ==
    ASSUME IndexInv, Searched, NEW G, G \subseteq Findable,
           NEW m \in Nat, m <= Cardinality(G), m <= res.k, Returned(G, m)
    PROVE  /\ Hits = 1 .. m /\ IsFiniteSet(G) /\ Orders(Near(res.q), G)
           /\ \A j \in 1 .. m : /\ j \in 1 .. Cardinality(G) /\ res.ids[j] = InPlaces(Near(res.q), G)[j]
                                /\ res.ids[j] \in G /\ Place(Near(res.q), G, res.ids[j]) = j - 1
<1> DEFINE R == Near(res.q)
<1>1. /\ Vectors(items) /\ trees = DOMAIN items /\ IsFiniteSet(trees) /\ Orders(R, trees)
      /\ G \subseteq trees /\ res.k \in Nat \ {0}
  BY SearchIs
<1>2. IsFiniteSet(G) /\ Orders(R, G)
  BY <1>1, FS_Subset, PartOrdered
<1>3. /\ Cardinality(G) \in Nat
      /\ \A i \in 1 .. Cardinality(G) : /\ InPlaces(R, G)[i] \in G
                                        /\ Place(R, G, InPlaces(R, G)[i]) = i - 1
  BY <1>2, InPlacesIs
<1>4. \A l \in G : l \in Nat
  BY <1>1, AnnoyAssumption DEF Vectors
<1> HIDE DEF R
<1>5. \A j \in 1 .. res.k : res.ids[j] = IF j <= m THEN InPlaces(R, G)[j] ELSE -1
  BY DEF Returned, Padded, R
<1>6. \A j \in 1 .. m : j \in 1 .. Cardinality(G) /\ j \in 1 .. res.k
  BY <1>1, <1>3
<1>7. \A j \in 1 .. m : res.ids[j] = InPlaces(R, G)[j]
  BY <1>5, <1>6
<1>8. Hits = 1 .. m
  <2>1. \A j \in 1 .. m : res.ids[j] \in Nat
    BY <1>3, <1>4, <1>6, <1>7
  <2>2. \A j \in 1 .. res.k : res.ids[j] # -1 <=> j <= m
    <3> TAKE j \in 1 .. res.k
    <3>1. CASE j <= m
      <4>1. j \in 1 .. m
        BY <3>1
      <4>q. QED BY <2>1, <3>1, <4>1
    <3>2. CASE ~(j <= m)
      BY <1>5, <3>2
    <3>q. QED BY <3>1, <3>2
  <2>3. \A j : j \in 1 .. m <=> j \in 1 .. res.k /\ j <= m
    BY <1>1
  <2>q. QED BY <2>2, <2>3 DEF Hits
<1>q. QED BY <1>2, <1>3, <1>6, <1>7, <1>8 DEF R

\* What a search that met C found of it.
Finds(C, m) ==
    /\ IsFiniteSet(C) /\ Orders(Near(res.q), C) /\ C \subseteq trees
    /\ m = AtMost(res.k, Cardinality(MetOf(C)))
    /\ Hits = 1 .. m /\ Cardinality(Hits) = m
    /\ \A j \in 1 .. m : /\ res.ids[j] \in Findable \cap C
                         /\ Place(Near(res.q), Findable \cap C, res.ids[j]) = j - 1

LEMMA FindsIn ==
    ASSUME IndexInv, Searched
    PROVE  \E C \in Visits(trees, Candidates(res.k), res.search_k), m \in Nat : Finds(C, m)
<1>1. PICK C \in Visits(trees, Candidates(res.k), res.search_k) :
        Returned(Findable \cap C, AtMost(res.k, Cardinality(MetOf(C))))
  BY SearchIs
<1> DEFINE G == Findable \cap C
           m == AtMost(res.k, Cardinality(MetOf(C)))
<1>2. C \subseteq trees /\ IsFiniteSet(C) /\ Orders(Near(res.q), C) /\ res.k \in Nat \ {0}
  <2>1. C \subseteq trees
    BY <1>1 DEF Visits
  <2>q. QED BY <2>1, SearchIs, FS_Subset, PartOrdered
<1>3. IsFiniteSet(G) /\ MetOf(C) \subseteq G
  BY <1>2, FS_Subset DEF MetOf, Met
<1>4. /\ Cardinality(MetOf(C)) \in Nat /\ Cardinality(G) \in Nat
      /\ Cardinality(MetOf(C)) <= Cardinality(G)
  BY <1>3, FS_Subset, FS_CardinalityType
<1>5. m \in Nat /\ m <= Cardinality(G) /\ m <= res.k
  BY <1>2, <1>4 DEF AtMost
<1>6. G \subseteq Findable
  OBVIOUS
<1> HIDE DEF m, G
<1>7. Returned(G, m)
  BY <1>1 DEF G, m
<1>8. /\ Hits = 1 .. m
      /\ \A j \in 1 .. m : res.ids[j] \in G /\ Place(Near(res.q), G, res.ids[j]) = j - 1
  BY <1>5, <1>6, <1>7, HitsAre
<1>9. Cardinality(1 .. m) = m
  BY <1>5, FS_Interval
<1>q. QED BY <1>1, <1>2, <1>5, <1>8, <1>9 DEF G, m, Finds

\* search_vectors: for every set of labels, every k and every order of calls, the
\* results are in the index, not deleted, allowed and different.
THEOREM SearchReturnsLive == Spec => []SearchSound
<1>1. IndexInv => TypeOK
  BY DEF IndexInv, Flags, Content, Vectors, TypeOK
<1>2. ASSUME IndexInv, Searched
      PROVE  /\ \A j \in Hits : res.ids[j] \in Findable /\ 1 .. j \subseteq Hits
             /\ \A i, j \in Hits : res.ids[i] = res.ids[j] => i = j
  <2>1. PICK C \in Visits(trees, Candidates(res.k), res.search_k), m \in Nat : Finds(C, m)
    BY <1>2, FindsIn
  <2>2. /\ Hits = 1 .. m
        /\ \A j \in 1 .. m : /\ res.ids[j] \in Findable
                             /\ Place(Near(res.q), Findable \cap C, res.ids[j]) = j - 1
    BY <2>1 DEF Finds
  <2>3. \A j \in 1 .. m : 1 .. j \subseteq 1 .. m
    BY <2>1
  <2>4. \A i, j \in 1 .. m : res.ids[i] = res.ids[j] => i = j
    BY <2>2
  <2>q. QED BY <2>2, <2>3, <2>4
<1>3. IndexInv => SearchSound
  BY <1>1, <1>2 DEF SearchSound
<1>q. QED BY <1>3, Invariant, PTL

-----------------------------------------------------------------------------
(* find_top_k_similar_vectors, asked for all: the heap holds every vector.  *)

Pair(t, v, i) == [sim |-> ComputeSimilarity(t, v[i]), i |-> i]
Pairs(t, v, n) == {Pair(t, v, i) : i \in 1 .. n}
LessOf(P) == {d \in P \X P : Less(d[1], d[2])}

LEMMA PairsAre ==
    ASSUME NEW t \in Int, NEW v \in Seq(Int), NEW n \in 0 .. Len(v)
    PROVE  /\ \A i \in 1 .. n : Pair(t, v, i).sim \in Int /\ Pair(t, v, i).i = i
           /\ IsFiniteSet(Pairs(t, v, n)) /\ Cardinality(Pairs(t, v, n)) = n
<1> DEFINE f == [i \in 1 .. n |-> Pair(t, v, i)]
<1>1. n \in Nat /\ n <= Len(v)
  BY LenProperties
<1>2. \A i \in 1 .. n : v[i] \in Int
  BY <1>1
<1>3. \A i \in 1 .. n : Pair(t, v, i).sim \in Int /\ Pair(t, v, i).i = i
  BY <1>2 DEF Pair, ComputeSimilarity, EuclideanDistance
<1>4. f \in Surjection(1 .. n, Pairs(t, v, n))
  BY DEF Surjection, Pairs
<1>5. f \in Injection(1 .. n, Pairs(t, v, n))
  <2>1. f \in [1 .. n -> Pairs(t, v, n)]
    BY DEF Pairs
  <2>2. \A i, j \in 1 .. n : f[i] = f[j] => i = j
    BY <1>3
  <2>q. QED BY <2>1, <2>2 DEF Injection, IsInjective
<1>6. IsFiniteSet(1 .. n) /\ Cardinality(1 .. n) = n
  BY <1>1, FS_Interval
<1>q. QED BY <1>3, <1>4, <1>5, <1>6, FS_Surjection

LEMMA PairsOrdered ==
    ASSUME NEW t \in Int, NEW v \in Seq(Int), NEW n \in 0 .. Len(v)
    PROVE  Orders(LessOf(Pairs(t, v, n)), Pairs(t, v, n))
<1> DEFINE P == Pairs(t, v, n)
           R == LessOf(P)
<1>0. \A i \in 1 .. n : Pair(t, v, i).sim \in Int /\ Pair(t, v, i).i = i /\ i \in Int
  BY PairsAre
<1>a. \A p \in P : \E i \in 1 .. n : p = Pair(t, v, i)
  BY DEF Pairs
<1> HIDE DEF P
<1>1. \A p \in P : p.sim \in Int /\ p.i \in Int
  BY <1>0, <1>a
<1>2. \A p, q \in P : p.i = q.i => p = q
  BY <1>0, <1>a
<1>3. \A p, q \in P : <<p, q>> \in R <=> p.sim < q.sim \/ (p.sim = q.sim /\ p.i < q.i)
  BY DEF LessOf, Less
<1> HIDE DEF R
<1>4. \A p \in P : <<p, p>> \notin R
  BY <1>1, <1>3
<1>5. \A p, q \in P : p = q \/ <<p, q>> \in R \/ <<q, p>> \in R
  <2> TAKE p, q \in P
  <2>1. p.sim \in Int /\ p.i \in Int /\ q.sim \in Int /\ q.i \in Int
    BY <1>1
  <2>q. QED BY <1>2, <1>3, <2>1
<1>6. \A p, q, r \in P : <<p, q>> \in R /\ <<q, r>> \in R => <<p, r>> \in R
  <2> TAKE p, q, r \in P
  <2>1. p.sim \in Int /\ p.i \in Int /\ q.sim \in Int /\ q.i \in Int /\ r.sim \in Int /\ r.i \in Int
    BY <1>1
  <2>2. /\ <<p, q>> \in R <=> p.sim < q.sim \/ (p.sim = q.sim /\ p.i < q.i)
        /\ <<q, r>> \in R <=> q.sim < r.sim \/ (q.sim = r.sim /\ q.i < r.i)
        /\ <<p, r>> \in R <=> p.sim < r.sim \/ (p.sim = r.sim /\ p.i < r.i)
    BY <1>3
  <2>3. (p.sim < q.sim \/ (p.sim = q.sim /\ p.i < q.i)) /\ (q.sim < r.sim \/ (q.sim = r.sim /\ q.i < r.i))
        => p.sim < r.sim \/ (p.sim = r.sim /\ p.i < r.i)
    BY ONLY <2>1
  <2>q. QED BY ONLY <2>2, <2>3
<1>q. QED BY <1>4, <1>5, <1>6 DEF Orders, P, R

HeapOf(t, v, k, f) ==
    [i \in 0 .. Len(v) |-> IF i = 0 THEN {} ELSE Push(f[i - 1], Pair(t, v, i), k)]

LEMMA TopKIs ==
    ASSUME NEW t \in Int, NEW v \in Seq(Int)
    PROVE  FindTopK(t, v, Len(v)) = InPlaces(LessOf(Pairs(t, v, Len(v))), Pairs(t, v, Len(v)))
<1> DEFINE n == Len(v)
           P == Pairs(t, v, n)
           R == LessOf(P)
           g == [i \in 0 .. n |-> Pairs(t, v, i)]
           heap == CHOOSE f : f = HeapOf(t, v, n, f)
<1>0. n \in Nat
  BY LenProperties
<1>1. FindTopK(t, v, n) = Ordered(heap[n], Less)
  BY DEF FindTopK, HeapOf, Pair
<1>2. \A f : HeapOf(t, v, n, f)
             = [i \in 0 .. n |-> IF i = 0 THEN {} ELSE Push(f[i - 1], Pair(t, v, i), n)]
  BY DEF HeapOf
<1>3. \A i \in 1 .. n : Push(Pairs(t, v, i - 1), Pair(t, v, i), n) = Pairs(t, v, i)
  <2> TAKE i \in 1 .. n
  <2>1. i \in 0 .. n /\ i - 1 \in 0 .. n
    BY <1>0
  <2>2. Cardinality(Pairs(t, v, i)) = i
    BY <2>1, PairsAre
  <2>3. Pairs(t, v, i - 1) \cup {Pair(t, v, i)} = Pairs(t, v, i)
    <3>1. \A h : h \in 1 .. i <=> h \in 1 .. i - 1 \/ h = i
      OBVIOUS
    <3>q. QED BY <3>1 DEF Pairs
  <2>4. ~(i > n)
    OBVIOUS
  <2>q. QED BY <2>2, <2>3, <2>4 DEF Push
<1>4. \A i \in 0 .. n : g[i] = IF i = 0 THEN {} ELSE Push(g[i - 1], Pair(t, v, i), n)
  <2> TAKE i \in 0 .. n
  <2>1. CASE i = 0
    <3>1. Pairs(t, v, 0) = {}
      BY DEF Pairs
    <3>q. QED BY <2>1, <3>1
  <2>2. CASE i # 0
    <3>1. i \in 1 .. n /\ g[i] = Pairs(t, v, i) /\ g[i - 1] = Pairs(t, v, i - 1)
      BY <1>0, <2>2
    <3>q. QED BY <1>3, <2>2, <3>1
  <2>q. QED BY <2>1, <2>2
<1>5. g = HeapOf(t, v, n, g)
  <2>1. g = [i \in 0 .. n |-> g[i]]
    OBVIOUS
  <2> HIDE DEF g, n
  <2>2. [i \in 0 .. n |-> g[i]] = [i \in 0 .. n |-> IF i = 0 THEN {} ELSE Push(g[i - 1], Pair(t, v, i), n)]
    BY ONLY <1>4
  <2>3. HeapOf(t, v, n, g) = [i \in 0 .. n |-> IF i = 0 THEN {} ELSE Push(g[i - 1], Pair(t, v, i), n)]
    BY ONLY <1>2
  <2>q. QED BY ONLY <2>1, <2>2, <2>3
<1> HIDE DEF g
<1>6. heap = HeapOf(t, v, n, heap)
  BY <1>5
<1> HIDE DEF heap
<1>7. \A i \in 0 .. n : heap[i] = IF i = 0 THEN {} ELSE Push(heap[i - 1], Pair(t, v, i), n)
  BY <1>2, <1>6
<1> DEFINE Bad == {i \in 0 .. n : heap[i] # g[i]}
<1>8. Bad = {}
  <2>1. SUFFICES ASSUME Bad # {} PROVE FALSE
    OBVIOUS
  <2>2. PICK i \in Bad : \A j \in Bad : i <= j
    <3>1. Bad \subseteq Nat
      BY <1>0
    <3> HIDE DEF Bad
    <3>q. QED BY <2>1, <3>1, Least
  <2>3. i \in 0 .. n /\ heap[i] # g[i] /\ i # 0
    BY <1>4, <1>7, <2>2
  <2>4. i - 1 \in 0 .. n /\ i - 1 \notin Bad
    BY <1>0, <2>2, <2>3
  <2>5. heap[i - 1] = g[i - 1]
    BY <2>4
  <2> HIDE DEF Bad
  <2>q. QED BY <1>4, <1>7, <2>3, <2>5
<1>9. heap[n] = P
  <2>1. n \in 0 .. n
    BY <1>0
  <2>q. QED BY <1>8, <2>1 DEF g
<1> HIDE DEF P
<1>10. Ordered(P, Less) = InPlaces(R, P)
  <2>1. \A x \in P : {y \in P : Less(y, x)} = Ahead(R, P, x)
    BY DEF Ahead, LessOf
  <2>2. \A x \in P : [z \in P |-> Cardinality({y \in P : Less(y, z)})][x] = Place(R, P, x)
    BY <2>1 DEF Place
  <2> DEFINE before == [z \in P |-> Cardinality({y \in P : Less(y, z)})]
  <2>3. Ordered(P, Less) = [i \in 1 .. Cardinality(P) |-> CHOOSE x \in P : before[x] = i - 1]
    BY DEF Ordered
  <2> HIDE DEF R, before
  <2>q. QED BY <2>2, <2>3 DEF InPlaces, before
<1>q. QED BY <1>1, <1>9, <1>10 DEF P

-----------------------------------------------------------------------------
(* Two orders of the same vectors, by rising distance and by rising         *)
(* similarity, which break ties differently: in the j-th place from the one  *)
(* end and from the other are equally similar vectors.                      *)

Mirrored(F, R, P, L, f, dist, sim) ==
    /\ IsFiniteSet(F) /\ Orders(R, F) /\ IsFiniteSet(P) /\ Orders(L, P)
    /\ f \in [F -> P] /\ (\A x, y \in F : f[x] = f[y] => x = y)
    /\ \A p \in P : \E x \in F : f[x] = p
    /\ Cardinality(P) = Cardinality(F)
    /\ dist \in [F -> Int] /\ sim \in [P -> Int] /\ \A x \in F : sim[f[x]] = -dist[x]
    /\ \A x, y \in F : <<x, y>> \in R => dist[x] <= dist[y]
    /\ \A p, q \in P : <<p, q>> \in L => sim[p] <= sim[q]

LEMMA SamePlaceSameSim ==
    ASSUME NEW F, NEW R, NEW P, NEW L, NEW f, NEW dist, NEW sim, Mirrored(F, R, P, L, f, dist, sim),
           NEW x \in F, NEW p \in P,
           Place(R, F, x) + Place(L, P, p) + 1 = Cardinality(F)
    PROVE  sim[p] = -dist[x]
<1> DEFINE n == Cardinality(F)
           j == Place(R, F, x)
           Above == P \ (Ahead(L, P, p) \cup {p})
<1>0. /\ IsFiniteSet(F) /\ Orders(R, F) /\ IsFiniteSet(P) /\ Orders(L, P)
      /\ f \in [F -> P] /\ (\A y, z \in F : f[y] = f[z] => y = z)
      /\ (\A q \in P : \E y \in F : f[y] = q)
      /\ Cardinality(P) = Cardinality(F)
      /\ dist \in [F -> Int] /\ sim \in [P -> Int] /\ (\A y \in F : sim[f[y]] = -dist[y])
      /\ (\A y, z \in F : <<y, z>> \in R => dist[y] <= dist[z])
      /\ \A q, r \in P : <<q, r>> \in L => sim[q] <= sim[r]
  BY DEF Mirrored
<1>1. /\ IsFiniteSet(Ahead(R, F, x)) /\ j \in Nat /\ n \in Nat
      /\ IsFiniteSet(Ahead(L, P, p)) /\ Place(L, P, p) \in Nat
  BY <1>0, PlaceIs
<1>2. x \notin Ahead(R, F, x) /\ p \notin Ahead(L, P, p)
  BY <1>0 DEF Ahead, Orders
<1>3. IsFiniteSet(Above) /\ Cardinality(Above) = j
  <2> DEFINE low == Ahead(L, P, p) \cup {p}
  <2>1. IsFiniteSet(low) /\ Cardinality(low) = Place(L, P, p) + 1
    BY <1>1, <1>2, FS_AddElement DEF Place
  <2>2. P \cap low = low
    BY DEF Ahead
  <2>3. IsFiniteSet(P \ low) /\ Cardinality(P \ low) = Cardinality(P) - Cardinality(P \cap low)
    BY <1>0, FS_Difference
  <2> HIDE DEF low
  <2>4. Cardinality(P \ low) = n - (Place(L, P, p) + 1)
    BY <1>0, <2>1, <2>2, <2>3
  <2>5. n - (Place(L, P, p) + 1) = j
    <3>1. j + Place(L, P, p) + 1 = n
      OBVIOUS
    <3> HIDE DEF n, j
    <3>q. QED BY ONLY <1>1, <3>1
  <2>q. QED BY <2>3, <2>4, <2>5 DEF low
<1>4. dist[x] \in Int /\ sim[p] \in Int
  BY <1>0
<1>5. CASE sim[p] > -dist[x]
  <2> DEFINE A == Above \cup {p}
             U == {y \in F : f[y] \in A}
             g == [y \in U |-> f[y]]
  <2>1. IsFiniteSet(A) /\ Cardinality(A) = j + 1
    BY <1>3, FS_AddElement
  <2>2. \A q \in A : q \in P /\ sim[p] <= sim[q]
    <3>1. \A q \in Above : q \in P /\ <<p, q>> \in L
      BY <1>0 DEF Ahead, Orders
    <3>2. \A q \in Above : sim[p] <= sim[q]
      BY <1>0, <3>1
    <3>3. sim[p] <= sim[p]
      BY <1>4
    <3> HIDE DEF Above
    <3>q. QED BY <3>1, <3>2, <3>3
  <2>3. U \subseteq Ahead(R, F, x)
    <3> SUFFICES ASSUME NEW y \in U PROVE y \in Ahead(R, F, x)
      OBVIOUS
    <3>1. y \in F /\ sim[p] <= sim[f[y]] /\ sim[f[y]] = -dist[y] /\ dist[y] \in Int
      BY <1>0, <2>2
    <3>2. dist[y] < dist[x]
      BY <1>4, <1>5, <3>1
    <3>3. y # x /\ <<x, y>> \notin R
      BY <1>0, <1>4, <3>1, <3>2
    <3>q. QED BY <1>0, <3>1, <3>3 DEF Ahead, Orders
  <2>4. IsFiniteSet(U) /\ Cardinality(U) <= j
    BY <1>1, <2>3, FS_Subset DEF Place
  <2>5. g \in Surjection(U, A)
    <3>1. \A q \in A : \E y \in U : g[y] = q
      BY <1>0, <2>2
    <3>q. QED BY <3>1 DEF Surjection
  <2>6. Cardinality(A) <= Cardinality(U)
    BY <2>4, <2>5, FS_Surjection
  <2>7. Cardinality(U) \in Nat
    BY <2>4, FS_CardinalityType
  <2> HIDE DEF A, U
  <2>q. QED BY <1>1, <2>1, <2>4, <2>6, <2>7
<1>6. CASE sim[p] < -dist[x]
  <2> DEFINE B == Ahead(R, F, x) \cup {x}
             g == [y \in B |-> f[y]]
  <2>1. IsFiniteSet(B) /\ Cardinality(B) = j + 1
    BY <1>1, <1>2, FS_AddElement DEF Place
  <2>2. \A y \in B : y \in F /\ f[y] \in Above
    <3> SUFFICES ASSUME NEW y \in B PROVE y \in F /\ f[y] \in Above
      OBVIOUS
    <3>1. y \in F /\ f[y] \in P /\ dist[y] \in Int /\ sim[f[y]] = -dist[y]
      BY <1>0 DEF Ahead
    <3>2. dist[y] <= dist[x]
      BY <1>0, <1>4 DEF Ahead
    <3>3. sim[p] < sim[f[y]]
      BY <1>4, <1>6, <3>1, <3>2
    <3>4. f[y] # p /\ <<f[y], p>> \notin L
      BY <1>0, <1>4, <3>1, <3>3
    <3>q. QED BY <3>1, <3>4 DEF Ahead
  <2>3. g \in Injection(B, Above)
    <3>1. g \in [B -> Above]
      BY <2>2
    <3>2. \A y, z \in B : g[y] = g[z] => y = z
      BY <1>0, <2>2
    <3>q. QED BY <3>1, <3>2 DEF Injection, IsInjective
  <2>4. Cardinality(B) <= Cardinality(Above)
    BY <1>3, <2>3, FS_Injection
  <2> HIDE DEF B, Above
  <2>q. QED BY <1>1, <1>3, <2>1, <2>4
<1>q. QED BY <1>4, <1>5, <1>6

-----------------------------------------------------------------------------
(* The results are the best.                                               *)

\* As many stand in the first n places.
LEMMA FirstPlaces ==
    ASSUME NEW S, IsFiniteSet(S), NEW R, Orders(R, S), NEW n \in 0 .. Cardinality(S)
    PROVE  Cardinality({x \in S : Place(R, S, x) < n}) = n
<1> DEFINE s == InPlaces(R, S)
           T == {x \in S : Place(R, S, x) < n}
           f == [i \in 1 .. n |-> s[i]]
<1>1. /\ Cardinality(S) \in Nat /\ n \in Nat
      /\ \A i \in 1 .. Cardinality(S) : s[i] \in S /\ Place(R, S, s[i]) = i - 1
      /\ \A x \in S : Place(R, S, x) + 1 \in 1 .. Cardinality(S) /\ s[Place(R, S, x) + 1] = x
  BY InPlacesIs
<1>2. \A x \in S : Place(R, S, x) \in Nat
  BY PlaceIs
<1> HIDE DEF s
<1>3. \A i \in 1 .. n : i \in 1 .. Cardinality(S) /\ f[i] = s[i] /\ f[i] \in T
  <2> TAKE i \in 1 .. n
  <2>1. i \in 1 .. Cardinality(S) /\ i - 1 < n
    BY <1>1
  <2>q. QED BY <1>1, <2>1
<1>4. f \in Injection(1 .. n, T)
  <2>1. \A i, j \in 1 .. n : f[i] = f[j] => i = j
    BY <1>1, <1>3
  <2>q. QED BY <1>3, <2>1 DEF Injection, IsInjective
<1>5. f \in Surjection(1 .. n, T)
  <2>1. ASSUME NEW x \in T PROVE \E i \in 1 .. n : f[i] = x
    <3>1. Place(R, S, x) + 1 \in 1 .. n
      BY <1>1, <1>2
    <3>q. QED BY <1>1, <1>3, <3>1
  <2>q. QED BY <1>3, <2>1 DEF Surjection
<1>6. IsFiniteSet(1 .. n) /\ Cardinality(1 .. n) = n
  BY <1>1, FS_Interval
<1>q. QED BY <1>4, <1>5, <1>6, FS_Surjection

\* Of the first n of T all are met that are in F.
LEMMA EnoughMet ==
    ASSUME NEW T, IsFiniteSet(T), NEW R, Orders(R, T), NEW F, F \subseteq T, NEW n \in Nat,
           NEW M, M = Met(R, T, F, IF n < Cardinality(T) THEN n ELSE Cardinality(T))
    PROVE  /\ Cardinality(T) \in Nat /\ Cardinality(T \ F) \in Nat /\ Cardinality(M) \in Nat
           /\ Cardinality(T) <= n => M = F
           /\ n <= Cardinality(T) => Cardinality(M) + Cardinality(T \ F) >= n
<1> DEFINE c == IF n < Cardinality(T) THEN n ELSE Cardinality(T)
           W == {x \in T : Place(R, T, x) < c}
<1>1. /\ IsFiniteSet(F) /\ IsFiniteSet(T \ F) /\ IsFiniteSet(W) /\ IsFiniteSet(M) /\ M \subseteq F
  BY FS_Subset, FS_Difference DEF Met
<1>2. /\ Cardinality(T) \in Nat /\ Cardinality(M) \in Nat /\ Cardinality(T \ F) \in Nat
  BY <1>1, FS_CardinalityType
<1>3. ASSUME Cardinality(T) <= n PROVE M = F
  <2>1. c = Cardinality(T)
    BY <1>2, <1>3
  <2>q. QED BY <2>1, MetIs
<1>4. ASSUME n <= Cardinality(T) PROVE Cardinality(M) + Cardinality(T \ F) >= n
  <2>1. c = n /\ n \in 0 .. Cardinality(T)
    BY <1>2, <1>4
  <2>2. Cardinality(W) = n
    BY <2>1, FirstPlaces
  <2>3. W \subseteq M \cup (T \ F)
    BY DEF Met
  <2>4. IsFiniteSet(M \cup (T \ F)) /\ M \cap (T \ F) = {}
        /\ Cardinality(M \cup (T \ F)) = Cardinality(M) + Cardinality(T \ F) - Cardinality(M \cap (T \ F))
    BY <1>1, FS_Union
  <2>5. Cardinality(W) <= Cardinality(M \cup (T \ F))
    BY <2>3, <2>4, FS_Subset
  <2>6. Cardinality(M \cap (T \ F)) = 0
    BY <2>4, FS_EmptySet
  <2> HIDE DEF W, c
  <2>q. QED BY <1>2, <2>2, <2>4, <2>5, <2>6
<1>q. QED BY <1>2, <1>3, <1>4

\* search_vectors with the default search_k: for every number of labels, every k and
\* whatever the trees let it meet, only what is deleted or filtered out of the 4 k
\* candidates takes the place of a result.
THEOREM SearchReturnsEnough == Spec => []SearchFull
<1>1. ASSUME IndexInv, Searched, res.search_k = -1
      PROVE  \/ Cardinality(Hits) \in {res.k, Cardinality(Findable)}
             \/ Cardinality(Hits) >= 4 * res.k - Cardinality(trees \ Findable)
  <2>0. PICK C \in Visits(trees, Candidates(res.k), res.search_k), m \in Nat : Finds(C, m)
    BY <1>1, FindsIn
  <2>1. /\ IsFiniteSet(C) /\ Orders(Near(res.q), C) /\ C \subseteq trees
        /\ Cardinality(Hits) = AtMost(res.k, Cardinality(MetOf(C)))
    BY <2>0 DEF Finds
  <2>2. res.k \in Nat \ {0} /\ IsFiniteSet(trees) /\ Findable \subseteq trees
    BY <1>1, SearchIs
  <2> DEFINE G == Findable \cap C
             n == 4 * res.k
  <2>3. /\ n \in Nat /\ G \subseteq C /\ C \ G \subseteq trees \ Findable
        /\ Candidates(res.k) = n
    BY <2>1, <2>2 DEF Candidates
  <2>4. MetOf(C) = Met(Near(res.q), C, G, IF n < Cardinality(C) THEN n ELSE Cardinality(C))
    BY <2>3 DEF MetOf
  <2> HIDE DEF n, G
  <2>5. /\ Cardinality(C) \in Nat /\ Cardinality(C \ G) \in Nat /\ Cardinality(MetOf(C)) \in Nat
        /\ Cardinality(C) <= n => MetOf(C) = G
        /\ n <= Cardinality(C) => Cardinality(MetOf(C)) + Cardinality(C \ G) >= n
    BY <2>1, <2>3, <2>4, EnoughMet
  <2>6. /\ Cardinality(C \ G) <= Cardinality(trees \ Findable)
        /\ Cardinality(trees \ Findable) \in Nat
    BY <2>2, <2>3, FS_Difference, FS_Subset, FS_CardinalityType
  <2>7. C = trees \/ n <= Cardinality(C)
    BY <1>1, <2>3 DEF Visits
  <2>8. CASE n <= Cardinality(C)
    BY <2>1, <2>2, <2>5, <2>6, <2>8 DEF AtMost, n
  <2>9. CASE C = trees /\ ~(n <= Cardinality(C))
    <3>1. MetOf(C) = Findable
      BY <2>2, <2>3, <2>5, <2>9 DEF G
    <3>q. QED BY <2>1, <3>1 DEF AtMost
  <2>q. QED BY <2>7, <2>8, <2>9
<1>2. IndexInv => SearchFull
  BY <1>1 DEF SearchFull
<1>q. QED BY <1>2, Invariant, PTL

LEMMA SetToSeqIs ==
    ASSUME NEW S, IsFiniteSet(S)
    PROVE  /\ Cardinality(S) \in Nat /\ SetToSeq(S) \in [1 .. Cardinality(S) -> S]
           /\ \A i, j \in 1 .. Cardinality(S) : SetToSeq(S)[i] = SetToSeq(S)[j] => i = j
           /\ \A x \in S : \E i \in 1 .. Cardinality(S) : SetToSeq(S)[i] = x
<1> DEFINE n == Cardinality(S)
           s == SetToSeq(S)
<1>1. n \in Nat /\ \E f \in Bijection(1 .. n, S) : TRUE
  BY FS_CardinalityType DEF ExistsBijection
<1>2. \E f \in [1 .. n -> S] : IsInjective(f)
  BY <1>1 DEF Bijection, Injection
<1>3. s \in [1 .. n -> S] /\ IsInjective(s)
  BY <1>2 DEF SetToSeq
<1> HIDE DEF s
<1>4. s \in Injection(1 .. n, S)
  BY <1>3 DEF Injection
<1>5. IsFiniteSet(1 .. n) /\ Cardinality(1 .. n) = n
  BY <1>1, FS_Interval
<1>6. s \in Surjection(1 .. n, S)
  BY <1>4, <1>5, FS_Injection
<1>7. \A i, j \in 1 .. n : s[i] = s[j] => i = j
  BY <1>3 DEF IsInjective
<1>q. QED BY <1>1, <1>3, <1>6, <1>7 DEF Surjection, s

\* The vectors of a set of labels, and the k best of them for k all.
VectorsIn(F) == LET vectors == SetToSeq(F) IN [i \in DOMAIN vectors |-> items[vectors[i]]]

LEMMA VectorsInIs ==
    ASSUME Vectors(items), NEW q \in Int, NEW F, F \subseteq DOMAIN items
    PROVE  LET n == Cardinality(F)
               P == Pairs(q, VectorsIn(F), n)
           IN  /\ n \in Nat /\ VectorsIn(F) \in Seq(Int) /\ Len(VectorsIn(F)) = n
               /\ \E f, dist, sim :
                    /\ Mirrored(F, Near(q), P, LessOf(P), f, dist, sim)
                    /\ dist = [x \in F |-> EuclideanDistance(q, items[x])]
                    /\ sim = [p \in P |-> p.sim]
<1> DEFINE n == Cardinality(F)
           s == SetToSeq(F)
           v == VectorsIn(F)
           P == Pairs(q, v, n)
           at == [x \in F |-> CHOOSE i \in 1 .. n : s[i] = x]
           f == [x \in F |-> Pair(q, v, at[x])]
           dist == [x \in F |-> EuclideanDistance(q, items[x])]
           sim == [p \in P |-> p.sim]
<1>1. IsFiniteSet(F) /\ Orders(Near(q), F)
  BY NearOrders, PartOrdered, FS_Subset DEF Vectors
<1>2. /\ n \in Nat /\ s \in [1 .. n -> F] /\ (\A i, j \in 1 .. n : s[i] = s[j] => i = j)
      /\ \A x \in F : \E i \in 1 .. n : s[i] = x
  BY <1>1, SetToSeqIs
<1>3. v = [i \in 1 .. n |-> items[s[i]]]
  BY <1>2 DEF VectorsIn
<1>4. \A x \in F : items[x] \in Int
  BY DEF Vectors
<1> HIDE DEF s, v
<1>5. v \in [1 .. n -> Int]
  BY <1>2, <1>3, <1>4
<1>6. v \in Seq(Int) /\ Len(v) = n
  BY <1>2, <1>5
<1>7. n \in 0 .. Len(v)
  BY <1>2, <1>6
<1>8. /\ \A i \in 1 .. n : Pair(q, v, i).sim \in Int /\ Pair(q, v, i).i = i
      /\ IsFiniteSet(P) /\ Cardinality(P) = n /\ Orders(LessOf(P), P)
  BY <1>6, <1>7, PairsAre, PairsOrdered
<1>9. \A x \in F : at[x] \in 1 .. n /\ s[at[x]] = x
  BY <1>2
<1> HIDE DEF at
<1>10. \A x \in F : f[x] \in P /\ f[x].i = at[x] /\ f[x].sim = -dist[x]
  <2> TAKE x \in F
  <2>1. f[x] = Pair(q, v, at[x]) /\ at[x] \in 1 .. n /\ v[at[x]] = items[x]
    BY <1>3, <1>9
  <2>2. f[x] \in P
    BY <2>1 DEF Pairs
  <2>3. Pair(q, v, at[x]).sim = ComputeSimilarity(q, v[at[x]])
    BY DEF Pair
  <2>q. QED BY <1>8, <2>1, <2>2, <2>3 DEF ComputeSimilarity
<1>11. \A p \in P : \E x \in F : f[x] = p
  <2> SUFFICES ASSUME NEW p \in P PROVE \E x \in F : f[x] = p
    OBVIOUS
  <2>1. PICK i \in 1 .. n : p = Pair(q, v, i)
    BY DEF Pairs
  <2>2. s[i] \in F /\ at[s[i]] = i
    BY <1>2, <1>9
  <2>3. f[s[i]] = Pair(q, v, i)
    BY <2>2
  <2>q. QED BY <2>1, <2>2, <2>3
<1>12. \A x, y \in F : f[x] = f[y] => x = y
  BY <1>9, <1>10
<1>13. dist \in [F -> Int]
  BY <1>4 DEF EuclideanDistance
<1>14. sim \in [P -> Int]
  BY <1>8 DEF Pairs
<1>15. \A x, y \in F : <<x, y>> \in Near(q) => dist[x] <= dist[y]
  <2> SUFFICES ASSUME NEW x \in F, NEW y \in F, <<x, y>> \in Near(q) PROVE dist[x] <= dist[y]
    OBVIOUS
  <2>1. Nearer(q, x, y)
    BY IsNear
  <2>2. dist[x] \in Int /\ dist[y] \in Int
    BY <1>13
  <2>3. dist[x] < dist[y] \/ dist[x] = dist[y]
    BY <2>1 DEF Nearer
  <2>q. QED BY <2>2, <2>3
<1>16. \A p, r \in P : <<p, r>> \in LessOf(P) => sim[p] <= sim[r]
  <2> SUFFICES ASSUME NEW p \in P, NEW r \in P, <<p, r>> \in LessOf(P) PROVE sim[p] <= sim[r]
    OBVIOUS
  <2>1. p.sim < r.sim \/ p.sim = r.sim
    BY DEF LessOf, Less
  <2>2. sim[p] = p.sim /\ sim[r] = r.sim /\ sim[p] \in Int /\ sim[r] \in Int
    BY <1>14
  <2>q. QED BY <2>1, <2>2
<1>17. \A x \in F : sim[f[x]] = -dist[x]
  BY <1>10
<1>18. f \in [F -> P]
  BY <1>10
<1> HIDE DEF f, dist, sim, P, n
<1>19. Mirrored(F, Near(q), P, LessOf(P), f, dist, sim)
  BY <1>1, <1>8, <1>11, <1>12, <1>13, <1>14, <1>15, <1>16, <1>17, <1>18 DEF Mirrored, n
<1>20. dist = [x \in F |-> EuclideanDistance(q, items[x])] /\ sim = [p \in P |-> p.sim]
  BY DEF dist, sim
<1>q. QED BY <1>2, <1>6, <1>19, <1>20 DEF P, n, v

\* Results in the order of their places: the most similar first.
LEMMA SortedHits ==
    ASSUME IndexInv, Searched, NEW i \in Hits, NEW j \in Hits, i < j
    PROVE  ComputeSimilarity(res.q, items[res.ids[i]]) >= ComputeSimilarity(res.q, items[res.ids[j]])
<1>0. PICK C \in Visits(trees, Candidates(res.k), res.search_k), m \in Nat : Finds(C, m)
  BY FindsIn
<1>1. /\ C \subseteq trees /\ Hits = 1 .. m
      /\ \A h \in 1 .. m : /\ res.ids[h] \in Findable \cap C
                           /\ Place(Near(res.q), Findable \cap C, res.ids[h]) = h - 1
  BY <1>0 DEF Finds
<1> DEFINE R == Near(res.q)
           G == Findable \cap C
           x == res.ids[i]
           y == res.ids[j]
           dist == [l \in trees |-> EuclideanDistance(res.q, items[l])]
<1>2. /\ Vectors(items) /\ trees = DOMAIN items /\ res.q \in Int /\ IsFiniteSet(trees)
      /\ Orders(R, trees) /\ G \subseteq trees
  BY <1>1, SearchIs
<1>3. IsFiniteSet(G) /\ Orders(R, G)
  BY <1>2, FS_Subset, PartOrdered
<1>4. /\ x \in G /\ y \in G /\ Place(R, G, x) = i - 1 /\ Place(R, G, y) = j - 1
      /\ i \in Int /\ j \in Int
  <2>1. i \in 1 .. m /\ j \in 1 .. m
    BY <1>1
  <2>2. \A h \in 1 .. m : res.ids[h] \in G /\ Place(R, G, res.ids[h]) = h - 1
    BY <1>1
  <2> HIDE DEF G, R
  <2>q. QED BY <2>1, <2>2
<1> HIDE DEF G, x, y
<1>5. <<x, y>> \in R
  BY <1>3, <1>4, PlacesTell
<1>6. Nearer(res.q, x, y)
  BY <1>2, <1>4, <1>5, IsNear
<1>7. \A l \in trees : dist[l] = EuclideanDistance(res.q, items[l]) /\ dist[l] \in Int
  BY <1>2 DEF Vectors, EuclideanDistance
<1>8. EuclideanDistance(res.q, items[x]) = dist[x] /\ EuclideanDistance(res.q, items[y]) = dist[y]
      /\ dist[x] \in Int /\ dist[y] \in Int
  BY <1>2, <1>4, <1>7
<1>9. dist[x] < dist[y] \/ dist[x] = dist[y]
  BY <1>6, <1>8 DEF Nearer
<1> HIDE DEF dist
<1>10. -dist[x] >= -dist[y]
  BY <1>8, <1>9
<1>q. QED BY <1>8, <1>10 DEF ComputeSimilarity, x, y

LEMMA BestIs ==
    ASSUME IndexInv, Searched, res.search_k = -1, Cardinality(trees) <= 4 * res.k
    PROVE  LET all == FindTopK(res.q, VectorsIn(Findable), Cardinality(Findable))
           IN  /\ Len(all) = Cardinality(Findable)
               /\ Cardinality(Hits) = IF Len(all) < res.k THEN Len(all) ELSE res.k
               /\ \A j \in Hits :
                    ComputeSimilarity(res.q, items[res.ids[j]]) = all[Len(all) + 1 - j].sim
<1> DEFINE F == Findable
           R == Near(res.q)
           n == Cardinality(F)
           m == AtMost(res.k, n)
           v == VectorsIn(F)
           P == Pairs(res.q, v, n)
           all == FindTopK(res.q, v, n)
<1>1. /\ Vectors(items) /\ trees = DOMAIN items /\ res.q \in Int /\ IsFiniteSet(trees)
      /\ Orders(R, trees) /\ F \subseteq trees /\ res.k \in Nat \ {0}
  BY SearchIs
<1>2. /\ Hits = 1 .. m /\ Cardinality(Hits) = m
      /\ \A j \in 1 .. m : res.ids[j] \in F /\ Place(R, F, res.ids[j]) = j - 1
  <2>0. PICK C \in Visits(trees, Candidates(res.k), res.search_k), h \in Nat : Finds(C, h)
    BY FindsIn
  <2>1. /\ IsFiniteSet(C) /\ C \subseteq trees /\ h = AtMost(res.k, Cardinality(MetOf(C)))
        /\ Hits = 1 .. h /\ Cardinality(Hits) = h
        /\ \A j \in 1 .. h : /\ res.ids[j] \in Findable \cap C
                             /\ Place(Near(res.q), Findable \cap C, res.ids[j]) = j - 1
    BY <2>0 DEF Finds
  <2>2. Candidates(res.k) = 4 * res.k /\ 4 * res.k \in Nat
    BY <1>1 DEF Candidates
  <2>3. C = trees
    <3>1. C = trees \/ Cardinality(C) >= 4 * res.k
      BY <2>2 DEF Visits
    <3>2. Cardinality(C) <= Cardinality(trees) /\ (Cardinality(C) = Cardinality(trees) => C = trees)
          /\ Cardinality(C) \in Nat /\ Cardinality(trees) \in Nat
      BY <1>1, <2>1, FS_Subset, FS_CardinalityType
    <3>q. QED BY <2>2, <3>1, <3>2
  <2>4. Findable \cap C = F
    BY <1>1, <2>3
  <2>5. MetOf(C) = F
    <3> DEFINE k == 4 * res.k
    <3>1. MetOf(C) = Met(R, C, F, IF k < Cardinality(C) THEN k ELSE Cardinality(C))
      BY <2>2, <2>4 DEF MetOf
    <3> HIDE DEF k
    <3>2. Cardinality(C) <= k /\ k \in Nat
      BY <2>2, <2>3 DEF k
    <3>3. IsFiniteSet(C) /\ Orders(R, C) /\ F \subseteq C
      BY <1>1, <2>3
    <3> HIDE DEF F, R
    <3>q. QED BY <3>1, <3>2, <3>3, EnoughMet
  <2>q. QED BY <2>1, <2>4, <2>5
<1>3. n \in Nat /\ v \in Seq(Int) /\ Len(v) = n
  BY <1>1, VectorsInIs
<1>4. PICK f, dist, sim : /\ Mirrored(F, R, P, LessOf(P), f, dist, sim)
                          /\ dist = [x \in F |-> EuclideanDistance(res.q, items[x])]
                          /\ sim = [p \in P |-> p.sim]
  BY <1>1, VectorsInIs
<1>5. all = InPlaces(LessOf(P), P)
  BY <1>1, <1>3, TopKIs
<1>6. m \in Nat /\ m <= n /\ m <= res.k
  BY <1>1, <1>3 DEF AtMost
<1>7. \A j \in 1 .. m : /\ j \in 1 .. n /\ res.ids[j] \in F
                        /\ Place(R, F, res.ids[j]) = j - 1
  BY <1>2, <1>3, <1>6
<1> HIDE DEF P, all, v, m
<1>8. IsFiniteSet(P) /\ Orders(LessOf(P), P) /\ Cardinality(P) = n
  BY <1>4 DEF Mirrored
<1>9. /\ Len(all) = n
      /\ \A i \in 1 .. n : all[i] \in P /\ Place(LessOf(P), P, all[i]) = i - 1
  BY <1>5, <1>8, InPlacesIs
<1>11. ASSUME NEW j \in 1 .. m
       PROVE  ComputeSimilarity(res.q, items[res.ids[j]]) = all[n + 1 - j].sim
  <2> DEFINE x == res.ids[j]
             p == all[n + 1 - j]
  <2>1. x \in F /\ Place(R, F, x) = j - 1 /\ n + 1 - j \in 1 .. n
    BY <1>3, <1>6, <1>7
  <2>2. p \in P /\ Place(LessOf(P), P, p) = n + 1 - j - 1
    BY <1>9, <2>1
  <2> HIDE DEF x, p
  <2>3. Place(R, F, x) + Place(LessOf(P), P, p) + 1 = Cardinality(F)
    BY <1>3, <2>1, <2>2
  <2>4. sim[p] = -dist[x]
    BY <1>4, <2>1, <2>2, <2>3, SamePlaceSameSim
  <2>5. sim[p] = p.sim /\ dist[x] = EuclideanDistance(res.q, items[x])
    BY <1>4, <2>1, <2>2
  <2>6. ComputeSimilarity(res.q, items[x]) = -EuclideanDistance(res.q, items[x])
    BY DEF ComputeSimilarity
  <2>7. ComputeSimilarity(res.q, items[x]) = p.sim
    BY <2>4, <2>5, <2>6
  <2>q. QED BY <2>7 DEF x, p
<1>12. m = IF n < res.k THEN n ELSE res.k
  BY DEF m, AtMost
<1>q. QED BY <1>2, <1>9, <1>11, <1>12 DEF all, v

\* search_vectors: for every number of labels and every k the results are in order,
\* and when there are no more labels than candidates, as similar as the k that a
\* full comparison ranks highest.
THEOREM SearchReturnsBest == Spec => []SearchBest
<1>1. ASSUME IndexInv, Searched PROVE SearchBest
  <2> DEFINE vectors == SetToSeq(Findable)
             v == [i \in DOMAIN vectors |-> items[vectors[i]]]
             all == FindTopK(res.q, v, Len(vectors))
  <2>1. v = VectorsIn(Findable)
    BY DEF VectorsIn
  <2>2. IsFiniteSet(Findable)
    <3>1. IsFiniteSet(trees) /\ Findable \subseteq trees
      BY <1>1, SearchIs
    <3>q. QED BY <3>1, FS_Subset
  <2>3. Len(vectors) = Cardinality(Findable)
    BY <2>2, SetToSeqIs
  <2>4. all = FindTopK(res.q, VectorsIn(Findable), Cardinality(Findable))
    BY <2>1, <2>3
  <2> HIDE DEF all
  <2>5. ASSUME res.search_k = -1, Cardinality(trees) <= 4 * res.k
        PROVE  /\ Cardinality(Hits) = IF Len(all) < res.k THEN Len(all) ELSE res.k
               /\ \A j \in Hits :
                    ComputeSimilarity(res.q, items[res.ids[j]]) = all[Len(all) + 1 - j].sim
    BY <1>1, <2>4, <2>5, BestIs
  <2>6. \A i, j \in Hits : i < j =>
            ComputeSimilarity(res.q, items[res.ids[i]]) >= ComputeSimilarity(res.q, items[res.ids[j]])
    BY <1>1, SortedHits
  <2>q. QED BY <2>5, <2>6 DEF SearchBest, all
<1>2. IndexInv => SearchBest
  BY <1>1 DEF SearchBest, Searched
<1>q. QED BY <1>2, Invariant, PTL
=============================================================================

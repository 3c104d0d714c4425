------------------------------ MODULE MCAnnoy ------------------------------
(***************************************************************************)
(* AnnoyIndex with one label more than a search for k = 1 has candidates, and *)
(* none more than one for k = 2 has.  As soon as there is a file, it and the *)
(* index hold fewer.                                                       *)
(***************************************************************************)
EXTENDS AnnoyIndex, TLC

MCLabels == 0 .. 4
MCVectorsOf == [l \in MCLabels |-> IF l = 0 THEN {0, 3} ELSE {l}]
MCQueries == {3}
MCKs == {0, 1, 2}
MCBitmaps == {MCLabels, MCLabels \ {0}}
MCSearchKs == {-1, 3}

SmallFile ==
    file # NoFile => Cardinality(DOMAIN file) <= 2 /\ Cardinality(DOMAIN items) <= 2
=============================================================================

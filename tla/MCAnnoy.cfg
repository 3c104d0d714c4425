SPECIFICATION Spec
CONSTANTS
    Labels <- MCLabels
    VectorsOf <- MCVectorsOf
    Queries <- MCQueries
    Ks <- MCKs
    Bitmaps <- MCBitmaps
    SearchKs <- MCSearchKs
    NTrees = 2
    NoFile = NoFile
CONSTRAINT SmallFile
INVARIANTS
    SearchSound
    SearchFull
    SearchBest
    LateInsertBreaks

SPECIFICATION Spec
CONSTANTS
    d1 = d1
    d2 = d2
    v1 = v1
    v2 = v2
    t1 = t1
    t2 = t2
    NoTag = NoTag
    NoVec = NoVec
    NoData = NoData
    Torn = Torn
    SplitDocs = {}
    BarBodies = {}
    LineBodies = {}
    Docs = {d1, d2}
    Vecs = {v1, v2}
    Tags = {t1, t2}
    HnswCap = 2
    MaxWal = 3
    Requests <- MCUniform
    Inserts <- MCInserts
    Budget <- MCOverwrite
CHECK_DEADLOCK FALSE
INVARIANTS
    NoPhantomWrite

SPECIFICATION Spec
CONSTANTS
    d1 = d1
    d2 = d2
    v1 = v1
    v2 = v2
    t1 = t1
    t2 = t2
    NoTag = NoTag
    NoVec = NoVec
    NoData = NoData
    Torn = Torn
    SplitDocs = {}
    BarBodies = {}
    LineBodies = {}
    Docs = {d1, d2}
    Vecs = {v1, v2}
    Tags = {t1, t2}
    HnswCap = 1
    MaxWal = 2
    Requests <- MCMixed
    Inserts <- MCInserts
    Budget <- MCRaft
CONSTRAINT AnyTwo
CHECK_DEADLOCK FALSE
INVARIANTS
    SearchAgrees
    ScalarLatest

SPECIFICATION FairSpec
CONSTANTS
    d1 = d1
    d2 = d2
    v1 = v1
    v2 = v2
    t1 = t1
    t2 = t2
    NoTag = NoTag
    NoVec = NoVec
    NoData = NoData
    Torn = Torn
    SplitDocs = {}
    BarBodies = {}
    LineBodies <- MCBroken
    Docs = {d1, d2}
    Vecs = {v1, v2}
    Tags = {t1, t2}
    HnswCap = 2
    MaxWal = 2
    Requests <- MCUniform
    Inserts <- MCInserts
    Budget <- MCCrashOnly
CHECK_DEADLOCK FALSE
PROPERTIES
    RestartCompletes

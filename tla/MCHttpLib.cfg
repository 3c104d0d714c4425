SPECIFICATION FairSpec
CONSTANTS
    c1 = c1
    c2 = c2
    c3 = c3
    w1 = w1
    w2 = w2
    NoJob = NoJob
    Workers = {w1, w2}
    Jobs = {c1, c2, c3}
    KindsOf <- MCKindsOf
    KeepAliveMax = 2
    Addrs = 2
    MayFail = TRUE
CONSTRAINT Bounded
CHECK_DEADLOCK FALSE
INVARIANTS
    OpenTracked
    InOrder
    HandledWhole
    Drained
PROPERTIES
    ConnectionEnds
    ShutdownEnds

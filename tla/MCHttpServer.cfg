SPECIFICATION Spec
CONSTANTS
    t1 = t1 t2 = t2 n1 = n1 n2 = n2
    Threads <- MCThreads Self = n1 Peers <- MCPeers None = None
    Keys <- MCKeys Requests <- MCRequests BlobKey = 3 Low = 0 High = 3 PageSize = 1
    MaxLog = 2 MaxElections = 2 MaxCalls = 3
INVARIANTS WalkComplete ListTruthful Acked
SYMMETRY Symmetry
CHECK_DEADLOCK FALSE

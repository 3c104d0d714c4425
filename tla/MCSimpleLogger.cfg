SPECIFICATION FairSpec
CONSTANTS
    p = p
    q = q
    flusher = flusher
    main = main
    None = None
    Threads = {p, q}
    Flusher = flusher
    Main = main
    Num = 2
    MaxPuts = 3
    MaxCrashes = 1
    MaxTarFailures = 1
    MaxLogFileSize = 1
    MaxLogFiles = 1
CHECK_DEADLOCK FALSE
INVARIANTS
    Conserved
    NoDuplicates
    FileBounded
    ArchiveSafe
    NoGap
    StopComplete
PROPERTIES
    PutReturns
    StopReturns

CONSTANTS
    main = main
    t1 = t1
    flusher = flusher
    None = None
    Threads <- MCThreads
    Main = main
    Flusher = flusher
    Timeout = 2
    MaxCrashes = 2
    Crashers <- MCThreads
    ExitOnCrash = FALSE
    EnvExitOnCrash = TRUE
    MsgSize = 12
    Reserve = 7
    BufSize = 20
    MaxPiece = 2
SPECIFICATION FairSpec
CHECK_DEADLOCK FALSE
INVARIANTS
    OneOfEach
    AsksLiving
    StacksComplete
    RawSurvives
    TextFits
PROPERTY DumpEnds

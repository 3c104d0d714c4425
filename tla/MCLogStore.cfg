SPECIFICATION TSpec
CONSTANTS
    a = a
    b = b
    StartIndexID = 1
    Vals = {a, b}
    MaxIndex = 3
    MaxWal = 2
    MaxPack = 2
CONSTRAINT Bounded
CHECK_DEADLOCK FALSE
INVARIANTS
    Contiguous
    WalMirrorsLog
    ReadsSound
PROPERTIES
    ImplementsRaftLog

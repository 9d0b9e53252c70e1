SPECIFICATION BackupSpec
CONSTANTS
    k1 = k1
    k2 = k2
    d1 = d1
    d2 = d2
    th1 = th1
    th2 = th2
    Main = main
    Threads = {main, th1, th2}
    Paths = {d1, d2}
    NoView = NoView
    CountWidth = 3
    SizeWidth = 3
    MaxCalls = 3
    Tokens = {k1, k2}
    Inserts <- ThreeInserts
    Erasable = {k1}
    FileEpochs = {0, 8}
    TimeWidth = 4
    Volatile = {d1}
    MaxTime = 1
SYMMETRY ServerSymmetry
INVARIANTS
    BackupTypeOK
    EntriesAreTraced
    RefCountIsEntryCount
    IndexedHaveStats
    SizesAddUp
    OnlyMissingFilesFail
PROPERTIES
    StaleFlag
    ImplementsDurableIndex
CHECK_DEADLOCK FALSE

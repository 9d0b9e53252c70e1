SPECIFICATION Spec
CONSTANTS
    k1 = k1
    k2 = k2
    d1 = d1
    d2 = d2
    th1 = th1
    th2 = th2
    th3 = th3
    Threads = {th1, th2}
    Paths = {d1, d2}
    NoView = NoView
    CountWidth = 3
    SizeWidth = 3
    MaxCalls = 2
    Tokens = {k1, k2}
    Inserts <- TwoInserts
    Erasable = {k1, k2}
INVARIANTS
    EveryEntryTraced
CHECK_DEADLOCK FALSE

SPECIFICATION Spec
CONSTANTS
    k1 = k1
    k2 = k2
    d1 = d1
    d2 = d2
    d3 = d3
    q1 = q1
    q2 = q2
    h1 = h1
    x1 = x1
    w1 = w1
    w2 = w2
    Searches = {q1, q2, h1, x1}
    TokenOf <- Words
    Tasks = {q1, q2}
    Listers = {h1}
    Entries <- AllEntries
    Records <- Indexed
    Writers = {w1, w2}
    File <- Files
    Unreadable = {d1}
    EntryHash <- Hashes
    RecordSize = 4
    DocHash <- DocHashes
    RanksSize = 2
    Listed = 2
    Ranked = 2
INVARIANTS
    TypeOK
    LoopSeesAll
    RanksAddUp
    TopRanked
    IndexedStays
PROPERTIES
    AllReturn
CHECK_DEADLOCK FALSE

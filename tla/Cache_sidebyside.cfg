SPECIFICATION Spec
CONSTANTS
    ContextSearch = ContextSearch
    QuerySearch = QuerySearch
    k1 = k1
    k2 = k2
    k4 = k4
    Threads = {th1, th2, th3}
    AllTypes <- BothTypes
    Keys = {k1, k2, k4}
    TypeOf <- TwoTokensOneQuery
    KeepsEmpty = {QuerySearch}
    Capacity = 1
    SizeWidth = 3
    MaxWrites = 3
    MaxSearches = 3
SYMMETRY ThreadSymmetry
INVARIANTS
    TypeOK
    FreshUnlessMixed
    DropMissesNothing
CHECK_DEADLOCK FALSE

SPECIFICATION Spec
CONSTANTS
    ContextSearch = ContextSearch
    QuerySearch = QuerySearch
    k1 = k1
    k2 = k2
    k4 = k4
    Threads = {th1, th2}
    AllTypes <- BothTypes
    Keys = {k1, k4}
    TypeOf <- OneTokenOneQuery
    KeepsEmpty = {QuerySearch}
    Capacity = 1
    SizeWidth = 3
    MaxWrites = 1
    MaxSearches = 1
INVARIANTS
    FreshAtRest
CHECK_DEADLOCK FALSE

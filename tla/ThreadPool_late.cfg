SPECIFICATION Spec
CONSTANTS
    w1 = w1
    w2 = w2
    w3 = w3
    s1 = s1
    s2 = s2
    t1 = t1
    t2 = t2
    t3 = t3
    NoTask = NoTask
    NoQueue = NoQueue
    Queues = {1}
    Workers = {w1}
    Home <- OneHome
    Submitters = {s1, s2}
    Tasks = {t1, t2}
    WaitFlags = {TRUE, FALSE}
    IsGraceful = FALSE
    LateCalls = TRUE
    SpuriousWakeups = {"QueueDispatch::m_cv"}
PROPERTIES
    NoPopAfterClear
    SubmitterServed
CHECK_DEADLOCK FALSE

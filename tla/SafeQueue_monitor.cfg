SPECIFICATION Spec
CONSTANTS
    Consumers = {c1, c2}
    Values = {v1, v2}
    MaxPushes = 4
    SpuriousWakeups = TRUE
INVARIANTS
    TypeOK
    NoLostPush
PROPERTIES
    ImplementsFifo
CHECK_DEADLOCK FALSE

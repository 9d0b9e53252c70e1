SPECIFICATION Spec
CONSTANTS
    c1 = c1
    c2 = c2
    NoClient = NoClient
    Base = 4
    MaxDigits = 3
    PrefixSize = 2
    ChunkSize = 2
    Readers = {r1, r2}
    Clients = {c1, c2}
    Request <- Requests
    Reply <- Replies
    Mortal = {c1}
    Throwing = {c2}
    MayShutDown = TRUE
INVARIANTS
    TypeOK
    OneHolder
    MessagesWhole
    LeftByShutDown
PROPERTIES
    Served
    StopsOrKnownHang
CHECK_DEADLOCK FALSE

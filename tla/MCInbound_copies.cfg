SPECIFICATION Spec
CONSTANTS
    q = q
    q2 = q2
    o = o
    a = a
    b = b
    c = c
    chan = chan
    NoName = NoName
    NoIdx = NoIdx
    NoSession = NoSession
    NoPacket = NoPacket
    Packets = {q, q2, o}
    Own = {o}
    TextOf <- Repeated
    ScopeOf <- FarThenNear
    Mappings = {a, b, c}
    RxScopes <- AllKinds
    Discord = {a, b, c}
    MtName <- SameChannel
    Tables <- SlotOne
    Reconnects = FALSE
    QueueCap = 2
    IgnoreList = TRUE
    ContentDedup = TRUE
INVARIANTS
    OwnNeverRelayed
    HandledOnce
    ScopesRespected
    NothingLost
    MergedWasRelayed

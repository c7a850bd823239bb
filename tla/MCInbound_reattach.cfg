SPECIFICATION Spec
CONSTANTS
    q = q
    q2 = q2
    o = o
    a = a
    b = b
    c = c
    chan = chan
    NoName = NoName
    NoIdx = NoIdx
    NoSession = NoSession
    NoPacket = NoPacket
    Packets = {q}
    Own = {}
    TextOf <- Single
    ScopeOf <- OneNear
    Mappings = {a, b}
    RxScopes <- BothOpen
    Discord = {a, b}
    MtName <- SameChannel
    Tables <- SlotOne
    Reconnects = TRUE
    QueueCap = 2
    IgnoreList = FALSE
    ContentDedup = FALSE
INVARIANTS
    SentOncePerChannel

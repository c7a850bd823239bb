SPECIFICATION Spec
CONSTANTS
    q = q
    q2 = q2
    o = o
    a = a
    b = b
    c = c
    chan = chan
    NoName = NoName
    NoIdx = NoIdx
    NoSession = NoSession
    NoPacket = NoPacket
    Packets = {q, q2}
    Own = {}
    TextOf <- Repeated
    ScopeOf <- FarThenNear
    Mappings = {b}
    RxScopes <- OnlyNear
    Discord = {b}
    MtName <- NoMeshtastic
    Tables <- SlotOne
    Reconnects = FALSE
    QueueCap = 2
    IgnoreList = FALSE
    ContentDedup = TRUE
INVARIANTS
    MergedWasRelayed

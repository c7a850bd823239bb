SPECIFICATION Spec
CONSTANTS
    m1 = m1
    m2 = m2
    p1 = p1
    p2 = p2
    p3 = p3
    h1 = h1
    h2 = h2
    h3 = h3
    o1 = o1
    CoreScope = CoreScope
    NoSend = NoSend
    Msgs = {m1, m2}
    NChunks <- OneEach
    Packets = {p1}
    PacketOf <- SharedPacket
    WithReceipt = {m1, m2}
    Unbuildable <- NoChunks
    QueueCap = 2
    RetryOn = TRUE
    MaxRetries = 1
    Hops = {h1}
    LocalHops = {h1}
    Ignored = {}
    SuccessRepeaters = {}
    MinRepeaters = 1
    Observers = {}
    SuccessObservers = {}
    SlowChains = FALSE
    Closes = TRUE
INVARIANTS
    NoReceiptLost
CHECK_DEADLOCK FALSE

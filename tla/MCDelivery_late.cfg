SPECIFICATION Spec
CONSTANTS
    m1 = m1
    m2 = m2
    p1 = p1
    p2 = p2
    p3 = p3
    h1 = h1
    h2 = h2
    h3 = h3
    o1 = o1
    CoreScope = CoreScope
    NoSend = NoSend
    Msgs = {m1}
    NChunks <- One
    Packets = {p1}
    PacketOf <- OnePacket
    WithReceipt = {m1}
    Unbuildable <- NoChunks
    QueueCap = 1
    RetryOn = TRUE
    MaxRetries = 1
    Hops = {h1}
    LocalHops = {}
    Ignored = {}
    SuccessRepeaters = {}
    MinRepeaters = 1
    Observers = {o1}
    SuccessObservers = {o1}
    SlowChains = FALSE
    Closes = FALSE
INVARIANTS
    LateEvidenceUpgrades
CHECK_DEADLOCK FALSE

SPECIFICATION Spec
CONSTANTS
    MtName <- MCRenamedName
    Channel <- MCRenamedChannel
    By <- MCBy
    TextOf <- MCText
    On <- MCOn
    Configs <- MCRenamed
    WellKnown = {"", "longfast"}
    NoSlot = NoSlot
    TextCap = 1
    Retries = TRUE
    Merges = FALSE
    Rewires = TRUE
    MaxHeard = 2
    MaxSessions = 2
    MaxSlot = 1
    Mappings = {"m1", "m2"}
    Writable = {"m1", "m2"}
    Pkts = {"p"}
    Own = {}
INVARIANTS TableKeptLive
CHECK_DEADLOCK FALSE

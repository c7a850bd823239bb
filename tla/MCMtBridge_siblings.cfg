SPECIFICATION Spec
CONSTANTS
    MtName <- MCName
    Channel <- MCChannel
    By <- MCBy
    TextOf <- MCText
    On <- MCOn
    Configs <- MCConfigs
    WellKnown = {"", "longfast"}
    NoSlot = NoSlot
    TextCap = 1
    Retries = FALSE
    Merges = TRUE
    Rewires = FALSE
    MaxHeard = 2
    MaxSessions = 2
    MaxSlot = 2
    Mappings = {"m1", "m2", "m3", "m4"}
    Writable = {"m1", "m2", "m3"}
    Pkts = {"own", "p", "q"}
    Own = {"own"}
INVARIANTS EachServedOnce
CHECK_DEADLOCK FALSE

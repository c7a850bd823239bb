SPECIFICATION Spec
CONSTANTS
    MtName <- MCName
    Channel <- MCChannel
    By <- MCBy
    TextOf <- MCText
    On <- MCOn
    Configs <- MCConfigs
    WellKnown = {"", "longfast"}
    NoSlot = NoSlot
    TextCap = 1
    Retries = TRUE
    Merges = FALSE
    Rewires = FALSE
    MaxHeard = 2
    MaxSessions = 2
    MaxSlot = 2
    Mappings = {"m1", "m3"}
    Writable = {"m1", "m3"}
    Pkts = {"own", "q"}
    Own = {"own"}
INVARIANTS OwnNeverRelayed
CHECK_DEADLOCK FALSE

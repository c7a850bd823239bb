SPECIFICATION Spec
CONSTANTS
    k1 = k1
    k2 = k2
    f1 = f1
    Public = Public
    Empty = Empty
    NoClient = NoClient
    NoSlot = NoSlot
    Channels = {k1, k2}
    Foreign = {f1}
    Slots <- ForeignThird
    MaxMsgs = 0
    MsgCap = 1
    Refused = {}
    Ignored = {}
    LateAnswers = TRUE
    MaxLate = 2
INVARIANTS
    ForeignSlotsKept
CHECK_DEADLOCK FALSE

SPECIFICATION Spec
CONSTANTS
    k1 = k1
    k2 = k2
    f1 = f1
    Public = Public
    Empty = Empty
    NoClient = NoClient
    NoSlot = NoSlot
    Channels = {Public, k1, k2}
    Foreign = {f1}
    Slots <- ForeignPublic
    MaxMsgs = 0
    MsgCap = 1
    Refused = {"send", "set"}
    Ignored = {"get"}
    LateAnswers = FALSE
    MaxLate = 0
INVARIANTS
    ForeignSlotsKept
    SlotsAreKnown
CHECK_DEADLOCK FALSE

SPECIFICATION Spec
CONSTANTS
    k1 = k1
    k2 = k2
    f1 = f1
    Public = Public
    Empty = Empty
    NoClient = NoClient
    NoSlot = NoSlot
    Channels = {}
    Foreign = {f1}
    Slots <- ForeignSecond
    MaxMsgs = 0
    MsgCap = 1
    Refused = {}
    Ignored = {}
    LateAnswers = TRUE
    MaxLate = 2
INVARIANTS
    AnswersOwnCommand
CHECK_DEADLOCK FALSE

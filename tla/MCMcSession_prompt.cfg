SPECIFICATION FairSpec
CONSTANTS
    k1 = k1
    k2 = k2
    f1 = f1
    Public = Public
    Empty = Empty
    NoClient = NoClient
    NoSlot = NoSlot
    Channels = {}
    Foreign = {f1}
    Slots <- OneFree
    MaxMsgs = 2
    MsgCap = 1
    Refused = {"send"}
    Ignored = {"send", "ping"}
    LateAnswers = FALSE
    MaxLate = 0
INVARIANTS
    AnswersKept
    InboxKept
PROPERTIES
    EventuallyServed
CHECK_DEADLOCK FALSE

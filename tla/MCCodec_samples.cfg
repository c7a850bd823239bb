SPECIFICATION CodecSpec
CONSTANTS
    Frames <- MarkedFrames
    Strays = {0, 62, 148, 195}
    MaxFrames = 2
    MaxStrays = 2
    MaxBreaks = 1
    Padding = {FALSE}
    TextBytes = {65}
INVARIANTS
    CleanStreamRead
    ChunksCarryAll
    ChunksFit
    PacketsReadBack
    MessagesRecognised
    AcceptedIsServed
PROPERTIES
    FrameReadInSync
CHECK_DEADLOCK FALSE

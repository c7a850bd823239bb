SPECIFICATION CodecSpec
CONSTANTS
    Frames <- MarkedFrames
    Strays = {0, 62, 148, 195}
    MaxFrames = 2
    MaxStrays = 2
    MaxBreaks = 1
    Padding = {TRUE, FALSE}
    TextBytes = {65}
INVARIANTS
    AcceptedIsServed
CHECK_DEADLOCK FALSE

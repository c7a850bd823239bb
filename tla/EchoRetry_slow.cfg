SPECIFICATION Spec
CONSTANTS
    Sends = {s1}
    RetryWait = 6
    SelfEchoTTL = 5
    MaxSend = 1
    Horizon = 2
INVARIANTS
    OneEchoOneSend
CHECK_DEADLOCK FALSE

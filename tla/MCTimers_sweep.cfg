SPECIFICATION TimersSpec
CONSTANTS
    MaxRetries = 2
    MaxQueue = 1
    MaxSend = 1
    MinWait = 4
    MaxWait = 6
    TTL = 25
    Sends = {s1, s2}
    RetryWait = 4
    SelfEchoTTL = 5
    EchoMaxSend = 1
    Horizon = 3
INVARIANTS
    SettlesOnce
    OneEchoOneSend
PROPERTIES
    RetriedOnlyUnheard
CHECK_DEADLOCK FALSE

SPECIFICATION Spec
CONSTANTS
    MaxRetries = 5
    MaxQueue = 0
    MaxSend = 0
    MinWait = 4
    MaxWait = 6
    TTL = 25
INVARIANTS
    SettlesOnce
CHECK_DEADLOCK FALSE

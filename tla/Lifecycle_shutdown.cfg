SPECIFICATION ProcessFairSpec
CONSTANTS
    QueueSize = 2
    MaxRetries = 1
    MaxJobs = 3
    Loops = {meshcore, corescope}
    Meshes = {meshcore}
    MaxBackoff = 3
INVARIANTS
    InOrder
    OnlyDiscordRefused
PROPERTIES
    EventuallyServed
    EventuallyExits
    EventuallyPosted
CHECK_DEADLOCK FALSE

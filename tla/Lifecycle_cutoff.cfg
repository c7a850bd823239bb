SPECIFICATION ProcessSpec
CONSTANTS
    QueueSize = 2
    MaxRetries = 1
    MaxJobs = 3
    Loops = {meshcore, corescope}
    Meshes = {meshcore}
    MaxBackoff = 3
INVARIANTS
    NothingCutOff
CHECK_DEADLOCK FALSE

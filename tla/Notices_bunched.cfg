SPECIFICATION Spec
CONSTANTS
    BusyWait = TRUE
    Spacing = 2
    Cap = 3
    Extra = 1
    MinPoll = 1
    MaxPoll = 2
    MaxRetries = 1
    QueueCap = 2
    Timers = {t1}
    Nodes = {n1, n2}
    Cooldown = 3
    Gap = 2
    MaxCooldown = 3
    Never = Never
INVARIANTS
    NoticesApart
CHECK_DEADLOCK FALSE

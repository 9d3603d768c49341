SPECIFICATION FairSpec
CONSTANTS
    a1 = a1
    a2 = a2
    t1 = t1
    t2 = t2
    t3 = t3
    Task = {t1, t2, t3}
    Agent = {a1}
    Assignee <- OneAgent
    Callback = {}
    Edited = {}
    Polled = {t1}
    Unassigned = {t3}
    Rank <- ByPriority
    ReadyLimit = 2
    ResendLimit = 1
    MaxRetries = 1
    Http = Http
    NULL = NULL
    MaxConcurrent = 0
    Threshold = 2
INVARIANTS
    BreakerConsistent
PROPERTIES
    ClaimsKept
    ReadyIsServed
CHECK_DEADLOCK FALSE

SPECIFICATION FairSpec
CONSTANTS
    a1 = a1
    a2 = a2
    t1 = t1
    t2 = t2
    t3 = t3
    Task = {t1, t2}
    Agent = {a1}
    Assignee <- OneAgent
    Callback = {}
    Edited = {}
    Polled = {t1, t2}
    Unassigned = {}
    Rank <- ByPriority
    ReadyLimit = 2
    ResendLimit = 1
    MaxRetries = 1
    Http = Http
    NULL = NULL
    MaxConcurrent = 1
    Threshold = 2
PROPERTIES
    ReadyIsServed
CHECK_DEADLOCK FALSE

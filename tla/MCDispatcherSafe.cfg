SPECIFICATION Spec
CONSTANTS
    a1 = a1
    a2 = a2
    t1 = t1
    t2 = t2
    t3 = t3
    Task = {t1, t2}
    Agent = {a1, a2}
    Assignee <- TwoAgents
    Callback = {a2}
    Edited = {t1}
    Polled = {t1, t2}
    Unassigned = {}
    Rank <- ByPriority
    ReadyLimit = 1
    ResendLimit = 1
    MaxRetries = 0
    Http = Http
    NULL = NULL
    MaxConcurrent = 1
    Threshold = 1
INVARIANT SlotsAccounted
PROPERTIES
    ImplementsLifecycle
CHECK_DEADLOCK FALSE

SPECIFICATION Spec
CONSTANTS
    OClient = {c0, c1}
    Service = c0
    Code = {k1}
    Jti = {j1, j2}
    AllScopes = {s1}
    User = {"admin", "bob"}
    MaxRestarts = 1
    MaxSessions = 2
    DJti = {d1, d2}
    HScope = {r, w}
    DTask = {t1}
    DAgent = {g1}
    HTask = {t1}
    HAgent = {g1, g2}
    MaxHops = 2
    Client = {k1x, k2x}
    Ip = {p1x}
    IpOf <- SharedAddress
    Whitelist = {k2x}
    High = 3
    Low = 1
    MaxTime = 3
    WTask = {t1, t2}
    Dir = {d1}
    Job = {j1}
    Slots = {2, 4, 5}
    Fallback = 2
    Horizon = 8
    MaxCuts = 2
    Member = {m1, m2}
    File = {f1, f2}
    Threads = 1
    MaxTtl = 2
    DefaultTtl = 1
    MaxNow = 3
    Author = {w1, w2}
    Val = {v1, v2}
    MaxVersion = 3
    MaxLives = 1
    Caller = {m3}
    Slot = {k4, k5}
    Content = {u1, u2}
    MaxLife = 2
    MaxHour = 3
    NumNodes = 3
    Conditional <- FailureEdges
    CRun = {z1, z2}
    CTask = {y1, y2}
    Drivers = {"sqlite", "mysql"}
    TxCall = {x1, x2}
    PlainCall = {p1, p2}
    Statements = 2
    MaxTries = 1
INVARIANTS
    CredentialsHold
    DelegationHolds
    
    BudgetKept
    SlotsFire
    WorkflowSound
    CliRunsAccounted
    ConnectionSound
PROPERTIES
    ServiceStepsKept
CHECK_DEADLOCK FALSE

SPECIFICATION Spec
CONSTANTS
    ReconnectMax = 4
    MaxFaults = 2
    Call = {q1, q2}
    AgentId = {a1, a2}
    Name = {n1, n2}
    Tenant = {x, y}
    StaleAge = 1
    PurgeAge = 2
    NumSubs = 2
    Run = {r1, r2}
    MaxAttempts = 2
    FailLimit = 2
    Stream = {e1, e2}
    QueueSize = 2
    MaxEvents = 3
    Sock = {w1, w2}
    Session = {i1, i2}
INVARIANTS
    AnswersReachCallers
    PeersKnown
    SubscribersServed
PROPERTIES
    RegistryRemovals
    EdgeRecovers
CHECK_DEADLOCK FALSE

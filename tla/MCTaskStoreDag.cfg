SPECIFICATION Spec
CONSTANTS
    Task = {t1, t2, t3}
    Lock = {}
    Result = {x}
    RunId = {}
    NULL = NULL
    DefaultClaimTTL = 1
    ClaimTTLs = {}
    HeartbeatLocks = {}
    RetryLimits = {}
    DefaultMaxRetries = 1
    Managed = {t1, t2, t3}
SYMMETRY Symmetry
INVARIANTS
    Acyclic
    NoOrphanRows
    ReadyIsSatisfied
PROPERTIES
    ImplementsLifecycle
    ResolutionKept
CHECK_DEADLOCK FALSE

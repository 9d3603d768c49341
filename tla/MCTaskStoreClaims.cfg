SPECIFICATION Spec
CONSTANTS
    Task = {t1, t2}
    Lock = {l1, l2}
    Result = {}
    RunId = {r1, r2, r3}
    NULL = NULL
    DefaultClaimTTL = 1
    ClaimTTLs = {0, 1}
    HeartbeatLocks = {l1, l2}
    RetryLimits = {0}
    DefaultMaxRetries = 1
    Managed = {t1, t2}
SYMMETRY Symmetry
INVARIANTS
    TypeOK
    LockMatchesRun
    RunFollowsTask
    RetryBudget
PROPERTIES
    ClaimsKept
CHECK_DEADLOCK FALSE

SPECIFICATION FairSpec
CONSTANTS
    Task = {t1}
    Lock = {l1, l2}
    Result = {}
    RunId = {r1, r2, r3, r4}
    NULL = NULL
    DefaultClaimTTL = 2
    ClaimTTLs = {0, 2}
    HeartbeatLocks = {l1, l2, NULL}
    RetryLimits = {0, 1}
    DefaultMaxRetries = 2
    Managed = {t1}
PROPERTIES
    SilentWorkerReleased
CHECK_DEADLOCK FALSE

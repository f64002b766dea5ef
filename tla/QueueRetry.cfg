\* A retried torrent is queued again once its stop is confirmed.
SPECIFICATION FairSpec
CONSTANTS
    Work = {w1}
    Provider = {EH_TORRENT}
    Torrent = EH_TORRENT
    Delegated = {}
    SwitchTarget = {}
    Pooled = {EH_TORRENT}
    BoundAtEnqueue = {}
    TaskId = {t1, t2}
    AttemptId = {a1, a2}
    PoolSize = 1
    MaxRecoveries = 0
    MaxGeneration = 3
    None = None
    DispatchStall = FALSE
PROPERTIES
    RetryIsSettled
\* The system may come to rest: everything finished, or all identities used.
CHECK_DEADLOCK FALSE

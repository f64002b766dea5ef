\* Stops and claims come to an end under the fairness of the scheduler.
SPECIFICATION FairSpec
CONSTANTS
    Work = {w1}
    Provider = {EH_TORRENT, EXHENTAI}
    Torrent = EH_TORRENT
    Delegated = {EXHENTAI}
    SwitchTarget = {EXHENTAI}
    Pooled = {EH_TORRENT, EXHENTAI}
    BoundAtEnqueue = {}
    TaskId = {t1, t2}
    AttemptId = {a1}
    PoolSize = 1
    MaxRecoveries = 0
    MaxGeneration = 2
    None = None
    DispatchStall = FALSE
PROPERTIES
    
    ClaimIsSettled
\* The system may come to rest: everything finished, or all identities used.
CHECK_DEADLOCK FALSE

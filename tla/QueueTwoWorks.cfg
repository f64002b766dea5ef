\* Two works that compete for the single remote transfer; a claim may stall for longer than its lease.
SPECIFICATION Spec
CONSTANTS
    Work = {w1, w2}
    Provider = {EH_TORRENT}
    Torrent = EH_TORRENT
    Delegated = {}
    SwitchTarget = {}
    Pooled = {EH_TORRENT}
    BoundAtEnqueue = {}
    TaskId = {t1, t2}
    AttemptId = {a1, a2}
    PoolSize = 1
    MaxRecoveries = 1
    MaxGeneration = 3
    None = None
    DispatchStall = TRUE
SYMMETRY Symmetry
INVARIANT
    OneRemoteTransfer
PROPERTIES
    StoppedIsSilent EndsPrevail
\* The system may come to rest: everything finished, or all identities used.
CHECK_DEADLOCK FALSE

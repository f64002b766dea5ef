\* One work with a torrent, an ExHentai archive and a Telegram source (its account bound at enqueue).
SPECIFICATION Spec
CONSTANTS
    Work = {w1}
    Provider = {EH_TORRENT, EXHENTAI, TELEGRAM}
    Torrent = EH_TORRENT
    Delegated = {EXHENTAI}
    SwitchTarget = {EXHENTAI}
    Pooled = {EH_TORRENT, EXHENTAI, TELEGRAM}
    BoundAtEnqueue = {TELEGRAM}
    TaskId = {t1, t2}
    AttemptId = {a1, a2}
    PoolSize = 1
    MaxRecoveries = 1
    MaxGeneration = 3
    None = None
    DispatchStall = FALSE
SYMMETRY Symmetry
INVARIANTS
    TypeOK
    RowsLinked
    SlotUnique
    SlotKeptWhileProducing
    StopBarrier
    CompletedHasArtifact
PROPERTIES
    FrozenAttempts
    OutcomeIsFinal
    SlotSpec
\* The system may come to rest: everything finished, or all identities used.
CHECK_DEADLOCK FALSE

SPECIFICATION FairSpec
CONSTANTS
    Content = {c1}
    Foreign = foreign
    None = none
    Keeper = {k1}
    MaxAttempt = 1
    MaxTask = 1
    MaxVersion = 1
    MaxTouch = 2
PROPERTIES ForeignKept BackupKept PublicationIsSettled CancelEnds
CHECK_DEADLOCK FALSE

SPECIFICATION FirstSpec
CONSTANTS
    First = a1
    Account = {a1, a2}
    Task = {t1}
    Pooled = {t1}
    Query = {q1}
    Loop = loop
    Proc = proc
    None = none
    MaxStop = 1
    MaxRev = 2
    MaxCrash = 1
INVARIANTS TypeOK RequestsUseCurrentVersion AttemptsStopWithAccount
PROPERTIES CancelPrevails 
CHECK_DEADLOCK FALSE

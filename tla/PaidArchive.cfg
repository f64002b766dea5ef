SPECIFICATION Spec
CONSTANTS
    Account = {a1, a2}
    Task <- Downloads
    None = none
    MaxAttempt <- Attempts
    MaxStop = 1
    MaxCrash = 1
INVARIANTS TypeOK PaidOnce ChargeRemembered
SYMMETRY Symmetry
CHECK_DEADLOCK FALSE

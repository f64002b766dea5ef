SPECIFICATION Spec
CONSTANTS
    Content = {c1, c2}
    Foreign = foreign
    None = none
    Keeper = {k1, k2}
    MaxAttempt = 2
    MaxTask = 2
    MaxVersion = 1
    MaxTouch = 0
INVARIANTS TypeOK LibraryIntact OnlyStrangersAsked CancelSettlesFiles
PROPERTIES PackKeepsInput
SYMMETRY Symmetry
CHECK_DEADLOCK FALSE

SPECIFICATION Spec
CONSTANTS
    Work = {w1, w2}
    Path = {p1, p2, p3}
    None = None
    MaxFile = 3
    MaxPack = 1
    MaxRename = 1
    MaxEdit = 1
    MaxRemoval = 1
    MaxCrash = 1
SYMMETRY Symmetry
INVARIANTS TypeOK BooksKeptUnlessRaced MoveUndisturbed
PROPERTIES RemovalIsFinal
CHECK_DEADLOCK FALSE

SPECIFICATION Spec
CONSTANTS
    Work = {w1, w2}
    Path = {p1, p2, p3}
    None = None
    MaxFile = 2
    MaxPack = 1
    MaxRename = 1
    MaxEdit = 0
    MaxRemoval = 0
    MaxCrash = 0
SYMMETRY Symmetry
INVARIANTS BooksKept
CHECK_DEADLOCK FALSE

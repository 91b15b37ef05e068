\* Sessions up to four inside one another; a function is not run inside itself.
CONSTANTS
    Values = {v1, v2}
    Funs = {f1, f2}
    Pointers = {p1, p2}
    NoName = NoName
    Recursive = FALSE
    MaxDepth = 4
    MaxSavepoints = 4
    MaxLeaks = 1
SPECIFICATION Spec
SYMMETRY Symmetry
INVARIANTS
    TypeOK
    OwnSavepoint
PROPERTY NestingSpec
\* Nothing obliges an application to begin another transaction.
CHECK_DEADLOCK FALSE

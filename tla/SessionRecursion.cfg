\* A function run inside itself.
CONSTANTS
    Values = {v1, v2}
    Funs = {f1, f2}
    Pointers = {p1, p2}
    NoName = NoName
    Recursive = TRUE
    MaxDepth = 3
    MaxSavepoints = 3
    MaxLeaks = 1
SPECIFICATION Spec
PROPERTY ErrorRollsBack
\* Nothing obliges an application to begin another transaction.
CHECK_DEADLOCK FALSE

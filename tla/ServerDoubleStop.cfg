\* A Stop() call during Start(), then another one.
CONSTANTS
    Starters = {s1}
    Stoppers = {x1, x2}
    SigThread = sig
    Requests = {r1}
    NStartup = 1
    NShutdown = 1
    MaxSignals = 1
SPECIFICATION Spec
SYMMETRY Symmetry
INVARIANT StopNeverPanics
CHECK_DEADLOCK FALSE

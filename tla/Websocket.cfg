\* serve and two goroutines of the application closing the connection.
CONSTANTS
    Closers = {c1, c2}
    Serve = serve
    WritesFail = TRUE
SPECIFICATION FairSpec
INVARIANTS
    CloseNeverPanics
    ReturnedMeansClosed
    ErrorsReported
PROPERTY EveryoneEnds
\* Every thread may have returned.
CHECK_DEADLOCK FALSE

\* A request whose handler makes up to two calls, and one that may take the objects
\* it used, or run at the same time.
CONSTANTS
    r1 = r1
    r2 = r2
    Requests = {r1, r2}
    Objects = {o1, o2}
    NoObject = NoObject
    Statuses = {200, 204, 400, 500}
    Panics = {"error", "empty"}
    ClientsLeave = TRUE
    MaxOps <- Calls
SPECIFICATION Spec
SYMMETRY Symmetry
INVARIANTS
    PoolSafety
    OwnState
    PanicIs500
    OneDocument
    ParseErrorStops
    AbortExplained
PROPERTY StatusOnWire
\* Every request may have ended.
CHECK_DEADLOCK FALSE

\* A handler that hijacks the connection and sets a status.
CONSTANTS
    r1 = r1
    r2 = r2
    Requests = {r1}
    Objects = {o1}
    NoObject = NoObject
    Statuses = {404}
    Panics = {"error"}
    ClientsLeave = FALSE
    MaxOps <- CallsOfOne
SPECIFICATION Spec
INVARIANT HijackedFinalizes
\* Every request may have ended.
CHECK_DEADLOCK FALSE

\* Element errors of an array that is a property of an object.
CONSTANTS
    Plain = FALSE
    Parsed <- MCParsed
    Accepted <- MCAccepted
    TrimOf <- MCTrimOf
    Length <- MCLength
    Stored <- MCStored
    Exact = 8
    Scenarios <- MCScenarios
SPECIFICATION Spec
INVARIANT ErrorsAtElements
\* Validation ends with the last field.
CHECK_DEADLOCK FALSE

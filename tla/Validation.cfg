\* Eleven rule sets, two of them with and without ConvertSingleValueArrays, each with every
\* input built from a few values.
CONSTANTS
    Plain = TRUE
    Parsed <- MCParsed
    Accepted <- MCAccepted
    TrimOf <- MCTrimOf
    Length <- MCLength
    Stored <- MCStored
    Exact = 8
    Scenarios <- MCScenarios
SPECIFICATION Spec
INVARIANTS
    WalkExact
    ErrorsAtElements
    ValidMeansTyped
    OnlyMatchedChanges
    CompositionModular
\* Validation ends with the last field.
CHECK_DEADLOCK FALSE

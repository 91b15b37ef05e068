\* Integers of 3, 5 and 8 bits and floats of 3 and 6; five registered entries; chains of
\* up to three writers and four calls; two statements, three nested operations, three
\* contexts; an int of five bits, pages of one to three of up to five rows.
CONSTANTS
    Width <- MCWidth
    Unsigned <- MCUnsigned
    IntSize = 8
    Mantissa <- MCMantissa
    Largest <- MCLargest
    Numerals <- MCNumerals
    Registered <- MCRegistered
    Registrations <- MCRegistrations
    Files <- MCFiles
    Settings <- MCSettings
    Environment <- MCEnvironment
    Encoders <- MCEncoders
    Resettable = {"gzip"}
    Flushable = {"gzip"}
    Requests <- MCRequests
    Orders <- MCOrders
    Chunks <- MCChunks
    Statements = {1, 2}
    MaxDepth = 3
    MaxContexts = 3
    Word = 5
    Pages <- MCPages
    Sizes = {1, 2, 3}
    MaxRows = 5
SPECIFICATION Spec
INVARIANTS ValuesTyped BodyDecodable EverythingLogged DeadlineKept PageExact
PROPERTIES NumberExact FailuresLeaveNoTrace
\* Find and Finalize are last steps.
CHECK_DEADLOCK FALSE

\* A root, two subrouters and two routes, with CORS options on any of them.
CONSTANTS
    AllOptions = TRUE
    GroupPrefixes <- MCPrefixes
    URIs <- MCURIs
    MethodSets = {{"GET"}, {"POST"}}
    Parameters = {"{p}", "{q}", "{f:.*}"}
    CatchAll = {"{f:.*}"}
    CORSOptions <- MCOptions
    NoCORS = NoCORS
    Unset = Unset
    Requests <- MCRequests
    Origins = {"app", "other"}
    MaxRouters = 3
    MaxRoutes = 2
    MaxSteps = 4
SPECIFICATION Spec
INVARIANTS
    ResolvesIndependently
    URIRoundTrip
    VaryComplete
    OptionsHandled
\* A request is the last step.
CHECK_DEADLOCK FALSE

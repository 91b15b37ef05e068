\* A root, two subrouters and two routes, without CORS options.
CONSTANTS
    AllOptions = FALSE
    GroupPrefixes <- MCPrefixes
    URIs <- MCURIs
    MethodSets = {{"GET"}, {"POST"}}
    Parameters = {"{p}", "{q}", "{f:.*}"}
    CatchAll = {"{f:.*}"}
    CORSOptions <- MCOptions
    NoCORS = NoCORS
    Unset = Unset
    Requests <- MCRequests
    Origins = {"app", "other"}
    MaxRouters = 3
    MaxRoutes = 2
    MaxSteps = 4
SPECIFICATION Spec
INVARIANT HandlerFitsPath
\* A request is the last step.
CHECK_DEADLOCK FALSE

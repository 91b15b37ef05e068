------------------------------- MODULE Routing -------------------------------
(***************************************************************************)
(* The router (router.go, route.go, parameterizable.go): registering       *)
(* subrouters, routes and CORS options, then matching one request against  *)
(* the tree and answering it through the CORS middleware. Requests change  *)
(* nothing in the tree, so one request per tree says all there is to say.  *)
(*                                                                         *)
(* A path or pattern is a sequence of tokens: "/", the text of a segment,  *)
(* or, in a pattern, a parameter in braces, which captures one segment     *)
(* or, in CatchAll, any text. The regexp package is external.             *)
(***************************************************************************)
EXTENDS Integers, Sequences, SequencesExt, FiniteSets, FiniteSetsExt

CONSTANTS
    GroupPrefixes,      \* given to Subrouter
    URIs,               \* given to Route
    MethodSets,         \* given to Route
    Parameters,         \* tokens that are parameters
    CatchAll,           \* those with a pattern for any text
    CORSOptions,        \* records, see Headers
    NoCORS,             \* nil options
    Unset,              \* no options at this level
    Requests,           \* [method, path, origin, asks]
    Origins,
    MaxRouters, MaxRoutes, MaxSteps   \* bounds: sizes of the tree, registrations

ASSUME ParametersAssumption == CatchAll \subseteq Parameters /\ "/" \notin Parameters
ASSUME PatternsAssumption == \A p \in GroupPrefixes \cup URIs : p \in Seq(ToSet(p))
\* As the documented prefixes are. One without would take a trailing slash along with a path.
ASSUME PrefixesAssumption == \A p \in GroupPrefixes : p = <<>> \/ "/" \in ToSet(p)
ASSUME RequestsAssumption == \A q \in Requests :
    /\ q = [method |-> q.method, path |-> q.path, origin |-> q.origin, asks |-> q.asks]
    /\ q.path \in Seq(ToSet(q.path)) /\ ("/" \in ToSet(q.path) => q.path[1] = "/")
ASSUME OptionsAssumption == Unset # NoCORS /\ {Unset, NoCORS} \cap CORSOptions = {}
ASSUME BoundsAssumption == {MaxRouters, MaxRoutes, MaxSteps} \subseteq Nat

VARIABLES
    routers,            \* in order of creation, the root first
    routes,             \* in order of registration
    corsMiddleware,     \* the global CORS middleware is registered
    revoked,            \* history: options were replaced or set to nil
    served              \* the answered request, or <<>>

vars == <<routers, routes, corsMiddleware, revoked, served>>

Root == 1
\* The special routes, beside the indices of routes; also the errors of a match.
NotFound         == 0
MethodNotAllowed == -1
Nil              == -2

LookupMeta(r) ==
    LET meta[s \in DOMAIN routers] ==
            IF routers[s].cors # Unset \/ s = Root THEN routers[s].cors ELSE meta[routers[s].parent]
    IN  meta[r]

RouteOptions(t) ==
    IF routes[t].cors # Unset THEN routes[t].cors ELSE LookupMeta(routes[t].parent)

InEffect(options) == options \notin {Unset, NoCORS}

-----------------------------------------------------------------------------
(* Registration. *)

Init ==
    /\ routers = <<[parent |-> 0, prefix |-> <<>>, cors |-> Unset]>>
    /\ routes = <<>>
    /\ corsMiddleware = FALSE
    /\ revoked = FALSE
    /\ served = <<>>

Steps == Len(routers) - 1 + Len(routes)
           + Cardinality({r \in DOMAIN routers : routers[r].cors # Unset})
           + Cardinality({t \in DOMAIN routes : routes[t].cors # Unset})

Registering == served = <<>> /\ UNCHANGED served

Subrouter(r, prefix) ==
    /\ Registering
    /\ Len(routers) < MaxRouters /\ Steps < MaxSteps
    /\ routers' = Append(routers, [parent |-> r, cors |-> Unset,
                                   prefix |-> IF prefix = <<"/">> THEN <<>> ELSE prefix])
    /\ UNCHANGED <<routes, corsMiddleware, revoked>>

\* "/" stays only at the root and in the groups right under it.
Normalized(r, uri) ==
    LET top == r = Root \/ (routers[r].prefix = <<>> /\ routers[r].parent = Root)
    IN  IF uri = <<"/">> /\ ~top THEN <<>> ELSE uri

Route(r, methods, uri) ==
    /\ Registering
    /\ Len(routes) < MaxRoutes /\ Steps < MaxSteps
    /\ routes' = Append(routes,
         [parent |-> r, uri |-> Normalized(r, uri), cors |-> Unset, given |-> methods,
          methods |-> methods
                        \cup (IF InEffect(LookupMeta(r)) THEN {"OPTIONS"} ELSE {})
                        \cup (IF "GET" \in methods THEN {"HEAD"} ELSE {})])
    /\ UNCHANGED <<routers, corsMiddleware, revoked>>

\* Options only ever reach a second level, or replace, or are taken back.
SetOptions(old, options) ==
    /\ revoked' = (revoked \/ old # Unset \/ options = NoCORS)
    /\ corsMiddleware' = (corsMiddleware \/ options # NoCORS)

RouterCORS(r, options) ==
    /\ Registering
    /\ Steps < MaxSteps \/ routers[r].cors # Unset
    /\ routers' = [routers EXCEPT ![r].cors = options]
    /\ SetOptions(routers[r].cors, options)
    /\ UNCHANGED routes

RouteCORS(t, options) ==
    /\ Registering
    /\ Steps < MaxSteps \/ routes[t].cors # Unset
    /\ routes' = [routes EXCEPT ![t].cors = options,
         ![t].methods = IF options # NoCORS THEN @ \cup {"OPTIONS"}
                        ELSE IF Cardinality(@) > 1 THEN @ \ {"OPTIONS"} ELSE @]
    /\ SetOptions(routes[t].cors, options)
    /\ UNCHANGED routers

-----------------------------------------------------------------------------
(* Matching. *)

\* What a parameter may capture of a text after a place: where that ends.
Ends(token, text, from) ==
    {to \in from..Len(text) : \/ token \in CatchAll
                             \/ (to > from /\ \A i \in from + 1..to : text[i] # "/")}

\* The ways to fit the tokens from a place on, given those for the tokens after it.
Extended(pattern, place, text, rest) ==
    [from \in 0..Len(text) |->
        IF pattern[place] \notin Parameters
        THEN IF from < Len(text) /\ text[from + 1] = pattern[place] THEN rest[from + 1] ELSE {}
        ELSE UNION {{[i \in {place} \cup DOMAIN c |->
                        IF i = place THEN SubSeq(text, from + 1, to) ELSE c[i]] : c \in rest[to]} :
                    to \in Ends(pattern[place], text, from)}]

\* The ways a pattern fits a text, each the texts its parameters capture, by their places
\* in the pattern. fits: the ways its last n tokens fit what is after a place in the text.
Captures(pattern, text, slash) ==
    LET none == [i \in {} |-> <<>>]
        fits[n \in 0..Len(pattern)] ==
            IF n = 0
            THEN [from \in 0..Len(text) |->
                    IF from = Len(text) \/ (slash /\ SubSeq(text, from + 1, Len(text)) = <<"/">>)
                    THEN {none} ELSE {}]
            ELSE Extended(pattern, Len(pattern) - n + 1, text, fits[n - 1])
    IN  fits[Len(pattern)][0]

\* regexp's submatches: of several fits, the first parameter takes what it can.
FindSubmatch(pattern, text, slash) ==
    LET fits == Captures(pattern, text, slash)
    IN  {c \in fits : \A d \in fits : \A i \in DOMAIN c :
            Len(c[i]) < Len(d[i]) => \E j \in DOMAIN c : j < i /\ c[j] # d[j]}

SlashCount(pattern) == Cardinality({i \in DOMAIN pattern : pattern[i] = "/"})

\* As much of the path as a prefix with n slashes may match, its first
\* character left out of the count; all of it when it has fewer slashes.
Cut(path, n) ==
    LET nth == {i \in 2..Len(path) : path[i] = "/" /\ n > 0
                  /\ Cardinality({j \in 2..i : path[j] = "/"}) = n}
    IN  IF nth = {} THEN path ELSE SubSeq(path, 1, (CHOOSE i \in nth : TRUE) - 1)

Places(pattern) == {i \in DOMAIN pattern : pattern[i] \in Parameters}

\* Mutant: the captures are taken from the end.
MergeReversed(params, pattern, captured) ==
    LET at(p) == {i \in Places(pattern) : pattern[i] = p}
        opposite(i) == CHOOSE j \in Places(pattern) :
                          Cardinality({k \in Places(pattern) : k < i})
                            = Cardinality({k \in Places(pattern) : k > j})
    IN  [p \in Parameters |->
           IF at(p) = {} THEN params[p] ELSE captured[opposite(Max(at(p)))]]

\* makeParameters and mergeParams: a later capture of a name replaces it.
Merge(params, pattern, captured) ==
    LET at(p) == {i \in Places(pattern) : pattern[i] = p}
    IN  [p \in Parameters |->
           IF at(p) = {} THEN params[p] ELSE captured[Max(at(p))]]

\* A name without a value reads as the empty text.
NoParams == [p \in Parameters |-> <<>>]

\* routeMatch, which all matchers of a request share and none restores.
\* resumed: history, a group of empty prefix answered 405 and was passed over.
Unmatched(path) ==
    [path |-> path, params |-> NoParams, route |-> Nil, err |-> Nil, resumed |-> FALSE]

\* Those that may come up for a path, trimmed or not.
Matches(path) ==
    [path : Seq(ToSet(path)), params : [Parameters -> Seq(ToSet(path))],
     route : {NotFound, MethodNotAllowed, Nil} \cup DOMAIN routes,
     err : {NotFound, MethodNotAllowed, Nil}, resumed : BOOLEAN]

MatchRoute(t, method, m) ==
    LET found == FindSubmatch(routes[t].uri, m.path, FALSE)
    IN  IF found = {}
        THEN [ok |-> FALSE, m |-> [m EXCEPT !.err = IF @ = Nil THEN NotFound ELSE @]]
        ELSE IF method \notin routes[t].methods
        THEN [ok |-> FALSE, m |-> [m EXCEPT !.err = MethodNotAllowed]]
        ELSE [ok |-> TRUE, m |-> [m EXCEPT !.route = t,
                !.params = Merge(@, routes[t].uri, CHOOSE c \in found : TRUE)]]

\* Mutant: a subrouter whose prefix matched turns back.
GiveUpTurnsBack(m, consumed) ==
    [ok |-> m.err = MethodNotAllowed,
     m |-> [m EXCEPT !.route = IF m.err = MethodNotAllowed THEN MethodNotAllowed ELSE NotFound]]

GiveUp(m, consumed) ==
    IF m.err = MethodNotAllowed
    THEN [ok |-> TRUE, m |-> [m EXCEPT !.route = MethodNotAllowed]]
    ELSE [ok |-> consumed, m |-> [m EXCEPT !.route = NotFound]]

\* Its subrouters, in order, until one answers; match[s][m] is what s makes of m. A group
\* of empty prefix that answers 405 is passed over.
TrySubrouter(tried, s, match) ==
    LET result == match[s][tried.m]
    IN  IF tried.ok THEN tried
        ELSE IF result.ok /\ routers[s].prefix = <<>> /\ result.m.route = MethodNotAllowed
        THEN [ok |-> FALSE, m |-> [result.m EXCEPT !.resumed = TRUE]] ELSE result

InSubrouters(r, match, m) ==
    LET tried[s \in 0..Len(routers)] ==
            IF s = 0 THEN [ok |-> FALSE, m |-> m]
            ELSE IF routers[s].parent = r THEN TrySubrouter(tried[s - 1], s, match) ELSE tried[s - 1]
    IN  tried[Len(routers)]

\* Then its routes, in order, if none did.
InRoutes(r, method, result) ==
    LET tried[t \in 0..Len(routes)] ==
            IF t = 0 THEN result
            ELSE IF routes[t].parent = r /\ ~tried[t - 1].ok THEN MatchRoute(t, method, tried[t - 1].m)
                                                           ELSE tried[t - 1]
    IN  tried[Len(routes)]

MatchIn(r, method, match, m) ==
    LET prefix == routers[r].prefix
        text   == IF prefix = <<>> THEN <<>> ELSE Cut(m.path, SlashCount(prefix))
        found  == FindSubmatch(prefix, text, prefix # <<>>)
        entered == [m EXCEPT !.path = SubSeq(@, Len(text) + 1, Len(@)),
                             !.params = Merge(@, prefix, CHOOSE c \in found : TRUE)]
        result == InRoutes(r, method, InSubrouters(r, match, entered))
    IN  IF found = {} THEN GiveUp(m, FALSE)
        ELSE IF result.ok THEN result
        ELSE GiveUp(result.m, text # <<>>)

MatchRouter(method, path) ==
    LET match[r \in DOMAIN routers] == [m \in Matches(path) |-> MatchIn(r, method, match, m)]
    IN  match[Root][Unmatched(path)]

-----------------------------------------------------------------------------
(* The CORS middleware and package cors. *)

NoHeaders == [origin |-> "", vary |-> {}, allows |-> ""]

\* Mutant: Vary only when the origin is a listed one.
HeadersVaryWhenListed(o, req) ==
    LET any == o.origins = <<>> \/ o.origins[1] = "*"
        listed == req.origin \in ToSet(o.origins)
    IN  [origin |-> IF any THEN "*" ELSE IF listed THEN req.origin ELSE "",
         vary |-> IF listed /\ ~any THEN {"Origin"} ELSE {}, allows |-> ""]

\* ConfigureCommon
Headers(o, req) ==
    LET any == o.origins = <<>> \/ o.origins[1] = "*"
        listed == req.origin \in ToSet(o.origins)
    IN  [origin |-> IF any THEN "*" ELSE IF listed THEN req.origin ELSE "",
         vary |-> IF any THEN {} ELSE {"Origin"}, allows |-> ""]

\* HandlePreflight: without a list the requested headers are reflected.
Preflight(o, req) ==
    [Headers(o, req) EXCEPT
        !.vary = IF o.headers = "" THEN @ \cup {"Request-Headers"} ELSE @,
        !.allows = IF o.headers = "" THEN req.asks ELSE o.headers]

\* Mutant: a preflight goes on to the handler.
AnswerGoesOn(options, req) ==
    [status |-> 0, headers |-> IF corsMiddleware /\ InEffect(options)
                               THEN Headers(options, req) ELSE NoHeaders]

\* asks: "" stands for a request without Access-Control-Request-Method.
Answer(options, req) ==
    IF ~corsMiddleware \/ ~InEffect(options)
    THEN [status |-> 0, headers |-> NoHeaders]
    ELSE IF req.method = "OPTIONS" /\ req.asks = ""
    THEN [status |-> 400, headers |-> NoHeaders]
    ELSE IF req.method = "OPTIONS"
    THEN [status |-> IF options.passthrough THEN 0 ELSE 204, headers |-> Preflight(options, req)]
    ELSE [status |-> 0, headers |-> Headers(options, req)]

ServeHTTP(req) ==
    LET m == MatchRouter(req.method, req.path).m
        options == IF m.route \in {NotFound, MethodNotAllowed} THEN Unset
                                                               ELSE RouteOptions(m.route)
    IN  /\ served = <<>>
        /\ routes # <<>>
        /\ served' = [req |-> req, route |-> m.route, params |-> m.params,
                      resumed |-> m.resumed, options |-> options,
                      answer |-> Answer(options, req)]
        /\ UNCHANGED <<routers, routes, corsMiddleware, revoked>>

Next ==
    \/ \E r \in DOMAIN routers, prefix \in GroupPrefixes : Subrouter(r, prefix)
    \/ \E r \in DOMAIN routers, methods \in MethodSets, uri \in URIs : Route(r, methods, uri)
    \/ \E r \in DOMAIN routers, options \in CORSOptions \cup {NoCORS} : RouterCORS(r, options)
    \/ \E t \in DOMAIN routes, options \in CORSOptions \cup {NoCORS} : RouteCORS(t, options)
    \/ \E req \in Requests : ServeHTTP(req)

Spec == Init /\ [][Next]_vars

-----------------------------------------------------------------------------
(* The URI of a route and its reverse. *)

FullPrefix(r) ==
    LET full[s \in DOMAIN routers] == (IF s = Root THEN <<>> ELSE full[routers[s].parent]) \o routers[s].prefix
    IN  full[r]

FullURI(t) == FullPrefix(routes[t].parent) \o routes[t].uri

\* The parameters of a pattern are numbered in their order.
Number(pattern, i) == Cardinality({j \in Places(pattern) : j <= i})

Names(pattern) ==
    [n \in 1..Cardinality(Places(pattern)) |->
        pattern[CHOOSE i \in Places(pattern) : Number(pattern, i) = n]]

\* values: what to write for the parameters, in their order.
BuildURI(uri, values) ==
    FlattenSeq([i \in DOMAIN uri |->
        IF uri[i] \in Parameters THEN values[Number(uri, i)] ELSE <<uri[i]>>])

-----------------------------------------------------------------------------
(* What a matched request is entitled to. *)

Fits(pattern, text, slash) == Captures(pattern, text, slash) # {}

\* Where a prefix that fits a path after a place ends: whole segments, as many as its own.
Taken(r, path, from) ==
    {n \in from..Len(path) : /\ Fits(routers[r].prefix, SubSeq(path, from + 1, n), FALSE)
                             /\ SlashCount(SubSeq(path, from + 1, n)) = SlashCount(routers[r].prefix)
                             /\ n = Len(path) \/ path[n + 1] = "/"}

After(r, path, from) ==
    IF routers[r].prefix = <<>> THEN from ELSE CHOOSE n \in Taken(r, path, from) : TRUE

\* A router with a prefix that fits is alone to decide, inside of groups as well.
Claims(r, path, from) ==
    LET claims[s \in DOMAIN routers] ==
            IF routers[s].prefix # <<>> THEN Taken(s, path, from) # {}
            ELSE \E sub \in DOMAIN routers : routers[sub].parent = s /\ claims[sub]
    IN  claims[r]

\* A subrouter of r before the n-th router claims what is after a place.
Decided(r, path, from, n) ==
    \E s \in DOMAIN routers : s < n /\ routers[s].parent = r /\ Claims(s, path, from)

\* The routes whose URI fits, in the order they are to be tried: nothing comes after a
\* subrouter that claims the path, and groups before the routes of their router.
\* reach[r][from]: what is under r of those that fit what is after r's own prefix.
Reach(path) ==
    LET under(r, s, from) == /\ routers[s].parent = r /\ ~Decided(r, path, from, s)
                             /\ routers[s].prefix = <<>> \/ Claims(s, path, from)
        own(r, t, from)   == /\ routes[t].parent = r /\ ~Decided(r, path, from, Len(routers) + 1)
                             /\ Fits(routes[t].uri, SubSeq(path, from + 1, Len(path)), FALSE)
        reach[r \in DOMAIN routers] == [from \in 0..Len(path) |->
            FlattenSeq([s \in DOMAIN routers |->
                          IF under(r, s, from) THEN reach[s][After(s, path, from)] ELSE <<>>])
            \o FlattenSeq([t \in DOMAIN routes |-> IF own(r, t, from) THEN <<t>> ELSE <<>>])]
    IN  reach[Root][0]

Allows(t, method) == method \in routes[t].methods

\* The first route that has the method, else 405 if there is a route, else 404.
Resolution(reached, method) ==
    LET able == {i \in DOMAIN reached : Allows(reached[i], method)}
    IN  IF able # {} THEN reached[Min(able)]
        ELSE IF reached # <<>> THEN MethodNotAllowed ELSE NotFound

\* The shared match of router.go:285, trimmed and filled in by every matcher it passes,
\* finds what a search that shares nothing finds. Groups that answer 405 are left out.
ResolvesIndependently ==
    served # <<>> /\ ~served.resumed =>
        served.route = Resolution(Reach(served.req.path), served.req.method)

\* The parameters a route was given build the path it was reached by: captures of the
\* routers and of the route are filed under the right names (parameterizable.go:121).
URIRoundTrip ==
    served # <<>> /\ served.route > NotFound /\ ~served.resumed =>
        LET uri == FullURI(served.route)
            names == Names(uri)
        IN  IsInjective(names) =>
              BuildURI(uri, [i \in DOMAIN names |-> served.params[names[i]]]) = served.req.path

\* A response that would have been another for another Origin, or for other requested
\* headers, names that header in Vary (cors.go:75), whatever options are in effect.
VaryComplete ==
    served # <<>> =>
        /\ \A o \in Origins :
              Answer(served.options, [served.req EXCEPT !.origin = o]).headers.origin
                # served.answer.headers.origin => "Origin" \in served.answer.headers.vary
        /\ \A a \in {r.asks : r \in Requests} \ {""} :
              served.req.asks # "" /\
              Answer(served.options, [served.req EXCEPT !.asks = a]).headers.allows
                # served.answer.headers.allows => "Request-Headers" \in served.answer.headers.vary

\* OPTIONS, which registerRoute adds to the methods of a route for preflights, reaches
\* a handler that was not registered for it only by passthrough, or when options were
\* taken back or replaced after the method was added (router.go:455, route.go:160).
OptionsHandled ==
    served # <<>> /\ served.route > NotFound /\ served.req.method = "OPTIONS"
                 /\ served.answer.status = 0 =>
        \/ "OPTIONS" \in routes[served.route].given
        \/ InEffect(served.options) /\ served.options.passthrough
        \/ revoked

\* "This allows route groups with subrouters having empty prefix" (router.go:313): when
\* the search goes on behind a group, the handler it finds is one for the request's path.
HandlerFitsPath ==
    served # <<>> /\ served.route > NotFound => Fits(FullURI(served.route), served.req.path, FALSE)
=============================================================================

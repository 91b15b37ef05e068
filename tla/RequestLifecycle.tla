-------------------------- MODULE RequestLifecycle --------------------------
(***************************************************************************)
(* The life of an HTTP request in goyave: Router.requestHandler takes a    *)
(* Response from the pool, runs the middleware stack and the handler under *)
(* the recovery middleware, finalizes the response (status handlers,       *)
(* header) and returns the object to the pool, unless the connection was   *)
(* hijacked.                                                               *)
(*                                                                         *)
(* A handler is any sequence of at most MaxOps[r] calls of the Response API,  *)
(* and it may panic after any of them. The middleware of the framework     *)
(* (CORS, parse, validation) are stages of their own, in the order the     *)
(* documentation gives them; an application's middleware may set a status  *)
(* before them.                                                            *)
(*                                                                         *)
(* An object of the pool stands for a Request and its Response: both are   *)
(* taken and returned together. The http.ResponseWriter is external.       *)
(***************************************************************************)
EXTENDS Integers, Sequences, FiniteSets

CONSTANTS
    Requests,       \* HTTP requests
    Objects,        \* the Request/Response pairs sync.Pool can hand out
    NoObject,       \* what a request owns outside requestHandler
    Statuses,       \* status codes applications pass to the API
    Panics,         \* what a handler may panic with: "error", "empty"
    ClientsLeave,   \* whether connections may break
    MaxOps          \* bound: API calls of each request's handler

ASSUME ObjectsAssumption == NoObject \notin Objects
ASSUME StatusesAssumption == Statuses \subseteq 0..999
ASSUME PanicsAssumption == Panics \subseteq {"error", "empty"}
ASSUME ClientsAssumption == ClientsLeave \in BOOLEAN
ASSUME OpsAssumption == MaxOps \in [Requests -> Nat]

VARIABLES
    debug,          \* app.debug: the configuration never changes
    stage,          \* where each request is
    obj,            \* the pool object each request uses
    resp,           \* the fields of each Response object
    net,            \* http.ResponseWriter and connection of each request: the status line
                    \* sent (wire, 0 before), hijacked, broken, the chunks of the body
    pool,           \* objects inside the sync.Pools
    unused,         \* objects New() has not made yet
    retained,       \* requests a websocket goroutine still uses
    ops,            \* API calls made by each handler
    parseError,     \* Extra[ExtraParseError{}] is set
    raised,         \* history: the request panicked or called Error()
    cleanPanic,     \* history: it panicked before anything was on the wire
    early           \* history: a status was set before the parse middleware

vars == <<debug, stage, obj, resp, net, pool, unused, retained, ops, parseError, raised,
          cleanPanic, early>>

\* aborted: finalize panicked. escaped: the recovery middleware did.
Stages == {"idle", "outer", "cors", "parse", "validate", "handler", "finalize",
           "done", "aborted", "escaped"}
Live(r) == stage[r] \in {"outer", "cors", "parse", "validate", "handler", "finalize"}

-----------------------------------------------------------------------------
(* net/http's ResponseWriter. An exchange x is a Response, the connection   *)
(* below it, and whether the last call panicked or returned a write error.  *)

Informational(s) == s \in (100..199) \ {101}
Bodyless(s)      == s \in (100..199) \cup {204, 304}

\* 1xx codes are only ever passed to WriteHeader.
FinalStatuses == {s \in Statuses : ~Informational(s)}

\* No effect after a final header or a hijack; 1xx headers are not final; an
\* invalid code panics.
NetWriteHeader(x, s) ==
    IF x.net.hijacked \/ x.net.wire # 0 THEN x
    ELSE IF s < 100 THEN [x EXCEPT !.panic = TRUE]
    ELSE IF Informational(s) THEN x
    ELSE [x EXCEPT !.net.wire = s]

\* The first write sends the header 200 if there is none.
NetWrite(x, chunk) ==
    LET y == NetWriteHeader(x, 200)
    IN  IF y.net.hijacked \/ y.net.broken \/ Bodyless(y.net.wire)
        THEN [y EXCEPT !.failed = TRUE]
        ELSE [y EXCEPT !.net.body = Append(@, chunk)]

-----------------------------------------------------------------------------
(* response.go *)

NewResponse == [status |-> 0, empty |-> TRUE, wroteHeader |-> FALSE,
                hijacked |-> FALSE, err |-> FALSE]

\* Mutant: the last call wins.
StatusOverrides(x, s) == [x EXCEPT !.resp.status = s]

Status(x, s) == IF x.resp.status = 0 THEN [x EXCEPT !.resp.status = s] ELSE x

WriteHeader(x, s) ==
    IF x.resp.wroteHeader THEN x
    ELSE NetWriteHeader([x EXCEPT !.resp.status = s, !.resp.wroteHeader = TRUE], s)

PreWrite(x) ==
    LET y == [x EXCEPT !.resp.empty = FALSE]
    IN  WriteHeader(y, IF y.resp.status = 0 THEN 200 ELSE y.resp.status)

Write(x, chunk) == LET y == PreWrite(x) IN IF y.panic THEN y ELSE NetWrite(y, chunk)

\* net/http's Flush sends the header 200 if there is none, as after a 1xx.
Flush(x) ==
    LET y == IF x.resp.wroteHeader THEN x ELSE PreWrite(x)
    IN  IF y.panic THEN y ELSE NetWriteHeader(y, 200)

\* JSON and String: the status is forced until the header is written, a write
\* error becomes a panic.
JSON(x, s, chunk) ==
    LET y == Write(IF x.resp.wroteHeader THEN x ELSE [x EXCEPT !.resp.status = s], chunk)
    IN  [y EXCEPT !.panic = y.panic \/ y.failed, !.failed = FALSE]

\* File and Download of a file that can be read: a write error is a panic too.
File(x) ==
    LET y == Write(x, "app")
    IN  [y EXCEPT !.panic = y.panic \/ y.failed, !.failed = FALSE]

\* Mutant: the body is written whether or not there is one already.
RespErrorAppends(x, hasErr) ==
    LET y == [x EXCEPT !.resp.err = hasErr]
    IN  IF debug /\ ~y.resp.hijacked
        THEN JSON(y, IF y.resp.status = 0 THEN 500 ELSE y.resp.status, "details")
        ELSE Status(y, 500)

\* response.error: hasErr is whether the argument is a non-nil *Error.
RespError(x, hasErr) ==
    LET y == [x EXCEPT !.resp.err = hasErr]
    IN  IF debug /\ y.resp.empty /\ ~y.resp.hijacked
        THEN JSON(y, IF y.resp.status = 0 THEN 500 ELSE y.resp.status, "details")
        ELSE Status(y, 500)

Hijack(x) == [x EXCEPT !.resp.hijacked = TRUE, !.net.hijacked = TRUE]

-----------------------------------------------------------------------------
(* status_handler.go and router.go *)

\* Codes NewRouter gives a handler that writes {"error": ...} to; 500 has the
\* PanicStatusHandler.
ErrorStatuses == (400..418) \cup (421..426) \cup {428, 429, 431, 444, 451}
                 \cup (501..508) \cup {510, 511}

\* Mutant: the header already written is not looked at.
PanicHandlerAlwaysWrites(x) ==
    LET y == RespError(x, x.resp.err)
    IN  IF ~y.panic /\ y.resp.empty /\ ~y.resp.hijacked THEN JSON(y, 500, "generic") ELSE y

PanicHandler(x) ==
    LET y == RespError(x, x.resp.err)
    IN  IF /\ ~y.panic
           /\ y.resp.empty /\ ~y.resp.hijacked
           /\ y.resp.status = 500 \/ ~y.resp.wroteHeader
        THEN JSON(y, 500, "generic")
        ELSE y

StatusHandler(x, s) ==
    IF s = 500 THEN PanicHandler(x)
    ELSE IF s \in ErrorStatuses THEN JSON(x, x.resp.status, "generic")
    ELSE x

\* The first part of Router.finalize.
RunStatusHandler(x) ==
    IF x.resp.empty
    THEN IF x.resp.status = 0 THEN Status(x, 204)
         ELSE IF x.resp.err /\ x.resp.wroteHeader THEN StatusHandler(x, 500)
         ELSE StatusHandler(x, x.resp.status)
    ELSE IF x.resp.err THEN StatusHandler(x, 500)
    ELSE x

\* The second part: a header for every response that has none.
FinalHeader(x) ==
    IF x.panic \/ x.resp.wroteHeader \/ x.resp.hijacked THEN x
    ELSE WriteHeader(x, x.resp.status)

Finalized(x) == FinalHeader(RunStatusHandler(x))

\* Mutant: a status set before the panic is kept.
RecoveredKeepsStatus(x) ==
    [x EXCEPT !.panic = FALSE, !.resp.err = TRUE,
              !.resp.status = IF @ # 0 THEN @ ELSE 500]

\* recoveryMiddleware: the error is kept, the status forced to 500 while the
\* header is not written.
Recovered(x) ==
    [x EXCEPT !.panic = FALSE, !.resp.err = TRUE,
              !.resp.status = IF x.resp.wroteHeader THEN @ ELSE 500]

-----------------------------------------------------------------------------
(* The steps of a request *)

Init ==
    /\ debug \in BOOLEAN
    /\ stage = [r \in Requests |-> "idle"]
    /\ obj = [r \in Requests |-> NoObject]
    \* &Response{}: every field has Go's zero value.
    /\ resp = [o \in Objects |-> [NewResponse EXCEPT !.empty = FALSE]]
    /\ net = [r \in Requests |-> [wire |-> 0, hijacked |-> FALSE, broken |-> FALSE,
                                  body |-> <<>>]]
    /\ pool = {}
    /\ unused = Objects
    /\ retained = {}
    /\ ops = [r \in Requests |-> 0]
    /\ parseError = [r \in Requests |-> FALSE]
    /\ raised = [r \in Requests |-> FALSE]
    /\ cleanPanic = [r \in Requests |-> FALSE]
    /\ early = [r \in Requests |-> FALSE]

poolVars == <<obj, pool, unused>>
histVars == <<raised, cleanPanic, early>>

Current(r) == [resp |-> resp[obj[r]], net |-> net[r], panic |-> FALSE, failed |-> FALSE]

Goto(r, from, to) == stage[r] = from /\ stage' = [stage EXCEPT ![r] = to]

\* The state after the exchange x of r, when x did not panic.
Become(r, x) ==
    /\ resp' = [resp EXCEPT ![obj[r]] = x.resp]
    /\ net' = [net EXCEPT ![r] = x.net]

\* A call made under the recovery middleware: its panic unwinds every other
\* middleware and goes to finalization.
Perform(r, from, to, x) ==
    /\ stage[r] = from
    /\ IF x.panic
       THEN /\ Goto(r, from, "finalize")
            /\ Become(r, Recovered(x))
            /\ raised' = [raised EXCEPT ![r] = TRUE]
            /\ cleanPanic' = [cleanPanic EXCEPT ![r] = x.net.wire = 0 /\ ~x.net.hijacked]
       ELSE /\ Goto(r, from, to)
            /\ Become(r, x)
            /\ UNCHANGED <<raised, cleanPanic>>

\* ServeHTTP answers any scheme but http itself, without a Response.
Redirect(r) ==
    /\ Goto(r, "idle", "done")
    /\ net' = [net EXCEPT ![r].wire = 308]
    /\ UNCHANGED <<debug, poolVars, resp, retained, ops, parseError, histVars>>

\* Mutant: reset() forgets a field of the previous request.
ArriveKeepsError(r) ==
    /\ Goto(r, "idle", "outer")
    /\ \E o \in pool \cup unused :
          /\ obj' = [obj EXCEPT ![r] = o]
          /\ pool' = pool \ {o}
          /\ unused' = unused \ {o}
          /\ resp' = [resp EXCEPT ![o] = [NewResponse EXCEPT !.err = resp[o].err]]
    /\ UNCHANGED <<debug, net, retained, ops, parseError, histVars>>

\* requestHandler: the objects come from the pool or are new, and are reset.
Arrive(r) ==
    /\ Goto(r, "idle", "outer")
    /\ \E o \in pool \cup unused :
          /\ obj' = [obj EXCEPT ![r] = o]
          /\ pool' = pool \ {o}
          /\ unused' = unused \ {o}
          /\ resp' = [resp EXCEPT ![o] = NewResponse]
    /\ UNCHANGED <<debug, net, retained, ops, parseError, histVars>>

\* An application's middleware before those of the framework: it may set a
\* status, then calls next.
OuterMiddleware(r) ==
    /\ \/ Perform(r, "outer", "cors", Current(r)) /\ UNCHANGED early
       \/ \E s \in FinalStatuses :
             /\ Perform(r, "outer", "cors", Status(Current(r), s))
             /\ early' = [early EXCEPT ![r] = TRUE]
    /\ UNCHANGED <<debug, poolVars, retained, ops, parseError>>

\* corsMiddleware: next, a refused preflight, or an answered preflight.
Cors(r) ==
    /\ \/ Perform(r, "cors", "parse", Current(r))
       \/ Perform(r, "cors", "finalize", Status(Current(r), 400))
       \/ Perform(r, "cors", "finalize", WriteHeader(Current(r), 204))
    /\ UNCHANGED <<debug, poolVars, retained, ops, parseError, early>>

\* Mutant: next is called whatever the body was.
ParseGoesOn(r) ==
    /\ \/ Perform(r, "parse", "validate", Current(r)) /\ UNCHANGED parseError
       \/ /\ Perform(r, "parse", "validate", Status(Current(r), 400))
          /\ parseError' = [parseError EXCEPT ![r] = TRUE]
    /\ UNCHANGED <<debug, poolVars, retained, ops, early>>

\* parse.Middleware.Handle: a bad query returns; a body too large returns with
\* 413; a bad body sets 400. After a body, or none, the status decides whether
\* next is called, so a middleware that chose 400 before stops the request there;
\* the handler of a 404 or a 405, and data already set, go on whatever it is.
Parse(r) ==
    /\ stage[r] = "parse"
    /\ \/ \E to \in {"validate"} \cup IF Current(r).resp.status = 400 THEN {"finalize"} ELSE {} :
             Perform(r, "parse", to, Current(r)) /\ UNCHANGED parseError
       \/ /\ Perform(r, "parse", "finalize", Status(Current(r), 413))
          /\ UNCHANGED parseError
       \/ /\ Perform(r, "parse", "finalize", Status(Current(r), 400))
          /\ parseError' = [parseError EXCEPT ![r] = TRUE]
       \/ LET x == Status(Current(r), 400)
          IN  /\ Perform(r, "parse", IF x.resp.status = 400 THEN "finalize" ELSE "validate", x)
              /\ parseError' = [parseError EXCEPT ![r] = TRUE]
    /\ UNCHANGED <<debug, poolVars, retained, ops, early>>

\* validateRequestMiddleware: next, errors of the validators, or 422.
Validate(r) ==
    /\ \/ /\ Perform(r, "validate", "handler", Current(r))
       \/ LET x == RespError(Current(r), TRUE)
          IN  /\ Goto(r, "validate", "finalize")
              /\ Become(r, IF x.panic THEN Recovered(x) ELSE x)
              /\ raised' = [raised EXCEPT ![r] = TRUE]
              /\ UNCHANGED cleanPanic
       \/ Perform(r, "validate", "finalize", Status(Current(r), 422))
    /\ UNCHANGED <<debug, poolVars, retained, ops, parseError, early>>

\* One call of the Response API by the handler, or by middleware after it.
Call(r) ==
    LET x == Current(r) IN
    \/ \E s \in FinalStatuses :
          \/ Perform(r, "handler", "handler", Status(x, s))
          \/ Perform(r, "handler", "handler", JSON(x, s, "app"))
    \/ \E s \in Statuses : Perform(r, "handler", "handler", WriteHeader(x, s))
    \/ Perform(r, "handler", "handler", [Write(x, "app") EXCEPT !.failed = FALSE])
    \/ Perform(r, "handler", "handler", File(x))
    \/ Perform(r, "handler", "handler", Flush(x))

HandlerCalls(r) ==
    /\ ops[r] < MaxOps[r]
    /\ ops' = [ops EXCEPT ![r] = @ + 1]
    /\ Call(r)
    /\ UNCHANGED <<debug, poolVars, retained, parseError, early>>

\* response.Error(err), also called by WriteDBError. Error(nil), or a slice
\* without errors, clears the error of a former call.
HandlerError(r) ==
    /\ ops[r] < MaxOps[r]
    /\ ops' = [ops EXCEPT ![r] = @ + 1]
    /\ \E hasErr \in BOOLEAN :
          LET x == RespError(Current(r), hasErr)
          IN  /\ Goto(r, "handler", IF x.panic THEN "finalize" ELSE "handler")
              /\ Become(r, IF x.panic THEN Recovered(x) ELSE x)
    /\ raised' = [raised EXCEPT ![r] = TRUE]
    /\ UNCHANGED <<debug, poolVars, retained, parseError, cleanPanic, early>>

\* response.Hijack(), once: net/http refuses a second one. The error for a
\* connection that cannot be hijacked changes nothing.
HandlerHijacks(r) ==
    /\ ops[r] < MaxOps[r]
    /\ ~net[r].hijacked
    /\ ops' = [ops EXCEPT ![r] = @ + 1]
    /\ Perform(r, "handler", "handler", Hijack(Current(r)))
    /\ UNCHANGED <<debug, poolVars, retained, parseError, early>>

\* The websocket Upgrader's handler: hijack, Status(101), a goroutine that
\* keeps the Request, return.
Upgrade(r) ==
    /\ ops[r] = 0
    /\ Perform(r, "handler", "finalize", Status(Hijack(Current(r)), 101))
    /\ retained' = retained \cup {r}
    /\ UNCHANGED <<debug, poolVars, ops, parseError, early>>

\* The goroutine ends; nothing else refers to the objects then.
UpgradeEnds(r) ==
    /\ r \in retained
    /\ retained' = retained \ {r}
    /\ UNCHANGED <<debug, stage, poolVars, resp, net, ops, parseError, histVars>>

HandlerReturns(r) ==
    /\ Goto(r, "handler", "finalize")
    /\ UNCHANGED <<debug, poolVars, resp, net, retained, ops, parseError, histVars>>

\* A panic the recovery middleware turns into an *errors.Error. NewSkip returns
\* nil for a slice without errors: the type assertion panics, and nothing
\* recovers from it in goyave.
HandlerPanics(r) ==
    /\ \/ /\ "error" \in Panics
          /\ Perform(r, "handler", "finalize", [Current(r) EXCEPT !.panic = TRUE])
       \/ /\ "empty" \in Panics
          /\ Goto(r, "handler", "escaped")
          /\ raised' = [raised EXCEPT ![r] = TRUE]
          /\ UNCHANGED <<resp, net, cleanPanic>>
    /\ UNCHANGED <<debug, poolVars, retained, ops, parseError, early>>

\* Mutants: hijacked objects go back to the pool too; the reference is dropped
\* before it is put.
FinalizePutsHijacked(r) ==
    LET x == Finalized(Current(r))
        put == ~x.panic
    IN  /\ Goto(r, "finalize", IF x.panic THEN "aborted" ELSE "done")
        /\ Become(r, x)
        /\ pool' = IF put THEN pool \cup {obj[r]} ELSE pool
        /\ obj' = [obj EXCEPT ![r] = IF put /\ r \notin retained THEN NoObject ELSE @]
        /\ UNCHANGED <<debug, unused, retained, ops, parseError, histVars>>

\* finalize runs outside the recovery middleware: a panic there leaves
\* requestHandler. Otherwise the objects go back to the pool, unless the
\* connection was hijacked.
Finalize(r) ==
    LET x == Finalized(Current(r))
        put == ~(x.panic \/ x.resp.hijacked)
    IN  /\ Goto(r, "finalize", IF x.panic THEN "aborted" ELSE "done")
        /\ Become(r, x)
        /\ pool' = IF put THEN pool \cup {obj[r]} ELSE pool
        /\ obj' = [obj EXCEPT ![r] = IF put /\ r \notin retained THEN NoObject ELSE @]
        /\ UNCHANGED <<debug, unused, retained, ops, parseError, histVars>>

\* The client's connection breaks.
ClientLeaves(r) ==
    /\ ClientsLeave
    /\ Live(r) /\ ~net[r].broken
    /\ net' = [net EXCEPT ![r].broken = TRUE]
    /\ UNCHANGED <<debug, stage, poolVars, resp, retained, ops, parseError, histVars>>

Next ==
    \E r \in Requests :
        \/ Redirect(r) \/ Arrive(r) \/ OuterMiddleware(r) \/ Cors(r) \/ Parse(r)
        \/ Validate(r) \/ HandlerCalls(r) \/ HandlerError(r) \/ HandlerHijacks(r)
        \/ Upgrade(r) \/ UpgradeEnds(r) \/ HandlerReturns(r) \/ HandlerPanics(r)
        \/ Finalize(r) \/ ClientLeaves(r)

Spec == Init /\ [][Next]_vars

-----------------------------------------------------------------------------
(* Properties *)

\* An object serves one user at a time: no two requests being handled, and no
\* request together with the websocket goroutine of an older one, share a
\* Request or a Response, and nothing in use can be taken from the pool.
PoolSafety ==
    LET InUse == {r \in Requests : Live(r)} \cup retained
    IN  /\ \A r, u \in InUse : obj[r] = obj[u] => r = u
        /\ \A r \in InUse : obj[r] \notin pool \cup unused

\* Nothing of the request an object served before shows in the next one: the
\* error and the hijacked flag of a Response are those of its own request.
OwnState ==
    \A r \in Requests : Live(r) =>
        /\ resp[obj[r]].err => raised[r]
        /\ resp[obj[r]].hijacked = net[r].hijacked

\* Every request that ends normally on a connection that was not hijacked was
\* answered by goyave, never left to net/http's default answer, and the status access
\* logs and middleware read from the Response is the one on the wire.
StatusOnWire ==
    [][\A r \in Requests : stage[r] # "done" /\ stage'[r] = "done" /\ ~net'[r].hijacked =>
           /\ net'[r].wire # 0
           /\ stage[r] = "finalize" => net'[r].wire = resp'[obj[r]].status]_vars

\* A panic before anything was sent is answered 500, whatever status the
\* handler or the middleware had chosen.
PanicIs500 ==
    \A r \in Requests : stage[r] = "done" /\ cleanPanic[r] => net[r].wire = 500

\* The framework appends no error document to a body already begun, by the handler
\* or by itself; whatever follows the first chunk was written by the application.
OneDocument ==
    \A r \in Requests : \A i \in 2..Len(net[r].body) : net[r].body[i] = "app"

\* A request that does not parse is answered 400 and its handler never runs,
\* unless a middleware before the parser had set a status.
ParseErrorStops ==
    \A r \in Requests : parseError[r] /\ ~early[r] =>
        /\ stage[r] \notin {"validate", "handler"}
        /\ stage[r] = "done" => net[r].wire = 400

\* A panic leaves requestHandler only when the error document cannot be
\* written: the client is gone, the connection was hijacked or the header
\* sent already forbids a body.
AbortExplained ==
    \A r \in Requests : stage[r] = "aborted" =>
        net[r].broken \/ net[r].hijacked \/ (debug /\ Bodyless(net[r].wire))

\* response.go:224-225: "Middleware executed after controller handlers, as well
\* as status handlers, keep working as usual after a connection has been
\* hijacked."
HijackedFinalizes ==
    \A r \in Requests : net[r].hijacked => stage[r] # "aborted"
=============================================================================

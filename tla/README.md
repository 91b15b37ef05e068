# Goyave, specified

TLA+ specifications of the Goyave web framework (v5, Go): the parts of it whose
correctness depends on interleavings, on the order of calls, on what fails in
between, or on the ways its data may be nested. The modules are checked with TLC
on small instances; what matters most about the server, requests, websockets, sessions,
writers, the configuration and the database helpers is proved with TLAPS for every size.

All paths below are relative to the root of the repository. Line numbers are
those of the sources the modules were written from; `PROJECT.json` gives the
lines of every definition.

## The system

### Components

| Component | State | Operations | Interacts with |
|---|---|---|---|
| Server (`server.go`, `service.go`) | atomic state word 0..3, `sigChannel`, `stopChannel`, hooks, services, database handle, `http.Server` | `New`, `Start`, `Stop`, `RegisterSignalHook`, hooks, `CloseDB`, `Transaction`/`ReplaceDB` for tests | `net/http` calls the router; signals call `Stop` |
| Router (`router.go`, `route.go`, `parameterizable.go`) | tree of routers and routes, regexes and their cache, status handlers, named routes, metadata | registration, `match`, `requestHandler`, `finalize`, `BuildURI` | takes Request and Response from pools, runs the middleware stack |
| Request and Response (`request.go`, `response.go`) | `sync.Pool`s; status, `empty`, `wroteHeader`, `hijacked`, error, chained writers | `Status`, `WriteHeader`, `Write`, `JSON`, `Flush`, `Hijack`, `Error`, ... | `http.ResponseWriter`, writers of middleware |
| Core middleware (`middleware.go`, `status_handler.go`) | none of their own | recovery, language, CORS, validation; status handlers | run inside `requestHandler`, communicate through the Response and `Request.Extra` |
| Parse middleware (`middleware/parse`) | none | query and body into `Request.Query`, `Request.Data` | sets 400/413 and the parse error |
| Compress, access log (`middleware/compress`, `log`) | a writer around the former one | `PreWrite`, `Write`, `Flush`, `Close` | chained below the Response, closed by `finalize` |
| Websocket (`websocket/`) | `waitClose` channel, `closeOnce`, timeouts | `Upgrader.Handler`, `serve`, `Conn.Close` | hijacks the connection, keeps the Request after `requestHandler` returned |
| Sessions (`util/session`) | the transaction in a context, the savepoint name | `Begin`, `Transaction`, `Commit`, `Rollback`, nested forms | gorm, one database transaction |
| Test utilities (`util/testutil`) | mock session tree, test server | a `Session` that checks how it is used | stands in for the sessions above |
| Database (`database/`) | connection pool, timeout plugin's saved contexts, paginator | `New`, plugin callbacks, `Paginator.Find`, factories | gorm callbacks before and after each statement |
| Configuration (`config/`) | tree of entries | `Load` (defaults, file, environment), `Get`, `Set` | read by everything |
| Language (`lang/`) | map of languages | loading, `DetectLanguage`, `Get` | the language middleware |
| Validation (`validation/`) | rule trees, error bags | `Validate`, about ninety validators | the validation middleware, `util/walk` |
| Authentication (`auth/`) | cached keys | basic, JWT, token controller | middleware |
| Logging (`slog/`), errors (`util/errors`) | handler groups, stack frames | formatting | everything |
| CORS (`cors/`), static files (`static.go`), helpers (`util/*`) | none | computation, file access | middleware, handlers |

### What is hard

* **Threads.** `Start`, any number of `Stop` calls, the signal goroutine, the
  startup hooks goroutine and the requests share one atomic word and two
  channels. A websocket connection has three kinds of goroutines around one
  channel and one `sync.Once`.
* **Pooling.** A Request and a Response are reused by later requests, and a
  websocket goroutine keeps its Request after `requestHandler` has returned.
* **Order of calls.** A handler calls the Response API in any order; the status
  lives in two places (Response and `net/http`), and finalization decides by
  four flags what to send.
* **Failure.** Panics anywhere in the stack, clients that leave, close frames
  that cannot be written, peers that stay silent, a commit whose answer is lost,
  a rollback whose error is ignored.
* **Time.** The 5 seconds of `Shutdown`, the close handshake's deadline, the
  deadline of a context against the statements run with it.

### What makes each component correct

* Server: one `Start`; `Stop` is a barrier (when it returns the shutdown is
  over); it always ends; nothing changes afterwards; `IsReady` is not a lie.
* Request: exactly one owner per pooled object; nothing leaks into the next
  request; the recorded status is the one sent; one document per answer; a
  panic that can still be answered is answered 500; a request that does not
  parse does not reach the handler.
* Websocket: the connection is closed once and for all, the close handler never
  panics nor blocks a reader, errors are reported once, goroutines end.
* Sessions: nested transactions; a rollback goes back exactly to where its own
  session began.
* Router: a request reaches the route that a search without shared state would
  find, 405 only if a path fitted, with the parameters under their names; CORS
  answers that depend on a header say so.
* Writers: what the client decodes is what was written, under the headers that
  were sent; the access log has what passed it.
* Configuration: an entry keeps its type and its authorized values, whatever it is
  loaded from; a call that fails leaves no trace, with one exception.
* Validation: errors are reported at the elements that failed; data without errors
  has the types of its rules; nothing beside the fields is changed; a composed rule
  set means what it means alone; numbers are accepted and converted exactly.
* Database: an operation is not cancelled by another one, and a page holds its rows.

## Modules

| Module | What it is |
|---|---|
| `ServerLifecycle` | `Start`, `Stop`, hooks, signals and requests over the shared state, one action per operation |
| `ShutdownBarrier` | abstract: what `Start` and `Stop` promise each other |
| `ServerLifecycleProofs` | theorems about `ServerLifecycle` |
| `RequestLifecycle` | one action per stage of a request; the Response API as functions on an exchange |
| `RequestLifecycleProofs` | theorems about `RequestLifecycle` |
| `WebsocketClose` | the end of a websocket connection |
| `WebsocketCloseProofs` | theorems about `WebsocketClose` |
| `SessionTransactions` | sessions over one database transaction with savepoints |
| `NestedTransactions` | abstract: nested transactions |
| `SessionTransactionsProofs` | theorems about `SessionTransactions` |
| `Routing` | the tree of routers and routes, its registration, one request to it, CORS |
| `RoutingProofs` | theorems about `Routing` |
| `Walk` | paths through untyped data and the bag of errors |
| `Validators` | the rules of a field, as judgements of a value |
| `Validation` | rule sets turned into fields, and the validation of an input field after field |
| `Numbers` | the numeric rules and their bounds |
| `Config` | registration, loads and `Set` on trees of shared entries |
| `ConfigProofs` | theorems about `Config` |
| `Writers` | the chain of compressing and logging writers below a Response |
| `WritersProofs` | theorems about `Writers` |
| `Timeouts` | the contexts that the timeout plugin gives nested database operations |
| `Paginator` | pages of a table that changes |
| `ServicesProofs` | theorems about `Timeouts`, `Paginator` and `Numbers` |
| `MC*` | symmetry sets, inputs and bounds for TLC; each EXTENDS the module it is named after (`WebsocketClose` needs none); `MCServices` extends `Config`, `Writers`, `Timeouts`, `Paginator` and `Numbers` |

### ServerLifecycle

`state` is `Server.state` (0 to 3 as `created`, `preparing`, `ready`,
`stopped`). Each thread has a program counter whose values are the operations
of `Start` (lines 422-487) and `Stop` (516-534) that touch shared memory:

* `StartCAS`, `Listen`, `BaseContext` (nil panics, a cancelled one fails),
  `SetReady` (the unconditional `Store(2)` and the hooks goroutine), `Serve`,
  `ServeClosed`/`ServeBreaks`/`ServeFailed`, then the deferred functions in
  their order: `ShutdownHook`s (which may panic), `CloseDB`, `StoreStopped`,
  `NotifyStop` (the send), `CloseStopChannel`.
* `StopSwap`, `StopCloseSig`, `StopShutdown`, `StopDrained`/`StopTimeout`,
  `StopReceive`.
* `RegisterSignalHook`, `SignalReceive`; `CheckReady`, `StartupHook`.

`http.Server` is external and modelled by what the code relies on: `Serve`
returns `ErrServerClosed` at once if `Shutdown` was called or as soon as it is;
`Shutdown` closes the tracked listener, waits for `Serve` to leave its accept
loop, then for the active requests or its deadline.

### RequestLifecycle

`resp` holds the five fields of the Response that decide anything, `net` what
`net/http` has done. `Status`, `WriteHeader`, `PreWrite`, `Write`, `Flush`,
`JSON`, `File`, `RespError`, `Hijack` are the methods of `response.go` as functions from an
exchange (Response, connection, "it panicked", "the write failed") to an
exchange. The actions are the stages: `Redirect` or `Arrive`, `OuterMiddleware`,
`Cors`, `Parse`, `Validate`, then any sequence of calls, an upgrade, a return or
a panic, and `Finalize`. A panic of anything under the recovery middleware goes
through `Recovered` to `finalize`; one inside `finalize` leaves `requestHandler`
(stage `aborted`), and the objects are not pooled; so does a panic with an empty
slice of errors (stage `escaped`). Bodies are sequences of
chunks of three kinds (of the application, `{"error": status text}`, error
details).

### WebsocketClose

`pc` for the goroutine of `serve` and for application goroutines that call
`CloseNormal`; `once`, `token`/`chanClosed` (the channel `waitClose`, capacity
1), `closeSent`/`sentCode`, `inbox`/`readErr` (the peer's close frame),
`reader` (the goroutine of `internalClose`), `tcp`. gorilla/websocket is
external: sticky read errors, `ErrCloseSent`, "use of closed network
connection".

### SessionTransactions

`sessions` is the stack of open sessions, `savepoints` those of the
transaction, `work` and `committed` the database inside and outside. `Begin` and
`Transaction` at depth 0 open the transaction, deeper they are `nestedBegin` and
`nestedTransaction`. Sessions are used as `util/testutil/session.go:36-44` and
its checks demand: one goroutine, children end first, the context is passed on.
Beyond that, any context may be done at any moment, and a nested session that was
committed may be rolled back (`defer tx.Rollback()`). Only the constant
`Recursive` decides something about the application: whether a function may be
run inside itself. A nested session can begin only with a usable context: a
`SAVEPOINT` that fails leaves everything unchanged.

`NestedTransactions` is what the interface promises: what each open transaction
saw when it began (`begun`) is what its rollback restores, unless its own context
is done (`expired`), in which case no statement can be run for it.

### Routing

`routers` and `routes` grow by the actions `Subrouter`, `Route`, `RouterCORS` and
`RouteCORS`, in any order; `ServeHTTP` then answers one request. Matching does not
change the tree, so one request to every tree is every request. `MatchIn` is
`Router.match` with the `routeMatch` it shares with its subrouters threaded
through: the path left (`Cut` is the count of slashes), the parameters, the error.
Its loops are `InSubrouters` and `InRoutes`, and `MatchRouter` ties the matchers of
the tree together as a recursive function from routers to what each makes of a match.
A path is a sequence of tokens; what a regular expression captures is external
(`Captures`, `FindSubmatch`: leftmost-first). `Answer` is the CORS middleware.
The properties do not use `MatchRouter`: `Reach` says which routes a path is
entitled to, by recursion on the tree, without any shared state, and `Resolution`
which of them answers. A prefix there takes whole segments, as many as it has itself
(`Taken`); a prefix whose parameter accepts slashes would fit others as well.

### Walk, Validators, Validation

`Walk` has `Parse` (a fold over the tokens of a path), `WalkPath` and `First` over
values that are tuples of a type and a content, and `Errors.Add` and `Merge`.
`Validators!Check` dispatches to one judgement for each rule of the package, except
those listed below; what a string parses to, its length and what a regular
expression accepts are constants. `Validation` builds the fields of a rule set
(`AsRules`: prefixes, parents of arrays, elements, duplicates) and validates a field
in each step (`ValidateNext`), in every order Go may range over a map. The state
`st` of `ValidateField` holds the data, copies of slices that were typed, the bag,
and, as history, the set of (element, rule) that `failed`.

### Numbers, Config, Writers, Timeouts, Paginator

* `Numbers`: a value and a rule applied to it, again and again. Go's shifts and
  conversions are modelled by what they do in words of `IntSize` bits; a conversion
  out of range gives any value of the type. `Takes` says without Go's arithmetic
  what a type can hold.
* `Config`: entries are shared by reference, so `heap` holds them and `defaults`
  and `config` are trees of references. `Register`, `Load` (copy, override,
  environment, conversion, authorized values) and `Set`, with their errors, their
  panics and the runtime errors of Go (`crash`). A file with several faults ends with
  the one that Go's map order meets first. `FailuresLeaveNoTrace` compares all that can
  be read before and after a call that failed in any of the three ways, and names the one
  that does leave something (`Unreverted`).
* `Writers`: `Compress` and `Log` put a link in front of the chain; `Write`,
  `Flush`, `Status`, `SetLength` and `HandlerWritesHeader` are what a handler does,
  `Finalize` closes the chain. `Chunks` is what the handler has to write, and bounds its
  calls. A compressed token is the pair of the encoder and the token, a flush and a
  footer are tokens too. An encoder lets out what it holds whenever it likes.
* `Timeouts`: `Operation`, `SubOperation` (on a statement made from the running
  one's), `After`, deadlines that pass, hooks that panic, statements used again or
  derived. GORM is external.
* `Paginator`: `UpdatePageInfo`, `Find` and its failures, among inserts and
  deletions of others.

These five share no state: a handler calls them one at a time, and none calls
another. `MCServices` checks them in one run, one at a time: `part` says which one
moves while the others rest as they start. Their specifications have names of
their own (`ConfigInit`, `ConfigNext`, `ConfigSpec`), so that one module can extend them all
and TLC sees the definitions and assumptions the proofs use.

## Runs

Bounds are small because the interesting cases are: two threads of a kind show
every race between two of them, and a third adds no new pair. What is proved
holds for every number of them.

| Run | Instance | Shows |
|---|---|---|
| `server` | 2 `Start` calls, 1 `Stop` call and the signal goroutine's, 1 signal, 1 request, 1 startup and 1 shutdown hook | one `Start`, barrier, notification, finality, what a second `Stop` and `IsReady` mean, the refinement of `ShutdownBarrier`, and that `Stop`, signals and `Start` come to an end (159 thousand states) |
| `request` | a request with up to 2 API calls and one without, 2 objects, statuses 200, 204, 400 and 500 | ownership and freshness of pooled objects, what the client receives (1.6 million states) |
| `websocket` | `serve`, 2 closers, close frames that may not be written | the channel, the `Once`, reports, and that goroutines end (31 thousand states) |
| `session` | 4 levels, 4 savepoints, 2 functions, 2 addresses, 2 contents | each name denotes its own savepoint; the refinement of `NestedTransactions` (919 thousand states) |
| `routing` | a root, up to 2 subrouters (empty prefix, static, parameter) and 2 routes, 4 registrations, 2 sets of CORS options | the route and its parameters, 405, the round trip through `BuildURI`, `Vary`, `OPTIONS` (469 thousand states) |
| `validation` | 11 rule sets, two of them with and without `ConvertSingleValueArrays`, each with up to a few hundred inputs | walks, places of errors, types of valid data, what is left alone, composition (10.7 thousand states, each the validation of a field) |
| `services` | numbers: types of 3, 5 and 8 bits, mantissas of 3 and 6 (1.7 thousand states); configuration: 5 registered entries, 5 registrations, 22 files, 14 settings (2.8 thousand); writers: chains of up to 3, 2 encoders, 4 calls (27 thousand); timeouts: 2 statements, 3 nested operations, 3 contexts (254 thousand); paginator: tables of up to 5 rows, pages of 1 to 3, an int of 5 bits (4.3 thousand) | numeric rules accept and convert exactly; entries keep their types, and failures leave no trace but one; bodies, headers and logs; deadlines and cancellation; pages and their number |

A second signal would find the signal goroutine gone. Two requests
are enough for an object to have a former, a present and a concurrent user, and
two calls of the API for each to meet what the other left in the Response. Four
levels and savepoints leave room for a name to be used, given up and used again
below an open session. Two subrouters are the least that can be siblings or one
inside the other, which is what the shared match is about. The rule sets of
`validation` were chosen for how fields meet: arrays in arrays, wildcards, rule
sets under paths, the root element, comparisons with converted fields, a path given
twice, the database. Rule sets are composed under a property, under the elements of an
array and under those of the root, and a single value takes the place of an array at the
top (where it is converted), below an array and inside a composed set (where the code
looks at the last segment of the path alone, `IsSingle`). Every input is a combination of a few values that parse, do
not parse, or are missing. The widths of `Numbers` keep the order of all bounds (the
mantissa of a float32 between int8 and int32, that of a float64 between int32 and int), and the
numbers are those next to each power of two. Three writers put compress between
two logs; four calls are a header, a write, a flush and a write.

`CHECK_DEADLOCK FALSE` is set where the system may really stop: all requests
answered, the server stopped, the connection closed, no further transaction, the
last field validated, the page found.

### Where the code differs from what is written about it

Each of these runs checks a sentence of the documentation, and fails:

| Run | Sentence | What happens |
|---|---|---|
| `server_double_stop` | `server.go:514-515` "concurrently safe. Calling this function several times is safe" | `Stop` meets `Start` before `Store(2)`; after it a second `Stop` closes `sigChannel` again: panic |
| `request_hijack` | `response.go:224-225` status handlers "keep working as usual" after a hijack | a status such as 404 after a hijack makes `finalize` panic outside the recovery |
| `session_recursion` | `session.go:135-136` "the transaction is rolled back" | only to where the inner run of the same function began |
| `routing_group` | `router.go:313` "This allows route groups with subrouters having empty prefix" | a group that answered 405 has consumed a part of the path: GET `/a/x` is answered by the handler of `/x` |
| `validation_deep_array` | `validator.go:192-194` "precisely mark which element in the array is invalid" | an element of an array that is a property of an object is reported as an element of the object (`validator.go:484`) |

The models contain other behaviours that the documentation does not lead one to
expect; no run checks them as properties:

* `Stop` before `Start` writes 3, and the only `Start` is then refused as
  "already started" (`server.go:519`, 425), where the comment says "do nothing".
* Startup hooks may begin after `Start` has returned (`server.go:316`, 474).
* A panic with an empty slice of errors leaves the recovery middleware without
  the 500 it promises (`middleware.go:72`, 84).
* `WriteHeader(103)` is recorded as the status of the answer, while 200 is sent
  (`response.go:281`). `Statuses` may contain 103, and `StatusOnWire` does not hold
  then; the `request` run leaves it out.
* When the context of a nested session is done, its rollback is refused and the
  error ignored: the transaction around may commit its changes (`session.go:176`).
* A deferred `Rollback` undoes a nested `Commit` (`session.go:34`, 119).
* A function of an outermost `Transaction` that panics ends it neither way: the
  connection is lost to the pool (`session.go:151`; `TransactionPanics`).
* `Serve` returns when `Shutdown` begins: the shutdown hooks and `CloseDB` run while
  requests are still drained (`server.go:464-466`), although they are not to be
  interrupted (`server.go:500-501`).
* A shutdown hook that calls `Stop` would wait for its own goroutine
  (`server.go:464`, 533); the hooks of the model do not.
* A websocket whose close frame cannot be written is not closed (`conn.go:96`),
  contrary to `websocket.go:195`. `EveryoneEnds` excepts it (`GivenUp`). A handler
  that panics with an empty slice of errors is answered as if nothing had happened
  (`websocket.go:237`).
* The prefix `/a/` of a subrouter never matches `/a/x`; a slash inside the regular
  expression of a prefix counts as one of the path (`router.go:338-345`, 383).
* An explicit `WriteHeader`, also by a function of `net/http` that is given the
  Response, sends the headers before a compressing writer can change them: the body
  is compressed without a `Content-Encoding` (`compress.go:41`, `response.go:146`).
  `BodyDecodable` excepts it (`HeaderFirst`), and the footer that an encoder without
  `Reset(io.Writer)` writes to an empty response (`StrayFooter`, `compress.go:70`).
  `gzip;q=0` selects gzip; `q=1` counts as 0.
* A slice entry of the configuration takes a scalar of its type (`entry.go:54`;
  `Misfit`), and panics on it in `entry.go:69` if it has authorized values. `Set` has
  stored the scalar by then, and `config.go:500`, which restores the previous value, is
  not reached: the entry keeps it, although `config.go:489` says "Panics and revert
  changes in case of error." `FailuresLeaveNoTrace` excepts it (`Unreverted`) and fails
  without the exception. Authorized values of an `int` slice are compared with the
  floats of JSON (`entry.go:41`, 71). A JSON null for an unknown key, or `Set` of one to
  nil, crashes. `Get` of a path below an entry gives the entry.
* A raw query has the write timeout (`timeout.go:98`), where the comment gives it the
  read timeout (`timeout.go:41`). An operation without a timeout, on a statement that
  had one, starts with a cancelled context.
* An offset of a page that overflows selects the first page (`paginator.go`;
  `Overflows`). After a failed `Find` the paginator cannot be used again.
* The rules after `Required` on a missing field run all the same, whatever the
  comment in `required.go` says. `Exists` is the negation of `Unique`, so that an
  earlier error of its field adds a second one. Comparisons depend on which field was
  converted first. Rules for the elements of a field without `Array` are dropped
  (`ruleset.go:199`).

### Fairness

`ServerLifecycle!Fairness` is weak fairness of each goroutine that is running
and of `Shutdown`'s deadline, which the Go scheduler and the runtime's timers
give. Nothing makes a client send, a handler return, an application call
`Start` or `Stop`, or `Accept` fail. `WebsocketClose!Fairness` is weak fairness of
`serve` after its handler, of the readers and of each step of `Close`, deadline
included; the peer and the handler are not fair. `EveryoneEnds` makes one
exception, the connection given up without a close frame (`GivenUp`). The other
modules state safety alone and need none.

## Proofs

Proved by TLAPS, with the assumptions the modules state on their constants
(`ThreadsAssumption`, `HooksAssumption`, `SignalsAssumption`; `NamesAssumption`,
`UseAssumption`, `BoundsAssumption`; `StatusesAssumption`; the
`ThreadsAssumption` of `WebsocketClose`; `ParametersAssumption`, `PatternsAssumption`,
`PrefixesAssumption`, `OptionsAssumption` and the `RequestsAssumption` of `Routing`, which
say that patterns and paths are sequences, that a path with a slash begins with one (a
request has such a path, or `*`), that a slash is no parameter, that the prefix
of a group is empty or holds a slash, and that no options are told from nil ones; `EntriesAssumption`; `EncodersAssumption`,
`RequestsAssumption`, `OrdersAssumption`, `ChunksAssumption`; `StatementsAssumption` and
the bounds of `Timeouts` and `Paginator`, which are types; the `WidthsAssumption`,
`TypesAssumption`, `NumeralsAssumption` and `FloatsAssumption` of `Numbers`: an integer has
at most the bits of a word, there are two floats, every numeral is a half of an
integer, float32 has no number that float64 has not, and a float has the
integers of its mantissa and its largest number):

* **ServerLifecycleProofs**: `TypeCorrect`, `OneStartHolds`, `StopBarrierHolds`,
  `NotifyNeverBlocksHolds`, `FinalOnceReturnedHolds`, `SecondStopHolds`,
  `ReadyMeansServingHolds` and `Refinement` (`Spec => BarrierSpec`). Two
  inductive invariants. `IInv` adds to the types what the compare-and-swap
  protects: a Start past it excludes state 0 and every other Start, and its
  position fixes what was closed, sent and stored so far; `StopBarrier` alone is
  not inductive, because it says nothing before a Stop returns. `SInv` relates
  what each Stop saw with the state word: a Stop that saw `ready` leaves 3 behind
  for good, and only one that saw `preparing` can be followed by `Store(2)`.
  The refinement maps the steps that change no phase to stuttering.
* **SessionTransactionsProofs**: `TypeCorrect`, `OwnSavepointHolds` and
  `Refinement` (`~Recursive /\ Spec => NestingSpec`), each under `~Recursive`. The
  inductive invariant `IInv` says that open sessions have distinct names, that the
  savepoints they made lie in the stack in their order, and that each is the
  latest of its name; the savepoint of a committed session whose rollback is still
  to come lies above those of all open sessions. The refinement adds `DoneInv`: a
  transaction that was dropped has no work of its own, and contexts that are done
  lie above those that are not. What a session saw (`Seen`) is then read off its
  savepoint, which no step of a session inside it changes. TLC shows that the
  hypothesis is needed (`session_recursion`).

* **RequestLifecycleProofs**: every property of the run `request`. `PoolSafetyHolds`,
  `OwnStateHolds` and `OneDocumentHolds` need no hypothesis. Their inductive invariant
  `Core` says that no two requests in use share an object, that a request a websocket
  goroutine keeps is hijacked until it is finalized (so `finalize` cannot pool it), and
  that the exchange of every live request is `Good`: its Response knows of the hijack,
  of the body and of the header. One lemma for each operator of the Response API shows
  that it keeps exchanges good; every step under the recovery middleware is then an
  `Advance`, and one lemma about `Advance` serves them all. `PanicIs500Holds`,
  `ParseErrorStopsHolds`, `AbortExplainedHolds` and `StatusOnWireHolds` assume
  `FinalOnly`: applications pass codes from 200 up, or 101, to the API.
  `Response.WriteHeader` (`response.go:176`) marks the header as written whatever the
  code, so an informational or refused one leaves the answer to net/http, with
  another status than the Response's. `Flow` follows what the framework's own
  middleware leave from stage to stage.
* **WebsocketCloseProofs**: `CloseNeverPanicsHolds`, `ReturnedMeansClosedHolds` and
  `ErrorsReportedHolds`, for any number of goroutines that close. The inductive
  invariant `IInv` adds to the types who is inside `closeOnce` and how far it is
  (`OnceInv`): the properties look at the end of a call only, and say nothing while the
  one call inside has written a frame and not yet closed; and which code each thread
  closes with (`ReportInv`).

* **WritersProofs**: `BodyDecodableHolds` and `EverythingLoggedHolds`, for every order of
  middleware, list of encoders and sequence of calls. Plain text and length at one link
  say nothing inductive about the chain: `WritersInv` says that at most one link
  compresses (the first takes `Accept-Encoding` away, `Asking`), that what it let out
  decodes to all that was written but what it still holds (`Carried`), that each
  log has counted what passed it (`Logged`), and how the headers that were sent and those
  still to be sent relate to the two flags of the Response (`HeaderOK`, `Sound`). One
  lemma says what a token sequence becomes on its way through a whole chain
  (`PassSound`); each method of the Response is then a lemma about one `Pass`. What the
  recursive functions of `Pass` and `Plain` compute is proved for every length, by a
  least counterexample (`IntervalInduction`).
* **ConfigProofs**: `ValuesTypedHold` and `FailuresLeaveNoTraceHolds`. The inductive
  invariant adds to `ValuesTyped` that the loader's entries are `Registrable` and in
  cells of their own, and that each tree refers to a cell that exists; without it a `Set`
  could write into the defaults. A validation that crashes has stored a scalar in a slice
  entry with authorized values (`CrashMisfit`), which is the exception `FailuresLeaveNoTrace`
  makes, and then every other key reads as before (`OneCellRead`). That `Get` reads the
  same after the other failures needs a lemma about `Lookup` in a tree to which only
  categories were added (`CategoriesRead`).
* **ServicesProofs**: `DeadlineKeptHolds`; the invariant says that the operation of each
  nesting depth owns its context or inherited it from one further out, so that `After`
  cancels only what nobody further out runs with. `PageExactHolds` rests on the
  arithmetic of rounding up (`QuotientUnique`); `PagesInv` says that pages that are loaded are
  those of the rows that were `counted`, whatever happened to the table since.
  `NumberExactHolds`, for every width up to that of a word and every mantissa: the
  property is about one step, and holds because of `Valued` (`ValuedHolds`): the value is one that its
  type has, so a float has been rounded already and `int.go` need not round it again. The
  provers know nothing of `^`, so powers of two are the function `Power`. Of them it takes
  that one divides those above (`PowerDivides`); hence the unsigned word in which `max`
  is computed gives the bounds of the type, and rounding
  keeps what is rounded, keeps the order up to the largest number and
  makes a float32 one of float64.
* **RoutingProofs**: every property of the run `routing`: `VaryCompleteHolds`,
  `OptionsHandledHolds`, `URIRoundTripHolds` and `ResolvesIndependentlyHolds`,
  for every tree of routers and every order in which it was registered. `OptionsHandled` looks at one answer
  and says nothing of how `OPTIONS` came to be among the methods of its route;
  `PreflightInv` does: until options are taken back, a route that has `OPTIONS` without
  having been given it has options in effect, its own or inherited. That a later
  `Router.CORS` cannot put them out of effect for a router below is `MetaGrows`.
  `CorsInv` says that options need the global middleware, and `ServedInv` that a request
  is answered by a route that has its method: `MatchRouterSound`, by induction from the
  last router to the root, since routers come after their parents (`DownFrom`), and
  inside each along its subrouters and routes (`Iteration`). A recursive function
  is a `CHOOSE`, so each of these proofs first shows that there is one (`MatchExists`: a
  router depends on its own subrouters only, `MatchInLocal`; `MetaStep`).
  `URIRoundTrip` looks at the end of a search whose matchers share one path and one set of
  parameters, so what is proved is what each matcher leaves behind (`Tells`,
  `MatchInTells`): one that turns the request away, and passed over no group that answered
  405, leaves path and parameters as they were; one that ends at a route has captured what
  the rest of that route's URI needs to read as the path it was given, and left
  the parameters of the routers outside alone. The latter needs distinct names, as the
  property does: a later capture of a name replaces an earlier one. Under it lie
  what a fit of a pattern spells (`CapturesSpell`), that the text cut by counting slashes
  is spelled by the prefix without a trailing slash left over (`CutSlashes`,
  `PrefixSpells`), and that `BuildURI` puts the n-th value in the place of the n-th name
  (`NameAt`, `BuildReads`). `PrefixesAssumption` is needed (`HeadSpells`, `HeadTaken`): the
  expression of a prefix allows a trailing slash (`parameterizable.go`), and one that
  counts no slash is matched against the whole path, so that it would swallow the
  last one. Nothing in `Subrouter` refuses such a prefix; the documentation and the tests
  give none.
  `ResolvesIndependently` too is about the end of a search. What each matcher answers is
  its `Verdict`: with the shared path standing at a place, it answers the route that
  `Reach` resolves to after that place, or turns away a path that nothing below
  claims and leaves no error in the match. `Progress` says so of every step of the two
  loops, where what was reached so far grows by the part of one subrouter or route and its
  resolution is that of the two put together (`Prefer`, `ResolutionConc`). That both name the
  same prefix is `HeadTaken`: in a path that begins with a slash, what is cut by counting
  slashes ends at a segment (`CutEnds`), a part with as many slashes that ends at a
  segment is what is cut (`CutAt`), and a fit of the prefix leaves no slash for the
  optional one (`FitsExactly`). That the expression finds a submatch whenever there is a
  fit is `FindsWhatFits`: among finitely many lengths one is the greediest. The
  recursive functions of `Claims` and `Reach` exist because each router looks at later
  ones only (`UpTree`).

Only model-checked: the properties of `Validation`, with `Walk` and
`Validators` below it, and all liveness (`StopTerminates`, `ShutdownEnds`, `EveryoneEnds`). Out of the prover's reach:
liveness under fairness and `ENABLED`; modules with `RECURSIVE` operators (`Walk` and
those that extend it).

## Not modelled

Formatting and wording (errors, logs, JSON), reflection, cryptography, drivers
and the file system; HTTP headers and cookies beyond those of CORS and compression;
the `http.Server` beyond what `Start` and `Stop` use; regular expressions beyond
which text they capture. `PROJECT.json` gives the reason for every component.

* Languages are maps filled once; which variant of a language a request gets depends
  on the order in which Go ranges over a map, and nothing is promised about it.
* The mock session of `util/testutil` is for tests; its rules are those
  `SessionTransactions` assumes of an application.
* The flattening of queries and forms is a loop over the keys of a map.
* The alphabet rules (`Alpha`, `Digits` and the like) are regular expressions.
* A shutdown hook that itself calls `Stop` is left out.

## What could follow

1. `MockSession`: the test session refines the rules `SessionTransactions` assumes.
2. Content negotiation and the flattening of forms, against reference definitions.
3. Errors of the connection below a chain of writers (`compress.go:77`).

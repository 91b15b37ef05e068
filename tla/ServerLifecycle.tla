--------------------------- MODULE ServerLifecycle ---------------------------
(***************************************************************************)
(* The life cycle of a goyave Server (server.go): threads that call        *)
(* Start(), threads that call Stop(), the goroutine of                     *)
(* RegisterSignalHook(), the goroutine that runs the startup hooks, and    *)
(* the requests net/http serves in between.                                *)
(*                                                                         *)
(* Every thread has a program counter and every step is one operation on   *)
(* the memory the threads share: the atomic state word, sigChannel,        *)
(* stopChannel, the http.Server, the database handle.                      *)
(*                                                                         *)
(* http.Server (Serve, Shutdown) is external: it is modelled by what       *)
(* Start and Stop rely on. Serve tracks its listener unless Shutdown has   *)
(* been called; Shutdown closes the tracked listener, waits for Serve to   *)
(* leave its accept loop, then for the active requests or its deadline.    *)
(***************************************************************************)
EXTENDS Naturals, FiniteSets

CONSTANTS
    Starters,       \* threads that call Start()
    Stoppers,       \* threads that call Stop(), once each
    SigThread,      \* the goroutine RegisterSignalHook() starts
    Requests,       \* the HTTP requests clients send
    NStartup,       \* number of registered startup hooks
    NShutdown,      \* number of registered shutdown hooks
    MaxSignals      \* bound: SIGINT/SIGTERM deliveries

ASSUME ThreadsAssumption == SigThread \notin Stoppers

ASSUME HooksAssumption == NStartup \in Nat /\ NShutdown \in Nat

ASSUME SignalsAssumption == MaxSignals \in Nat

Callers == Stoppers \cup {SigThread}

\* The values 0 to 3 of the atomic state word (server.go:125).
Created   == "created"
Preparing == "preparing"
Ready     == "ready"
Stopped   == "stopped"
States    == {Created, Preparing, Ready, Stopped}

VARIABLES
    state,          \* Server.state
    startPc,        \* next operation of each Start() call
    startOut,       \* how each Start() call ends: "none" until known
    hookPc,         \* the startup hooks goroutine
    nextStartup,    \* startup hooks already run
    nextShutdown,   \* shutdown hooks already run
    db,             \* the database connection New() opened
    stopPc,         \* next operation of each Stop() call
    seen,           \* the local variable "state" of each Stop() call
    sigChannel,     \* Server.sigChannel
    sigPending,     \* signals in its buffer
    stopToken,      \* values in the buffer of Server.stopChannel
    stopClosed,     \* Server.stopChannel is closed
    shuttingDown,   \* http.Server.inShutdown
    listener,       \* the TCP listener
    request         \* phase of each request

startVars  == <<startPc, startOut, hookPc, nextStartup, nextShutdown, db>>
stopVars   == <<stopPc, seen>>
sigVars    == <<sigChannel, sigPending>>
chanVars   == <<stopToken, stopClosed>>
httpVars   == <<shuttingDown, listener, request>>
vars == <<state, startVars, stopVars, sigVars, chanVars, httpVars>>

StartPcs == {"idle", "refused", "listen", "context", "ready", "serve", "accept",
             "serveErr", "hooks", "unwind", "notify", "close", "returned"}
StopPcs  == {"none", "waitSignal", "exited", "idle", "noop", "closeSig",
             "shutdown", "drain", "waitStop", "returned", "panicked"}

TypeOK ==
    /\ state \in States
    /\ startPc \in [Starters -> StartPcs]
    /\ startOut \in [Starters -> {"none", "ok", "error", "panic"}]
    /\ hookPc \in {"none", "spawned", "running", "skipped", "done"}
    /\ nextStartup \in 0..NStartup
    /\ nextShutdown \in 0..NShutdown
    /\ db \in {"open", "closed"}
    /\ stopPc \in [Callers -> StopPcs]
    /\ seen \in [Callers -> {"none"} \cup States]
    /\ sigChannel \in {"nil", "open", "closed"}
    /\ sigPending \in 0..MaxSignals
    /\ stopToken \in 0..1
    /\ stopClosed \in BOOLEAN
    /\ shuttingDown \in BOOLEAN
    /\ listener \in {"none", "open", "closed"}
    /\ request \in [Requests -> {"idle", "active", "done"}]

Init ==
    /\ state = Created
    /\ startPc = [t \in Starters |-> "idle"]
    /\ startOut = [t \in Starters |-> "none"]
    /\ hookPc = "none"
    /\ nextStartup = 0
    /\ nextShutdown = 0
    /\ db = "open"
    /\ stopPc = [x \in Callers |-> IF x = SigThread THEN "none" ELSE "idle"]
    /\ seen = [x \in Callers |-> "none"]
    /\ sigChannel = "nil"
    /\ sigPending = 0
    /\ stopToken = 0
    /\ stopClosed = FALSE
    /\ shuttingDown = FALSE
    /\ listener = "none"
    /\ request = [r \in Requests |-> "idle"]

-----------------------------------------------------------------------------
(* Start() *)

StartGoto(t, from, to) ==
    /\ startPc[t] = from
    /\ startPc' = [startPc EXCEPT ![t] = to]

StartEnds(t, out) == startOut' = [startOut EXCEPT ![t] = out]

\* Mutant: the word is compared with "ready" instead of swapped from 0.
StartUnlessReady(t) ==
    /\ IF state \in {Created, Preparing}
       THEN /\ state' = Preparing
            /\ StartGoto(t, "idle", "listen")
            /\ UNCHANGED startOut
       ELSE /\ StartGoto(t, "idle", "refused")
            /\ StartEnds(t, "error")
            /\ UNCHANGED state
    /\ UNCHANGED <<hookPc, nextStartup, nextShutdown, db, stopVars, sigVars,
                   chanVars, httpVars>>

\* if !s.state.CompareAndSwap(0, 1) { return "server was already started" }
StartCAS(t) ==
    /\ IF state = Created
       THEN /\ state' = Preparing
            /\ StartGoto(t, "idle", "listen")
            /\ UNCHANGED startOut
       ELSE /\ StartGoto(t, "idle", "refused")
            /\ StartEnds(t, "error")
            /\ UNCHANGED state
    /\ UNCHANGED <<hookPc, nextStartup, nextShutdown, db, stopVars, sigVars,
                   chanVars, httpVars>>

\* net.Listen; an error returns through the first deferred function only.
Listen(t) ==
    /\ \/ /\ StartGoto(t, "listen", "context")
          /\ listener' = "open"
          /\ UNCHANGED startOut
       \/ /\ StartGoto(t, "listen", "unwind")
          /\ StartEnds(t, "error")
          /\ UNCHANGED listener
    /\ UNCHANGED <<state, hookPc, nextStartup, nextShutdown, db, stopVars, sigVars,
                   chanVars, shuttingDown, request>>

\* The user's BaseContext: a usable context, nil (panic) or a cancelled one
\* (error). The last two leave before the hooks' deferred function is set.
BaseContext(t) ==
    /\ \/ StartGoto(t, "context", "ready") /\ UNCHANGED startOut
       \/ \E out \in {"panic", "error"} :
             StartGoto(t, "context", "unwind") /\ StartEnds(t, out)
    /\ UNCHANGED <<state, hookPc, nextStartup, nextShutdown, db, stopVars, sigVars,
                   chanVars, httpVars>>

\* s.state.Store(2), whatever the word holds, then go func(...) {...}(s).
SetReady(t) ==
    /\ StartGoto(t, "ready", "serve")
    /\ state' = Ready
    /\ hookPc' = "spawned"
    /\ UNCHANGED <<startOut, nextStartup, nextShutdown, db, stopVars, sigVars,
                   chanVars, httpVars>>

\* Serve: trackListener fails after Shutdown, and the deferred Close closes
\* the listener; otherwise the accept loop begins.
Serve(t) ==
    /\ IF shuttingDown
       THEN /\ StartGoto(t, "serve", "hooks")
            /\ StartEnds(t, "ok")
            /\ listener' = "closed"
       ELSE /\ StartGoto(t, "serve", "accept")
            /\ UNCHANGED <<startOut, listener>>
    /\ UNCHANGED <<state, hookPc, nextStartup, nextShutdown, db, stopVars, sigVars,
                   chanVars, shuttingDown, request>>

\* Accept fails because Shutdown closed the listener: ErrServerClosed.
ServeClosed(t) ==
    /\ shuttingDown
    /\ StartGoto(t, "accept", "hooks")
    /\ StartEnds(t, "ok")
    /\ UNCHANGED <<state, hookPc, nextStartup, nextShutdown, db, stopVars, sigVars,
                   chanVars, httpVars>>

\* Accept fails for another reason: Serve closes the listener and returns it.
ServeBreaks(t) ==
    /\ ~shuttingDown
    /\ StartGoto(t, "accept", "serveErr")
    /\ StartEnds(t, "error")
    /\ listener' = "closed"
    /\ UNCHANGED <<state, hookPc, nextStartup, nextShutdown, db, stopVars, sigVars,
                   chanVars, shuttingDown, request>>

\* Mutant: Store(3) forgotten when Serve fails.
ServeFailedStillReady(t) ==
    /\ StartGoto(t, "serveErr", "hooks")
    /\ UNCHANGED <<state, startOut, hookPc, nextStartup, nextShutdown, db, stopVars,
                   sigVars, chanVars, httpVars>>

\* if err != nil && !Is(err, ErrServerClosed) { s.state.Store(3); return err }
ServeFailed(t) ==
    /\ StartGoto(t, "serveErr", "hooks")
    /\ state' = Stopped
    /\ UNCHANGED <<startOut, hookPc, nextStartup, nextShutdown, db, stopVars, sigVars,
                   chanVars, httpVars>>

\* Second deferred function, its loop: one shutdown hook, in order of
\* registration. A hook that panics ends the deferred function there.
ShutdownHook(t) ==
    /\ nextShutdown < NShutdown
    /\ nextShutdown' = nextShutdown + 1
    /\ \/ StartGoto(t, "hooks", "hooks") /\ UNCHANGED startOut
       \/ StartGoto(t, "hooks", "unwind") /\ StartEnds(t, "panic")
    /\ UNCHANGED <<state, hookPc, nextStartup, db, stopVars, sigVars, chanVars,
                   httpVars>>

\* Second deferred function, after the loop. An error is only logged.
CloseDB(t) ==
    /\ nextShutdown = NShutdown
    /\ StartGoto(t, "hooks", "unwind")
    /\ db' = "closed"
    /\ UNCHANGED <<state, startOut, hookPc, nextStartup, nextShutdown, stopVars,
                   sigVars, chanVars, httpVars>>

\* Mutants of the first deferred function: Store(3) forgotten; stopChannel
\* closed before the send.
UnwindWithoutStore(t) ==
    /\ StartGoto(t, "unwind", "notify")
    /\ UNCHANGED <<state, startOut, hookPc, nextStartup, nextShutdown, db, stopVars,
                   sigVars, chanVars, httpVars>>

CloseBeforeSend(t) ==
    /\ StartGoto(t, "unwind", "notify")
    /\ state' = Stopped
    /\ stopClosed' = TRUE
    /\ UNCHANGED <<startOut, hookPc, nextStartup, nextShutdown, db, stopVars, sigVars,
                   stopToken, httpVars>>

\* First deferred function: Store(3), a send on stopChannel, close(stopChannel).
StoreStopped(t) ==
    /\ StartGoto(t, "unwind", "notify")
    /\ state' = Stopped
    /\ UNCHANGED <<startOut, hookPc, nextStartup, nextShutdown, db, stopVars, sigVars,
                   chanVars, httpVars>>

\* The buffer of stopChannel holds one value: the send waits while it is full.
NotifyStop(t) ==
    /\ stopToken < 1
    /\ StartGoto(t, "notify", "close")
    /\ stopToken' = stopToken + 1
    /\ UNCHANGED <<state, startOut, hookPc, nextStartup, nextShutdown, db, stopVars,
                   sigVars, stopClosed, httpVars>>

CloseStopChannel(t) ==
    /\ StartGoto(t, "close", "returned")
    /\ stopClosed' = TRUE
    /\ UNCHANGED <<state, startOut, hookPc, nextStartup, nextShutdown, db, stopVars,
                   sigVars, stopToken, httpVars>>

StartStep(t) ==
    \/ Listen(t) \/ BaseContext(t) \/ SetReady(t) \/ Serve(t) \/ ServeClosed(t)
    \/ ServeFailed(t) \/ ShutdownHook(t) \/ CloseDB(t)
    \/ StoreStopped(t) \/ NotifyStop(t) \/ CloseStopChannel(t)

-----------------------------------------------------------------------------
(* The startup hooks goroutine *)

\* if s.IsReady() { ... }
CheckReady ==
    /\ hookPc = "spawned"
    /\ hookPc' = IF state = Ready THEN "running" ELSE "skipped"
    /\ UNCHANGED <<state, startPc, startOut, nextStartup, nextShutdown, db, stopVars,
                   sigVars, chanVars, httpVars>>

StartupHook ==
    /\ hookPc = "running"
    /\ IF nextStartup < NStartup
       THEN nextStartup' = nextStartup + 1 /\ UNCHANGED hookPc
       ELSE hookPc' = "done" /\ UNCHANGED nextStartup
    /\ UNCHANGED <<state, startPc, startOut, nextShutdown, db, stopVars, sigVars,
                   chanVars, httpVars>>

-----------------------------------------------------------------------------
(* Stop() *)

StopGoto(x, from, to) ==
    /\ stopPc[x] = from
    /\ stopPc' = [stopPc EXCEPT ![x] = to]

\* Mutant: Load() instead of Swap(3).
StopLoad(x) ==
    /\ StopGoto(x, "idle", IF state \in {Created, Stopped} THEN "noop"
                           ELSE IF sigChannel = "nil" THEN "shutdown" ELSE "closeSig")
    /\ seen' = [seen EXCEPT ![x] = state]
    /\ UNCHANGED <<state, startVars, sigVars, chanVars, httpVars>>

\* state := s.state.Swap(3); if state == 0 || state == 3 { return }
\* Only a Stop() that saw 1 or 2 goes on, to sigChannel if there is one.
StopSwap(x) ==
    /\ StopGoto(x, "idle", IF state \in {Created, Stopped} THEN "noop"
                           ELSE IF sigChannel = "nil" THEN "shutdown" ELSE "closeSig")
    /\ seen' = [seen EXCEPT ![x] = state]
    /\ state' = Stopped
    /\ UNCHANGED <<startVars, sigVars, chanVars, httpVars>>

\* signal.Stop(s.sigChannel); close(s.sigChannel): a second close panics.
StopCloseSig(x) ==
    /\ StopGoto(x, "closeSig", IF sigChannel = "open" THEN "shutdown" ELSE "panicked")
    /\ sigChannel' = "closed"
    /\ UNCHANGED <<state, startVars, seen, sigPending, chanVars, httpVars>>

Tracked == \E t \in Starters : startPc[t] = "accept"

\* Mutant: Stop() goes on without calling Shutdown.
StopWithoutShutdown(x) ==
    /\ StopGoto(x, "shutdown", "drain")
    /\ UNCHANGED <<state, startVars, seen, sigVars, chanVars, httpVars>>

\* http.Server.Shutdown: no further request, the tracked listener is closed.
StopShutdown(x) ==
    /\ StopGoto(x, "shutdown", "drain")
    /\ shuttingDown' = TRUE
    /\ listener' = IF Tracked THEN "closed" ELSE listener
    /\ UNCHANGED <<state, startVars, seen, sigVars, chanVars, request>>

\* Shutdown returns nil once no connection is active.
StopDrained(x) ==
    /\ ~Tracked
    /\ \A r \in Requests : request[r] # "active"
    /\ StopGoto(x, "drain", "waitStop")
    /\ UNCHANGED <<state, startVars, seen, sigVars, chanVars, httpVars>>

\* Mutant: Shutdown is given a context without a deadline.
StopWithoutDeadline(x) == StopGoto(x, "drain", "waitStop") /\ FALSE

\* Shutdown returns the context's error after 5 seconds; it is only logged.
StopTimeout(x) ==
    /\ ~Tracked
    /\ \E r \in Requests : request[r] = "active"
    /\ StopGoto(x, "drain", "waitStop")
    /\ UNCHANGED <<state, startVars, seen, sigVars, chanVars, httpVars>>

\* Mutants: no wait on stopChannel; a receive that takes a value that is not there.
StopDoesNotWait(x) ==
    /\ StopGoto(x, "waitStop", "returned")
    /\ UNCHANGED <<state, startVars, seen, sigVars, chanVars, httpVars>>

StopAlwaysTakes(x) ==
    /\ StopGoto(x, "waitStop", "returned")
    /\ stopToken' = stopToken - 1
    /\ UNCHANGED <<state, startVars, seen, sigVars, stopClosed, httpVars>>

\* <-s.stopChannel: the buffered value first, then the closed channel.
StopReceive(x) ==
    /\ stopToken > 0 \/ stopClosed
    /\ StopGoto(x, "waitStop", "returned")
    /\ stopToken' = IF stopToken > 0 THEN stopToken - 1 ELSE stopToken
    /\ UNCHANGED <<state, startVars, seen, sigVars, stopClosed, httpVars>>

StopStep(x) ==
    \/ StopCloseSig(x) \/ StopShutdown(x) \/ StopDrained(x) \/ StopTimeout(x)
    \/ StopReceive(x)

-----------------------------------------------------------------------------
(* RegisterSignalHook() and the operating system *)

\* Called while the application sets the server up, before Start() and Stop().
RegisterSignalHook ==
    /\ sigChannel = "nil"
    /\ state = Created
    /\ sigChannel' = "open"
    /\ stopPc' = [stopPc EXCEPT ![SigThread] = "waitSignal"]
    /\ UNCHANGED <<state, startVars, seen, sigPending, chanVars, httpVars>>

\* SIGINT or SIGTERM while signal.Notify is in force.
Signal ==
    /\ sigChannel = "open"
    /\ sigPending < MaxSignals
    /\ sigPending' = sigPending + 1
    /\ UNCHANGED <<state, startVars, stopVars, sigChannel, chanVars, httpVars>>

\* _, ok := <-s.sigChannel; if ok { s.Stop() }
SignalReceive ==
    /\ IF sigPending > 0
       THEN StopGoto(SigThread, "waitSignal", "idle") /\ sigPending' = sigPending - 1
       ELSE /\ sigChannel = "closed"
            /\ StopGoto(SigThread, "waitSignal", "exited")
            /\ UNCHANGED sigPending
    /\ UNCHANGED <<state, startVars, seen, sigChannel, chanVars, httpVars>>

-----------------------------------------------------------------------------
(* Requests (net/http's connection goroutines) *)

RequestArrives(r) ==
    /\ Tracked
    /\ ~shuttingDown
    /\ request[r] = "idle"
    /\ request' = [request EXCEPT ![r] = "active"]
    /\ UNCHANGED <<state, startVars, stopVars, sigVars, chanVars, shuttingDown, listener>>

RequestEnds(r) ==
    /\ request[r] = "active"
    /\ request' = [request EXCEPT ![r] = "done"]
    /\ UNCHANGED <<state, startVars, stopVars, sigVars, chanVars, shuttingDown, listener>>

-----------------------------------------------------------------------------
Next ==
    \/ \E t \in Starters : StartCAS(t) \/ StartStep(t) \/ ServeBreaks(t)
    \/ CheckReady \/ StartupHook
    \/ \E x \in Callers : StopSwap(x) \/ StopStep(x)
    \/ RegisterSignalHook \/ Signal \/ SignalReceive
    \/ \E r \in Requests : RequestArrives(r) \/ RequestEnds(r)

Spec == Init /\ [][Next]_vars

\* A running goroutine is eventually scheduled. Nothing makes a client send a
\* request, a handler return, an application call Start() or Stop(), a signal
\* arrive or Accept fail.
Fairness ==
    /\ \A t \in Starters : WF_vars(StartStep(t))
    /\ WF_vars(CheckReady) /\ WF_vars(StartupHook)
    /\ \A x \in Callers : WF_vars(StopStep(x))
    /\ WF_vars(SignalReceive) /\ WF_vars(StopSwap(SigThread))

FairSpec == Spec /\ Fairness

-----------------------------------------------------------------------------
(* Properties *)

\* Start() calls that won the compare-and-swap and have not returned.
InStart(t) == startPc[t] \notin {"idle", "refused"}

\* A Stop() call that saw a state to stop from.
Effective(x) == seen[x] \in {Preparing, Ready}

\* At most one Start() ever gets past the compare-and-swap, whatever the
\* interleaving with Stop(), which writes the same word, and with the
\* unconditional Store(2) and Store(3) of the winner.
OneStart == \A t, u \in Starters : InStart(t) /\ InStart(u) => t = u

\* Stop() is a barrier: when an effective call returns, the one Start() has
\* run its shutdown sequence to the end - every shutdown hook ran, the
\* database and the listener are closed, unless Start() failed before it was ready or a hook
\* panicked - and the state word says stopped.
StopBarrier ==
    \A x \in Callers : stopPc[x] = "returned" =>
        /\ state = Stopped
        /\ \E t \in Starters :
              /\ startPc[t] \in {"close", "returned"}
              /\ startOut[t] = "ok" =>
                    db = "closed" /\ nextShutdown = NShutdown /\ listener = "closed"

\* Start() never waits to notify Stop(), nor sends on a closed channel: it
\* returns whether or not anybody calls Stop().
NotifyNeverBlocks ==
    \A t \in Starters : startPc[t] = "notify" => stopToken = 0 /\ ~stopClosed

\* Two Stop() calls both take effect only if one of them met Start() before
\* its Store(2); each state is seen by one call at most, and a Stop() can
\* only panic on sigChannel in that case.
SecondStopNeedsPreparing ==
    /\ \A x, y \in Callers : seen[x] = seen[y] /\ Effective(x) => x = y
    /\ \A x \in Callers : stopPc[x] = "panicked" =>
          \E y \in Callers : seen[y] = Preparing

\* Unless a Stop() met Start() before its Store(2), IsReady() is only true
\* while Start() is on its way into Serve or inside it, with the database open.
ReadyMeansServing ==
    (state = Ready /\ \A x \in Callers : seen[x] # Preparing) =>
        /\ db = "open"
        /\ \E t \in Starters : startPc[t] \in {"serve", "accept", "serveErr"}

\* Once Start() has returned the state word is final and the hooks, the
\* database and the listener stay as they are, although Stop() calls, the
\* startup hooks and requests may still be running.
FinalOnceReturned ==
    [][(\E t \in Starters : startPc[t] = "returned") =>
           state' = Stopped /\ UNCHANGED <<db, nextShutdown, listener>>]_vars

\* The refinement: the server is up from the won compare-and-swap to the
\* deferred Store(3), a Stop() call waits from its Swap(3) to its return.
StartOver(t) == startPc[t] \in {"notify", "close", "returned"}

Barrier == INSTANCE ShutdownBarrier WITH
    phase    <- IF \E t \in Starters : StartOver(t) THEN "down"
                ELSE IF \E t \in Starters : InStart(t) THEN "up"
                ELSE IF state = Created THEN "new" ELSE "down",
    waiting  <- {x \in Callers : Effective(x) /\ stopPc[x] # "returned"},
    released <- {x \in Callers : stopPc[x] = "returned"}

\* Start() and Stop() implement the barrier.
BarrierSpec == Barrier!Spec

\* Every effective Stop() call ends although requests may never end: Shutdown
\* has a deadline, and Start(), once Serve is closed, always notifies.
StopTerminates ==
    \A x \in Callers : Effective(x) ~> stopPc[x] \in {"returned", "panicked"}

\* Whoever asks for it, the shutdown ends: a signal delivered to the hook's channel
\* stops the server for good, and a Stop() that met a started server makes the one
\* Start() return.
ShutdownEnds ==
    /\ sigPending > 0 ~> [](state = Stopped)
    /\ \A t \in Starters :
         (InStart(t) /\ \E x \in Callers : Effective(x) /\ stopPc[x] # "panicked")
             ~> startPc[t] = "returned"

\* server.go:514-515: "This function can be called from any goroutine and is
\* concurrently safe. Calling this function several times is safe."
StopNeverPanics == \A x \in Callers : stopPc[x] # "panicked"
=============================================================================

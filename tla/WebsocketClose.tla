--------------------------- MODULE WebsocketClose ---------------------------
(***************************************************************************)
(* The end of a websocket connection (websocket.go, conn.go): the          *)
(* goroutine of Upgrader.serve runs the application's handler and closes   *)
(* the connection when it returns; other goroutines of the application may *)
(* call Conn.Close at any time; the peer answers the close frame, sends    *)
(* its own, stays silent or goes away.                                     *)
(*                                                                         *)
(* gorilla/websocket is external. Reading a close frame calls the close    *)
(* handler, then every later read fails; after a close frame is written    *)
(* every later write fails with ErrCloseSent; a write to a connection that *)
(* was closed here fails with "use of closed network connection", and with *)
(* another error when the peer is gone or the deadline passes.             *)
(***************************************************************************)
EXTENDS Naturals

CONSTANTS
    Closers,        \* application goroutines that call Conn.Close once
    Serve,          \* the goroutine of Upgrader.serve
    WritesFail      \* whether writing the close frame may fail

ASSUME ThreadsAssumption == Serve \notin Closers /\ {"free", "done"} \cap (Closers \cup {Serve}) = {}
ASSUME WritesAssumption == WritesFail \in BOOLEAN

Threads == Closers \cup {Serve}

NoCode == 0
NormalClosure == 1000
InternalServerErr == 1011

VARIABLES
    pc,             \* next operation of each thread
    outcome,        \* how the handler ended
    onError,        \* calls of OnError (or of the logger)
    code,           \* the code each thread closes with
    once,           \* closeOnce: "free", the thread inside, or "done"
    token,          \* values in the buffer of Conn.waitClose
    chanClosed,     \* Conn.waitClose is closed
    sentCode,       \* code of the close frame that Conn.Close wrote
    closeSent,      \* gorilla has written a close frame
    inbox,          \* the peer's close frame, while it is unread
    readErr,        \* gorilla's sticky read error: "none", "normal", "other"
    reader,         \* internalClose's goroutine
    peer,           \* "up", "closing" (sent its close frame), "gone"
    tcp             \* the connection, as this process holds it

threadVars == <<pc, outcome, onError, code, once>>
chanVars   == <<token, chanClosed>>
frameVars  == <<sentCode, closeSent>>
readVars   == <<inbox, readErr, reader>>
vars == <<threadVars, chanVars, frameVars, readVars, peer, tcp>>

Init ==
    /\ pc = [t \in Threads |-> IF t = Serve THEN "handler" ELSE "idle"]
    /\ outcome = "none"
    /\ onError = 0
    /\ code = [t \in Threads |-> NoCode]
    /\ once = "free"
    /\ token = 0 /\ chanClosed = FALSE
    /\ sentCode = NoCode /\ closeSent = FALSE
    /\ inbox = "none" /\ readErr = "none" /\ reader = "none"
    /\ peer = "up" /\ tcp = "open"

Goto(t, from, to) == pc[t] = from /\ pc' = [pc EXCEPT ![t] = to]

-----------------------------------------------------------------------------
(* Reading. gorilla allows one reader at a time: the handler, then the       *)
(* goroutine of internalClose.                                               *)

HandlerReads == pc[Serve] = "handler"
ReaderReads  == reader = "reading"

\* ReadMessage meets the peer's close frame and calls closeHandler, which puts
\* a value in waitClose: it waits while the buffer is full and panics when the
\* channel is closed.
ReadCloseFrame ==
    /\ HandlerReads \/ ReaderReads
    /\ inbox # "none" /\ readErr = "none"
    /\ token < 1
    /\ inbox' = "none"
    /\ readErr' = inbox
    /\ IF chanClosed
       THEN reader' = "panicked" /\ UNCHANGED token
       ELSE token' = token + 1 /\ UNCHANGED reader
    /\ UNCHANGED <<threadVars, chanClosed, frameVars, peer, tcp>>

\* ReadMessage fails: the connection was closed here, or the peer is gone.
ReadFails ==
    /\ HandlerReads \/ ReaderReads
    /\ readErr = "none"
    /\ tcp = "closed" \/ (peer = "gone" /\ inbox = "none")
    /\ readErr' = "other"
    /\ UNCHANGED <<threadVars, chanVars, frameVars, inbox, reader, peer, tcp>>

\* internalClose's goroutine leaves its loop at the first error.
ReaderEnds ==
    /\ ReaderReads
    /\ readErr # "none"
    /\ reader' = "ended"
    /\ UNCHANGED <<threadVars, chanVars, frameVars, inbox, readErr, peer, tcp>>

-----------------------------------------------------------------------------
(* Upgrader.serve *)

\* The handler returns nil or an error, or panics, whenever it likes. It can
\* return a CloseError only after it read one. NewSkip turns a panic with an
\* empty slice of errors into no error at all.
HandlerEnds ==
    /\ Goto(Serve, "handler", "decide")
    /\ outcome' \in {"nil", "error", "panic", "emptyPanic"}
                    \cup (IF readErr = "normal" THEN {"closeError"} ELSE {})
    /\ UNCHANGED <<onError, code, once, chanVars, frameVars, readVars, peer, tcp>>

\* The handler closes the TCP connection itself, or writes a close frame
\* itself (conn embeds gorilla's Conn).
HandlerClosesTcp ==
    /\ HandlerReads
    /\ tcp = "open"
    /\ tcp' = "closed"
    /\ UNCHANGED <<threadVars, chanVars, frameVars, readVars, peer>>

HandlerWritesClose ==
    /\ HandlerReads
    /\ tcp = "open" /\ ~closeSent
    /\ closeSent' = TRUE
    /\ UNCHANGED <<threadVars, chanVars, sentCode, readVars, peer, tcp>>

IsCloseError == outcome = "closeError"
HasError     == outcome \in {"error", "panic"}

\* Mutant: a panic is not reported.
DecideUnreported ==
    /\ Goto(Serve, "decide", "close")
    /\ code' = [code EXCEPT ![Serve] = IF HasError THEN InternalServerErr ELSE NormalClosure]
    /\ onError' = IF outcome = "error" THEN onError + 1 ELSE onError
    /\ reader' = IF IsCloseError THEN reader ELSE "reading"
    /\ UNCHANGED <<outcome, once, chanVars, frameVars, inbox, readErr, peer, tcp>>

\* The deferred function: CloseNormal for a close error; OnError (or the
\* logger), then CloseWithError for another one; else internalClose. The last
\* two start a goroutine that reads.
Decide ==
    /\ Goto(Serve, "decide", "close")
    /\ code' = [code EXCEPT ![Serve] = IF HasError THEN InternalServerErr ELSE NormalClosure]
    /\ onError' = IF HasError THEN onError + 1 ELSE onError
    /\ reader' = IF IsCloseError THEN reader ELSE "reading"
    /\ UNCHANGED <<outcome, once, chanVars, frameVars, inbox, readErr, peer, tcp>>

-----------------------------------------------------------------------------
(* Conn.Close *)

\* Another goroutine of the application calls CloseNormal.
CloserCalls(t) ==
    /\ Goto(t, "idle", "close")
    /\ code' = [code EXCEPT ![t] = NormalClosure]
    /\ UNCHANGED <<outcome, onError, once, chanVars, frameVars, readVars, peer, tcp>>

\* Mutants: a flag that later calls do not wait on; no guard at all.
EnterFlag(t) ==
    /\ \/ once = "free" /\ once' = t /\ Goto(t, "close", "write")
       \/ once # "free" /\ UNCHANGED once /\ Goto(t, "close", "returned")
    /\ UNCHANGED <<outcome, onError, code, chanVars, frameVars, readVars, peer, tcp>>

EnterAlways(t) ==
    /\ Goto(t, "close", "write")
    /\ once' = t
    /\ UNCHANGED <<outcome, onError, code, chanVars, frameVars, readVars, peer, tcp>>

\* closeOnce.Do: the first call runs the function, the others wait until it
\* has returned.
EnterOnce(t) ==
    /\ \/ once = "free" /\ once' = t /\ Goto(t, "close", "write")
       \/ once = "done" /\ UNCHANGED once /\ Goto(t, "close", "returned")
    /\ UNCHANGED <<outcome, onError, code, chanVars, frameVars, readVars, peer, tcp>>

\* WriteControl succeeds, or has been done before (ErrCloseSent).
WriteClose(t) ==
    /\ Goto(t, "write", "wait")
    /\ \/ /\ ~closeSent /\ tcp = "open"
          /\ closeSent' = TRUE
          /\ sentCode' = code[t]
       \/ closeSent /\ UNCHANGED frameVars
    /\ UNCHANGED <<outcome, onError, code, once, chanVars, readVars, peer, tcp>>

\* WriteControl fails: the connection was closed here, or the peer is gone or
\* does not take the frame before the deadline. Close returns at once.
WriteFails(t) ==
    /\ WritesFail \/ (tcp = "closed" /\ ~closeSent)
    /\ Goto(t, "write", "leave")
    /\ UNCHANGED <<outcome, onError, code, once, chanVars, frameVars, readVars, peer, tcp>>

\* case <-c.waitClose: a value, or the channel was closed.
ReceiveClose(t) ==
    /\ token > 0 \/ chanClosed
    /\ Goto(t, "wait", "closeChan")
    /\ token' = IF token > 0 THEN token - 1 ELSE 0
    /\ UNCHANGED <<outcome, onError, code, once, chanClosed, frameVars, readVars, peer, tcp>>

\* Mutant: no deadline.
NoTimeout(t) == Goto(t, "wait", "closeTcp") /\ FALSE

\* case <-ctx.Done()
Timeout(t) ==
    /\ Goto(t, "wait", "closeTcp")
    /\ UNCHANGED <<outcome, onError, code, once, chanVars, frameVars, readVars, peer, tcp>>

\* close(c.waitClose) panics when the channel is closed already.
CloseChan(t) ==
    /\ Goto(t, "closeChan", IF chanClosed THEN "panicked" ELSE "closeTcp")
    /\ chanClosed' = TRUE
    /\ UNCHANGED <<outcome, onError, code, once, token, frameVars, readVars, peer, tcp>>

\* c.Conn.Close()
CloseTcp(t) ==
    /\ Goto(t, "closeTcp", "leave")
    /\ tcp' = "closed"
    /\ UNCHANGED <<outcome, onError, code, once, chanVars, frameVars, readVars, peer>>

LeaveOnce(t) ==
    /\ Goto(t, "leave", "returned")
    /\ once' = "done"
    /\ UNCHANGED <<outcome, onError, code, chanVars, frameVars, readVars, peer, tcp>>

CloseStep(t) ==
    \/ EnterOnce(t) \/ WriteClose(t) \/ WriteFails(t) \/ ReceiveClose(t) \/ Timeout(t)
    \/ CloseChan(t) \/ CloseTcp(t) \/ LeaveOnce(t)

-----------------------------------------------------------------------------
(* The peer *)

\* It sends its close frame: on its own, or to answer.
PeerCloses ==
    /\ peer = "up"
    /\ tcp = "open"
    /\ peer' = "closing"
    /\ inbox' \in {"normal", "other"}
    /\ UNCHANGED <<threadVars, chanVars, frameVars, readErr, reader, tcp>>

PeerGone ==
    /\ peer # "gone"
    /\ peer' = "gone"
    /\ UNCHANGED <<threadVars, chanVars, frameVars, readVars, tcp>>

Next ==
    \/ ReadCloseFrame \/ ReadFails \/ ReaderEnds
    \/ HandlerEnds \/ HandlerClosesTcp \/ HandlerWritesClose \/ Decide
    \/ \E t \in Closers : CloserCalls(t)
    \/ \E t \in Threads : CloseStep(t)
    \/ PeerCloses \/ PeerGone

Spec == Init /\ [][Next]_vars

\* Goroutines are scheduled and deadlines pass; nothing makes the handler
\* return, the application close or the peer answer.
Fairness ==
    /\ WF_vars(Decide)
    /\ WF_vars(ReadCloseFrame) /\ WF_vars(ReadFails) /\ WF_vars(ReaderEnds)
    /\ \A t \in Threads : WF_vars(CloseStep(t))

FairSpec == Spec /\ Fairness

-----------------------------------------------------------------------------
(* Properties *)

\* conn.go:59, "Calling this function multiple times is safe": whoever closes
\* the connection, and however often, waitClose is closed at most once, which
\* would panic otherwise, and nothing is sent to it afterwards.
CloseNeverPanics == reader # "panicked" /\ \A t \in Threads : pc[t] # "panicked"

\* No Close call returns, neither the first one nor a later one that finds it
\* done, while a connection whose close frame was written is still open.
ReturnedMeansClosed ==
    \A t \in Threads : pc[t] = "returned" /\ sentCode # NoCode => tcp = "closed"

\* The peer is told 1011 only for an error the application was told of once,
\* and every handler error or panic is reported before serve returns.
ErrorsReported ==
    /\ sentCode = InternalServerErr => onError = 1 /\ HasError
    /\ pc[Serve] \in {"close", "write", "wait", "closeChan", "closeTcp", "leave", "returned"}
          => onError = IF HasError THEN 1 ELSE 0

\* The close was given up: its frame could not be written. Close returns without
\* closing the connection (conn.go:96).
GivenUp == once = "done" /\ sentCode = NoCode /\ tcp = "open"

\* Once its handler is over serve ends, whatever the peer does: the close handshake
\* has a deadline, and a concurrent Close cannot hold closeOnce. The goroutine that
\* internalClose starts to read the answer ends too, although the peer may stay
\* silent for ever, unless the close was given up.
EveryoneEnds ==
    /\ pc[Serve] = "decide" ~> pc[Serve] = "returned"
    /\ ReaderReads ~> reader = "ended" \/ GivenUp
=============================================================================

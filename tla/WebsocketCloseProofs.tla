------------------------ MODULE WebsocketCloseProofs ------------------------
(***************************************************************************)
(* Theorems about WebsocketClose, for any set of goroutines that close the *)
(* connection.                                                             *)
(***************************************************************************)
EXTENDS WebsocketClose, TLAPS

Codes == {NoCode, NormalClosure, InternalServerErr}
CloserPcs == {"idle", "close", "write", "wait", "closeChan", "closeTcp", "leave", "returned"}
ServePcs == (CloserPcs \ {"idle"}) \cup {"handler", "decide"}

\* "panicked" is not among the program counters.
TypeInv ==
    /\ pc \in [Threads -> CloserPcs \cup ServePcs]
    /\ pc[Serve] \in ServePcs
    /\ \A t \in Closers : pc[t] \in CloserPcs
    /\ outcome \in {"none", "nil", "closeError", "error", "panic", "emptyPanic"}
    /\ code \in [Threads -> Codes]
    /\ once \in {"free", "done"} \cup Threads
    /\ token \in 0..1
    /\ chanClosed \in BOOLEAN
    /\ sentCode \in Codes
    /\ reader \in {"none", "reading", "ended"}
    /\ tcp \in {"open", "closed"}

\* The positions inside the function given to closeOnce.Do.
Inside == {"write", "wait", "closeChan", "closeTcp", "leave"}

\* One thread is inside, and how far it is says what has been done: the channel is
\* closed after a value was received from it, which a read put there, and no close
\* frame was written before or without the connection being closed in the end.
OnceInv ==
    /\ \A t \in Threads : pc[t] \in Inside <=> once = t
    /\ once = "free" => ~chanClosed /\ sentCode = NoCode /\ \A t \in Threads : pc[t] # "returned"
    /\ \A t \in Threads :
         /\ pc[t] \in {"write", "wait", "closeChan"} => ~chanClosed
         /\ pc[t] \in Inside => \A u \in Threads : pc[u] # "returned"
         /\ pc[t] = "write" => sentCode = NoCode
         /\ pc[t] = "leave" /\ sentCode # NoCode => tcp = "closed"
         /\ pc[t] = "closeChan" => readErr # "none"
    /\ once = "done" /\ sentCode # NoCode => tcp = "closed"
    /\ token > 0 \/ chanClosed => readErr # "none"

\* Only serve closes with the code of an error, after it reported it.
ReportInv ==
    /\ \A t \in Closers : code[t] # InternalServerErr
    /\ code[Serve] = InternalServerErr => HasError
    /\ sentCode = InternalServerErr => code[Serve] = InternalServerErr
    /\ IF pc[Serve] \in {"handler", "decide"}
       THEN onError = 0 /\ code[Serve] = NoCode
       ELSE onError = IF HasError THEN 1 ELSE 0

IInv == TypeInv /\ OnceInv /\ ReportInv

LEMMA InitIInv == Init => IInv
  <1> SUFFICES ASSUME Init PROVE IInv
    OBVIOUS
  <1> USE ThreadsAssumption DEF Init, Threads, NoCode
  <1>1. TypeInv
    <2>1. pc \in [Threads -> CloserPcs \cup ServePcs]
      BY DEF CloserPcs, ServePcs
    <2>2. pc[Serve] \in ServePcs /\ \A t \in Closers : pc[t] \in CloserPcs
      BY DEF CloserPcs, ServePcs
    <2>3. code \in [Threads -> Codes] /\ sentCode \in Codes
      BY DEF Codes
    <2>4. chanClosed \in BOOLEAN /\ reader \in {"none", "reading", "ended"} /\ tcp \in {"open", "closed"}
      OBVIOUS
    <2>5. outcome \in {"none", "nil", "closeError", "error", "panic", "emptyPanic"} /\ token \in 0..1
      OBVIOUS
    <2>6. once \in {"free", "done"} \cup Threads
      OBVIOUS
    <2> HIDE DEF Init, Threads
    <2> QED BY <2>1, <2>2, <2>3, <2>4, <2>5, <2>6 DEF TypeInv
  <1>2. OnceInv
    <2>1. \A t \in Threads : pc[t] \notin Inside /\ pc[t] \notin {"write", "wait", "closeChan", "leave", "returned"}
      BY DEF Inside
    <2>2. \A t \in Threads : once # t
      OBVIOUS
    <2>3. once = "free" /\ ~chanClosed /\ sentCode = NoCode /\ ~(token > 0)
      OBVIOUS
    <2> HIDE DEF Init, Threads
    <2> QED BY <2>1, <2>2, <2>3 DEF OnceInv
  <1>3. ReportInv
    BY DEF ReportInv, HasError, InternalServerErr
  <1> QED BY <1>1, <1>2, <1>3 DEF IInv

(* The lemmas have one step for each action. *)

LEMMA StepTypeInv == IInv /\ [Next]_vars => TypeInv'
  <1> SUFFICES ASSUME IInv, [Next]_vars PROVE TypeInv'
    OBVIOUS
  <1> USE ThreadsAssumption DEF IInv, TypeInv, OnceInv, Inside, CloserPcs, ServePcs, Codes, NoCode, NormalClosure,
      InternalServerErr, HandlerReads, ReaderReads, Threads, Goto, threadVars, chanVars, frameVars, readVars
  <1>1. CASE ReadCloseFrame
    BY <1>1 DEF ReadCloseFrame
  <1>2. CASE ReadFails
    BY <1>2 DEF ReadFails
  <1>3. CASE ReaderEnds
    BY <1>3 DEF ReaderEnds
  <1>4. CASE HandlerEnds
    BY <1>4 DEF HandlerEnds
  <1>5. CASE HandlerClosesTcp
    BY <1>5 DEF HandlerClosesTcp
  <1>6. CASE HandlerWritesClose
    BY <1>6 DEF HandlerWritesClose
  <1>7. CASE Decide
    BY <1>7 DEF Decide
  <1>8. ASSUME NEW t \in Closers, CloserCalls(t) PROVE TypeInv'
    BY <1>8 DEF CloserCalls
  <1>9. ASSUME NEW t \in Threads, EnterOnce(t) PROVE TypeInv'
    BY <1>9 DEF EnterOnce
  <1>10. ASSUME NEW t \in Threads, WriteClose(t) PROVE TypeInv'
    BY <1>10 DEF WriteClose
  <1>11. ASSUME NEW t \in Threads, WriteFails(t) PROVE TypeInv'
    BY <1>11 DEF WriteFails
  <1>12. ASSUME NEW t \in Threads, ReceiveClose(t) PROVE TypeInv'
    BY <1>12 DEF ReceiveClose
  <1>13. ASSUME NEW t \in Threads, Timeout(t) PROVE TypeInv'
    BY <1>13 DEF Timeout
  <1>14. ASSUME NEW t \in Threads, CloseChan(t) PROVE TypeInv'
    BY <1>14 DEF CloseChan
  <1>15. ASSUME NEW t \in Threads, CloseTcp(t) PROVE TypeInv'
    BY <1>15 DEF CloseTcp
  <1>16. ASSUME NEW t \in Threads, LeaveOnce(t) PROVE TypeInv'
    BY <1>16 DEF LeaveOnce
  <1>17. CASE PeerCloses \/ PeerGone
    BY <1>17 DEF PeerCloses, PeerGone
  <1>18. CASE UNCHANGED vars
    BY <1>18 DEF vars
  <1> QED BY <1>1, <1>2, <1>3, <1>4, <1>5, <1>6, <1>7, <1>8, <1>9, <1>10, <1>11, <1>12, <1>13, <1>14, <1>15, <1>16, <1>17, <1>18 DEF Next, CloseStep

LEMMA StepOnceInv == IInv /\ [Next]_vars => OnceInv'
  <1> SUFFICES ASSUME IInv, [Next]_vars PROVE OnceInv'
    OBVIOUS
  <1> USE ThreadsAssumption DEF IInv, TypeInv, OnceInv, Inside, CloserPcs, ServePcs, Codes, NoCode, NormalClosure,
      InternalServerErr, HandlerReads, ReaderReads, Threads, Goto, threadVars, chanVars, frameVars, readVars
  <1>1. CASE ReadCloseFrame
    BY <1>1 DEF ReadCloseFrame
  <1>2. CASE ReadFails
    BY <1>2 DEF ReadFails
  <1>3. CASE ReaderEnds
    BY <1>3 DEF ReaderEnds
  <1>4. CASE HandlerEnds
    BY <1>4 DEF HandlerEnds
  <1>5. CASE HandlerClosesTcp
    BY <1>5 DEF HandlerClosesTcp
  <1>6. CASE HandlerWritesClose
    BY <1>6 DEF HandlerWritesClose
  <1>7. CASE Decide
    BY <1>7 DEF Decide
  <1>8. ASSUME NEW t \in Closers, CloserCalls(t) PROVE OnceInv'
    BY <1>8 DEF CloserCalls
  <1>9. ASSUME NEW t \in Threads, EnterOnce(t) PROVE OnceInv'
    BY <1>9 DEF EnterOnce
  <1>10. ASSUME NEW t \in Threads, WriteClose(t) PROVE OnceInv'
    BY <1>10 DEF WriteClose
  <1>11. ASSUME NEW t \in Threads, WriteFails(t) PROVE OnceInv'
    BY <1>11 DEF WriteFails
  <1>12. ASSUME NEW t \in Threads, ReceiveClose(t) PROVE OnceInv'
    BY <1>12 DEF ReceiveClose
  <1>13. ASSUME NEW t \in Threads, Timeout(t) PROVE OnceInv'
    BY <1>13 DEF Timeout
  <1>14. ASSUME NEW t \in Threads, CloseChan(t) PROVE OnceInv'
    BY <1>14 DEF CloseChan
  <1>15. ASSUME NEW t \in Threads, CloseTcp(t) PROVE OnceInv'
    BY <1>15 DEF CloseTcp
  <1>16. ASSUME NEW t \in Threads, LeaveOnce(t) PROVE OnceInv'
    BY <1>16 DEF LeaveOnce
  <1>17. CASE PeerCloses \/ PeerGone
    BY <1>17 DEF PeerCloses, PeerGone
  <1>18. CASE UNCHANGED vars
    BY <1>18 DEF vars
  <1> QED BY <1>1, <1>2, <1>3, <1>4, <1>5, <1>6, <1>7, <1>8, <1>9, <1>10, <1>11, <1>12, <1>13, <1>14, <1>15, <1>16, <1>17, <1>18 DEF Next, CloseStep

LEMMA StepReportInv == IInv /\ [Next]_vars => ReportInv'
  <1> SUFFICES ASSUME IInv, [Next]_vars PROVE ReportInv'
    OBVIOUS
  <1> USE ThreadsAssumption DEF IInv, TypeInv, ReportInv, HasError, CloserPcs, ServePcs, Codes, NoCode, NormalClosure,
      InternalServerErr, Threads, Goto, threadVars, chanVars, frameVars, readVars
  <1>1. CASE ReadCloseFrame
    BY <1>1 DEF ReadCloseFrame
  <1>2. CASE ReadFails
    BY <1>2 DEF ReadFails
  <1>3. CASE ReaderEnds
    BY <1>3 DEF ReaderEnds
  <1>4. CASE HandlerEnds
    BY <1>4 DEF HandlerEnds
  <1>5. CASE HandlerClosesTcp
    BY <1>5 DEF HandlerClosesTcp
  <1>6. CASE HandlerWritesClose
    BY <1>6 DEF HandlerWritesClose
  <1>7. CASE Decide
    BY <1>7 DEF Decide
  <1>8. ASSUME NEW t \in Closers, CloserCalls(t) PROVE ReportInv'
    BY <1>8 DEF CloserCalls
  <1>9. ASSUME NEW t \in Threads, EnterOnce(t) PROVE ReportInv'
    BY <1>9 DEF EnterOnce
  <1>10. ASSUME NEW t \in Threads, WriteClose(t) PROVE ReportInv'
    BY <1>10 DEF WriteClose
  <1>11. ASSUME NEW t \in Threads, WriteFails(t) PROVE ReportInv'
    BY <1>11 DEF WriteFails
  <1>12. ASSUME NEW t \in Threads, ReceiveClose(t) PROVE ReportInv'
    BY <1>12 DEF ReceiveClose
  <1>13. ASSUME NEW t \in Threads, Timeout(t) PROVE ReportInv'
    BY <1>13 DEF Timeout
  <1>14. ASSUME NEW t \in Threads, CloseChan(t) PROVE ReportInv'
    BY <1>14 DEF CloseChan
  <1>15. ASSUME NEW t \in Threads, CloseTcp(t) PROVE ReportInv'
    BY <1>15 DEF CloseTcp
  <1>16. ASSUME NEW t \in Threads, LeaveOnce(t) PROVE ReportInv'
    BY <1>16 DEF LeaveOnce
  <1>17. CASE PeerCloses \/ PeerGone
    BY <1>17 DEF PeerCloses, PeerGone
  <1>18. CASE UNCHANGED vars
    BY <1>18 DEF vars
  <1> QED BY <1>1, <1>2, <1>3, <1>4, <1>5, <1>6, <1>7, <1>8, <1>9, <1>10, <1>11, <1>12, <1>13, <1>14, <1>15, <1>16, <1>17, <1>18 DEF Next, CloseStep

LEMMA StepIInv == IInv /\ [Next]_vars => IInv'
  BY StepTypeInv, StepOnceInv, StepReportInv DEF IInv

LEMMA Invariance == Spec => []IInv
  <1>1. Init => IInv
    BY InitIInv
  <1>2. IInv /\ [Next]_vars => IInv'
    BY StepIInv
  <1> QED BY <1>1, <1>2, PTL DEF Spec

\* Any number of goroutines may close the connection, at any moment: none closes
\* waitClose a second time, and nothing is sent to it once it is closed (conn.go:46,
\* conn.go:106).
THEOREM CloseNeverPanicsHolds == Spec => []CloseNeverPanics
  <1>1. IInv => CloseNeverPanics
    BY DEF IInv, TypeInv, CloseNeverPanics, CloserPcs, ServePcs, Threads
  <1> QED BY <1>1, Invariance, PTL

\* Whichever call of Close it is that returns, a connection whose close frame was
\* written is closed by then (conn.go:86).
THEOREM ReturnedMeansClosedHolds == Spec => []ReturnedMeansClosed
  <1>1. IInv => ReturnedMeansClosed
    BY DEF IInv, TypeInv, OnceInv, Inside, ReturnedMeansClosed
  <1> QED BY <1>1, Invariance, PTL

\* The peer is told of an error only when the application was, once (websocket.go:240).
THEOREM ErrorsReportedHolds == Spec => []ErrorsReported
  <1>1. IInv => ErrorsReported
    BY DEF IInv, TypeInv, ReportInv, ErrorsReported, HasError, NoCode, InternalServerErr
  <1> QED BY <1>1, Invariance, PTL
=============================================================================

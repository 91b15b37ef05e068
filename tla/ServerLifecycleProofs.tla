------------------------ MODULE ServerLifecycleProofs ------------------------
(***************************************************************************)
(* Theorems about ServerLifecycle, for any sets of Start() calls, Stop()   *)
(* calls and requests and any number of hooks and signals.                 *)
(***************************************************************************)
EXTENDS ServerLifecycle, TLAPS

USE DEF Created, Preparing, Ready, Stopped, States, StartPcs, StopPcs

LEMMA SigThreadCalls == SigThread \in Callers
  BY DEF Callers

\* The disjuncts of Next, for the case splits below.
LEMMA NextCases ==
    ASSUME Next
    PROVE  \/ \E t \in Starters : StartCAS(t) \/ Listen(t) \/ BaseContext(t) \/ SetReady(t)
           \/ \E t \in Starters : Serve(t) \/ ServeClosed(t) \/ ServeBreaks(t) \/ ServeFailed(t)
           \/ \E t \in Starters : ShutdownHook(t) \/ CloseDB(t)
           \/ \E t \in Starters : StoreStopped(t) \/ NotifyStop(t) \/ CloseStopChannel(t)
           \/ CheckReady \/ StartupHook
           \/ \E x \in Callers : StopSwap(x) \/ StopCloseSig(x) \/ StopShutdown(x)
           \/ \E x \in Callers : StopDrained(x) \/ StopTimeout(x) \/ StopReceive(x)
           \/ RegisterSignalHook \/ Signal \/ SignalReceive
           \/ \E r \in Requests : RequestArrives(r) \/ RequestEnds(r)
  BY DEF Next, StartStep, StopStep

LEMMA InitTypeOK == Init => TypeOK
  <1> SUFFICES ASSUME Init PROVE TypeOK
    OBVIOUS
  <1>1. /\ nextStartup \in 0..NStartup
        /\ nextShutdown \in 0..NShutdown
        /\ sigPending \in 0..MaxSignals
        /\ stopToken \in 0..1
    BY HooksAssumption, SignalsAssumption DEF Init
  <1>2. stopPc \in [Callers -> StopPcs]
    BY DEF Init
  <1>3. /\ startPc \in [Starters -> StartPcs]
        /\ startOut \in [Starters -> {"none", "ok", "error", "panic"}]
    BY DEF Init
  <1>4. /\ seen \in [Callers -> {"none"} \cup States]
        /\ request \in [Requests -> {"idle", "active", "done"}]
    BY DEF Init
  <1> QED BY <1>1, <1>2, <1>3, <1>4 DEF Init, TypeOK

LEMMA StepTypeOK == TypeOK /\ [Next]_vars => TypeOK'
  <1> SUFFICES ASSUME TypeOK, [Next]_vars PROVE TypeOK'
    OBVIOUS
  <1> USE HooksAssumption, SignalsAssumption, SigThreadCalls DEF TypeOK, startVars, stopVars, sigVars,
          chanVars, httpVars, StartGoto, StartEnds, StopGoto
  <1>1. ASSUME NEW t \in Starters,
               StartCAS(t) \/ Listen(t) \/ BaseContext(t) \/ SetReady(t)
        PROVE  TypeOK'
    BY <1>1 DEF StartCAS, Listen, BaseContext, SetReady
  <1>2. ASSUME NEW t \in Starters,
               Serve(t) \/ ServeClosed(t) \/ ServeBreaks(t) \/ ServeFailed(t)
        PROVE  TypeOK'
    BY <1>2 DEF Serve, ServeClosed, ServeBreaks, ServeFailed
  <1>3. ASSUME NEW t \in Starters, ShutdownHook(t) \/ CloseDB(t)
        PROVE  TypeOK'
    BY <1>3 DEF ShutdownHook, CloseDB
  <1>4. ASSUME NEW t \in Starters, StoreStopped(t) \/ NotifyStop(t) \/ CloseStopChannel(t)
        PROVE  TypeOK'
    <2>1. CASE StoreStopped(t)
      BY <2>1 DEF StoreStopped
    <2>2. CASE NotifyStop(t)
      BY <2>2 DEF NotifyStop
    <2>3. CASE CloseStopChannel(t)
      BY <2>3 DEF CloseStopChannel
    <2> QED BY <1>4, <2>1, <2>2, <2>3
  <1>5. CASE CheckReady \/ StartupHook
    BY <1>5 DEF CheckReady, StartupHook
  <1>6. ASSUME NEW x \in Callers, StopSwap(x) \/ StopCloseSig(x) \/ StopShutdown(x)
        PROVE  TypeOK'
    <2>1. CASE StopSwap(x)
      BY <2>1 DEF StopSwap
    <2>2. CASE StopCloseSig(x)
      BY <2>2 DEF StopCloseSig
    <2>3. CASE StopShutdown(x)
      BY <2>3 DEF StopShutdown
    <2> QED BY <1>6, <2>1, <2>2, <2>3
  <1>7. ASSUME NEW x \in Callers, StopDrained(x) \/ StopTimeout(x) \/ StopReceive(x)
        PROVE  TypeOK'
    BY <1>7 DEF StopDrained, StopTimeout, StopReceive
  <1>8. CASE RegisterSignalHook \/ Signal \/ SignalReceive
    BY <1>8 DEF RegisterSignalHook, Signal, SignalReceive
  <1>9. ASSUME NEW r \in Requests, RequestArrives(r) \/ RequestEnds(r)
        PROVE  TypeOK'
    BY <1>9 DEF RequestArrives, RequestEnds
  <1>10. CASE UNCHANGED vars
    BY <1>10 DEF vars
  <1> QED BY <1>1, <1>2, <1>3, <1>4, <1>5, <1>6, <1>7, <1>8, <1>9, <1>10, NextCases

\* Every variable keeps its type: in particular the buffer of stopChannel
\* never holds more than one value.
THEOREM TypeCorrect == Spec => []TypeOK
  BY InitTypeOK, StepTypeOK, PTL DEF Spec

-----------------------------------------------------------------------------
(* The invariant OneStart, StopBarrier and NotifyNeverBlocks rest on. None of *)
(* them is inductive alone: StopBarrier needs that stopChannel carries        *)
(* something only once the one Start() has sent on it, hence that the word    *)
(* left "created" for good with the first Start().                            *)

\* Start() has sent on stopChannel.
Notified(t) == startPc[t] \in {"close", "returned"}

\* Once a Start() has won, no other can; once it is over, the word is final.
WordInv ==
    /\ \A t \in Starters : InStart(t) => state # Created
    /\ \A t \in Starters : StartOver(t) => state = Stopped
    /\ state \in {Preparing, Ready} => \E t \in Starters : InStart(t)

\* stopChannel is empty and open until the one Start() sends on it, and no
\* Stop() returns before.
ChannelInv ==
    /\ (\A t \in Starters : ~Notified(t)) => stopToken = 0 /\ ~stopClosed
    /\ \A x \in Callers : stopPc[x] = "returned" => \E t \in Starters : Notified(t)

\* What a Start() that ends well has done, as far as it has come.
OutcomeInv ==
    /\ shuttingDown /\ Tracked => listener = "closed"
    /\ \A t \in Starters : startOut[t] = "ok" =>
          /\ startPc[t] \in {"hooks", "unwind"} \/ StartOver(t)
          /\ listener = "closed"
          /\ startPc[t] # "hooks" => db = "closed" /\ nextShutdown = NShutdown

IInv == TypeOK /\ OneStart /\ WordInv /\ ChannelInv /\ OutcomeInv

LEMMA InitIInv == Init => IInv
  <1> SUFFICES ASSUME Init PROVE IInv
    OBVIOUS
  <1>1. TypeOK
    BY InitTypeOK
  <1>2. OneStart /\ WordInv
    BY DEF Init, OneStart, WordInv, InStart, StartOver
  <1>3. ChannelInv
    BY DEF Init, ChannelInv, Notified
  <1>4. OutcomeInv
    BY DEF Init, OutcomeInv, Tracked, StartOver
  <1> QED BY <1>1, <1>2, <1>3, <1>4 DEF IInv

LEMMA StepIInv == IInv /\ [Next]_vars => IInv'
  <1> SUFFICES ASSUME IInv, [Next]_vars PROVE IInv'
    OBVIOUS
  <1>1. TypeOK'
    BY StepTypeOK DEF IInv
  <1> USE <1>1, HooksAssumption, SigThreadCalls
      DEF IInv, TypeOK, OneStart, WordInv, ChannelInv, OutcomeInv, InStart, StartOver,
          Notified, Tracked, startVars, stopVars, sigVars, chanVars, httpVars,
          StartGoto, StartEnds, StopGoto
  <1>2. ASSUME NEW t \in Starters, StartCAS(t) PROVE IInv'
    BY <1>2 DEF StartCAS
  <1>3. ASSUME NEW t \in Starters, Listen(t) PROVE IInv'
    BY <1>3 DEF Listen
  <1>4. ASSUME NEW t \in Starters, BaseContext(t) PROVE IInv'
    BY <1>4 DEF BaseContext
  <1>5. ASSUME NEW t \in Starters, SetReady(t) PROVE IInv'
    BY <1>5 DEF SetReady
  <1>6. ASSUME NEW t \in Starters, Serve(t) PROVE IInv'
    BY <1>6 DEF Serve
  <1>7. ASSUME NEW t \in Starters, ServeClosed(t) PROVE IInv'
    BY <1>7 DEF ServeClosed
  <1>8. ASSUME NEW t \in Starters, ServeBreaks(t) PROVE IInv'
    BY <1>8 DEF ServeBreaks
  <1>9. ASSUME NEW t \in Starters, ServeFailed(t) PROVE IInv'
    BY <1>9 DEF ServeFailed
  <1>10. ASSUME NEW t \in Starters, ShutdownHook(t) PROVE IInv'
    BY <1>10 DEF ShutdownHook
  <1>11. ASSUME NEW t \in Starters, CloseDB(t) PROVE IInv'
    BY <1>11 DEF CloseDB
  <1>12. ASSUME NEW t \in Starters, StoreStopped(t) PROVE IInv'
    BY <1>12 DEF StoreStopped
  <1>13. ASSUME NEW t \in Starters, NotifyStop(t) PROVE IInv'
    BY <1>13 DEF NotifyStop
  <1>14. ASSUME NEW t \in Starters, CloseStopChannel(t) PROVE IInv'
    BY <1>14 DEF CloseStopChannel
  <1>15. ASSUME NEW x \in Callers, StopSwap(x) PROVE IInv'
    BY <1>15 DEF StopSwap
  <1>16. ASSUME NEW x \in Callers, StopCloseSig(x) PROVE IInv'
    BY <1>16 DEF StopCloseSig
  <1>17. ASSUME NEW x \in Callers, StopShutdown(x) PROVE IInv'
    BY <1>17 DEF StopShutdown
  <1>18. ASSUME NEW x \in Callers, StopDrained(x) PROVE IInv'
    BY <1>18 DEF StopDrained
  <1>19. ASSUME NEW x \in Callers, StopTimeout(x) PROVE IInv'
    BY <1>19 DEF StopTimeout
  <1>20. ASSUME NEW x \in Callers, StopReceive(x) PROVE IInv'
    BY <1>20 DEF StopReceive
  <1>21. CASE CheckReady
    BY <1>21 DEF CheckReady
  <1>22. CASE StartupHook
    BY <1>22 DEF StartupHook
  <1>23. CASE RegisterSignalHook
    BY <1>23 DEF RegisterSignalHook
  <1>24. CASE Signal
    BY <1>24 DEF Signal
  <1>25. CASE SignalReceive
    BY <1>25 DEF SignalReceive
  <1>26. ASSUME NEW r \in Requests, RequestArrives(r) PROVE IInv'
    BY <1>26 DEF RequestArrives
  <1>27. ASSUME NEW r \in Requests, RequestEnds(r) PROVE IInv'
    BY <1>27 DEF RequestEnds
  <1>28. CASE UNCHANGED vars
    BY <1>28 DEF vars
  <1> QED
    BY <1>2, <1>3, <1>4, <1>5, <1>6, <1>7, <1>8, <1>9, <1>10, <1>11, <1>12, <1>13, <1>14, <1>15, <1>16, <1>17, <1>18, <1>19, <1>20, <1>21, <1>22, <1>23, <1>24, <1>25, <1>26, <1>27, <1>28, NextCases

LEMMA IInvHolds == Spec => []IInv
  BY InitIInv, StepIInv, PTL DEF Spec

\* At most one Start() gets past the compare-and-swap.
THEOREM OneStartHolds == Spec => []OneStart
  <1>1. IInv => OneStart
    BY DEF IInv
  <1> QED BY <1>1, IInvHolds, PTL

\* A Stop() call that took effect returns only once the shutdown sequence of
\* the one Start() is over.
THEOREM StopBarrierHolds == Spec => []StopBarrier
  <1>1. IInv => StopBarrier
    BY DEF IInv, WordInv, ChannelInv, OutcomeInv, StopBarrier, Notified, StartOver
  <1> QED BY <1>1, IInvHolds, PTL

\* The deferred send on stopChannel never waits for a Stop() call.
THEOREM NotifyNeverBlocksHolds == Spec => []NotifyNeverBlocks
  <1>1. IInv => NotifyNeverBlocks
    BY DEF IInv, OneStart, ChannelInv, NotifyNeverBlocks, Notified, InStart
  <1> QED BY <1>1, IInvHolds, PTL

\* After Start() returned the word, the database, the hooks and the listener
\* keep the values it left.
THEOREM FinalOnceReturnedHolds == Spec => FinalOnceReturned
  <1> DEFINE Final == (\E t \in Starters : startPc[t] = "returned") =>
                          state' = Stopped /\ UNCHANGED <<db, nextShutdown, listener>>
  <1>1. IInv /\ [Next]_vars => [Final]_vars
    <2> SUFFICES ASSUME IInv, Next, NEW t \in Starters, startPc[t] = "returned"
                 PROVE  state' = Stopped /\ UNCHANGED <<db, nextShutdown, listener>>
      OBVIOUS
    <2> USE DEF IInv, TypeOK, OneStart, WordInv, InStart, StartOver, Tracked,
                startVars, stopVars, sigVars, chanVars, httpVars, StartGoto, StopGoto
    <2>1. state = Stopped /\ \A u \in Starters : startPc[u] \in {"idle", "refused", "returned"}
      OBVIOUS
    <2> HIDE DEF IInv, OneStart, WordInv, InStart, StartOver
    <2>2. ASSUME NEW u \in Starters,
                 \/ StartCAS(u) \/ Listen(u) \/ BaseContext(u) \/ SetReady(u)
                 \/ Serve(u) \/ ServeClosed(u) \/ ServeBreaks(u) \/ ServeFailed(u)
                 \/ ShutdownHook(u) \/ CloseDB(u)
                 \/ StoreStopped(u) \/ NotifyStop(u) \/ CloseStopChannel(u)
          PROVE  state' = Stopped /\ UNCHANGED <<db, nextShutdown, listener>>
      BY <2>1, <2>2 DEF StartCAS, Listen, BaseContext, SetReady, Serve, ServeClosed,
             ServeBreaks, ServeFailed, ShutdownHook, CloseDB, StoreStopped, NotifyStop,
             CloseStopChannel
    <2>3. ASSUME NEW x \in Callers,
                 \/ StopSwap(x) \/ StopCloseSig(x) \/ StopShutdown(x)
                 \/ StopDrained(x) \/ StopTimeout(x) \/ StopReceive(x)
          PROVE  state' = Stopped /\ UNCHANGED <<db, nextShutdown, listener>>
      BY <2>1, <2>3 DEF StopSwap, StopCloseSig, StopShutdown, StopDrained, StopTimeout,
             StopReceive
    <2>4. ASSUME \/ CheckReady \/ StartupHook
                 \/ RegisterSignalHook \/ Signal \/ SignalReceive
          PROVE  state' = Stopped /\ UNCHANGED <<db, nextShutdown, listener>>
      BY <2>1, <2>4 DEF CheckReady, StartupHook, RegisterSignalHook, Signal, SignalReceive
    <2>5. ASSUME NEW r \in Requests, RequestArrives(r) \/ RequestEnds(r)
          PROVE  state' = Stopped /\ UNCHANGED <<db, nextShutdown, listener>>
      BY <2>1, <2>5 DEF RequestArrives, RequestEnds
    <2> QED BY <2>2, <2>3, <2>4, <2>5, NextCases
  <1> QED BY <1>1, IInvHolds, PTL DEF Spec, FinalOnceReturned

-----------------------------------------------------------------------------
(* Two effective Stop() calls need one that met Start() before its Store(2).  *)

\* Start() is past its Store(2).
PastReady(t) == startPc[t] \notin {"idle", "refused", "listen", "context", "ready"}

\* A Stop() call before its Swap(3).
NotSwapped(x) == stopPc[x] \in {"none", "waitSignal", "exited", "idle"}

\* The word never goes back to a value a Stop() call has seen.
SeenInv ==
    /\ \A x, y \in Callers : seen[x] = seen[y] /\ Effective(x) => x = y
    /\ \A x \in Callers : seen[x] = Preparing => state \in {Ready, Stopped}
    /\ \A x \in Callers : seen[x] = Ready => state = Stopped
    /\ (state = Ready \/ \E x \in Callers : seen[x] = Ready) =>
           \E t \in Starters : PastReady(t)

\* sigChannel is closed by an effective Stop() only, and by the first one.
SigInv ==
    /\ \A x \in Callers : NotSwapped(x) => seen[x] = "none"
    /\ \A x \in Callers :
          stopPc[x] \in {"closeSig", "shutdown", "drain", "waitStop", "returned", "panicked"}
              => Effective(x)
    /\ \A x \in Callers : stopPc[x] = "closeSig" => sigChannel # "nil"
    /\ sigChannel = "nil" => stopPc[SigThread] = "none"
    /\ sigChannel = "closed" =>
           \E x \in Callers : Effective(x) /\ stopPc[x] # "closeSig"
    /\ \A x \in Callers : stopPc[x] = "panicked" => \E y \in Callers : seen[y] = Preparing

\* Unless a Stop() saw "preparing", the word is "ready" only before Serve returns.
ReadyInv ==
    /\ \A t \in Starters : startPc[t] \in {"listen", "context", "ready"} => state # Ready
    /\ shuttingDown => \E x \in Callers : Effective(x)
    /\ db = "closed" => \E t \in Starters : startPc[t] = "unwind" \/ StartOver(t)
    /\ \A t \in Starters : (startPc[t] \in {"hooks", "unwind"} /\ state = Ready) =>
           \E x \in Callers : seen[x] = Preparing

SInv == IInv /\ SeenInv /\ SigInv /\ ReadyInv

LEMMA InitSInv == Init => SInv
  <1> SUFFICES ASSUME Init PROVE SInv
    OBVIOUS
  <1>1. SeenInv
    BY DEF Init, SeenInv, Effective
  <1>2. SigInv
    BY SigThreadCalls DEF Init, SigInv, NotSwapped
  <1>3. ReadyInv
    BY DEF Init, ReadyInv
  <1> QED BY <1>1, <1>2, <1>3, InitIInv DEF SInv

LEMMA StepSInv == SInv /\ [Next]_vars => SInv'
  <1> SUFFICES ASSUME SInv, [Next]_vars PROVE SInv'
    OBVIOUS
  <1>1. IInv'
    BY StepIInv DEF SInv
  <1> SUFFICES SeenInv' /\ SigInv' /\ ReadyInv'
    BY <1>1 DEF SInv
  <1> USE SigThreadCalls
      DEF SInv, IInv, TypeOK, OneStart, WordInv, SeenInv, SigInv, ReadyInv, Effective,
          InStart, StartOver, PastReady, NotSwapped, startVars, stopVars, sigVars, chanVars,
          httpVars, StartGoto, StartEnds, StopGoto
  <1>2. ASSUME NEW t \in Starters, StartCAS(t) PROVE SeenInv' /\ SigInv' /\ ReadyInv'
    BY <1>2 DEF StartCAS
  <1>3. ASSUME NEW t \in Starters, Listen(t) PROVE SeenInv' /\ SigInv' /\ ReadyInv'
    BY <1>3 DEF Listen
  <1>4. ASSUME NEW t \in Starters, BaseContext(t) PROVE SeenInv' /\ SigInv' /\ ReadyInv'
    BY <1>4 DEF BaseContext
  <1>5. ASSUME NEW t \in Starters, SetReady(t) PROVE SeenInv' /\ SigInv' /\ ReadyInv'
    BY <1>5 DEF SetReady
  <1>6. ASSUME NEW t \in Starters, Serve(t) PROVE SeenInv' /\ SigInv' /\ ReadyInv'
    BY <1>6 DEF Serve
  <1>7. ASSUME NEW t \in Starters, ServeClosed(t) PROVE SeenInv' /\ SigInv' /\ ReadyInv'
    BY <1>7 DEF ServeClosed
  <1>8. ASSUME NEW t \in Starters, ServeBreaks(t) PROVE SeenInv' /\ SigInv' /\ ReadyInv'
    BY <1>8 DEF ServeBreaks
  <1>9. ASSUME NEW t \in Starters, ServeFailed(t) PROVE SeenInv' /\ SigInv' /\ ReadyInv'
    BY <1>9 DEF ServeFailed
  <1>10. ASSUME NEW t \in Starters, ShutdownHook(t) PROVE SeenInv' /\ SigInv' /\ ReadyInv'
    BY <1>10 DEF ShutdownHook
  <1>11. ASSUME NEW t \in Starters, CloseDB(t) PROVE SeenInv' /\ SigInv' /\ ReadyInv'
    BY <1>11 DEF CloseDB
  <1>12. ASSUME NEW t \in Starters, StoreStopped(t) PROVE SeenInv' /\ SigInv' /\ ReadyInv'
    BY <1>12 DEF StoreStopped
  <1>13. ASSUME NEW t \in Starters, NotifyStop(t) PROVE SeenInv' /\ SigInv' /\ ReadyInv'
    BY <1>13 DEF NotifyStop
  <1>14. ASSUME NEW t \in Starters, CloseStopChannel(t) PROVE SeenInv' /\ SigInv' /\ ReadyInv'
    BY <1>14 DEF CloseStopChannel
  <1>15. ASSUME NEW x \in Callers, StopSwap(x) PROVE SeenInv' /\ SigInv' /\ ReadyInv'
    <2>1. /\ state' = Stopped
          /\ seen' = [seen EXCEPT ![x] = state]
          /\ seen[x] = "none"
      BY <1>15 DEF StopSwap
    <2>2. SeenInv'
      BY <1>15, <2>1 DEF StopSwap
    <2>3. SigInv'
      <3>1. /\ stopPc[x] = "idle" /\ stopPc'[x] \in {"noop", "shutdown", "closeSig"}
            /\ stopPc'[x] # "noop" => state \in {Preparing, Ready}
            /\ stopPc'[x] = "closeSig" => sigChannel # "nil"
            /\ sigChannel' = sigChannel
            /\ seen'[x] = state
            /\ \A y \in Callers \ {x} : stopPc'[y] = stopPc[y] /\ seen'[y] = seen[y]
        BY <1>15 DEF StopSwap
      <3>2. x # SigThread \/ sigChannel # "nil"
        BY <3>1
      <3> QED BY <2>1, <3>1, <3>2
    <2>4. ReadyInv'
      BY <1>15, <2>1 DEF StopSwap
    <2> QED BY <2>2, <2>3, <2>4
  <1>16. ASSUME NEW x \in Callers, StopCloseSig(x) PROVE SeenInv' /\ SigInv' /\ ReadyInv'
    BY <1>16 DEF StopCloseSig
  <1>17. ASSUME NEW x \in Callers, StopShutdown(x) PROVE SeenInv' /\ SigInv' /\ ReadyInv'
    BY <1>17 DEF StopShutdown
  <1>18. ASSUME NEW x \in Callers, StopDrained(x) PROVE SeenInv' /\ SigInv' /\ ReadyInv'
    BY <1>18 DEF StopDrained
  <1>19. ASSUME NEW x \in Callers, StopTimeout(x) PROVE SeenInv' /\ SigInv' /\ ReadyInv'
    BY <1>19 DEF StopTimeout
  <1>20. ASSUME NEW x \in Callers, StopReceive(x) PROVE SeenInv' /\ SigInv' /\ ReadyInv'
    BY <1>20 DEF StopReceive
  <1>21. ASSUME CheckReady PROVE SeenInv' /\ SigInv' /\ ReadyInv'
    BY <1>21 DEF CheckReady
  <1>22. ASSUME StartupHook PROVE SeenInv' /\ SigInv' /\ ReadyInv'
    BY <1>22 DEF StartupHook
  <1>23. ASSUME RegisterSignalHook PROVE SeenInv' /\ SigInv' /\ ReadyInv'
    BY <1>23 DEF RegisterSignalHook
  <1>24. ASSUME Signal PROVE SeenInv' /\ SigInv' /\ ReadyInv'
    BY <1>24 DEF Signal
  <1>25. ASSUME SignalReceive PROVE SeenInv' /\ SigInv' /\ ReadyInv'
    BY <1>25 DEF SignalReceive
  <1>26. ASSUME NEW r \in Requests, RequestArrives(r) PROVE SeenInv' /\ SigInv' /\ ReadyInv'
    BY <1>26 DEF RequestArrives
  <1>27. ASSUME NEW r \in Requests, RequestEnds(r) PROVE SeenInv' /\ SigInv' /\ ReadyInv'
    BY <1>27 DEF RequestEnds
  <1>28. ASSUME UNCHANGED vars PROVE SeenInv' /\ SigInv' /\ ReadyInv'
    BY <1>28 DEF vars
  <1> QED
    BY <1>2, <1>3, <1>4, <1>5, <1>6, <1>7, <1>8, <1>9, <1>10, <1>11, <1>12, <1>13, <1>14, <1>15, <1>16, <1>17, <1>18, <1>19, <1>20, <1>21, <1>22, <1>23, <1>24, <1>25, <1>26, <1>27, <1>28, NextCases

LEMMA SInvHolds == Spec => []SInv
  BY InitSInv, StepSInv, PTL DEF Spec

\* Each state of the server is taken by one Stop() call at most, and Stop()
\* panics only if some Stop() met Start() before its Store(2).
THEOREM SecondStopHolds == Spec => []SecondStopNeedsPreparing
  <1>1. SInv => SecondStopNeedsPreparing
    BY DEF SInv, SeenInv, SigInv, SecondStopNeedsPreparing
  <1> QED BY <1>1, SInvHolds, PTL

\* If no Stop() met Start() before its Store(2), IsReady() is true only while
\* the server serves with its database open.
THEOREM ReadyMeansServingHolds == Spec => []ReadyMeansServing
  <1>1. SInv => ReadyMeansServing
    BY DEF SInv, IInv, TypeOK, WordInv, SeenInv, ReadyInv, ReadyMeansServing, PastReady,
           StartOver
  <1> QED BY <1>1, SInvHolds, PTL

-----------------------------------------------------------------------------
(* Start() and Stop() implement ShutdownBarrier. *)

\* The three variables of the barrier, as the refinement maps them.
Phase    == IF \E t \in Starters : StartOver(t) THEN "down"
            ELSE IF \E t \in Starters : InStart(t) THEN "up"
            ELSE IF state = Created THEN "new" ELSE "down"
Waiting  == {x \in Callers : Effective(x) /\ stopPc[x] # "returned"}
Released == {x \in Callers : stopPc[x] = "returned"}

Quiet == UNCHANGED <<Phase, Waiting, Released>>

LEMMA InitRefines == Init => Barrier!Init
  BY SigThreadCalls DEF Init, Barrier!Init, StartOver, InStart, Effective

\* A step of Start() other than the won compare-and-swap and the deferred
\* Store(3) changes nothing the barrier shows.
LEMMA QuietStart ==
    ASSUME SInv, NEW t \in Starters,
           \/ Listen(t) \/ BaseContext(t) \/ SetReady(t) \/ Serve(t)
           \/ ServeClosed(t) \/ ServeBreaks(t) \/ ServeFailed(t) \/ ShutdownHook(t)
           \/ CloseDB(t) \/ NotifyStop(t) \/ CloseStopChannel(t)
    PROVE  Quiet
  <1>1. /\ UNCHANGED <<stopPc, seen>>
        /\ InStart(t) /\ InStart(t)'
        /\ StartOver(t) <=> StartOver(t)'
        /\ \A u \in Starters \ {t} : startPc'[u] = startPc[u]
    BY DEF SInv, IInv, TypeOK, Listen, BaseContext, SetReady, Serve, ServeClosed,
           ServeBreaks, ServeFailed, ShutdownHook, CloseDB, NotifyStop, CloseStopChannel,
           stopVars, StartGoto, InStart, StartOver
  <1>2. (\E u \in Starters : StartOver(u)) <=> (\E u \in Starters : StartOver(u)')
    BY <1>1 DEF StartOver
  <1>3. Phase' = Phase
    BY <1>1, <1>2 DEF Phase
  <1>4. Waiting' = Waiting /\ Released' = Released
    BY <1>1 DEF Waiting, Released, Effective
  <1> QED BY <1>3, <1>4 DEF Quiet

LEMMA StepRefines == SInv /\ [Next]_vars => [Barrier!Next]_(Barrier!vars)
  <1> SUFFICES ASSUME SInv, [Next]_vars
               PROVE  Barrier!Next \/ Quiet
    BY DEF Quiet, Phase, Waiting, Released, Barrier!vars
  <1> USE SigThreadCalls DEF SInv, IInv, TypeOK
  <1>1. ASSUME NEW t \in Starters, StartCAS(t) PROVE Barrier!Next \/ Quiet
    <2>1. CASE state = Created
      <3>1. Phase = "new" /\ Phase' = "up"
        BY <1>1, <2>1 DEF StartCAS, WordInv, StartGoto, Phase, InStart, StartOver
      <3>2. Waiting' = Waiting /\ Released' = Released
        BY <1>1 DEF StartCAS, stopVars, Waiting, Released, Effective
      <3> QED BY <3>1, <3>2 DEF Phase, Waiting, Released, Barrier!Next, Barrier!Up
    <2>2. CASE state # Created
      <3>1. Phase' = Phase
        BY <1>1, <2>2 DEF StartCAS, StartGoto, Phase, InStart, StartOver
      <3>2. Waiting' = Waiting /\ Released' = Released
        BY <1>1 DEF StartCAS, stopVars, Waiting, Released, Effective
      <3> QED BY <3>1, <3>2 DEF Quiet
    <2> QED BY <2>1, <2>2
  <1>2. ASSUME NEW t \in Starters, StoreStopped(t) PROVE Barrier!Next \/ Quiet
    <2>1. Phase = "up" /\ Phase' = "down"
      BY <1>2 DEF StoreStopped, OneStart, StartGoto, Phase, InStart, StartOver
    <2>2. Waiting' = Waiting /\ Released' = Released
      BY <1>2 DEF StoreStopped, stopVars, Waiting, Released, Effective
    <2> QED BY <2>1, <2>2 DEF Phase, Waiting, Released, Barrier!Next, Barrier!Down
  <1>3. ASSUME NEW x \in Callers, StopSwap(x) PROVE Barrier!Next \/ Quiet
    <2>1. /\ seen[x] = "none" /\ stopPc[x] # "returned" /\ stopPc'[x] # "returned"
          /\ seen'[x] = state /\ state' = Stopped /\ startPc' = startPc
          /\ \A y \in Callers \ {x} : stopPc'[y] = stopPc[y] /\ seen'[y] = seen[y]
      BY <1>3 DEF StopSwap, StopGoto, SigInv, NotSwapped, startVars
    <2>2. Released' = Released
      BY <2>1 DEF Released
    <2>3. CASE state \in {Preparing, Ready}
      <3>1. Phase = "up" /\ Phase' = "up"
        BY <2>1, <2>3 DEF Phase, WordInv, StartOver, InStart
      <3>2. Waiting' = Waiting \cup {x} /\ x \notin Waiting \cup Released
        BY <2>1, <2>3 DEF Waiting, Released, Effective
      <3>3. Barrier!Wait(x)
        BY <2>2, <3>1, <3>2 DEF Phase, Waiting, Released, Barrier!Wait
      <3> QED BY <3>3 DEF Barrier!Next
    <2>4. CASE state \in {Created, Stopped}
      <3>1. Waiting' = Waiting
        BY <2>1, <2>4 DEF Waiting, Effective
      <3>2. CASE state = Created
        <4>1. Phase = "new" /\ Phase' = "down"
          BY <2>1, <3>2 DEF Phase, WordInv, StartOver, InStart
        <4> QED BY <2>2, <3>1, <4>1 DEF Phase, Waiting, Released, Barrier!Next, Barrier!NeverUp
      <3>3. CASE state = Stopped
        <4>1. Phase' = Phase
          BY <2>1, <3>3 DEF Phase, StartOver, InStart
        <4> QED BY <2>2, <3>1, <4>1 DEF Quiet
      <3> QED BY <2>4, <3>2, <3>3
    <2> QED BY <2>3, <2>4
  <1>4. ASSUME NEW x \in Callers, StopReceive(x) PROVE Barrier!Next \/ Quiet
    <2>1. Phase = "down" /\ Phase' = "down"
      BY <1>4 DEF StopReceive, ChannelInv, Notified, Phase, StartOver, startVars
    <2>2. /\ Effective(x) /\ Effective(x)'
          /\ stopPc[x] # "returned" /\ stopPc'[x] = "returned"
          /\ seen' = seen
          /\ \A y \in Callers \ {x} : stopPc'[y] = stopPc[y]
      BY <1>4 DEF StopReceive, StopGoto, SigInv, Effective
    <2>3. /\ x \in Waiting /\ Waiting' = Waiting \ {x}
          /\ Released' = Released \cup {x}
      BY <2>2 DEF Waiting, Released, Effective
    <2>4. Barrier!Release(x)
      BY <2>1, <2>3 DEF Phase, Waiting, Released, Barrier!Release
    <2> QED BY <2>4 DEF Barrier!Next
  <1>5. ASSUME NEW x \in Callers,
               StopCloseSig(x) \/ StopShutdown(x) \/ StopDrained(x) \/ StopTimeout(x)
        PROVE  Quiet
    <2>1. /\ startPc' = startPc /\ state' = state /\ seen' = seen
          /\ \A y \in Callers : stopPc'[y] = "returned" <=> stopPc[y] = "returned"
      BY <1>5 DEF StopCloseSig, StopShutdown, StopDrained, StopTimeout, StopGoto, startVars
    <2> QED BY <2>1 DEF Quiet, Phase, Waiting, Released, StartOver, InStart, Effective
  <1>6. ASSUME \/ CheckReady \/ StartupHook \/ Signal
               \/ \E r \in Requests : RequestArrives(r) \/ RequestEnds(r)
               \/ UNCHANGED vars
        PROVE  Quiet
    <2>1. UNCHANGED <<startPc, state, seen, stopPc>>
      BY <1>6 DEF CheckReady, StartupHook, Signal, RequestArrives, RequestEnds, vars,
             startVars, stopVars
    <2> QED BY <2>1 DEF Quiet, Phase, Waiting, Released, StartOver, InStart, Effective
  <1>7. ASSUME RegisterSignalHook \/ SignalReceive PROVE Quiet
    <2>1. /\ startPc' = startPc /\ state' = state /\ seen' = seen
          /\ \A y \in Callers : stopPc'[y] = "returned" <=> stopPc[y] = "returned"
      BY <1>7 DEF RegisterSignalHook, SignalReceive, StopGoto, SigInv, startVars
    <2> QED BY <2>1 DEF Quiet, Phase, Waiting, Released, StartOver, InStart, Effective
  <1> HIDE DEF SInv, IInv, TypeOK
  <1> QED
    BY <1>1, <1>2, <1>3, <1>4, <1>5, <1>6, <1>7, QuietStart, NextCases

\* The whole of Start() and Stop() implements the barrier: every Stop() that
\* finds the server up waits, and is released only when it is down.
THEOREM Refinement == Spec => BarrierSpec
  BY InitRefines, StepRefines, SInvHolds, PTL DEF Spec, BarrierSpec, Barrier!Spec
=============================================================================

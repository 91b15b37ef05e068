\* Two Start() calls, a Stop() call and the signal hook's, hooks that may panic, a
\* request that may never end.
CONSTANTS
    Starters = {s1, s2}
    Stoppers = {x1}
    SigThread = sig
    Requests = {r1}
    NStartup = 1
    NShutdown = 1
    MaxSignals = 1
SPECIFICATION FairSpec
INVARIANTS
    TypeOK
    OneStart
    StopBarrier
    NotifyNeverBlocks
    SecondStopNeedsPreparing
    ReadyMeansServing
PROPERTIES
    FinalOnceReturned
    BarrierSpec
    StopTerminates
    ShutdownEnds
\* Every thread may have finished, and Start() need not be called again.
CHECK_DEADLOCK FALSE

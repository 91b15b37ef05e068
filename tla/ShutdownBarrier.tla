--------------------------- MODULE ShutdownBarrier ---------------------------
(***************************************************************************)
(* What Start() and Stop() promise each other, without any of the words,   *)
(* channels and deferred functions they do it with: the server comes up at *)
(* most once, goes down at most once, a Stop() call that finds it up waits *)
(* and is released only when it is down.                                   *)
(***************************************************************************)
CONSTANT Callers        \* the Stop() calls

VARIABLES
    phase,              \* "new", "up" or "down"
    waiting,            \* Stop() calls that found the server up
    released            \* those that returned since

vars == <<phase, waiting, released>>

TypeOK ==
    /\ phase \in {"new", "up", "down"}
    /\ waiting \subseteq Callers
    /\ released \subseteq Callers

Init == phase = "new" /\ waiting = {} /\ released = {}

\* Start() wins.
Up == phase = "new" /\ phase' = "up" /\ UNCHANGED <<waiting, released>>

\* Stop() comes first: no Start() will win.
NeverUp == phase = "new" /\ phase' = "down" /\ UNCHANGED <<waiting, released>>

\* The shutdown sequence has ended.
Down == phase = "up" /\ phase' = "down" /\ UNCHANGED <<waiting, released>>

Wait(x) ==
    /\ phase = "up"
    /\ x \notin waiting \cup released
    /\ waiting' = waiting \cup {x}
    /\ UNCHANGED <<phase, released>>

Release(x) ==
    /\ phase = "down"
    /\ x \in waiting
    /\ waiting' = waiting \ {x}
    /\ released' = released \cup {x}
    /\ UNCHANGED phase

Next == Up \/ NeverUp \/ Down \/ \E x \in Callers : Wait(x) \/ Release(x)

Spec == Init /\ [][Next]_vars
=============================================================================

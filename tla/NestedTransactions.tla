------------------------- MODULE NestedTransactions -------------------------
(***************************************************************************)
(* What session.Session promises (session.go:12-41): a transaction, and    *)
(* transactions nested in it, each of which is either committed, and keeps *)
(* its changes for the one around it, or rolled back, and leaves nothing   *)
(* behind. Nobody outside sees a change before the outermost commits.      *)
(***************************************************************************)
EXTENDS Integers, Sequences

CONSTANT Values         \* contents of the database

VARIABLES
    partial,            \* whether nested transactions can be rolled back alone
    committed,          \* what the rest of the world sees
    work,               \* what the transaction sees
    begun,              \* what each open transaction saw when it began
    expired,            \* nested transactions whose context is done
    outcome             \* how the last transaction to end did

vars == <<partial, committed, work, begun, expired, outcome>>

Init ==
    /\ partial \in BOOLEAN
    /\ committed \in Values
    /\ work = committed
    /\ begun = <<>>
    /\ expired = {}
    /\ outcome = "none"

Inner == Len(begun) > 1
Outer == Len(begun) = 1

Begin ==
    /\ Len(begun) \notin expired
    /\ begun' = Append(begun, IF begun = <<>> \/ ~partial THEN committed ELSE work)
    /\ work' = IF begun = <<>> THEN committed ELSE work
    /\ UNCHANGED <<partial, committed, expired, outcome>>

Write ==
    /\ begun # <<>>
    /\ work' \in Values
    /\ UNCHANGED <<partial, committed, begun, expired, outcome>>

Pop ==
    /\ begun' = [i \in 1..(Len(begun) - 1) |-> begun[i]]
    /\ expired' = expired \ {Len(begun)}

Commit ==
    /\ Inner \/ Outer
    /\ Pop
    /\ outcome' = "committed"
    /\ committed' = IF Outer THEN work ELSE committed
    /\ UNCHANGED <<partial, work>>

\* No statement can be run for a transaction whose context is done.
Rollback ==
    /\ Inner \/ Outer
    /\ Pop
    /\ outcome' = "rolledBack"
    /\ work' = IF Inner /\ (~partial \/ Len(begun) \in expired)
               THEN work ELSE begun[Len(begun)]
    /\ UNCHANGED <<partial, committed>>

\* The answer of the commit is an error: it was lost, or nothing was done.
CommitFails ==
    /\ Outer
    /\ Pop
    /\ outcome' = "failed"
    /\ committed' \in {committed, work}
    /\ work' = committed'
    /\ UNCHANGED partial

\* The database drops the whole transaction.
Abort ==
    /\ begun # <<>>
    /\ work' = committed
    /\ begun' = [i \in 1..Len(begun) |-> committed]
    /\ expired' = 2..Len(begun)
    /\ UNCHANGED <<partial, committed, outcome>>

\* The context of a nested transaction is done, and those made from it.
Expire ==
    /\ \E i \in 2..Len(begun) : expired' = expired \cup i..Len(begun)
    /\ UNCHANGED <<partial, committed, work, begun, outcome>>

Next == Begin \/ Write \/ Commit \/ Rollback \/ CommitFails \/ Abort \/ Expire

Spec == Init /\ [][Next]_vars
=============================================================================

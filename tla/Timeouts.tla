------------------------------- MODULE Timeouts -------------------------------
(***************************************************************************)
(* The timeout plugin (database/timeout.go): before an operation of GORM   *)
(* the context of its statement is replaced by one with a deadline, which  *)
(* is cancelled after the operation. Operations nest: preloads and         *)
(* associations run as sub-statements, which are created from a statement  *)
(* with its context. Statements are used again, and others derived from    *)
(* them.                                                                   *)
(*                                                                         *)
(* A context is 0, the user's, or the number of a timeoutContext.          *)
(***************************************************************************)
EXTENDS Integers, Sequences, SequencesExt

CONSTANTS
    Statements,         \* the statements of the application, numbered
    MaxDepth,           \* bound on nested operations
    MaxContexts         \* bound on the contexts made

ASSUME StatementsAssumption == Statements \subseteq Nat
ASSUME BoundsAssumption == MaxDepth \in Nat /\ MaxContexts \in Nat

Sub(depth) == -depth            \* the statement made for an operation of that depth
Kinds == {"read", "write", "row"}

VARIABLES
    enabled,            \* the kinds with a positive timeout
    deadline,           \* whether the user's context has a deadline
    context,            \* of each statement of the application
    owner,              \* the statement of each timeoutContext
    timers,             \* the contexts whose timer runs
    cancelled,          \* the contexts the plugin has cancelled
    abandoned,          \* those of operations that panicked
    running             \* the operations, the innermost last

timeoutsVars == <<enabled, deadline, context, owner, timers, cancelled, abandoned, running>>

\* The callbacks: Query with the read timeout, Create, Update, Delete and Raw with the
\* write timeout, none for Row.
Timed(kind) == kind # "row" /\ kind \in enabled

\* timeoutBefore: a new context, made from the user's even if the statement has one of
\* the plugin's; not when the user's has a deadline.
Replaced(inherited, kind) == Timed(kind) /\ (inherited # 0 \/ ~deadline)

Start(statement, inherited, kind) ==
    LET new == IF Replaced(inherited, kind) THEN Len(owner) + 1 ELSE inherited
    IN  /\ Len(running) < MaxDepth /\ Len(owner) < MaxContexts
        /\ \/ /\ Replaced(inherited, kind)
              /\ owner' = Append(owner, statement)
              /\ timers' = timers \cup {new}
           \/ ~Replaced(inherited, kind) /\ UNCHANGED <<owner, timers>>
        /\ context' = [s \in Statements |-> IF s = statement THEN new ELSE context[s]]
        /\ running' = Append(running, [statement |-> statement, kind |-> kind, context |-> new,
                                       stale |-> new \in cancelled])
        /\ UNCHANGED <<enabled, deadline, cancelled, abandoned>>

\* An operation of the application, on a new statement or one it used before.
Operation(statement, kind) ==
    /\ running = <<>>
    /\ Start(statement, context[statement], kind)

\* An operation that another one makes, on a statement made from its own.
SubOperation(kind) ==
    /\ running # <<>>
    /\ Start(Sub(Len(running) + 1), Last(running).context, kind)

\* Mutant: a sub-statement cancels the context of the statement it was made from.
AfterAny ==
    LET op == Last(running)
        c == op.context
        done == IF op.kind # "row" /\ c # 0 THEN {c} ELSE {}
    IN  /\ running # <<>>
        /\ cancelled' = cancelled \cup done
        /\ timers' = timers \ done
        /\ running' = Front(running)
        /\ UNCHANGED <<enabled, deadline, context, owner, abandoned>>

\* timeoutAfter, also when the operation failed.
After ==
    LET op == Last(running)
        c == op.context
        done == IF op.kind # "row" /\ c # 0 THEN {x \in {c} : owner[x] = op.statement} ELSE {}
    IN  /\ running # <<>>
        /\ cancelled' = cancelled \cup done
        /\ timers' = timers \ done
        /\ running' = Front(running)
        /\ UNCHANGED <<enabled, deadline, context, owner, abandoned>>

\* A hook of a model panics: no callback runs any more.
Panic ==
    /\ running # <<>>
    /\ running' = <<>>
    /\ abandoned' = abandoned \cup timers
    /\ UNCHANGED <<enabled, deadline, context, owner, timers, cancelled>>

\* The deadline of a context passes.
Expire(c) ==
    /\ c \in timers
    /\ timers' = timers \ {c}
    /\ UNCHANGED <<enabled, deadline, context, owner, cancelled, abandoned, running>>

\* DB.Session: a statement made from another, with its context.
Derive(statement, from) ==
    /\ running = <<>> /\ statement # from
    /\ context' = [context EXCEPT ![statement] = context[from]]
    /\ UNCHANGED <<enabled, deadline, owner, timers, cancelled, abandoned, running>>

TimeoutsInit ==
    /\ enabled \in SUBSET {"read", "write"}
    /\ deadline \in BOOLEAN
    /\ context = [s \in Statements |-> 0]
    /\ owner = <<>>
    /\ timers = {} /\ cancelled = {} /\ abandoned = {}
    /\ running = <<>>

TimeoutsNext ==
    \/ \E kind \in Kinds : (\E s \in Statements : Operation(s, kind)) \/ SubOperation(kind)
    \/ After \/ Panic
    \/ \E c \in 1..MaxContexts : Expire(c)
    \/ \E s, t \in Statements : Derive(s, t)

TimeoutsSpec == TimeoutsInit /\ [][TimeoutsNext]_timeoutsVars

-----------------------------------------------------------------------------

\* However operations nest, fail and use statements again, the context of a running
\* one is not cancelled by the plugin, so that a preload does not end the query it
\* belongs to ("This prevents sub-statements (such as preloads) to cancel the context",
\* timeout.go:23); one that has a timeout always has a deadline; and no timer is left
\* when nothing runs, but for those of operations that panicked. An operation without
\* a timeout on a statement that had one may start with a context cancelled before:
\* stale.
DeadlineKept ==
    /\ \A i \in DOMAIN running :
         LET op == running[i]
         IN  /\ op.context \in cancelled => op.stale /\ ~Timed(op.kind)
             /\ Timed(op.kind) => deadline \/ op.context # 0
    /\ running = <<>> => timers \subseteq abandoned
=============================================================================

------------------------- MODULE SessionTransactions -------------------------
(***************************************************************************)
(* The Gorm session (util/session/session.go): an outermost transaction of *)
(* the database, and sessions nested in it as savepoints of that one       *)
(* transaction. A nested Begin() names its savepoint after the address of  *)
(* its new context; a nested Transaction(f) after the code address of f.   *)
(*                                                                         *)
(* Sessions are used as testutil.Session demands of an application         *)
(* (testutil/session.go:36-44): one goroutine, children end before their   *)
(* parent, the context of the session around is passed to the nested one.  *)
(* Beyond that, a nested context may have a deadline of its own, and an    *)
(* application may roll back a session it committed (defer tx.Rollback()). *)
(*                                                                         *)
(* gorm, database/sql and the database are external: SAVEPOINT pushes a    *)
(* name, ROLLBACK TO goes back to the latest savepoint of that name and    *)
(* keeps it, no statement is run with a context that is done, and the      *)
(* transaction is dropped when the context it began with is done.          *)
(***************************************************************************)
EXTENDS Integers, Sequences

CONSTANTS
    Values,             \* contents of the database
    Funs,               \* code addresses of the functions given to Transaction
    Pointers,           \* addresses of the contexts made by nested Begin calls
    NoName,             \* Gorm.savepoint of an outermost session
    Recursive,          \* whether a function may be run inside itself
    MaxDepth,           \* bound: sessions inside one another
    MaxSavepoints,      \* bound: savepoints of one transaction
    MaxLeaks            \* bound: transactions left open

Names == Funs \cup Pointers

ASSUME NamesAssumption == NoName \notin Names /\ Funs \cap Pointers = {}
ASSUME UseAssumption == Recursive \in BOOLEAN
ASSUME BoundsAssumption == MaxDepth \in Nat /\ MaxSavepoints \in Nat /\ MaxLeaks \in Nat

VARIABLES
    disabled,           \* gorm's DisableNestedTransaction, which never changes
    committed,          \* what other connections see
    work,               \* what the transaction sees
    alive,              \* the database has not dropped the transaction
    savepoints,         \* SAVEPOINTs of the transaction, oldest first
    sessions,           \* open sessions, the outermost first
    late,               \* savepoint of the nested session committed last
    outcome,            \* history: how the last session to end did
    leaked              \* transactions nobody will end

vars == <<disabled, committed, work, alive, savepoints, sessions, late, outcome, leaked>>

Savepoint == [name : Names, value : Values]

\* done: its context is. sp: history, the savepoint it made.
Session == [kind : {"func", "manual"}, name : Names \cup {NoName},
            done : BOOLEAN, sp : Nat]

TypeOK ==
    /\ disabled \in BOOLEAN
    /\ committed \in Values
    /\ work \in Values
    /\ alive \in BOOLEAN
    /\ savepoints \in Seq(Savepoint)
    /\ sessions \in Seq(Session)
    /\ late \in Names \cup {NoName}
    /\ outcome \in {"none", "committed", "rolledBack", "failed"}
    /\ leaked \in 0..MaxLeaks

Init ==
    /\ disabled \in BOOLEAN
    /\ committed \in Values
    /\ work = committed
    /\ alive = TRUE
    /\ savepoints = <<>>
    /\ sessions = <<>>
    /\ late = NoName
    /\ outcome = "none"
    /\ leaked = 0

Depth  == Len(sessions)
Top    == sessions[Depth]
Outer(kind)  == Depth = 1 /\ Top.kind = kind
Nested(kind) == Depth > 1 /\ Top.kind = kind

\* Whether a statement with the innermost session's context reaches the
\* database.
Usable == alive /\ ~Top.done

Prefix(s, n) == [i \in 1..n |-> s[i]]

Pop == sessions' = Prefix(sessions, Depth - 1)

-----------------------------------------------------------------------------
(* The database *)

\* ROLLBACK TO SAVEPOINT n.
Latest(n) == CHOOSE k \in 1..Len(savepoints) :
                /\ savepoints[k].name = n
                /\ \A j \in (k + 1)..Len(savepoints) : savepoints[j].name # n

RollbackTo(n) ==
    /\ work' = savepoints[Latest(n)].value
    /\ savepoints' = Prefix(savepoints, Latest(n))

\* BEGIN: a connection of the pool, what was committed, no savepoint.
BeginTx(kind) ==
    /\ sessions = <<>>
    /\ sessions' = <<[kind |-> kind, name |-> NoName, done |-> FALSE, sp |-> 0]>>
    /\ work' = committed
    /\ alive' = TRUE
    /\ savepoints' = <<>>
    /\ UNCHANGED <<disabled, committed, late, outcome, leaked>>

\* The outermost session is over; its connection is returned.
EndTx(result, contents) ==
    /\ Pop
    /\ outcome' = result
    /\ committed' = contents
    /\ work' = contents
    /\ savepoints' = <<>>
    /\ late' = NoName
    /\ UNCHANGED <<disabled, alive, leaked>>

\* COMMIT. It fails when the transaction was dropped; an answer that is lost
\* is an error too.
CommitTx ==
    \/ alive /\ EndTx("committed", work)
    \/ alive /\ EndTx("failed", work)
    \/ EndTx("failed", committed)

RollbackTx == EndTx("rolledBack", committed)

-----------------------------------------------------------------------------
(* Begin and Transaction *)

\* SAVEPOINT n, unless nested transactions are disabled. Its error leaves
\* everything as it is, and so does a Begin that fails.
Nest(kind, n) ==
    /\ Depth \in 1..(MaxDepth - 1)
    /\ Usable
    /\ Len(savepoints) < MaxSavepoints
    /\ savepoints' = IF disabled THEN savepoints
                     ELSE Append(savepoints, [name |-> n, value |-> work])
    /\ sessions' = Append(sessions, [kind |-> kind, name |-> n, done |-> FALSE,
                                     sp |-> Len(savepoints) + 1])
    /\ late' = NoName
    /\ UNCHANGED <<disabled, committed, work, alive, outcome, leaked>>

Open(n) == \E i \in 1..Depth : sessions[i].name = n

Begin == BeginTx("manual")

\* Mutant: the savepoint is named after something sessions share.
NestedBeginSharedName(p) == Nest("manual", CHOOSE q \in Pointers : TRUE)

\* The address of a live object: no other open session has it.
NestedBegin(p) == ~Open(p) /\ Nest("manual", p)

Transaction == BeginTx("func")

NestedTransaction(f) ==
    /\ ~Recursive => ~Open(f)
    /\ Nest("func", f)

-----------------------------------------------------------------------------
(* The outermost function ends *)

\* f returns nil.
TransactionCommits == Outer("func") /\ CommitTx

\* Mutant: tx.Rollback() forgotten.
TransactionForgets ==
    /\ Outer("func")
    /\ Pop
    /\ outcome' = "rolledBack"
    /\ work' = committed
    /\ savepoints' = <<>>
    /\ late' = NoName
    /\ leaked' = leaked + 1
    /\ UNCHANGED <<disabled, committed, alive>>

\* f returns an error. The error of the rollback is ignored.
TransactionFails == Outer("func") /\ RollbackTx

\* f panics: nothing commits the transaction, nor rolls it back.
TransactionPanics ==
    /\ Outer("func")
    /\ leaked < MaxLeaks
    /\ Pop
    /\ outcome' = "rolledBack"
    /\ work' = committed
    /\ savepoints' = <<>>
    /\ late' = NoName
    /\ leaked' = leaked + 1
    /\ UNCHANGED <<disabled, committed, alive>>

-----------------------------------------------------------------------------
(* A nested function ends *)

EndNested(result, next) ==
    /\ Pop
    /\ outcome' = result
    /\ late' = next
    /\ UNCHANGED <<disabled, committed, alive, leaked>>

\* RollbackTo is given the session's own context: when that is done, or the
\* transaction was dropped, it returns an error and does nothing.
RollbackNested ==
    /\ IF ~disabled /\ Usable
       THEN RollbackTo(Top.name)
       ELSE UNCHANGED <<work, savepoints>>
    /\ EndNested("rolledBack", NoName)

\* f returns nil: no statement at all.
NestedTransactionReturns ==
    /\ Nested("func")
    /\ EndNested("committed", NoName)
    /\ UNCHANGED <<work, savepoints>>

\* Mutant: without the "panicked" variable.
NestedTransactionOnlyErrors ==
    /\ Nested("func")
    /\ \/ RollbackNested
       \/ EndNested("rolledBack", NoName) /\ UNCHANGED <<work, savepoints>>

\* f returns an error or panics: the error of RollbackTo is ignored.
NestedTransactionFails == Nested("func") /\ RollbackNested

-----------------------------------------------------------------------------
(* Commit and Rollback of a session made by Begin *)

Commit == Outer("manual") /\ CommitTx

Rollback == Outer("manual") /\ RollbackTx

\* A no-op: the changes are those of the transaction around.
NestedCommit ==
    /\ Nested("manual")
    /\ EndNested("committed", Top.name)
    /\ UNCHANGED <<work, savepoints>>

NestedRollback == Nested("manual") /\ RollbackNested

\* defer tx.Rollback(), after Commit: the session does not know that it ended.
RollbackCommitted ==
    /\ late # NoName
    /\ Usable
    /\ late' = NoName
    /\ IF disabled THEN UNCHANGED <<work, savepoints>> ELSE RollbackTo(late)
    /\ UNCHANGED <<disabled, committed, alive, sessions, outcome, leaked>>

-----------------------------------------------------------------------------
(* Everything else *)

\* The application writes with the innermost session.
Write(v) ==
    /\ sessions # <<>>
    /\ Usable
    /\ work' = v
    /\ late' = NoName
    /\ UNCHANGED <<disabled, committed, alive, savepoints, sessions, outcome, leaked>>

\* A context is done, and those made from it.
ContextDone(i) ==
    /\ ~sessions[i].done
    /\ sessions' = [j \in 1..Depth |->
                       IF j >= i THEN [sessions[j] EXCEPT !.done = TRUE] ELSE sessions[j]]
    /\ IF i = 1
       THEN alive' = FALSE /\ work' = committed
       ELSE UNCHANGED <<alive, work>>
    /\ UNCHANGED <<disabled, committed, savepoints, late, outcome, leaked>>

Next ==
    \/ Begin \/ Transaction
    \/ \E p \in Pointers : NestedBegin(p)
    \/ \E f \in Funs : NestedTransaction(f)
    \/ TransactionCommits \/ TransactionFails \/ TransactionPanics
    \/ NestedTransactionReturns \/ NestedTransactionFails
    \/ Commit \/ Rollback \/ NestedCommit \/ NestedRollback \/ RollbackCommitted
    \/ \E v \in Values : Write(v)
    \/ \E i \in 1..Depth : ContextDone(i)

Spec == Init /\ [][Next]_vars

-----------------------------------------------------------------------------
(* Properties *)

\* ROLLBACK TO goes where the session began: the latest savepoint with the
\* name of an open session is the one that session made, although names are
\* used again and no savepoint is ever released.
OwnSavepoint ==
    ~disabled => \A i \in 2..Depth :
        sessions[i].sp \in 1..Len(savepoints) /\ Latest(sessions[i].name) = sessions[i].sp

\* The sessions are nested transactions: what each saw when it began is the
\* value of the savepoint it made, and only the end of its own context can keep
\* one from being rolled back.
Nesting == INSTANCE NestedTransactions WITH
    partial <- ~disabled,
    begun   <- [i \in 1..Depth |->
                   IF i = 1 \/ ~alive \/ disabled THEN committed
                   ELSE savepoints[sessions[i].sp].value],
    expired <- {i \in 2..Depth : sessions[i].done}

NestingSpec == Nesting!Spec

\* session.go:135-136: "If the given function returns an error, the transaction
\* is rolled back", a nested one to where it began, when its context still
\* lets a statement through.
ErrorRollsBack ==
    [][NestedTransactionFails /\ ~disabled /\ Usable =>
           work' = savepoints[Top.sp].value]_vars
=============================================================================

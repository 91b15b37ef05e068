---------------------------- MODULE ServicesProofs ----------------------------
(***************************************************************************)
(* Proofs about what handlers use: no operation on the database, however   *)
(* it is nested, is cancelled by the timeout plugin (Timeouts), pages are  *)
(* exact (Paginator), and so are numbers, however often they are           *)
(* converted (Numbers).                                                    *)
(***************************************************************************)
EXTENDS Timeouts, Paginator, Numbers, WellFoundedInduction, TLAPS

-----------------------------------------------------------------------------
(* The timeout plugin. *)

Operations == [statement : Int, kind : Kinds, context : Nat, stale : BOOLEAN]

TypeInv ==
    /\ owner \in Seq(Int)
    /\ context \in [Statements -> 0..Len(owner)]
    /\ timers \subseteq 1..Len(owner)
    /\ cancelled \subseteq 1..Len(owner)
    /\ running \in Seq(Operations)
    /\ \A i \in DOMAIN running : running[i].context \in 0..Len(owner)

\* Each operation has a statement of its own.
StatementInv ==
    \A i \in DOMAIN running :
        IF i = 1 THEN running[i].statement \in Statements ELSE running[i].statement = Sub(i)

\* A statement of the application has the context of one, not of a sub-statement: it
\* outlives them. An operation has that of its statement, or of an operation around it.
OwnerInv ==
    /\ \A s \in Statements : context[s] # 0 => owner[context[s]] \in Statements
    /\ \A i \in DOMAIN running : running[i].context # 0 =>
         LET o == owner[running[i].context]
         IN  o \in Statements \/ \E j \in 2..i : o = Sub(j)

\* A timer belongs to an operation that will stop it, or that panicked.
TimerInv ==
    \A t \in timers \ abandoned : \E i \in DOMAIN running :
        /\ running[i].context = t /\ running[i].statement = owner[t]
        /\ running[i].kind # "row"

\* What DeadlineKept says of the operations.
LiveInv ==
    \A i \in DOMAIN running :
        LET op == running[i]
        IN  /\ op.context \in cancelled => op.stale /\ ~Timed(op.kind)
            /\ Timed(op.kind) => deadline \/ op.context # 0

IInv == TypeInv /\ StatementInv /\ OwnerInv /\ TimerInv /\ LiveInv

LEMMA InitIInv == TimeoutsInit => IInv
  <1> SUFFICES ASSUME TimeoutsInit PROVE IInv
    OBVIOUS
  <1> USE DEF TimeoutsInit
  <1>1. TypeInv
    BY DEF TypeInv
  <1>2. StatementInv /\ OwnerInv /\ TimerInv /\ LiveInv
    BY DEF StatementInv, OwnerInv, TimerInv, LiveInv
  <1> QED BY <1>1, <1>2 DEF IInv

\* What Start does, whatever statement the operation is on.
LEMMA StartIInv ==
    ASSUME IInv, NEW statement \in Int, NEW kind \in Kinds, NEW inherited \in 0..Len(owner),
           Start(statement, inherited, kind),
           IF running = <<>> THEN statement \in Statements ELSE statement = Sub(Len(running) + 1),
           inherited # 0 =>
              owner[inherited] \in Statements \/ \E j \in 2..Len(running) : owner[inherited] = Sub(j)
    PROVE  IInv'
  <1> DEFINE new == IF Replaced(inherited, kind) THEN Len(owner) + 1 ELSE inherited
             op == [statement |-> statement, kind |-> kind, context |-> new, stale |-> new \in cancelled]
             n == Len(running)
  <1>t. TypeInv
    BY DEF IInv
  <1>1. /\ running' = Append(running, op)
        /\ context' = [s \in Statements |-> IF s = statement THEN new ELSE context[s]]
        /\ IF Replaced(inherited, kind)
             THEN owner' = Append(owner, statement) /\ timers' = timers \cup {new}
             ELSE owner' = owner /\ timers' = timers
        /\ UNCHANGED <<enabled, deadline, cancelled, abandoned>>
    BY DEF Start
  <1>2. n \in Nat /\ Len(owner) \in Nat /\ new \in Nat
    BY <1>t DEF TypeInv
  <1>3. /\ owner' \in Seq(Int) /\ Len(owner) <= Len(owner') /\ new \in 0..Len(owner')
        /\ \A c \in 1..Len(owner) : owner'[c] = owner[c]
        /\ Replaced(inherited, kind) => owner'[new] = statement /\ new \notin cancelled /\ new # 0
    <2>1. owner \in Seq(Int) /\ cancelled \subseteq 1..Len(owner)
      BY <1>t DEF TypeInv
    <2>2. CASE Replaced(inherited, kind)
      <3>1. new = Len(owner) + 1 /\ owner' = Append(owner, statement)
        BY <1>1, <2>2
      <3>2. /\ owner' \in Seq(Int) /\ Len(owner') = Len(owner) + 1
            /\ \A c \in 1..Len(owner) : owner'[c] = owner[c]
            /\ owner'[Len(owner) + 1] = statement
        BY <2>1, <3>1
      <3> HIDE DEF new
      <3> QED BY <1>2, <2>1, <3>1, <3>2
    <2>3. CASE ~Replaced(inherited, kind)
      BY <1>1, <1>2, <2>1, <2>3
    <2> QED BY <2>2, <2>3
  <1>4. op \in Operations
    BY <1>2 DEF Operations
  <1>5. /\ running' \in Seq(Operations) /\ Len(running') = n + 1
        /\ \A i \in 1..n : running'[i] = running[i]
        /\ running'[n + 1] = op
    BY <1>t, <1>1, <1>4 DEF TypeInv
  <1>6. /\ op.statement = statement /\ op.kind = kind /\ op.context = new
        /\ (op.stale <=> new \in cancelled)
    OBVIOUS
  <1>7. ~Replaced(inherited, kind) => new = inherited
    OBVIOUS
  <1> HIDE DEF op, new
  <1>8. DOMAIN running = 1..n /\ DOMAIN running' = 1..(n + 1)
    BY <1>t, <1>5 DEF TypeInv
  <1>9. TypeInv'
    <2>1. context' \in [Statements -> 0..Len(owner')]
      BY <1>t, <1>1, <1>3 DEF TypeInv
    <2>2. timers' \subseteq 1..Len(owner') /\ cancelled' \subseteq 1..Len(owner')
      <3>1. timers \subseteq 1..Len(owner) /\ cancelled \subseteq 1..Len(owner)
        BY <1>t DEF TypeInv
      <3>2. timers' \subseteq timers \cup {new} /\ (timers' = timers \/ new # 0)
        BY <1>1, <1>3
      <3>3. cancelled' = cancelled
        BY <1>1
      <3> QED BY <1>2, <1>3, <3>1, <3>2, <3>3
    <2>3. \A i \in DOMAIN running' : running'[i].context \in 0..Len(owner')
      <3>1. \A i \in 1..n : running[i].context \in 0..Len(owner)
        BY <1>t, <1>8 DEF TypeInv
      <3>2. \A i \in 1..n : running'[i].context \in 0..Len(owner')
        <4> TAKE i \in 1..n
        <4>1. running'[i].context \in 0..Len(owner)
          BY <1>5, <3>1
        <4>2. Len(owner') \in Nat
          BY <1>3
        <4>3. 0..Len(owner) \subseteq 0..Len(owner')
          BY <1>2, <1>3, <4>2
        <4> QED BY <4>1, <4>3
      <3>3. running'[n + 1].context \in 0..Len(owner')
        BY <1>3, <1>5, <1>6
      <3> QED BY <1>2, <1>8, <3>2, <3>3
    <2> QED BY <1>3, <1>5, <2>1, <2>2, <2>3 DEF TypeInv
  <1>10. StatementInv'
    BY <1>2, <1>5, <1>6, <1>8 DEF IInv, StatementInv, Sub
  <1>11. new # 0 => owner'[new] \in Statements \/ \E j \in 2..(n + 1) : owner'[new] = Sub(j)
    <2>1. CASE Replaced(inherited, kind)
      <3>1. n = 0 => running = <<>>
        BY <1>t DEF TypeInv
      <3> QED BY <2>1, <3>1, <1>2, <1>3
    <2>2. CASE ~Replaced(inherited, kind)
      BY <2>2, <1>2, <1>3, <1>7
    <2> QED BY <2>1, <2>2
  <1>12. OwnerInv'
    <2>1. ASSUME NEW s \in Statements, context'[s] # 0
          PROVE  owner'[context'[s]] \in Statements
      <3>1. CASE s = statement
        <4>1. context'[s] = new
          BY <1>1, <3>1
        <4>2. running = <<>>
          BY <3>1, StatementsAssumption, <1>2 DEF Sub
        <4>3. n = 0
          BY <4>2
        <4> QED BY <1>2, <1>11, <2>1, <4>1, <4>3
      <3>2. CASE s # statement
        <4>1. context'[s] = context[s] /\ context[s] \in 1..Len(owner)
          BY <1>1, <1>t, <2>1, <3>2 DEF TypeInv
        <4> QED BY <1>3, <2>1, <4>1 DEF IInv, OwnerInv
      <3> QED BY <3>1, <3>2
    <2>2. ASSUME NEW i \in 1..(n + 1), running'[i].context # 0
          PROVE  LET o == owner'[running'[i].context]
                 IN  o \in Statements \/ \E j \in 2..i : o = Sub(j)
      <3>1. CASE i = n + 1
        BY <1>5, <1>6, <1>11, <2>2, <3>1
      <3>2. CASE i \in 1..n
        <4>1. running'[i] = running[i] /\ running[i].context \in 1..Len(owner)
          BY <1>5, <1>t, <1>8, <2>2, <3>2 DEF TypeInv
        <4> QED BY <1>3, <1>8, <2>2, <3>2, <4>1 DEF IInv, OwnerInv
      <3> QED BY <1>2, <3>1, <3>2
    <2> QED BY <1>8, <2>1, <2>2 DEF OwnerInv
  <1>13. TimerInv'
    <2> SUFFICES ASSUME NEW t \in timers' \ abandoned'
                 PROVE  \E i \in 1..(n + 1) : /\ running'[i].context = t
                                              /\ running'[i].statement = owner'[t]
                                              /\ running'[i].kind # "row"
      BY <1>8 DEF TimerInv
    <2>1. CASE t \in timers
      <3>1. PICK i \in 1..n : /\ running[i].context = t /\ running[i].statement = owner[t]
                              /\ running[i].kind # "row"
        BY <2>1, <1>1, <1>8 DEF IInv, TimerInv
      <3>2. owner'[t] = owner[t]
        BY <2>1, <1>t, <1>3 DEF TypeInv
      <3> QED BY <1>2, <1>5, <3>1, <3>2
    <2>2. CASE t \notin timers
      <3>1. t = new /\ Replaced(inherited, kind)
        BY <2>2, <1>1
      <3>2. kind # "row"
        BY <3>1 DEF Replaced, Timed
      <3>3. running'[n + 1].statement = owner'[t]
        BY <1>3, <1>5, <1>6, <3>1
      <3>4. n + 1 \in 1..(n + 1)
        BY <1>2
      <3>5. running'[n + 1].context = t /\ running'[n + 1].kind # "row"
        BY <1>5, <1>6, <3>1, <3>2
      <3> QED BY <3>3, <3>4, <3>5
    <2> QED BY <2>1, <2>2
  <1>14. LiveInv'
    <2> SUFFICES ASSUME NEW i \in 1..(n + 1)
                 PROVE  /\ running'[i].context \in cancelled => running'[i].stale /\ ~Timed(running'[i].kind)
                        /\ Timed(running'[i].kind) => deadline \/ running'[i].context # 0
      BY <1>1, <1>8 DEF LiveInv, Timed
    <2>1. CASE i = n + 1
      <3>1. Timed(kind) => Replaced(inherited, kind) \/ (inherited = 0 /\ deadline)
        BY DEF Replaced
      <3>2. 0 \notin cancelled
        BY <1>t DEF TypeInv
      <3> QED BY <1>3, <1>5, <1>6, <1>7, <2>1, <3>1, <3>2
    <2>2. CASE i \in 1..n
      BY <1>5, <1>8, <2>2 DEF IInv, LiveInv
    <2> QED BY <1>2, <2>1, <2>2
  <1> QED BY <1>9, <1>10, <1>12, <1>13, <1>14 DEF IInv

LEMMA OperationIInv ==
    ASSUME IInv, NEW s \in Statements, NEW kind \in Kinds, Operation(s, kind)
    PROVE  IInv'
  <1>1. s \in Int /\ context[s] \in 0..Len(owner)
    BY StatementsAssumption DEF IInv, TypeInv
  <1>2. context[s] # 0 => owner[context[s]] \in Statements
    BY DEF IInv, OwnerInv
  <1> QED BY <1>1, <1>2, StartIInv DEF Operation

LEMMA SubOperationIInv ==
    ASSUME IInv, NEW kind \in Kinds, SubOperation(kind)
    PROVE  IInv'
  <1> DEFINE n == Len(running)
             c == running[n].context
  <1>1. running \in Seq(Operations) /\ running # <<>>
    BY DEF IInv, TypeInv, SubOperation
  <1>2. n \in Nat \ {0} /\ n \in DOMAIN running /\ DOMAIN running = 1..n
    BY <1>1
  <1>3. c \in 0..Len(owner)
    BY <1>2 DEF IInv, TypeInv
  <1>4. c # 0 => owner[c] \in Statements \/ \E j \in 2..n : owner[c] = Sub(j)
    BY <1>2 DEF IInv, OwnerInv
  <1>5. Start(Sub(n + 1), c, kind)
    BY DEF SubOperation, Last
  <1>6. Sub(n + 1) \in Int
    BY <1>2 DEF Sub
  <1> HIDE DEF c
  <1> QED BY <1>1, <1>3, <1>4, <1>5, <1>6, StartIInv

\* The last operation ends: the context it cancels is no other's, since its owner is
\* the statement of the last.
LEMMA AfterIInv ==
    ASSUME IInv, After
    PROVE  IInv'
  <1> DEFINE n == Len(running)
             op == running[n]
             c == op.context
             done == IF op.kind # "row" /\ c # 0 THEN {x \in {c} : owner[x] = op.statement} ELSE {}
  <1>t. TypeInv
    BY DEF IInv
  <1>1. /\ running \in Seq(Operations) /\ running # <<>>
        /\ cancelled' = cancelled \cup done
        /\ timers' = timers \ done
        /\ running' = SubSeq(running, 1, n - 1)
        /\ UNCHANGED <<enabled, deadline, context, owner, abandoned>>
    BY <1>t DEF After, Last, Front, TypeInv
  <1>2. n \in Nat \ {0} /\ DOMAIN running = 1..n
    BY <1>1
  <1>3. /\ running' \in Seq(Operations) /\ DOMAIN running' = 1..(n - 1)
        /\ \A i \in 1..(n - 1) : running'[i] = running[i]
    BY <1>1, <1>2
  <1>4. \A x \in done : x = c /\ c # 0 /\ owner[c] = op.statement
    OBVIOUS
  <1>5. op.kind # "row" /\ c # 0 /\ owner[c] = op.statement => c \in done
    OBVIOUS
  <1>6. c \in 0..Len(owner) /\ op \in Operations
    BY <1>t, <1>1, <1>2 DEF TypeInv
  <1> HIDE DEF done, c
  <1>7. TypeInv'
    <2>1. done \subseteq 1..Len(owner)
      BY <1>4, <1>6
    <2> QED BY <1>t, <1>1, <1>2, <1>3, <2>1 DEF TypeInv
  <1>8. StatementInv'
    BY <1>2, <1>3 DEF IInv, StatementInv
  <1>9. OwnerInv'
    BY <1>1, <1>2, <1>3 DEF IInv, OwnerInv
  <1>10. ASSUME NEW i \in 1..(n - 1), running[i].context \in done
         PROVE  FALSE
    <2>1. running[i].context = c /\ c # 0 /\ owner[c] = op.statement
      BY <1>4, <1>10
    <2>2. owner[c] = Sub(n)
      BY <1>2, <2>1 DEF IInv, StatementInv
    <2>3. owner[c] \in Statements \/ \E j \in 2..i : owner[c] = Sub(j)
      BY <1>2, <2>1 DEF IInv, OwnerInv
    <2> QED BY <1>2, <2>2, <2>3, StatementsAssumption DEF Sub
  <1>11. TimerInv'
    <2> SUFFICES ASSUME NEW t \in timers', t \notin abandoned
                 PROVE  \E i \in 1..(n - 1) : /\ running[i].context = t
                                              /\ running[i].statement = owner[t]
                                              /\ running[i].kind # "row"
      <3>1. (timers \ abandoned)' = timers' \ abandoned /\ owner' = owner
        BY <1>1
      <3>2. ASSUME NEW t \in timers' \ abandoned
            PROVE  \E i \in DOMAIN running' : /\ running'[i].context = t /\ running'[i].statement = owner[t]
                                              /\ running'[i].kind # "row"
        BY <1>3
      <3> QED BY <3>1, <3>2 DEF TimerInv
    <2>1. PICK i \in 1..n : /\ running[i].context = t /\ running[i].statement = owner[t]
                            /\ running[i].kind # "row"
      BY <1>1, <1>2 DEF IInv, TimerInv
    <2>2. t # 0
      BY <1>1, <1>t DEF TypeInv
    <2>3. i # n
      <3> SUFFICES ASSUME i = n PROVE FALSE
        OBVIOUS
      <3>1. t = c /\ op.statement = owner[t] /\ op.kind # "row"
        BY <2>1 DEF c
      <3>2. c \in done
        BY <1>5, <2>2, <3>1
      <3> QED BY <1>1, <3>1, <3>2
    <2>4. i \in 1..(n - 1)
      <3> HIDE DEF n
      <3> QED BY <1>2, <2>3
    <2> QED BY <2>1, <2>4
  <1>12. LiveInv'
    <2> SUFFICES ASSUME NEW i \in 1..(n - 1)
                 PROVE  /\ running[i].context \in cancelled' => running[i].stale /\ ~Timed(running[i].kind)
                        /\ Timed(running[i].kind) => deadline \/ running[i].context # 0
      BY <1>1, <1>3 DEF LiveInv, Timed
    <2>1. running[i].context \in cancelled' => running[i].context \in cancelled
      BY <1>1, <1>10
    <2> QED BY <1>2, <2>1 DEF IInv, LiveInv
  <1> QED BY <1>7, <1>8, <1>9, <1>11, <1>12 DEF IInv

\* What else happens: a panic, a deadline, a statement made from another.
LEMMA OutsideIInv ==
    ASSUME IInv, Panic \/ (\E c \in 1..MaxContexts : Expire(c)) \/ (\E s, t \in Statements : Derive(s, t))
    PROVE  IInv'
  <1>1. CASE Panic
    <2>1. /\ running' = <<>> /\ abandoned' = abandoned \cup timers
          /\ UNCHANGED <<enabled, deadline, context, owner, timers, cancelled>>
      BY <1>1 DEF Panic
    <2>2. TypeInv'
      BY <2>1 DEF IInv, TypeInv
    <2>3. StatementInv' /\ LiveInv'
      BY <2>1 DEF StatementInv, LiveInv
    <2>4. OwnerInv' /\ TimerInv'
      BY <2>1 DEF IInv, OwnerInv, TimerInv
    <2> QED BY <2>2, <2>3, <2>4 DEF IInv
  <1>2. CASE \E c \in 1..MaxContexts : Expire(c)
    <2>1. PICK c \in 1..MaxContexts : Expire(c)
      BY <1>2
    <2>2. /\ timers' = timers \ {c}
          /\ UNCHANGED <<enabled, deadline, context, owner, cancelled, abandoned, running>>
      BY <2>1 DEF Expire
    <2>3. TypeInv' /\ StatementInv'
      BY <2>2 DEF IInv, TypeInv, StatementInv
    <2>4. OwnerInv' /\ TimerInv' /\ LiveInv'
      BY <2>2 DEF IInv, OwnerInv, TimerInv, LiveInv, Timed
    <2> QED BY <2>3, <2>4 DEF IInv
  <1>3. CASE \E s, t \in Statements : Derive(s, t)
    <2>1. PICK s \in Statements, t \in Statements : Derive(s, t)
      BY <1>3
    <2>2. /\ context' = [context EXCEPT ![s] = context[t]]
          /\ UNCHANGED <<enabled, deadline, owner, timers, cancelled, abandoned, running>>
      BY <2>1 DEF Derive
    <2>3. context \in [Statements -> 0..Len(owner)]
      BY DEF IInv, TypeInv
    <2>4. /\ context' \in [Statements -> 0..Len(owner)]
          /\ \A u \in Statements : context'[u] = IF u = s THEN context[t] ELSE context[u]
      BY <2>2, <2>3
    <2>5. TypeInv' /\ StatementInv'
      BY <2>2, <2>4 DEF IInv, TypeInv, StatementInv
    <2>6. OwnerInv'
      BY <2>2, <2>4 DEF IInv, OwnerInv
    <2>7. TimerInv' /\ LiveInv'
      BY <2>2 DEF IInv, TimerInv, LiveInv, Timed
    <2> QED BY <2>5, <2>6, <2>7 DEF IInv
  <1> QED BY <1>1, <1>2, <1>3

LEMMA StepIInv == IInv /\ [TimeoutsNext]_timeoutsVars => IInv'
  <1> SUFFICES ASSUME IInv, [TimeoutsNext]_timeoutsVars PROVE IInv'
    OBVIOUS
  <1>1. CASE \E kind \in Kinds : (\E s \in Statements : Operation(s, kind)) \/ SubOperation(kind)
    BY <1>1, OperationIInv, SubOperationIInv
  <1>2. CASE After
    BY <1>2, AfterIInv
  <1>3. CASE Panic \/ (\E c \in 1..MaxContexts : Expire(c)) \/ (\E s, t \in Statements : Derive(s, t))
    BY <1>3, OutsideIInv
  <1>4. CASE UNCHANGED timeoutsVars
    <2>1. TypeInv' /\ StatementInv' /\ OwnerInv'
      BY <1>4 DEF timeoutsVars, IInv, TypeInv, StatementInv, OwnerInv
    <2>2. TimerInv' /\ LiveInv'
      BY <1>4 DEF timeoutsVars, IInv, TimerInv, LiveInv, Timed
    <2> QED BY <2>1, <2>2 DEF IInv
  <1> QED BY <1>1, <1>2, <1>3, <1>4 DEF TimeoutsNext

\* However operations nest, fail, panic and use statements again, the plugin cancels
\* the context of no running operation, and no timer is forgotten (timeout.go:114).
THEOREM DeadlineKeptHolds == TimeoutsSpec => []DeadlineKept
  <1>1. IInv => DeadlineKept
    BY DEF IInv, TimerInv, LiveInv, DeadlineKept
  <1> QED BY <1>1, InitIInv, StepIInv, PTL DEF TimeoutsSpec

-----------------------------------------------------------------------------
(* The paginator. *)

LEMMA QuotientBounds ==
    ASSUME NEW a \in Nat, NEW s \in Nat \ {0}
    PROVE  a \div s \in Nat /\ s * (a \div s) <= a /\ a < s * (a \div s) + s
  OBVIOUS

LEMMA MultiplesApart ==
    ASSUME NEW s \in Nat \ {0}, NEW p \in Int, NEW q \in Int, p < q
    PROVE  s * p + s <= s * q
  <1>1. PICK d \in Nat : q = p + 1 + d
    <2>1. q - p - 1 \in Nat /\ q = p + 1 + (q - p - 1)
      OBVIOUS
    <2> QED BY <2>1
  <1>2. s * q = s * p + s + s * d /\ s * d >= 0
    BY <1>1
  <1> QED BY <1>2

LEMMA QuotientUnique ==
    ASSUME NEW a \in Nat, NEW s \in Nat \ {0}, NEW q \in Int, s * q <= a, a < s * q + s
    PROVE  a \div s = q
  <1> DEFINE p == a \div s
  <1>1. p \in Int /\ s * p <= a /\ a < s * p + s
    BY QuotientBounds
  <1> HIDE DEF p
  <1>2. ~(p < q) /\ ~(q < p)
    BY <1>1, MultiplesApart
  <1>3. p = q
    BY <1>1, <1>2
  <1> QED BY <1>3 DEF p

\* A row is on the page whose offset is below it, by at most the size.
LEMMA PageOfRow ==
    ASSUME size \in Nat \ {0}, NEW i \in Nat \ {0}, NEW p \in Int
    PROVE  PageOf(i) = p <=> (p - 1) * size < i /\ i <= (p - 1) * size + size
  <1>1. i - 1 \in Nat /\ p - 1 \in Int
    OBVIOUS
  <1>2. ASSUME PageOf(i) = p
        PROVE  (p - 1) * size < i /\ i <= (p - 1) * size + size
    <2>1. (i - 1) \div size = p - 1
      BY <1>1, <1>2, QuotientBounds DEF PageOf
    <2>2. size * (p - 1) <= i - 1 /\ i - 1 < size * (p - 1) + size
      BY <1>1, <2>1, QuotientBounds
    <2> QED BY <2>2
  <1>3. ASSUME (p - 1) * size < i, i <= (p - 1) * size + size
        PROVE  PageOf(i) = p
    <2>1. size * (p - 1) <= i - 1 /\ i - 1 < size * (p - 1) + size
      BY <1>3
    <2>2. (i - 1) \div size = p - 1
      BY <1>1, <2>1, QuotientUnique
    <2> QED BY <2>2 DEF PageOf
  <1> QED BY <1>2, <1>3

\* The last page is that of the last row.
LEMMA LastPage ==
    ASSUME size \in Nat \ {0}, NEW n \in Nat
    PROVE  /\ PageInfo(n).total = n
           /\ PageInfo(n).loaded
           /\ PageInfo(n).maxPage = IF n = 0 THEN 1 ELSE PageOf(n)
  <1> DEFINE c == (n + size - 1) \div size
  <1>1. /\ PageInfo(n).total = n /\ PageInfo(n).loaded
        /\ PageInfo(n).maxPage = IF c = 0 THEN 1 ELSE c
    BY DEF PageInfo
  <1>2. n + size - 1 \in Nat
    OBVIOUS
  <1>3. CASE n = 0
    <2>1. size * 0 <= n + size - 1 /\ n + size - 1 < size * 0 + size
      BY <1>3
    <2>2. c = 0
      BY <1>2, <2>1, QuotientUnique
    <2> QED BY <1>1, <1>3, <2>2
  <1>4. CASE n # 0
    <2> DEFINE q == (n - 1) \div size
    <2>1. q \in Nat /\ size * q <= n - 1 /\ n - 1 < size * q + size
      BY <1>4, QuotientBounds
    <2> HIDE DEF q
    <2>2. size * (q + 1) <= n + size - 1 /\ n + size - 1 < size * (q + 1) + size
      <3>1. size * (q + 1) = size * q + size
        BY <2>1
      <3> QED BY <2>1, <3>1
    <2>3. c = q + 1
      BY <1>2, <2>1, <2>2, QuotientUnique
    <2>4. PageOf(n) = q + 1
      BY DEF PageOf, q
    <2> QED BY <1>1, <1>4, <2>1, <2>3, <2>4
  <1> QED BY <1>3, <1>4

\* A table is its rows in order.
Table(t) == t \in Seq(Nat) /\ \A i \in 1..Len(t) : t[i] = i

LEMMA SelectedRows ==
    ASSUME size \in Nat \ {0}, page \in Int, page > 0, ~Overflows, Table(rows)
    PROVE  /\ {Selected[i] : i \in DOMAIN Selected}
                = {rows[i] : i \in {j \in DOMAIN rows : PageOf(j) = page}}
           /\ \A i, j \in DOMAIN Selected : i < j => Selected[i] < Selected[j]
  <1> DEFINE from == (page - 1) * size
             n == Len(rows)
             to == IF from + size < n THEN from + size ELSE n
  <1>1. page - 1 \in Nat /\ n \in Nat /\ DOMAIN rows = 1..n /\ rows \in Seq(Nat)
    BY DEF Table
  <1>2. from \in Nat
    BY <1>1
  <1>3. Selected = SubSeq(rows, from + 1, to)
    <2>1. Wrapped(from) = from
      BY DEF Overflows
    <2>2. (IF from > 0 THEN from ELSE 0) = from
      BY <1>2
    <2> QED BY <2>1, <2>2 DEF Selected
  <1> HIDE DEF from
  <1>4. to \in Nat /\ to <= n /\ to <= from + size
    BY <1>1, <1>2
  <1>5. \A i \in 1..n : PageOf(i) = page <=> from < i /\ i <= to
    <2> TAKE i \in 1..n
    <2>1. PageOf(i) = page <=> from < i /\ i <= from + size
      BY <1>1, PageOfRow DEF from
    <2> QED BY <1>1, <1>2, <2>1
  <1> HIDE DEF to
  <1> DEFINE s == Selected
             m == IF to < from THEN 0 ELSE to - from
  <1>6. m \in Nat /\ DOMAIN s = 1..m /\ \A i \in 1..m : s[i] = rows[from + i]
    BY <1>1, <1>2, <1>3, <1>4
  <1>7. \A i \in 1..m : from + i \in 1..n /\ from < from + i /\ from + i <= to
    BY <1>1, <1>2, <1>4
  <1>8. \A i \in 1..m : s[i] = from + i
    BY <1>6, <1>7, <1>1 DEF Table
  <1>9. ASSUME NEW i \in 1..n, from < i, i <= to
        PROVE  i - from \in 1..m /\ s[i - from] = i
    BY <1>2, <1>4, <1>8, <1>9
  <1> HIDE DEF s, m
  <1>10. {s[i] : i \in 1..m} = {i \in 1..n : from < i /\ i <= to}
    <2>1. \A i \in 1..m : s[i] \in {j \in 1..n : from < j /\ j <= to}
      BY <1>7, <1>8
    <2>2. \A i \in {j \in 1..n : from < j /\ j <= to} : \E k \in 1..m : s[k] = i
      BY <1>9
    <2> QED BY <2>1, <2>2
  <1>11. {rows[i] : i \in {j \in DOMAIN rows : PageOf(j) = page}} = {i \in 1..n : from < i /\ i <= to}
    BY <1>1, <1>5 DEF Table
  <1>12. \A i, j \in 1..m : i < j => s[i] < s[j]
    BY <1>2, <1>6, <1>8
  <1> QED BY <1>6, <1>10, <1>11, <1>12 DEF s

\* What is known of the pages is what was counted.
PagesInv ==
    /\ size \in Nat \ {0} /\ page \in Int
    /\ Table(rows) /\ Table(counted)
    /\ info \in [total : Int, maxPage : Int, loaded : BOOLEAN]
    /\ info.loaded => info = PageInfo(Len(counted))
    /\ PageExact

LEMMA PageInfoType ==
    ASSUME size \in Nat \ {0}, NEW n \in Nat
    PROVE  PageInfo(n) \in [total : Int, maxPage : Int, loaded : BOOLEAN]
  <1> DEFINE c == (n + size - 1) \div size
  <1>1. n + size - 1 \in Nat
    OBVIOUS
  <1>2. c \in Int
    BY <1>1, QuotientBounds
  <1> HIDE DEF c
  <1>3. PageInfo(n) = [total |-> n, maxPage |-> IF c = 0 THEN 1 ELSE c, loaded |-> TRUE]
    BY DEF PageInfo, c
  <1> QED BY <1>2, <1>3

LEMMA InitPages ==
    ASSUME PaginatorInit
    PROVE  PagesInv
  <1> USE PagesAssumption, SizesAssumption, WordAssumption DEF PaginatorInit
  <1>1. size \in Nat \ {0} /\ page \in Int
    OBVIOUS
  <1>2. PICK n \in 0..MaxRows : rows = [i \in 1..n |-> i]
    OBVIOUS
  <1>3. Table(rows)
    BY <1>2 DEF Table
  <1>4. /\ Table(counted) /\ ~info.loaded /\ found # "ok"
        /\ info \in [total : Int, maxPage : Int, loaded : BOOLEAN]
    BY DEF Table
  <1> QED BY <1>1, <1>3, <1>4 DEF PagesInv, PageExact

LEMMA StepPages ==
    ASSUME PagesInv, [PaginatorNext]_paginatorVars
    PROVE  PagesInv'
  <1>1. size \in Nat \ {0} /\ page \in Int /\ Table(rows) /\ Table(counted)
    BY DEF PagesInv
  <1>2. Len(rows) \in Nat /\ Len(counted) \in Nat
    BY <1>1 DEF Table
  <1>0. info \in [total : Int, maxPage : Int, loaded : BOOLEAN]
    BY DEF PagesInv
  <1>p. PageInfo(Len(rows)) \in [total : Int, maxPage : Int, loaded : BOOLEAN]
    BY <1>1, <1>2, PageInfoType
  <1>3. CASE UpdatePageInfo
    <2>1. /\ found' = found /\ found = "none"
          /\ UNCHANGED <<rows, page, size>>
          /\ \/ info' = PageInfo(Len(rows)) /\ counted' = rows
             \/ UNCHANGED <<info, counted>>
      BY <1>3 DEF UpdatePageInfo
    <2>2. info'.loaded => info' = PageInfo(Len(counted'))
      BY <2>1 DEF PagesInv
    <2>3. info' \in [total : Int, maxPage : Int, loaded : BOOLEAN]
      BY <1>0, <1>p, <2>1
    <2> QED BY <1>1, <2>1, <2>2, <2>3 DEF PagesInv, PageExact, PageInfo
  <1>4. CASE Find
    <2>1. /\ UNCHANGED <<rows, page, size>>
          /\ records' = Selected /\ found' = "ok"
          /\ \/ info.loaded /\ UNCHANGED <<info, counted>>
             \/ info' = PageInfo(Len(rows)) /\ counted' = rows
      BY <1>4 DEF Find
    <2>2. info' = PageInfo(Len(counted')) /\ Table(counted')
      BY <1>1, <2>1 DEF PagesInv
    <2>3. PageExact'
      <3>1. info'.total = Len(counted') /\ info'.maxPage = IF Len(counted') = 0 THEN 1 ELSE PageOf(Len(counted'))
        BY <1>1, <2>2, LastPage DEF Table
      <3>2. Len(counted') = 0 <=> counted' = <<>>
        BY <2>2 DEF Table
      <3>3. page > 0 /\ ~Overflows =>
              /\ {records'[i] : i \in DOMAIN records'} = {rows[i] : i \in {j \in DOMAIN rows : PageOf(j) = page}}
              /\ \A i, j \in DOMAIN records' : i < j => records'[i] < records'[j]
        BY <1>1, <2>1, SelectedRows
      <3> QED BY <2>1, <3>1, <3>2, <3>3 DEF PageExact, PageOf, Overflows
    <2>4. info' \in [total : Int, maxPage : Int, loaded : BOOLEAN]
      BY <1>0, <1>p, <2>1
    <2> QED BY <1>1, <2>1, <2>2, <2>3, <2>4 DEF PagesInv, PageInfo
  <1>5. CASE FindFails
    <2>1. /\ UNCHANGED <<rows, page, size>> /\ found' = "error"
          /\ counted' \in {counted, rows}
          /\ \/ info' = [info EXCEPT !.loaded = FALSE]
             \/ info' = [PageInfo(Len(rows)) EXCEPT !.loaded = FALSE]
      BY <1>5 DEF FindFails
    <2>2. info' \in [total : Int, maxPage : Int, loaded : BOOLEAN] /\ ~info'.loaded
      BY <1>0, <1>p, <2>1
    <2>3. Table(counted')
      BY <1>1, <2>1
    <2> QED BY <1>1, <2>1, <2>2, <2>3 DEF PagesInv, PageExact
  <1>6. CASE Insert \/ Delete
    <2>1. /\ found = "none" /\ UNCHANGED <<page, size, info, counted, records, found>>
          /\ \/ rows' = Append(rows, Len(rows) + 1)
             \/ rows # <<>> /\ rows' = [i \in 1..(Len(rows) - 1) |-> i]
      BY <1>6 DEF Insert, Delete
    <2>2. Table(rows')
      <3>1. CASE rows' = Append(rows, Len(rows) + 1)
        BY <1>1, <3>1 DEF Table
      <3>2. CASE rows # <<>> /\ rows' = [i \in 1..(Len(rows) - 1) |-> i]
        <4>1. Len(rows) - 1 \in Nat
          BY <1>1, <3>2 DEF Table
        <4> QED BY <3>2, <4>1 DEF Table
      <3> QED BY <2>1, <3>1, <3>2
    <2> QED BY <1>0, <1>1, <2>1, <2>2 DEF PagesInv, PageExact, PageInfo
  <1>7. CASE UNCHANGED paginatorVars
    BY <1>7 DEF paginatorVars, PagesInv, PageExact, PageInfo, PageOf, Overflows, Wrapped
  <1> QED BY <1>3, <1>4, <1>5, <1>6, <1>7 DEF PaginatorNext

\* However the table changes between the calls, a page that was found has the rows of
\* that page, and the number of pages is that of the last row counted (paginator.go:70):
\* for every size and every page whose offset does not overflow.
THEOREM PageExactHolds == PaginatorSpec => []PageExact
  <1>1. PaginatorInit => PagesInv
    BY InitPages
  <1>2. PagesInv /\ [PaginatorNext]_paginatorVars => PagesInv'
    BY StepPages
  <1>3. PagesInv => PageExact
    BY DEF PagesInv
  <1> QED BY <1>1, <1>2, <1>3, PTL DEF PaginatorSpec

-----------------------------------------------------------------------------
(* Powers of two. *)

LEMMA LeastNumber ==
    ASSUME NEW S, S \subseteq Nat, S # {}
    PROVE  \E n \in S : \A m \in S : n <= m
  <1> DEFINE Less == {p \in Nat \X Nat : p[1] < p[2]}
  <1>1. OpToRel(<, Nat) = Less
    BY DEF OpToRel
  <1>2. IsWellFoundedOn(Less, Nat)
    BY <1>1, NatLessThanWellFounded
  <1> HIDE DEF Less
  <1>3. PICK n \in S : \A m \in S : ~(<<m, n>> \in Less)
    BY <1>2, WFMin
  <1>4. ASSUME NEW m \in S PROVE n <= m
    <2>1. m \in Nat /\ n \in Nat /\ ~(m < n)
      BY <1>3 DEF Less
    <2> QED BY <2>1
  <1> QED BY <1>4

\* What is true of 0, and of a number if it is of the one before, is true of all.
LEMMA Induction ==
    ASSUME NEW S, 0 \in S, \A n \in Nat : n \in S => n + 1 \in S
    PROVE  Nat \subseteq S
  <1> DEFINE Bad == Nat \ S
  <1> SUFFICES ASSUME Bad # {} PROVE FALSE
    OBVIOUS
  <1>1. PICK n \in Bad : \A m \in Bad : n <= m
    <2>1. Bad \subseteq Nat
      OBVIOUS
    <2> HIDE DEF Bad
    <2> QED BY <2>1, LeastNumber
  <1>2. n \in Nat /\ n \notin S /\ n # 0
    BY <1>1
  <1>3. n - 1 \in Nat /\ n - 1 \notin Bad
    BY <1>1, <1>2
  <1>4. n - 1 + 1 \in S
    BY <1>3
  <1> QED BY <1>2, <1>4

\* The powers up to one of them, which are what they are however many more there are.
Powers(f, k) == f \in [0..k -> Nat] /\ f[0] = 1 /\ \A n \in 1..k : f[n] = 2 * f[n - 1]

LEMMA PowersExist == ASSUME NEW k \in Nat PROVE \E f : Powers(f, k)
  <1> DEFINE S == {n \in Nat : \E f : Powers(f, n)}
  <1>1. 0 \in S
    <2>1. Powers([n \in 0..0 |-> 1], 0)
      BY DEF Powers
    <2> QED BY <2>1
  <1>2. ASSUME NEW n \in Nat, n \in S PROVE n + 1 \in S
    <2>1. PICK f : Powers(f, n)
      BY <1>2
    <2> DEFINE g == [i \in 0..(n + 1) |-> IF i = n + 1 THEN 2 * f[n] ELSE f[i]]
    <2>2. g \in [0..(n + 1) -> Nat] /\ g[0] = 1
      BY <2>1 DEF Powers
    <2>3. ASSUME NEW i \in 1..(n + 1) PROVE g[i] = 2 * g[i - 1]
      BY <2>1 DEF Powers
    <2>4. Powers(g, n + 1)
      BY <2>2, <2>3 DEF Powers
    <2> QED BY <2>4
  <1> HIDE DEF S
  <1>3. k \in S
    BY <1>1, <1>2, Induction
  <1> QED BY <1>3 DEF S

LEMMA PowersUnique ==
    ASSUME NEW j \in Nat, NEW k \in Nat, NEW f, NEW g, Powers(f, j), Powers(g, k), j <= k
    PROVE  f[j] = g[j]
  <1> DEFINE S == {n \in Nat : n <= j => f[n] = g[n]}
  <1>1. 0 \in S
    BY DEF Powers
  <1>2. ASSUME NEW n \in Nat, n \in S PROVE n + 1 \in S
    <2>1. CASE n + 1 <= j
      <3>1. n + 1 \in 1..j /\ n + 1 \in 1..k /\ n + 1 - 1 = n
        BY <2>1
      <3>2. f[n + 1] = 2 * f[n] /\ g[n + 1] = 2 * g[n]
        BY <3>1 DEF Powers
      <3> QED BY <1>2, <2>1, <3>2
    <2> QED BY <2>1
  <1> HIDE DEF S
  <1>3. j \in S
    BY <1>1, <1>2, Induction
  <1> QED BY <1>3 DEF S

\* Power is what it is defined as: its powers of two exist.
LEMMA PowerIs ==
    /\ Power \in [Nat -> Nat]
    /\ Power[0] = 1
    /\ \A k \in Nat : Power[k + 1] = 2 * Power[k]
  <1> DEFINE Is(f) == f = [k \in Nat |-> IF k = 0 THEN 1 ELSE 2 * f[k - 1]]
             G == [k \in Nat |-> (CHOOSE f : Powers(f, k))[k]]
  <1>1. \A k \in Nat : \A f : Powers(f, k) => G[k] = f[k]
    <2> SUFFICES ASSUME NEW k \in Nat, NEW f, Powers(f, k) PROVE G[k] = f[k]
      OBVIOUS
    <2> DEFINE c == CHOOSE g : Powers(g, k)
    <2>1. Powers(c, k)
      OBVIOUS
    <2> HIDE DEF c
    <2>2. c[k] = f[k]
      BY <2>1, PowersUnique
    <2> QED BY <2>2 DEF c
  <1>2. G \in [Nat -> Nat] /\ G[0] = 1 /\ \A k \in Nat : G[k + 1] = 2 * G[k]
    <2>1. DOMAIN G = Nat /\ G = [k \in Nat |-> G[k]]
      OBVIOUS
    <2> HIDE DEF G
    <2>2. ASSUME NEW k \in Nat PROVE G[k] \in Nat /\ G[k + 1] = 2 * G[k]
      <3>1. PICK f : Powers(f, k + 1)
        BY PowersExist
      <3>2. PICK h : Powers(h, k)
        BY PowersExist
      <3>3. h[k] = f[k]
        BY <3>1, <3>2, PowersUnique
      <3>4. G[k + 1] = f[k + 1] /\ G[k] = f[k]
        BY <1>1, <3>1, <3>2, <3>3
      <3>5. k \in 0..(k + 1) /\ k + 1 \in 1..(k + 1) /\ k + 1 - 1 = k
        OBVIOUS
      <3>6. f[k + 1] = 2 * f[k] /\ f[k] \in Nat
        BY <3>1, <3>5 DEF Powers
      <3> QED BY <3>4, <3>6
    <2>3. G[0] = 1
      <3>1. PICK f : Powers(f, 0)
        BY PowersExist
      <3> QED BY <1>1, <3>1 DEF Powers
    <2> QED BY <2>1, <2>2, <2>3
  <1> HIDE DEF G
  <1>3. Is(G)
    <2>1. ASSUME NEW k \in Nat PROVE G[k] = IF k = 0 THEN 1 ELSE 2 * G[k - 1]
      <3>1. CASE k # 0
        <4>1. k - 1 \in Nat /\ k - 1 + 1 = k
          BY <3>1
        <4> QED BY <1>2, <3>1, <4>1
      <3> QED BY <1>2, <3>1
    <2> QED BY <1>2, <2>1
  <1>4. Power = CHOOSE f : Is(f)
    BY DEF Power
  <1>5. Is(Power)
    BY <1>3, <1>4
  <1> HIDE DEF Is
  <1>6. \A k \in Nat : Power[k] = IF k = 0 THEN 1 ELSE 2 * Power[k - 1]
    BY <1>5 DEF Is
  <1>7. DOMAIN Power = Nat /\ Power = [k \in Nat |-> Power[k]]
    <2>1. Power = [k \in Nat |-> IF k = 0 THEN 1 ELSE 2 * Power[k - 1]]
      BY <1>5 DEF Is
    <2> QED BY <2>1
  <1>8. Power[0] = 1 /\ \A k \in Nat : Power[k + 1] = 2 * Power[k]
    <2>1. \A k \in Nat : k + 1 \in Nat /\ k + 1 # 0 /\ k + 1 - 1 = k
      OBVIOUS
    <2> QED BY <1>6, <2>1
  <1>9. Nat \subseteq {k \in Nat : Power[k] \in Nat}
    <2> DEFINE S == {k \in Nat : Power[k] \in Nat}
    <2>1. 0 \in S /\ \A k \in Nat : k \in S => k + 1 \in S
      BY <1>8
    <2> HIDE DEF S
    <2> QED BY <2>1, Induction DEF S
  <1> QED BY <1>7, <1>8, <1>9

LEMMA PowerPositive == \A k \in Nat : Power[k] \in Nat \ {0}
  <1> DEFINE S == {k \in Nat : Power[k] # 0}
  <1>1. 0 \in S /\ \A k \in Nat : k \in S => k + 1 \in S
    BY PowerIs
  <1> HIDE DEF S
  <1>2. Nat \subseteq S
    BY <1>1, Induction
  <1> QED BY <1>2, PowerIs DEF S

\* A power is a multiple of those below it.
LEMMA PowerDivides ==
    ASSUME NEW j \in Nat, NEW k \in Nat, j <= k
    PROVE  \E c \in Nat \ {0} : Power[k] = c * Power[j]
  <1> DEFINE S == {d \in Nat : \E c \in Nat \ {0} : Power[j + d] = c * Power[j]}
  <1>1. 0 \in S
    <2>1. Power[j + 0] = 1 * Power[j]
      BY PowerPositive
    <2> QED BY <2>1
  <1>2. ASSUME NEW d \in Nat, d \in S PROVE d + 1 \in S
    <2>1. PICK c \in Nat \ {0} : Power[j + d] = c * Power[j]
      BY <1>2
    <2>2. Power[j + (d + 1)] = 2 * Power[j + d]
      <3>1. j + (d + 1) = (j + d) + 1 /\ j + d \in Nat
        OBVIOUS
      <3> QED BY <3>1, PowerIs
    <2>3. Power[j] \in Nat
      BY PowerPositive
    <2>4. Power[j + (d + 1)] = (2 * c) * Power[j] /\ 2 * c \in Nat \ {0}
      BY <2>1, <2>2, <2>3
    <2> QED BY <2>4
  <1> HIDE DEF S
  <1>3. k - j \in S
    BY <1>1, <1>2, Induction
  <1>4. j + (k - j) = k
    OBVIOUS
  <1> QED BY <1>3, <1>4 DEF S

LEMMA TimesAtLeast ==
    ASSUME NEW c \in Nat \ {0}, NEW s \in Nat
    PROVE  s <= c * s
  <1>1. c - 1 \in Nat /\ c * s = (c - 1) * s + s
    OBVIOUS
  <1>2. (c - 1) * s >= 0
    BY <1>1
  <1> QED BY <1>1, <1>2

LEMMA PowerGrows ==
    ASSUME NEW j \in Nat, NEW k \in Nat, j <= k
    PROVE  Power[j] <= Power[k]
  <1>1. PICK c \in Nat \ {0} : Power[k] = c * Power[j]
    BY PowerDivides
  <1> QED BY <1>1, TimesAtLeast, PowerPositive

LEMMA PowerAbove == \A k \in Nat : k < Power[k]
  <1> DEFINE S == {k \in Nat : k < Power[k]}
  <1>1. 0 \in S
    BY PowerIs
  <1>2. ASSUME NEW k \in Nat, k \in S PROVE k + 1 \in S
    BY <1>2, PowerIs
  <1> HIDE DEF S
  <1>3. Nat \subseteq S
    BY <1>1, <1>2, Induction
  <1> QED BY <1>3 DEF S

-----------------------------------------------------------------------------
(* Rounding. *)

IsExponent(m, a, e) == e \in Nat /\ a <= Power[m + e] /\ (e = 0 \/ a > Power[m + e - 1])

\* The smallest exponent is below the number, and there is no other.
LEMMA ExponentExists ==
    ASSUME NEW m \in Nat, NEW a \in Nat
    PROVE  \E e \in 0..a : IsExponent(m, a, e)
  <1> DEFINE S == {e \in Nat : a <= Power[m + e]}
  <1>1. a \in S
    <2>1. a < Power[a] /\ Power[a] <= Power[m + a]
      BY PowerAbove, PowerGrows
    <2> QED BY <2>1, PowerPositive
  <1>2. PICK e \in S : \A d \in S : e <= d
    <2>1. S \subseteq Nat
      OBVIOUS
    <2> HIDE DEF S
    <2> QED BY <1>1, <2>1, LeastNumber
  <1>3. e = 0 \/ a > Power[m + e - 1]
    <2>1. CASE e # 0
      <3>1. e - 1 \in Nat /\ e - 1 \notin S /\ m + (e - 1) = m + e - 1
        BY <1>2, <2>1
      <3>2. Power[m + e - 1] \in Nat
        <4>1. m + e - 1 \in Nat
          BY <3>1
        <4> QED BY <4>1, PowerPositive
      <3> QED BY <3>1, <3>2
    <2> QED BY <2>1
  <1>4. e \in 0..a /\ IsExponent(m, a, e)
    BY <1>1, <1>2, <1>3 DEF IsExponent
  <1> QED BY <1>4

\* The exponent of a smaller number is no larger.
LEMMA ExponentGrows ==
    ASSUME NEW m \in Nat, NEW a \in Nat, NEW b \in Nat, NEW d, NEW e,
           IsExponent(m, a, d), e \in Nat, a <= b, b <= Power[m + e]
    PROVE  d <= e
  <1> SUFFICES ASSUME d > e PROVE FALSE
    BY DEF IsExponent
  <1>1. d \in Nat /\ e \in Nat /\ m + d - 1 \in Nat /\ m + e \in Nat /\ m + e <= m + d - 1
    BY DEF IsExponent
  <1>2. Power[m + e] <= Power[m + d - 1] /\ Power[m + e] \in Nat /\ Power[m + d - 1] \in Nat
    BY <1>1, PowerGrows, PowerPositive
  <1>3. a > Power[m + d - 1]
    BY <1>1 DEF IsExponent
  <1> QED BY <1>2, <1>3

\* The nearest multiple of s.
Nearest(s, a) ==
    LET q == a \div s
        r == a % s
    IN  IF 2 * r > s \/ (2 * r = s /\ q % 2 = 1) THEN q + 1 ELSE q

LEMMA NearestIs ==
    ASSUME NEW s \in Nat \ {0}, NEW a \in Nat
    PROVE  /\ Nearest(s, a) \in Nat
           /\ \A c \in Nat : a = c * s => Nearest(s, a) = c
           /\ \A c \in Nat : a <= c * s => Nearest(s, a) * s <= c * s
  <1> DEFINE q == a \div s
             r == a % s
  <1>1. q \in Nat /\ r \in Nat /\ r < s /\ a = q * s + r
    OBVIOUS
  <1>2. Nearest(s, a) = q \/ (Nearest(s, a) = q + 1 /\ r > 0)
    BY <1>1 DEF Nearest
  <1>3. ASSUME NEW c \in Nat, a = c * s PROVE Nearest(s, a) = c
    <2>1. a = s * c
      BY <1>3
    <2>2. q = c /\ r = 0
      BY <2>1
    <2> HIDE DEF q, r
    <2> QED BY <1>2, <2>2
  <1> HIDE DEF q, r
  <1>4. ASSUME NEW c \in Nat, a <= c * s PROVE Nearest(s, a) * s <= c * s
    <2>1. CASE Nearest(s, a) = q
      <3>1. q * s <= a
        BY <1>1
      <3> QED BY <1>1, <1>4, <2>1, <3>1
    <2>2. CASE Nearest(s, a) = q + 1 /\ r > 0
      <3>1. q * s < c * s
        BY <1>1, <1>4, <2>2
      <3>2. q < c
        <4> SUFFICES ASSUME c <= q PROVE FALSE
          BY <1>1
        <4>1. PICK d \in Nat : q = c + d
          <5>1. q - c \in Nat /\ q = c + (q - c)
            BY <1>1
          <5> QED BY <5>1
        <4>2. q * s = c * s + d * s /\ d * s >= 0
          BY <4>1
        <4> QED BY <1>1, <3>1, <4>2
      <3>3. PICK d \in Nat : c = q + 1 + d
        <4>1. c - q - 1 \in Nat /\ c = q + 1 + (c - q - 1)
          BY <1>1, <3>2
        <4> QED BY <4>1
      <3>4. c * s = (q + 1) * s + d * s /\ d * s >= 0
        BY <1>1, <3>3
      <3> QED BY <1>1, <2>2, <3>4
    <2> QED BY <1>2, <2>1, <2>2
  <1> QED BY <1>1, <1>2, <1>3, <1>4

LEMMA RoundIs ==
    ASSUME NEW f \in Floats, NEW n \in Int
    PROVE  LET e == Exponent(f, n)
               k == Nearest(Power[e], Abs(n)) * Power[e]
           IN  /\ IsExponent(Mantissa[f], Abs(n), e)
               /\ Power[e] \in Nat \ {0} /\ Abs(n) \in Nat /\ k \in Nat
               /\ Round(f, n) = IF n < 0 THEN -k ELSE k
               /\ Round(f, n) \in Int /\ Abs(Round(f, n)) = k
  <1> DEFINE e == Exponent(f, n)
             k == Nearest(Power[e], Abs(n)) * Power[e]
  <1>1. Abs(n) \in Nat /\ Mantissa[f] \in Nat
    BY FloatsAssumption DEF Abs
  <1>2. IsExponent(Mantissa[f], Abs(n), e)
    <2>1. PICK b \in 0..Abs(n) : IsExponent(Mantissa[f], Abs(n), b)
      BY <1>1, ExponentExists
    <2>2. e = CHOOSE d \in 0..Abs(n) : /\ Abs(n) <= Power[Mantissa[f] + d]
                                       /\ d = 0 \/ Abs(n) > Power[Mantissa[f] + d - 1]
      BY DEF Exponent
    <2> HIDE DEF e
    <2>3. e \in 0..Abs(n) /\ Abs(n) <= Power[Mantissa[f] + e] /\ (e = 0 \/ Abs(n) > Power[Mantissa[f] + e - 1])
      BY <2>1, <2>2 DEF IsExponent
    <2> QED BY <1>1, <2>3 DEF IsExponent
  <1>3. Round(f, n) = IF n < 0 THEN -k ELSE k
    BY DEF Round, Nearest
  <1> HIDE DEF e
  <1>4. Power[e] \in Nat \ {0}
    BY <1>2, PowerPositive DEF IsExponent
  <1>5. Nearest(Power[e], Abs(n)) \in Nat
    BY <1>1, <1>4, NearestIs
  <1>6. k \in Nat
    BY <1>4, <1>5
  <1> HIDE DEF k
  <1>7. Round(f, n) \in Int /\ Abs(Round(f, n)) = k
    BY <1>3, <1>6 DEF Abs
  <1> QED BY <1>1, <1>2, <1>3, <1>4, <1>6, <1>7 DEF e, k

\* A multiple of a larger power than its exponent asks for is a number of the type.
LEMMA RoundExact ==
    ASSUME NEW f \in Floats, NEW n \in Int, NEW c \in Nat, NEW d \in Nat,
           Abs(n) = c * Power[d], Exponent(f, n) <= d
    PROVE  Round(f, n) = n
  <1> DEFINE e == Exponent(f, n)
  <1>1. e \in Nat /\ Power[e] \in Nat \ {0} /\ Abs(n) \in Nat
    BY RoundIs DEF IsExponent
  <1>2. Round(f, n) = IF n < 0 THEN -(Nearest(Power[e], Abs(n)) * Power[e])
                               ELSE Nearest(Power[e], Abs(n)) * Power[e]
    BY RoundIs
  <1>3. e <= d
    OBVIOUS
  <1> HIDE DEF e
  <1>4. PICK b \in Nat \ {0} : Power[d] = b * Power[e]
    BY <1>1, <1>3, PowerDivides
  <1>5. Abs(n) = (c * b) * Power[e] /\ c * b \in Nat
    BY <1>1, <1>4
  <1>6. Nearest(Power[e], Abs(n)) * Power[e] = Abs(n)
    BY <1>1, <1>5, NearestIs
  <1> QED BY <1>2, <1>6 DEF Abs

\* A number that is rounded is rounded.
LEMMA RoundTwice ==
    ASSUME NEW f \in Floats, NEW n \in Int
    PROVE  Round(f, Round(f, n)) = Round(f, n)
  <1> DEFINE e == Exponent(f, n)
             m == Mantissa[f]
             c == Nearest(Power[e], Abs(n))
             k == Round(f, n)
  <1>1. /\ IsExponent(m, Abs(n), e) /\ Power[e] \in Nat \ {0} /\ Abs(n) \in Nat
        /\ k \in Int /\ Abs(k) = c * Power[e]
    BY RoundIs
  <1>2. m \in Nat
    BY FloatsAssumption
  <1>3. IsExponent(m, Abs(k), Exponent(f, k))
    BY <1>1, RoundIs
  <1> HIDE DEF e, m, k
  <1>4. c \in Nat
    BY <1>1, NearestIs
  <1>5. Abs(k) \in Nat
    BY <1>1 DEF Abs
  <1>6. Abs(k) <= Power[m + e]
    <2>1. e \in Nat /\ m + e \in Nat /\ e <= m + e /\ Abs(n) <= Power[m + e]
      BY <1>1, <1>2 DEF IsExponent
    <2>2. PICK b \in Nat \ {0} : Power[m + e] = b * Power[e]
      BY <2>1, PowerDivides
    <2>3. c * Power[e] <= b * Power[e]
      BY <1>1, <2>1, <2>2, NearestIs
    <2> QED BY <1>1, <2>2, <2>3
  <1> HIDE DEF c
  <1>7. e \in Nat
    BY <1>1 DEF IsExponent
  <1>8. Exponent(f, k) <= e
    BY <1>2, <1>3, <1>5, <1>6, <1>7, ExponentGrows
  <1>9. Round(f, k) = k
    BY <1>1, <1>4, <1>7, <1>8, RoundExact
  <1> QED BY <1>9 DEF k

\* What is below a number of the type is rounded to no more than that.
LEMMA RoundBelow ==
    ASSUME NEW f \in Floats, NEW n \in Int, NEW l \in Nat, Abs(n) <= l, Round(f, l) = l
    PROVE  Abs(Round(f, n)) <= l
  <1> DEFINE m == Mantissa[f]
             d == Exponent(f, n)
             e == Exponent(f, l)
             c == Nearest(Power[e], Abs(l))
  <1>1. /\ IsExponent(m, Abs(n), d) /\ Power[d] \in Nat \ {0} /\ Abs(n) \in Nat
        /\ Abs(Round(f, n)) = Nearest(Power[d], Abs(n)) * Power[d]
    BY RoundIs
  <1>2. IsExponent(m, Abs(l), e) /\ Power[e] \in Nat \ {0} /\ Abs(l) = c * Power[e]
    BY RoundIs
  <1>3. Abs(l) = l /\ m \in Nat
    BY FloatsAssumption DEF Abs
  <1>4. c \in Nat
    BY <1>2, <1>3, NearestIs
  <1> HIDE DEF m, d, e, c
  <1>5. d \in Nat /\ e \in Nat /\ l <= Power[m + e]
    BY <1>1, <1>2, <1>3 DEF IsExponent
  <1>6. d <= e
    BY <1>1, <1>3, <1>5, ExponentGrows
  <1>7. PICK b \in Nat \ {0} : Power[e] = b * Power[d]
    BY <1>5, <1>6, PowerDivides
  <1>8. l = (c * b) * Power[d] /\ c * b \in Nat
    BY <1>1, <1>2, <1>3, <1>4, <1>7
  <1>9. Nearest(Power[d], Abs(n)) * Power[d] <= (c * b) * Power[d]
    BY <1>1, <1>8, NearestIs
  <1> QED BY <1>1, <1>8, <1>9

\* A number of a type is one of every type with a wider mantissa.
LEMMA RoundWidens ==
    ASSUME NEW f \in Floats, NEW g \in Floats, Mantissa[f] <= Mantissa[g],
           NEW n \in Int, Round(f, n) = n
    PROVE  Round(g, n) = n
  <1> DEFINE d == Exponent(g, n)
             e == Exponent(f, n)
             c == Nearest(Power[e], Abs(n))
  <1>1. IsExponent(Mantissa[g], Abs(n), d) /\ Abs(n) \in Nat
    BY RoundIs
  <1>2. IsExponent(Mantissa[f], Abs(n), e) /\ Power[e] \in Nat \ {0} /\ Abs(n) = c * Power[e]
    BY RoundIs
  <1>3. c \in Nat
    BY <1>1, <1>2, NearestIs
  <1>4. Mantissa[f] \in Nat /\ Mantissa[g] \in Nat
    BY FloatsAssumption
  <1> HIDE DEF d, e, c
  <1>5. e \in Nat /\ Abs(n) <= Power[Mantissa[f] + e]
    BY <1>2 DEF IsExponent
  <1>6. Abs(n) <= Power[Mantissa[g] + e]
    <2>1. Mantissa[f] + e \in Nat /\ Mantissa[g] + e \in Nat /\ Mantissa[f] + e <= Mantissa[g] + e
      BY <1>4, <1>5
    <2>2. Power[Mantissa[f] + e] <= Power[Mantissa[g] + e]
      BY <2>1, PowerGrows
    <2>3. Power[Mantissa[f] + e] \in Nat /\ Power[Mantissa[g] + e] \in Nat
      BY <2>1, PowerPositive
    <2> QED BY <1>1, <1>5, <2>2, <2>3
  <1>7. d <= e
    BY <1>1, <1>4, <1>5, <1>6, ExponentGrows
  <1> QED BY <1>2, <1>3, <1>5, <1>7, RoundExact DEF d

\* The integers up to the mantissa are numbers of the type.
LEMMA RoundInteger ==
    ASSUME NEW f \in Floats, NEW i \in Int, Abs(i) <= Power[Mantissa[f]]
    PROVE  Round(f, 2 * i) = 2 * i
  <1> DEFINE d == Exponent(f, 2 * i)
  <1>1. 2 * i \in Int /\ Abs(i) \in Nat /\ Abs(2 * i) = 2 * Abs(i) /\ Abs(2 * i) \in Nat
    BY DEF Abs
  <1>2. IsExponent(Mantissa[f], Abs(2 * i), d)
    BY <1>1, RoundIs
  <1>3. Mantissa[f] \in Nat
    BY FloatsAssumption
  <1>4. Power[Mantissa[f] + 1] = 2 * Power[Mantissa[f]] /\ Power[Mantissa[f]] \in Nat
    BY <1>3, PowerIs
  <1>5. Abs(2 * i) <= Power[Mantissa[f] + 1]
    BY <1>1, <1>4
  <1>6. d <= 1
    <2> HIDE DEF d
    <2> QED BY <1>1, <1>2, <1>3, <1>5, ExponentGrows
  <1>7. Power[1] = 2
    <2>1. Power[0 + 1] = 2 * Power[0]
      BY PowerIs
    <2> QED BY <2>1, PowerIs
  <1> QED BY <1>1, <1>6, <1>7, RoundExact

-----------------------------------------------------------------------------
(* Integer types. *)

Least(t)    == IF t \in Unsigned THEN 0 ELSE -Power[Width[t] - 1]
Greatest(t) == IF t \in Unsigned THEN Power[Width[t]] - 1 ELSE Power[Width[t] - 1] - 1

\* Go's bounds, computed in words, are those of the type.
LEMMA BoundsAre ==
    ASSUME NEW t \in Ints
    PROVE  /\ Least(t) \in Int /\ Greatest(t) \in Nat /\ Least(t) <= 0
           /\ MinOf(t) = Least(t) /\ MaxOf(t) = Greatest(t)
           /\ Values(t) = Least(t)..Greatest(t)
  <1> DEFINE b == IF t \in Unsigned THEN Width[t] ELSE Width[t] - 1
             w == Power[IntSize]
  <1>1. b \in Nat /\ b <= IntSize /\ IntSize \in Nat
    BY WidthsAssumption
  <1>2. Power[b] \in Nat \ {0} /\ w \in Nat \ {0} /\ Power[b] <= w
    BY <1>1, PowerPositive, PowerGrows
  <1>3. Greatest(t) = Power[b] - 1
    BY DEF Greatest
  <1>4. MaxOf(t) = ((Power[b] % w) - 1) % w
    BY DEF MaxOf
  <1>5. Least(t) = IF t \in Unsigned THEN 0 ELSE -Power[b]
    BY DEF Least
  <1> HIDE DEF b, w
  <1>6. ((Power[b] % w) - 1) % w = Power[b] - 1
    <2>1. CASE Power[b] = w
      <3>1. w % w = 0
        BY <1>2
      <3>2. (-1) % w = w - 1
        BY <1>2
      <3>3. 0 - 1 = -1
        OBVIOUS
      <3> QED BY <2>1, <3>1, <3>2, <3>3
    <2>2. CASE Power[b] < w
      <3>1. Power[b] % w = Power[b]
        BY <1>2, <2>2
      <3>2. (Power[b] - 1) % w = Power[b] - 1
        BY <1>2, <2>2
      <3> QED BY <3>1, <3>2
    <2> QED BY <1>2, <2>1, <2>2
  <1> QED BY <1>2, <1>3, <1>4, <1>5, <1>6 DEF MinOf, Values, Least, Greatest

-----------------------------------------------------------------------------
(* What the rules make of a value of its type. *)

IsFloat(f, n) == Abs(n) <= Largest[f] /\ Round(f, n) = n
Valued(v) ==
    /\ v.n \in Int
    /\ v.type \in Ints \cup Floats \cup {"string"}
    /\ v.type \in Ints => IsWhole(v.n) /\ v.n \div 2 \in Values(v.type)
    /\ v.type \in Floats => IsFloat(v.type, v.n)

LEMMA Halves ==
    ASSUME NEW n \in Int
    PROVE  /\ n \div 2 \in Int
           /\ IsWhole(n) <=> 2 * (n \div 2) = n
           /\ \A i \in Int : 2 * i = n => n \div 2 = i /\ Truncated(n) = i
  BY DEF IsWhole, Truncated, Abs

LEMMA IntRuleIs ==
    ASSUME NEW t \in Ints, NEW v, Valued(v)
    PROVE  /\ IntRule(t, v) = IF Takes(t, v) THEN {v.n \div 2} ELSE {}
           /\ Takes(t, v) => IsWhole(v.n) /\ v.n \div 2 \in Values(t)
  <1>1. v.n \in Int /\ t \notin Floats /\ t # "string"
    BY TypesAssumption DEF Valued
  <1>2. /\ Least(t) \in Int /\ Greatest(t) \in Nat /\ Least(t) <= 0
        /\ MinOf(t) = Least(t) /\ MaxOf(t) = Greatest(t)
        /\ Values(t) = Least(t)..Greatest(t)
    BY BoundsAre
  <1>3. Takes(t, v) => IsWhole(v.n) /\ v.n \div 2 \in Values(t)
    BY <1>1 DEF Takes, Valued
  <1>4. CASE v.type = t
    <2>1. v.type \notin Floats /\ v.type # "string" /\ v.type \notin Ints \ {t}
      BY <1>1, <1>4
    <2>2. IntRule(t, v) = {v.n \div 2}
      BY <1>4, <2>1 DEF IntRule
    <2>3. Takes(t, v)
      BY <1>4 DEF Takes
    <2> QED BY <1>3, <2>2, <2>3
  <1>5. CASE v.type \in Floats
    <2>1. v.type # t /\ v.type # "string" /\ v.type \notin Ints
      BY <1>1, <1>5, TypesAssumption
    <2>2. IntRule(t, v) = FromFloat(t, v.type, v.n)
      BY <1>5, <2>1 DEF IntRule
    <2>3. Takes(t, v) <=> /\ IsWhole(v.n) /\ v.n \div 2 \in Values(t)
                          /\ Abs(v.n) <= 2 * Power[Mantissa[v.type]]
      BY <1>1, <1>5, <2>1 DEF Takes
    <2>4. 2 * Power[Mantissa[v.type]] \in Nat /\ Abs(v.n) \in Nat
      BY <1>1, <1>5, FloatsAssumption, PowerIs DEF Abs
    <2> DEFINE h == v.n \div 2
    <2>5. h \in Int /\ (IsWhole(v.n) <=> 2 * h = v.n) /\ \A i \in Int : 2 * i = v.n => h = i /\ Truncated(v.n) = i
      BY <1>1, Halves
    <2>6. \A i \in Converted(t, v.n) : i \in Values(t) /\ i \in Int
      BY <1>2 DEF Converted
    <2>7. ASSUME Abs(v.n) <= 2 * Power[Mantissa[v.type]]
          PROVE  FromFloat(t, v.type, v.n) = IF IsWhole(v.n) /\ h \in Values(t) THEN {h} ELSE {}
      <3> HIDE DEF h
      <3>1. ASSUME NEW i \in FromFloat(t, v.type, v.n)
            PROVE  IsWhole(v.n) /\ h \in Values(t) /\ i = h
        <4>1. i \in Converted(t, v.n) /\ 2 * i = v.n
          BY <3>1 DEF FromFloat
        <4> QED BY <2>5, <2>6, <4>1
      <3>2. ASSUME IsWhole(v.n), h \in Values(t)
            PROVE  h \in FromFloat(t, v.type, v.n)
        <4>1. Truncated(v.n) = h /\ 2 * h = v.n
          BY <2>5, <3>2
        <4>2. h \in Converted(t, v.n)
          BY <3>2, <4>1 DEF Converted
        <4>3. Least(t) <= h /\ h <= Greatest(t)
          BY <1>2, <3>2, <2>5
        <4>4. t \in Unsigned => Least(t) = 0
          BY DEF Least
        <4>5. ~(t \in Unsigned /\ v.n < 0)
          BY <2>5, <4>1, <4>3, <4>4
        <4>6. ~(Abs(v.n) > 2 * Power[Mantissa[v.type]])
          BY <2>4, <2>7
        <4> QED BY <1>2, <4>1, <4>2, <4>3, <4>5, <4>6 DEF FromFloat
      <3> QED BY <3>1, <3>2
    <2>8. ASSUME ~(Abs(v.n) <= 2 * Power[Mantissa[v.type]])
          PROVE  FromFloat(t, v.type, v.n) = {}
      BY <2>4, <2>8 DEF FromFloat
    <2> HIDE DEF h
    <2> QED BY <1>3, <2>2, <2>3, <2>7, <2>8 DEF h
  <1>6. CASE v.type = "string"
    <2>1. v.type # t /\ v.type \notin Floats /\ v.type \notin Ints
      BY <1>1, <1>6, TypesAssumption
    <2>2. IntRule(t, v) = FromText(t, v.n)
      BY <1>6, <2>1 DEF IntRule
    <2>3. Takes(t, v) <=> IsWhole(v.n) /\ v.n \div 2 \in Values(t)
      BY <1>1, <2>1 DEF Takes
    <2> QED BY <1>3, <2>2, <2>3 DEF FromText
  <1>7. CASE v.type \in Ints \ {t}
    <2>1. v.type # t /\ v.type \notin Floats /\ v.type # "string"
      BY <1>7, TypesAssumption
    <2>2. v.n \div 2 \in Int /\ IsWhole(v.n)
      BY <1>1, <1>7, Halves DEF Valued
    <2>3. IntRule(t, v) = FromInt(t, v.n \div 2)
      BY <1>7, <2>1 DEF IntRule
    <2>4. Takes(t, v) <=> v.n \div 2 \in Values(t)
      BY <1>1, <2>1, <2>2 DEF Takes
    <2> QED BY <1>2, <1>3, <2>2, <2>3, <2>4 DEF FromInt
  <1> QED BY <1>4, <1>5, <1>6, <1>7 DEF Valued

\* The number a float type makes of a value.
AsFloat(f, v) == IF v.type \in {"float64", "string"} THEN Round(f, v.n) ELSE v.n

LEMMA FloatRuleIs ==
    ASSUME NEW f \in Floats, NEW v, Valued(v)
    PROVE  /\ FloatRule(f, v) = IF Takes(f, v) THEN {AsFloat(f, v)} ELSE {}
           /\ Takes(f, v) => AsFloat(f, v) \in Int /\ IsFloat(f, AsFloat(f, v))
  <1>1. v.n \in Int /\ f \notin Ints /\ f # "string" /\ f \in {"float32", "float64"}
    BY TypesAssumption DEF Valued
  <1>2. Largest[f] \in Nat /\ Mantissa[f] \in Nat /\ Power[Mantissa[f]] \in Nat
        /\ 2 * Power[Mantissa[f]] <= Largest[f] /\ Round(f, Largest[f]) = Largest[f]
    BY FloatsAssumption, PowerIs
  <1>3. CASE v.type = f
    <2>1. IsFloat(f, v.n) /\ Takes(f, v) /\ v.type # "string" /\ v.type \notin Ints
      BY <1>1, <1>3 DEF Valued, Takes
    <2>3. FloatRule(f, v) = {v.n}
      BY <1>1, <1>3, <2>1 DEF FloatRule
    <2>2. AsFloat(f, v) = v.n
      BY <1>3, <2>1 DEF AsFloat, IsFloat
    <2> QED BY <1>1, <2>1, <2>2, <2>3
  <1>4. CASE v.type = "float32" /\ f = "float64"
    <2>6. v.type \notin Ints /\ v.type # "string"
      BY <1>4, TypesAssumption
    <2>1. FloatRule(f, v) = {v.n} /\ AsFloat(f, v) = v.n
      BY <1>4, <2>6 DEF FloatRule, AsFloat
    <2>2. Largest["float32"] \in Nat /\ Largest["float32"] <= Largest[f] /\ Mantissa["float32"] <= Mantissa[f]
      BY <1>4, FloatsAssumption, TypesAssumption
    <2>3. IsFloat("float32", v.n) /\ "float32" \in Floats
      BY <1>4, TypesAssumption DEF Valued
    <2>4. Round(f, v.n) = v.n
      BY <1>1, <2>2, <2>3, RoundWidens DEF IsFloat
    <2>5. Abs(v.n) <= Largest[f]
      BY <1>1, <1>2, <2>2, <2>3 DEF IsFloat, Abs
    <2>7. Takes(f, v)
      BY <2>5, <2>6 DEF Takes
    <2> QED BY <1>1, <2>1, <2>4, <2>5, <2>7 DEF IsFloat
  <1>5. CASE v.type = "float64" /\ f = "float32"
    <2>2. v.type \notin Ints /\ v.type # "string" /\ v.type \in Floats /\ v.type # f
      BY <1>5, TypesAssumption
    <2>1. FloatRule(f, v) = FromFloat64(f, v.n) /\ AsFloat(f, v) = Round(f, v.n)
      BY <1>5, <2>2 DEF FloatRule, AsFloat
    <2>3. Takes(f, v) <=> Abs(v.n) <= Largest[f]
      BY <1>1, <2>2 DEF Takes
    <2>4. Round(f, v.n) \in Int /\ Round(f, Round(f, v.n)) = Round(f, v.n)
      BY <1>1, RoundIs, RoundTwice
    <2>5. Abs(v.n) <= Largest[f] => Abs(Round(f, v.n)) <= Largest[f]
      BY <1>1, <1>2, RoundBelow
    <2> QED BY <2>1, <2>3, <2>4, <2>5 DEF FromFloat64, IsFloat
  <1>6. CASE v.type = "string"
    <2>1. v.type \notin Ints /\ v.type \notin Floats /\ v.type # f /\ v.type # "float32" /\ v.type # "float64"
      BY <1>6, TypesAssumption
    <2>2. FloatRule(f, v) = FromFloat64(f, Round(f, v.n)) /\ AsFloat(f, v) = Round(f, v.n)
      BY <1>6, <2>1 DEF FloatRule, AsFloat
    <2>3. Takes(f, v) <=> Abs(Round(f, v.n)) <= Largest[f]
      BY <1>1, <1>6, <2>1 DEF Takes
    <2>4. Round(f, v.n) \in Int /\ Round(f, Round(f, v.n)) = Round(f, v.n)
      BY <1>1, RoundIs, RoundTwice
    <2> QED BY <2>2, <2>3, <2>4 DEF FromFloat64, IsFloat
  <1>7. CASE v.type \in Ints
    <2>1. v.type \notin Floats /\ v.type # f /\ v.type # "float32" /\ v.type # "float64" /\ v.type # "string"
      BY <1>7, TypesAssumption
    <2> DEFINE h == v.n \div 2
    <2>2. h \in Int /\ 2 * h = v.n
      BY <1>1, <1>7, Halves DEF Valued
    <2>3. FloatRule(f, v) = FloatFromInt(f, h) /\ AsFloat(f, v) = v.n
      BY <1>7, <2>1 DEF FloatRule, AsFloat
    <2>4. Takes(f, v) <=> Abs(v.n) <= 2 * Power[Mantissa[f]]
      BY <1>1, <1>7, <2>1 DEF Takes
    <2> HIDE DEF h
    <2>5. Abs(v.n) = 2 * Abs(h) /\ Abs(h) \in Nat
      BY <2>2 DEF Abs
    <2>6. Abs(v.n) <= 2 * Power[Mantissa[f]] <=> Abs(h) <= Power[Mantissa[f]]
      BY <1>2, <2>5
    <2>7. Abs(h) <= Power[Mantissa[f]] => Round(f, 2 * h) = v.n /\ Abs(v.n) <= Largest[f]
      <3>1. Abs(h) <= Power[Mantissa[f]] => Round(f, 2 * h) = 2 * h
        BY <2>2, RoundInteger
      <3> QED BY <1>2, <2>2, <2>5, <3>1
    <2>8. Abs(h) <= Power[Mantissa[f]] => IsFloat(f, v.n)
      BY <2>2, <2>7 DEF IsFloat
    <2> QED BY <1>1, <2>3, <2>4, <2>6, <2>7, <2>8 DEF FloatFromInt
  <1> QED BY <1>1, <1>3, <1>4, <1>5, <1>6, <1>7, TypesAssumption DEF Valued

-----------------------------------------------------------------------------
(* Every conversion of a value. *)

LEMMA InitValued == NumbersInit => Valued(value)
  <1> SUFFICES ASSUME NumbersInit PROVE Valued(value)
    OBVIOUS
  <1>1. value \in Received
    BY DEF NumbersInit
  <1>2. CASE \E n \in Numerals : value = [type |-> "string", n |-> n]
    BY <1>2, NumeralsAssumption, TypesAssumption DEF Valued
  <1>3. CASE \E f \in Floats : \E n \in Numerals :
               Abs(n) <= Largest[f] /\ Round(f, n) = n /\ value = [type |-> f, n |-> n]
    <2>1. PICK f \in Floats, n \in Numerals :
               Abs(n) <= Largest[f] /\ Round(f, n) = n /\ value = [type |-> f, n |-> n]
      BY <1>3
    <2>2. f \notin Ints /\ value.type = f /\ value.n = n /\ n \in Int
      BY <2>1, NumeralsAssumption, TypesAssumption
    <2> QED BY <2>1, <2>2 DEF Valued, IsFloat
  <1>4. CASE \E t \in Ints : \E n \in Numerals :
               IsWhole(n) /\ n \div 2 \in Values(t) /\ value = [type |-> t, n |-> n]
    <2>1. PICK t \in Ints, n \in Numerals :
               IsWhole(n) /\ n \div 2 \in Values(t) /\ value = [type |-> t, n |-> n]
      BY <1>4
    <2>2. t \notin Floats /\ value.type = t /\ value.n = n /\ n \in Int
      BY <2>1, NumeralsAssumption, TypesAssumption
    <2>3. IsWhole(value.n) /\ value.n \div 2 \in Values(value.type)
      BY <2>1, <2>2
    <2>4. value.type \in Ints \cup Floats \cup {"string"} /\ value.type \notin Floats /\ value.n \in Int
      BY <2>1, <2>2
    <2> QED BY <2>3, <2>4 DEF Valued
  <1> QED BY <1>1, <1>2, <1>3, <1>4 DEF Received

LEMMA StepExact ==
    ASSUME Valued(value), NEW t \in Ints \cup Floats, ValidateNumber(t)
    PROVE  Valued(value)' /\ ExactStep
  <1> DEFINE results == IF t \in Ints THEN {2 * i : i \in IntRule(t, value)} ELSE FloatRule(t, value)
             number == IF t \in Ints THEN value.n ELSE AsFloat(t, value)
  <1>1. rule' = t /\ \/ results = {} /\ ok' = FALSE /\ UNCHANGED value
                     \/ \E n \in results : ok' = TRUE /\ value' = [type |-> t, n |-> n]
    BY DEF ValidateNumber
  <1>2. value.n \in Int
    BY DEF Valued
  <1>3. results = IF Takes(t, value) THEN {number} ELSE {}
    <2>1. CASE t \in Ints
      <3>1. /\ IntRule(t, value) = IF Takes(t, value) THEN {value.n \div 2} ELSE {}
            /\ Takes(t, value) => IsWhole(value.n) /\ value.n \div 2 \in Values(t)
        BY <2>1, IntRuleIs
      <3>2. Takes(t, value) => 2 * (value.n \div 2) = value.n
        BY <1>2, <3>1, Halves
      <3> QED BY <2>1, <3>1, <3>2
    <2>2. CASE t \notin Ints
      BY <2>2, FloatRuleIs
    <2> QED BY <2>1, <2>2
  <1>4. Takes(t, value) => Valued([type |-> t, n |-> number])
    <2>1. CASE t \in Ints
      <3>1. t \notin Floats
        BY <2>1, TypesAssumption
      <3>2. Takes(t, value) => IsWhole(value.n) /\ value.n \div 2 \in Values(t)
        BY <2>1, IntRuleIs
      <3> QED BY <1>2, <2>1, <3>1, <3>2 DEF Valued
    <2>2. CASE t \notin Ints
      BY <2>2, FloatRuleIs DEF Valued
    <2> QED BY <2>1, <2>2
  <1> HIDE DEF results
  <1>5. CASE Takes(t, value)
    <2>1. ok' = TRUE /\ value' = [type |-> t, n |-> number]
      BY <1>1, <1>3, <1>5
    <2>2. Valued(value)'
      BY <1>4, <1>5, <2>1 DEF Valued
    <2>3. value'.n = number
      BY <2>1
    <2>4. number # value.n => t \in Floats /\ value.type \in {"float64", "string"} /\ number = Round(t, value.n)
      BY DEF AsFloat
    <2> HIDE DEF number
    <2> QED BY <1>1, <1>5, <2>1, <2>2, <2>3, <2>4 DEF ExactStep
  <1>6. CASE ~Takes(t, value)
    <2>1. ok' = FALSE /\ value' = value
      BY <1>1, <1>3, <1>6
    <2> QED BY <1>1, <1>6, <2>1 DEF ExactStep, Valued
  <1> QED BY <1>5, <1>6

\* However often a number is converted, it stays one that its type has: within its bounds
\* and, for a float, without a rounding that is still to come (int.go:77, float.go:98).
THEOREM ValuedHolds == NumbersSpec => []Valued(value)
  <1>1. Valued(value) /\ [NumbersNext]_numbersVars => Valued(value)'
    BY StepExact DEF NumbersNext, numbersVars, Valued
  <1> QED BY <1>1, InitValued, PTL DEF NumbersSpec

\* A rule accepts exactly what its type can take, and changes no number but by the one
\* rounding to a float (int.go:77, float.go:178).
THEOREM NumberExactHolds == NumbersSpec => NumberExact
  <1>1. Valued(value) /\ [NumbersNext]_numbersVars => [ExactStep]_numbersVars
    BY StepExact DEF NumbersNext
  <1> QED BY <1>1, ValuedHolds, PTL DEF NumbersSpec, NumberExact
=============================================================================

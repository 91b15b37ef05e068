---------------------- MODULE SessionTransactionsProofs ----------------------
(***************************************************************************)
(* Theorems about SessionTransactions, for any functions, addresses and    *)
(* depth: when no function runs inside itself, an open session finds its   *)
(* own savepoint, and sessions implement NestedTransactions.               *)
(***************************************************************************)
EXTENDS SessionTransactions, SequenceTheorems, TLAPS

-----------------------------------------------------------------------------
(* Sequences *)

\* The first n elements of a sequence are a sequence of length n.
LEMMA PrefixOf ==
    ASSUME NEW S, NEW s \in Seq(S), NEW n \in 0..Len(s)
    PROVE  /\ Prefix(s, n) \in Seq(S)
           /\ Len(Prefix(s, n)) = n
           /\ \A i \in 1..n : Prefix(s, n)[i] = s[i]
<1>1. Prefix(s, n) \in [1..n -> S]
  BY ElementOfSeq DEF Prefix
<1>2. n \in Nat
  BY LenProperties
<1>3. Prefix(s, n) \in Seq(S) /\ Len(Prefix(s, n)) = n
  BY <1>1, <1>2, SeqDef, LenProperties
<1> QED BY <1>3 DEF Prefix

\* Latest(n) is the one savepoint named n that no other of that name follows.
LEMMA LatestIs ==
    ASSUME NEW n, savepoints \in Seq(Savepoint),
           NEW k \in 1..Len(savepoints), savepoints[k].name = n,
           \A j \in (k + 1)..Len(savepoints) : savepoints[j].name # n
    PROVE  Latest(n) = k
<1> DEFINE P(m) == /\ savepoints[m].name = n
                   /\ \A j \in (m + 1)..Len(savepoints) : savepoints[j].name # n
<1>1. Len(savepoints) \in Nat
  BY LenProperties
<1>2. P(k)
  OBVIOUS
<1>3. Latest(n) = CHOOSE m \in 1..Len(savepoints) : P(m)
  BY DEF Latest
<1>4. Latest(n) \in 1..Len(savepoints) /\ P(Latest(n))
  BY <1>2, <1>3
<1> HIDE DEF P
<1>5. \A m \in 1..Len(savepoints) : P(m) => m = k
  <2> SUFFICES ASSUME NEW m \in 1..Len(savepoints), P(m) PROVE m = k
    OBVIOUS
  <2>1. CASE m < k
    BY <2>1, <1>1, <1>2 DEF P
  <2>2. CASE k < m
    BY <2>2, <1>1, <1>2 DEF P
  <2> QED BY <2>1, <2>2, <1>1
<1> QED BY <1>4, <1>5

-----------------------------------------------------------------------------
(* The inductive invariant. The savepoint of an open session is the latest   *)
(* with its name because names of open sessions differ, and because whatever *)
(* was made after it belongs to sessions nested in it.                       *)

ClosedInv ==
    /\ Depth = 0 => late = NoName
    /\ \A i \in 2..Depth : sessions[i].name \in Names

NamesInv == \A i, j \in 2..Depth : sessions[i].name = sessions[j].name => i = j

IsLatest(k, n) ==
    /\ k \in 1..Len(savepoints)
    /\ savepoints[k].name = n
    /\ \A j \in (k + 1)..Len(savepoints) : savepoints[j].name # n

SpInv ==
    ~disabled =>
        /\ \A i \in 2..Depth : IsLatest(sessions[i].sp, sessions[i].name)
        /\ \A i, j \in 2..Depth : i < j => sessions[i].sp < sessions[j].sp

\* The savepoint of a committed session is younger than the open ones.
LateInv ==
    late # NoName /\ ~disabled =>
        \E k \in 1..Len(savepoints) :
            /\ IsLatest(k, late)
            /\ \A i \in 2..Depth : sessions[i].sp < k

IInv == TypeOK /\ ClosedInv /\ NamesInv /\ SpInv /\ LateInv

\* A savepoint is a record with the name and the value it was made with.
LEMMA SessionFields ==
    ASSUME TypeOK, NEW i \in 1..Depth
    PROVE  /\ sessions[i] \in Session
           /\ sessions[i].sp \in Nat
           /\ sessions[i].done \in BOOLEAN
           /\ sessions[i].name \in Names \cup {NoName}
           /\ sessions[i].kind \in {"func", "manual"}
<1>1. sessions[i] \in Session
  BY ElementOfSeq DEF TypeOK, Depth
<1> QED BY <1>1 DEF Session

\* The same invariant, read off IsLatest.
LEMMA LatestOf ==
    ASSUME TypeOK, NEW n, NEW k, IsLatest(k, n)
    PROVE  Latest(n) = k
BY LatestIs DEF TypeOK, IsLatest

\* Initially no session is open.
LEMMA InitIInv == Init => IInv
<1> SUFFICES ASSUME Init PROVE IInv
  OBVIOUS
<1>1. Len(sessions) = 0 /\ sessions \in Seq(Session) /\ savepoints \in Seq(Savepoint)
  BY EmptySeq DEF Init
<1>2. TypeOK
  BY <1>1, BoundsAssumption DEF Init, TypeOK
<1> QED BY <1>1, <1>2 DEF Init, IInv, ClosedInv, NamesInv, SpInv, LateInv, Depth

\* ROLLBACK TO a savepoint keeps it and the ones before.
LEMMA RollbackToType ==
    ASSUME TypeOK, NEW n, NEW k, IsLatest(k, n), RollbackTo(n)
    PROVE  /\ work' = savepoints[k].value
           /\ work' \in Values
           /\ savepoints' \in Seq(Savepoint)
           /\ Len(savepoints') = k
           /\ \A j \in 1..k : savepoints'[j] = savepoints[j]
<1>1. k = Latest(n) /\ k \in 1..Len(savepoints)
  BY LatestOf DEF IsLatest
<1>2. savepoints \in Seq(Savepoint) /\ Len(savepoints) \in Nat
  BY LenProperties DEF TypeOK
<1>3. savepoints[k] \in Savepoint
  BY <1>1, <1>2, ElementOfSeq
<1>4. work' = savepoints[k].value /\ savepoints' = Prefix(savepoints, k)
  BY <1>1 DEF RollbackTo
<1>5. k \in 0..Len(savepoints)
  BY <1>1, <1>2
<1> QED BY <1>2, <1>3, <1>4, <1>5, PrefixOf DEF Savepoint

\* Ending the innermost session.
LEMMA PopType ==
    ASSUME TypeOK, Depth > 0, Pop
    PROVE  /\ sessions' \in Seq(Session)
           /\ Depth' = Depth - 1
           /\ \A i \in 1..(Depth - 1) : sessions'[i] = sessions[i]
<1>1. sessions \in Seq(Session) /\ Len(sessions) \in Nat
  BY LenProperties DEF TypeOK
<1>2. Depth - 1 \in 0..Len(sessions)
  BY <1>1 DEF Depth
<1> QED BY <1>1, <1>2, PrefixOf DEF Pop, Depth

-----------------------------------------------------------------------------
(* Steps *)

\* A new outermost session.
LEMMA BeginTxKeeps ==
    ASSUME IInv, NEW kind \in {"func", "manual"}, BeginTx(kind)
    PROVE  IInv'
<1> DEFINE r == [kind |-> kind, name |-> NoName, done |-> FALSE, sp |-> 0]
<1>1. r \in Session
  BY DEF Session
<1>2. sessions' = <<r>>
  BY DEF BeginTx
<1>3. sessions' \in Seq(Session) /\ Depth' = 1
  BY <1>1, <1>2 DEF Depth
<1>4. savepoints' \in Seq(Savepoint)
  BY EmptySeq DEF BeginTx
<1>5. late' = NoName
  BY EmptySeq DEF BeginTx, IInv, ClosedInv, Depth, TypeOK
<1>6. TypeOK'
  BY <1>3, <1>4, <1>5 DEF IInv, TypeOK, BeginTx
<1> QED BY <1>3, <1>5, <1>6 DEF IInv, ClosedInv, NamesInv, SpInv, LateInv

\* The outermost session ends.
LEMMA EndTxKeeps ==
    ASSUME IInv, Depth = 1, Pop, late' = NoName, savepoints' = <<>>,
           work' \in Values, committed' \in Values, leaked' \in 0..MaxLeaks,
           outcome' \in {"committed", "rolledBack", "failed"},
           UNCHANGED <<disabled, alive>>
    PROVE  IInv' /\ Depth' = 0
<1>1. sessions' \in Seq(Session) /\ Depth' = 0
  BY PopType DEF IInv
<1>2. savepoints' \in Seq(Savepoint)
  BY EmptySeq
<1>3. TypeOK'
  BY <1>1, <1>2 DEF IInv, TypeOK
<1> QED BY <1>1, <1>3 DEF IInv, ClosedInv, NamesInv, SpInv, LateInv

\* A savepoint under a name no open session has.
LEMMA NestKeeps ==
    ASSUME IInv, NEW kind \in {"func", "manual"}, NEW n \in Names,
           ~Open(n), Nest(kind, n)
    PROVE  IInv'
<1> DEFINE r == [kind |-> kind, name |-> n, done |-> FALSE, sp |-> Len(savepoints) + 1]
           v == [name |-> n, value |-> work]
<1> USE DEF IInv
<1>1. /\ savepoints \in Seq(Savepoint) /\ Len(savepoints) \in Nat
      /\ sessions \in Seq(Session) /\ Depth \in Nat /\ Depth > 0
  BY LenProperties DEF TypeOK, Depth, Nest
<1>2. r \in Session /\ v \in Savepoint
  BY <1>1 DEF Session, Savepoint, TypeOK
<1>3. sessions' = Append(sessions, r)
  BY DEF Nest
<1>4. /\ sessions' \in Seq(Session) /\ Depth' = Depth + 1
      /\ \A i \in 1..Depth : sessions'[i] = sessions[i]
      /\ sessions'[Depth + 1] = r
  BY <1>1, <1>2, <1>3, AppendProperties DEF Depth
<1>7. ClosedInv'
  <2>1. late' = NoName /\ Depth' # 0
    BY <1>1, <1>4 DEF Nest
  <2>2. ASSUME NEW i \in 2..Depth' PROVE sessions'[i].name \in Names
    <3>1. CASE i = Depth + 1
      BY <3>1, <1>4
    <3>2. CASE i \in 2..Depth
      BY <3>2, <1>1, <1>4 DEF ClosedInv
    <3> QED BY <3>1, <3>2, <1>1, <1>4
  <2> QED BY <2>1, <2>2 DEF ClosedInv
<1>8. NamesInv'
  <2>1. \A i \in 2..Depth : sessions'[i] = sessions[i] /\ sessions[i].name # n
    BY <1>1, <1>4 DEF Open
  <2>2. sessions'[Depth + 1].name = n
    BY <1>4
  <2>3. ASSUME NEW i \in 2..Depth', NEW j \in 2..Depth',
               sessions'[i].name = sessions'[j].name
        PROVE  i = j
    <3>1. CASE i \in 2..Depth /\ j \in 2..Depth
      BY <3>1, <2>1, <2>3 DEF NamesInv
    <3>2. CASE i = Depth + 1 /\ j \in 2..Depth
      BY <3>2, <2>1, <2>2, <2>3
    <3>3. CASE j = Depth + 1 /\ i \in 2..Depth
      BY <3>3, <2>1, <2>2, <2>3
    <3> QED BY <3>1, <3>2, <3>3, <1>1, <1>4
  <2> QED BY <2>3 DEF NamesInv
<1>5. CASE disabled
  <2>1. savepoints' = savepoints /\ disabled' = disabled /\ late' = NoName
    BY <1>5 DEF Nest
  <2>2. TypeOK'
    BY <2>1, <1>4 DEF TypeOK, Nest
  <2> QED BY <2>1, <2>2, <1>7, <1>8, <1>5 DEF SpInv, LateInv
<1>6. CASE ~disabled
  <2>1. savepoints' = Append(savepoints, v) /\ disabled' = disabled /\ late' = NoName
    BY <1>6 DEF Nest
  <2>2. /\ savepoints' \in Seq(Savepoint) /\ Len(savepoints') = Len(savepoints) + 1
        /\ \A i \in 1..Len(savepoints) : savepoints'[i] = savepoints[i]
        /\ savepoints'[Len(savepoints) + 1] = v
    BY <1>1, <1>2, <2>1, AppendProperties
  <2>3. TypeOK'
    BY <2>1, <2>2, <1>4 DEF TypeOK, Nest
  <2>5. \A i \in 2..Depth : /\ sessions[i].sp \in 1..Len(savepoints)
                           /\ sessions[i].name # n
    BY <1>1, <1>6 DEF SpInv, IsLatest, Open
  <2>6. ASSUME NEW i \in 2..Depth' PROVE IsLatest(sessions[i].sp, sessions[i].name)'
    <3>1. CASE i = Depth + 1
      BY <3>1, <1>1, <1>4, <2>2 DEF IsLatest
    <3>2. CASE i \in 2..Depth
      <4>1. IsLatest(sessions[i].sp, sessions[i].name)
        BY <3>2, <1>6 DEF SpInv
      <4>2. sessions'[i] = sessions[i] /\ sessions[i].name # n
        BY <3>2, <1>1, <1>4, <2>5
      <4>3. \A j \in (sessions[i].sp + 1)..(Len(savepoints) + 1) :
               savepoints'[j].name # sessions[i].name
        BY <4>1, <4>2, <1>1, <2>2 DEF IsLatest
      <4> QED BY <4>1, <4>2, <4>3, <1>1, <2>2 DEF IsLatest
    <3> QED BY <3>1, <3>2, <1>1, <1>4
  <2>7. ASSUME NEW i \in 2..Depth', NEW j \in 2..Depth', i < j
        PROVE  sessions'[i].sp < sessions'[j].sp
    <3>1. CASE j = Depth + 1
      <4>1. i \in 2..Depth /\ sessions'[i] = sessions[i]
        BY <3>1, <2>7, <1>1, <1>4
      <4> QED BY <4>1, <3>1, <1>1, <1>4, <2>5
    <3>2. CASE j \in 2..Depth
      <4>1. i \in 2..Depth /\ sessions'[i] = sessions[i] /\ sessions'[j] = sessions[j]
        BY <3>2, <2>7, <1>1, <1>4
      <4> QED BY <4>1, <3>2, <2>7, <1>6 DEF SpInv
    <3> QED BY <3>1, <3>2, <1>1, <1>4
  <2> QED BY <2>1, <2>3, <1>7, <1>8, <2>6, <2>7 DEF SpInv, LateInv
<1> QED BY <1>5, <1>6 DEF TypeOK

\* Ending the innermost session keeps what concerns the others.
LEMMA PopKeeps ==
    ASSUME IInv, Depth > 1, Pop,
           NEW k \in Nat, Len(savepoints') = k,
           savepoints' \in Seq(Savepoint),
           \A j \in 1..k : savepoints'[j] = savepoints[j],
           ~disabled => k \in sessions[Depth].sp..Len(savepoints),
           disabled' = disabled
    PROVE  NamesInv' /\ SpInv' /\ \A i \in 2..Depth' : sessions'[i].name \in Names
<1> USE DEF IInv
<1>1. /\ Len(savepoints) \in Nat /\ Depth \in Nat /\ Depth' = Depth - 1
      /\ \A i \in 1..(Depth - 1) : sessions'[i] = sessions[i]
  BY PopType, LenProperties DEF TypeOK, Depth
<1>2. \A i \in 2..Depth' : sessions'[i] = sessions[i] /\ i \in 2..Depth /\ i < Depth
  BY <1>1
<1>3. NamesInv' /\ \A i \in 2..Depth' : sessions'[i].name \in Names
  BY <1>2 DEF NamesInv, ClosedInv
<1>4. ASSUME ~disabled, NEW i \in 2..Depth'
      PROVE  IsLatest(sessions[i].sp, sessions[i].name)'
  <2>1. IsLatest(sessions[i].sp, sessions[i].name)
    BY <1>2, <1>4 DEF SpInv
  <2>2. sessions[i].sp < sessions[Depth].sp
    BY <1>1, <1>2, <1>4 DEF SpInv
  <2>3. sessions[Depth].sp \in Nat /\ sessions[i].sp \in Nat
    BY SessionFields, <1>1, <1>2
  <2>4. sessions[i].sp \in 1..k /\ sessions'[i] = sessions[i]
    BY <2>1, <2>2, <2>3, <1>1, <1>2, <1>4 DEF IsLatest
  <2>5. \A j \in (sessions[i].sp + 1)..k : j \in 1..k /\ j \in 1..Len(savepoints)
    BY <2>4, <2>3, <1>1, <1>4
  <2> QED BY <2>1, <2>3, <2>4, <2>5, <1>1, <1>4 DEF IsLatest
<1>5. ASSUME ~disabled, NEW i \in 2..Depth', NEW j \in 2..Depth', i < j
      PROVE  sessions'[i].sp < sessions'[j].sp
  BY <1>2, <1>5 DEF SpInv
<1> QED BY <1>3, <1>4, <1>5 DEF SpInv

\* A nested session ends without a statement, or its rollback is not done.
LEMMA KeepNested ==
    ASSUME IInv, Depth > 1, NEW result \in {"committed", "rolledBack"},
           NEW next \in {NoName, Top.name},
           EndNested(result, next), UNCHANGED <<work, savepoints>>
    PROVE  IInv'
<1> USE DEF IInv
<1>1. /\ sessions' \in Seq(Session) /\ Depth' = Depth - 1 /\ Depth \in Nat
      /\ \A i \in 1..(Depth - 1) : sessions'[i] = sessions[i]
      /\ savepoints \in Seq(Savepoint) /\ Len(savepoints) \in Nat
  BY PopType, LenProperties DEF EndNested, TypeOK, Depth
<1>2. Top.name \in Names
  BY <1>1 DEF Top, ClosedInv
<1>3. TypeOK'
  BY <1>1, <1>2 DEF TypeOK, EndNested
<1>4. ~disabled => IsLatest(Top.sp, Top.name) /\ Top.sp \in 1..Len(savepoints)
  BY <1>1 DEF SpInv, Top, IsLatest
<1>5. NamesInv' /\ SpInv' /\ \A i \in 2..Depth' : sessions'[i].name \in Names
  <2>1. disabled' = disabled /\ Pop
    BY DEF EndNested
  <2>2. ~disabled => Len(savepoints) \in sessions[Depth].sp..Len(savepoints)
    BY <1>1, <1>4 DEF Top
  <2> QED BY <2>1, <2>2, <1>1, PopKeeps
<1>6. ClosedInv'
  BY <1>1, <1>5 DEF ClosedInv
<1>7. LateInv'
  <2> SUFFICES ASSUME late' # NoName, ~disabled
               PROVE  \E k \in 1..Len(savepoints') :
                         /\ IsLatest(k, late)'
                         /\ \A i \in 2..Depth' : sessions'[i].sp < k
    BY DEF LateInv, EndNested
  <2>1. late' = Top.name
    BY DEF EndNested
  <2>2. PICK k \in 1..Len(savepoints) : k = Top.sp
    BY <1>4
  <2>3. IsLatest(k, late)'
    BY <1>4, <2>1, <2>2 DEF IsLatest
  <2>4. \A i \in 2..Depth' : sessions'[i].sp < k
    BY <1>1, <2>2 DEF SpInv, Top
  <2> QED BY <2>3, <2>4
<1> QED BY <1>3, <1>5, <1>6, <1>7

\* A nested session ends and is rolled back.
LEMMA RollbackNestedKeeps ==
    ASSUME IInv, Depth > 1, ~disabled, RollbackTo(Top.name),
           EndNested("rolledBack", NoName)
    PROVE  IInv'
<1> USE DEF IInv
<1>1. /\ sessions' \in Seq(Session) /\ Depth' = Depth - 1 /\ Depth \in Nat
      /\ Len(savepoints) \in Nat
  BY PopType, LenProperties DEF EndNested, TypeOK, Depth
<1>2. IsLatest(Top.sp, Top.name) /\ Top.sp \in 1..Len(savepoints)
  BY <1>1 DEF SpInv, Top, IsLatest
<1>3. /\ work' \in Values
      /\ savepoints' \in Seq(Savepoint) /\ Len(savepoints') = Top.sp
      /\ \A j \in 1..Top.sp : savepoints'[j] = savepoints[j]
  BY <1>2, RollbackToType
<1>4. TypeOK'
  BY <1>1, <1>3 DEF TypeOK, EndNested
<1>5. NamesInv' /\ SpInv' /\ \A i \in 2..Depth' : sessions'[i].name \in Names
  <2>1. disabled' = disabled /\ Pop
    BY DEF EndNested
  <2>2. Top.sp \in Nat /\ Top.sp \in sessions[Depth].sp..Len(savepoints)
    BY <1>1, <1>2 DEF Top
  <2> QED BY <2>1, <2>2, <1>3, PopKeeps
<1>6. late' = NoName
  BY DEF EndNested
<1> QED BY <1>4, <1>5, <1>6 DEF ClosedInv, LateInv

\* Rollback of a committed session: the open sessions are older.
LEMMA RollbackCommittedKeeps ==
    ASSUME IInv, RollbackCommitted
    PROVE  IInv'
<1> USE DEF IInv
<1>1. /\ sessions' = sessions /\ Depth' = Depth /\ Depth \in Nat
      /\ late # NoName /\ late' = NoName /\ disabled' = disabled
      /\ Len(savepoints) \in Nat
  BY LenProperties DEF RollbackCommitted, Depth, TypeOK
<1>2. ClosedInv' /\ NamesInv' /\ LateInv'
  BY <1>1 DEF ClosedInv, NamesInv, LateInv
<1>3. CASE disabled
  <2>1. UNCHANGED <<work, savepoints>>
    BY <1>3 DEF RollbackCommitted
  <2> QED BY <2>1, <1>1, <1>2, <1>3 DEF RollbackCommitted, TypeOK, SpInv
<1>4. CASE ~disabled
  <2>1. PICK k \in 1..Len(savepoints) :
           IsLatest(k, late) /\ \A i \in 2..Depth : sessions[i].sp < k
    BY <1>1, <1>4 DEF LateInv
  <2>2. RollbackTo(late)
    BY <1>4 DEF RollbackCommitted
  <2>3. /\ work' \in Values
        /\ savepoints' \in Seq(Savepoint) /\ Len(savepoints') = k
        /\ \A j \in 1..k : savepoints'[j] = savepoints[j]
    BY <2>1, <2>2, RollbackToType
  <2>4. TypeOK'
    BY <2>3, <1>1 DEF RollbackCommitted, TypeOK
  <2>5. ASSUME NEW i \in 2..Depth PROVE IsLatest(sessions[i].sp, sessions[i].name)'
    <3>1. IsLatest(sessions[i].sp, sessions[i].name)
      BY <1>4 DEF SpInv
    <3>2. sessions[i].sp < k /\ sessions[i].sp \in 1..Len(savepoints)
      BY <2>1, <3>1 DEF IsLatest
    <3>3. /\ sessions[i].sp \in 1..k
          /\ \A j \in (sessions[i].sp + 1)..k : j \in 1..k /\ j \in 1..Len(savepoints)
      BY <3>2, <1>1
    <3>4. /\ savepoints'[sessions[i].sp].name = sessions[i].name
          /\ \A j \in (sessions[i].sp + 1)..k : savepoints'[j].name # sessions[i].name
      BY <3>1, <3>2, <3>3, <1>1, <2>3 DEF IsLatest
    <3> QED BY <3>3, <3>4, <1>1, <2>3 DEF IsLatest
  <2>6. SpInv'
    BY <2>5, <1>1, <1>4 DEF SpInv
  <2> QED BY <2>4, <2>6, <1>2
<1> QED BY <1>3, <1>4 DEF TypeOK

\* A context that is done changes no savepoint.
LEMMA ContextDoneKeeps ==
    ASSUME IInv, NEW i \in 1..Depth, ContextDone(i)
    PROVE  IInv'
<1> USE DEF IInv
<1>1. /\ sessions \in Seq(Session) /\ Depth \in Nat
  BY LenProperties DEF TypeOK, Depth
<1>2. \A j \in 1..Depth : sessions[j] \in Session
  BY <1>1, ElementOfSeq DEF Depth
<1>3. sessions' \in [1..Depth -> Session]
  BY <1>2 DEF ContextDone, Session
<1>4. sessions' \in Seq(Session) /\ Depth' = Depth
  BY <1>1, <1>3, SeqDef, LenProperties DEF Depth
<1>5. \A j \in 1..Depth : sessions'[j].name = sessions[j].name
                         /\ sessions'[j].sp = sessions[j].sp
  BY <1>2 DEF ContextDone, Session
<1>6. TypeOK'
  BY <1>4 DEF ContextDone, TypeOK
<1>7. \A j \in 2..Depth : sessions'[j].name = sessions[j].name
                         /\ sessions'[j].sp = sessions[j].sp
  BY <1>1, <1>5
<1>8. UNCHANGED <<savepoints, late, disabled>>
  BY DEF ContextDone
<1>9. ClosedInv' /\ NamesInv'
  BY <1>4, <1>7, <1>8 DEF ClosedInv, NamesInv
<1>10. ASSUME NEW k, NEW n PROVE IsLatest(k, n)' <=> IsLatest(k, n)
  BY <1>8 DEF IsLatest
<1>11. SpInv'
  <2>1. \A j \in 2..Depth : IsLatest(sessions[j].sp, sessions[j].name)'
                               <=> IsLatest(sessions[j].sp, sessions[j].name)
    BY <1>7, <1>8 DEF IsLatest
  <2> QED BY <2>1, <1>4, <1>7, <1>8 DEF SpInv
<1>12. LateInv'
  BY <1>4, <1>7, <1>8, <1>10 DEF LateInv
<1> QED BY <1>6, <1>9, <1>11, <1>12

\* The outermost session ends, with an answer or without.
LEMMA EndOuterKeeps ==
    ASSUME IInv, Depth = 1, CommitTx \/ RollbackTx \/ TransactionPanics
    PROVE  IInv' /\ Depth' = 0
<1>1. work \in Values /\ committed \in Values /\ leaked \in 0..MaxLeaks
  BY DEF IInv, TypeOK
<1>2. ASSUME NEW result \in {"committed", "rolledBack", "failed"},
             NEW contents \in Values, EndTx(result, contents)
      PROVE  IInv' /\ Depth' = 0
  <2>1. /\ Pop /\ late' = NoName /\ savepoints' = <<>>
        /\ work' \in Values /\ committed' \in Values
        /\ leaked' \in 0..MaxLeaks /\ outcome' = result
        /\ UNCHANGED <<disabled, alive>>
    BY <1>1, <1>2 DEF EndTx
  <2> QED BY <2>1, EndTxKeeps
<1>3. CASE TransactionPanics
  <2>1. /\ Pop /\ late' = NoName /\ savepoints' = <<>>
        /\ work' \in Values /\ committed' \in Values
        /\ outcome' = "rolledBack"
        /\ UNCHANGED <<disabled, alive>>
    BY <1>1, <1>3 DEF TransactionPanics
  <2>2. leaked' \in 0..MaxLeaks
    BY <1>1, <1>3, BoundsAssumption DEF TransactionPanics
  <2> QED BY <2>1, <2>2, EndTxKeeps
<1>4. CASE CommitTx
  BY <1>1, <1>2, <1>4 DEF CommitTx
<1>5. CASE RollbackTx
  BY <1>1, <1>2, <1>5 DEF RollbackTx
<1> QED BY <1>3, <1>4, <1>5

\* Every step keeps the invariant, if no function is run inside itself.
LEMMA StepIInv ==
    ASSUME ~Recursive, IInv, [Next]_vars
    PROVE  IInv'
<1>1. CASE Begin \/ Transaction
  BY <1>1, BeginTxKeeps DEF Begin, Transaction
<1>2. ASSUME NEW p \in Pointers, NestedBegin(p) PROVE IInv'
  BY <1>2, NestKeeps DEF NestedBegin, Names
<1>3. ASSUME NEW f \in Funs, NestedTransaction(f) PROVE IInv'
  BY <1>3, NestKeeps DEF NestedTransaction, Names
<1>4. CASE TransactionCommits \/ TransactionFails \/ TransactionPanics
           \/ Commit \/ Rollback
  BY <1>4, EndOuterKeeps DEF TransactionCommits, TransactionFails, TransactionPanics,
                             Commit, Rollback, Outer
<1>5. CASE NestedTransactionReturns \/ NestedCommit
  <2>1. PICK next \in {NoName, Top.name} :
           EndNested("committed", next) /\ UNCHANGED <<work, savepoints>> /\ Depth > 1
    BY <1>5 DEF NestedTransactionReturns, NestedCommit, Nested
  <2> QED BY <2>1, KeepNested
<1>6. CASE NestedTransactionFails \/ NestedRollback
  <2>1. RollbackNested /\ Depth > 1
    BY <1>6 DEF NestedTransactionFails, NestedRollback, Nested
  <2> QED BY <2>1, KeepNested, RollbackNestedKeeps DEF RollbackNested
<1>7. CASE RollbackCommitted
  BY <1>7, RollbackCommittedKeeps
<1>8. ASSUME NEW v \in Values, Write(v) PROVE IInv'
  <2>1. /\ UNCHANGED <<disabled, committed, alive, savepoints, sessions, outcome, leaked>>
        /\ late' = NoName /\ work' \in Values /\ Depth' = Depth
    BY <1>8 DEF Write, Depth
  <2>2. TypeOK'
    BY <2>1 DEF IInv, TypeOK
  <2> QED BY <2>1, <2>2 DEF IInv, ClosedInv, NamesInv, SpInv, LateInv, IsLatest
<1>9. ASSUME NEW i \in 1..Depth, ContextDone(i) PROVE IInv'
  BY <1>9, ContextDoneKeeps
<1>10. CASE UNCHANGED vars
  BY <1>10 DEF vars, IInv, TypeOK, ClosedInv, NamesInv, SpInv, LateInv, IsLatest, Depth
<1> QED BY <1>1, <1>2, <1>3, <1>4, <1>5, <1>6, <1>7, <1>8, <1>9, <1>10 DEF Next

\* The invariant holds in every state.
LEMMA IInvHolds == ~Recursive /\ Spec => []IInv
<1> SUFFICES ASSUME ~Recursive PROVE Spec => []IInv
  OBVIOUS
<1>1. Init => IInv
  BY InitIInv
<1>2. IInv /\ [Next]_vars => IInv'
  BY StepIInv
<1> QED BY <1>1, <1>2, PTL DEF Spec

\* Every variable keeps its type, whatever sessions do within their rules.
THEOREM TypeCorrect == ~Recursive /\ Spec => []TypeOK
<1>1. IInv => TypeOK
  BY DEF IInv
<1> QED BY <1>1, IInvHolds, PTL

\* ROLLBACK TO the name of an open session goes back to where that session
\* began (session.go:110 and 176), for every number of functions, addresses,
\* sessions and savepoints, if no function is run inside itself.
THEOREM OwnSavepointHolds == ~Recursive /\ Spec => []OwnSavepoint
<1>1. IInv => OwnSavepoint
  <2> SUFFICES ASSUME IInv, ~disabled, NEW i \in 2..Depth
               PROVE  /\ sessions[i].sp \in 1..Len(savepoints)
                      /\ Latest(sessions[i].name) = sessions[i].sp
    BY DEF OwnSavepoint
  <2>1. IsLatest(sessions[i].sp, sessions[i].name)
    BY DEF IInv, SpInv
  <2> QED BY <2>1, LatestOf DEF IInv, IsLatest
<1> QED BY <1>1, IInvHolds, PTL

-----------------------------------------------------------------------------
(* The refinement. A session whose context is done runs no statement, and a  *)
(* transaction that was dropped has nothing that was not committed.          *)

DoneInv ==
    /\ Depth = 0 \/ ~alive => work = committed
    /\ ~alive => \A i \in 1..Depth : sessions[i].done
    /\ \A i, j \in 1..Depth : i < j /\ sessions[i].done => sessions[j].done
    /\ Depth > 0 /\ alive => ~sessions[1].done

RInv == IInv /\ DoneInv

\* The mapping, named: what session i saw when it began.
Seen(i) == IF i = 1 \/ ~alive \/ disabled THEN committed
           ELSE savepoints[sessions[i].sp].value
Begun   == [i \in 1..Depth |-> Seen(i)]
Expired == {i \in 2..Depth : sessions[i].done}
Partial == ~disabled

\* Begun is a sequence with an element for each open session.
BegunInv ==
    /\ Depth \in Nat
    /\ Begun \in Seq(Values)
    /\ Len(Begun) = Depth
    /\ \A i \in 1..Depth : Begun[i] = Seen(i)

LEMMA BegunType == IInv => BegunInv
<1> SUFFICES ASSUME IInv PROVE BegunInv
  OBVIOUS
<1>1. Depth \in Nat /\ savepoints \in Seq(Savepoint)
  BY LenProperties DEF IInv, TypeOK, Depth
<1>2. \A i \in 1..Depth : Seen(i) \in Values
  <2> SUFFICES ASSUME NEW i \in 1..Depth PROVE Seen(i) \in Values
    OBVIOUS
  <2>1. CASE i = 1 \/ ~alive \/ disabled
    BY <2>1 DEF Seen, IInv, TypeOK
  <2>2. CASE ~(i = 1 \/ ~alive \/ disabled)
    <3>1. sessions[i].sp \in 1..Len(savepoints)
      BY <1>1, <2>2 DEF IInv, SpInv, IsLatest
    <3>2. savepoints[sessions[i].sp] \in Savepoint
      BY <1>1, <3>1, ElementOfSeq
    <3> QED BY <2>2, <3>2 DEF Seen, Savepoint
  <2> QED BY <2>1, <2>2
<1>3. Begun \in [1..Depth -> Values]
  BY <1>2 DEF Begun
<1>4. Begun \in Seq(Values) /\ Len(Begun) = Depth
  BY <1>1, <1>3, SeqDef, LenProperties
<1> QED BY <1>1, <1>4 DEF Begun, BegunInv

\* The same after a step.
LEMMA BegunTypeNext == IInv' => BegunInv'
BY BegunType, PTL

\* Ending the innermost session leaves the others as they are.
LEMMA PopDone ==
    ASSUME RInv, Depth > 1, Pop, UNCHANGED alive, alive \/ work' = work,
           committed' = committed
    PROVE  DoneInv'
<1>1. /\ Depth \in Nat /\ Depth' = Depth - 1
      /\ \A i \in 1..(Depth - 1) : sessions'[i] = sessions[i]
  BY PopType, LenProperties DEF RInv, IInv, TypeOK, Depth
<1> QED BY <1>1 DEF RInv, DoneInv

\* A nested session is opened while the one around it can run statements.
LEMMA NestDone ==
    ASSUME RInv, NEW kind \in {"func", "manual"}, NEW n \in Names, Nest(kind, n)
    PROVE  DoneInv'
<1> DEFINE r == [kind |-> kind, name |-> n, done |-> FALSE, sp |-> Len(savepoints) + 1]
<1>1. Depth \in Nat /\ sessions \in Seq(Session)
  BY LenProperties DEF RInv, IInv, TypeOK, Depth
<1>2. r \in Session
  BY LenProperties DEF Session, RInv, IInv, TypeOK
<1>3. /\ Depth > 0 /\ alive /\ alive' = alive /\ ~sessions[Depth].done
      /\ sessions' = Append(sessions, r)
      /\ UNCHANGED <<work, committed>>
  BY DEF Nest, Usable, Top
<1>4. /\ Depth' = Depth + 1 /\ sessions'[Depth + 1] = r
      /\ \A i \in 1..Depth : sessions'[i] = sessions[i]
  BY <1>1, <1>2, <1>3, AppendProperties DEF Depth
<1>5. \A i \in 1..Depth : ~sessions[i].done
  BY <1>1, <1>3 DEF RInv, DoneInv
<1>6. \A i \in 1..Depth' : ~sessions'[i].done
  <2>1. ~sessions'[Depth + 1].done
    BY <1>4
  <2> QED BY <2>1, <1>1, <1>4, <1>5
<1>7. Depth' \in Nat /\ Depth' # 0 /\ alive'
  BY <1>1, <1>3, <1>4
<1> QED BY <1>6, <1>7 DEF DoneInv

\* A context that is done ends those made from it.
LEMMA ContextDoneDone ==
    ASSUME RInv, NEW i \in 1..Depth, ContextDone(i)
    PROVE  DoneInv'
<1>1. Depth \in Nat /\ Depth' = Depth
  BY ContextDoneKeeps, LenProperties DEF RInv, IInv, TypeOK, Depth, ContextDone
<1>2. \A j \in 1..Depth : sessions[j] \in Session
  BY SessionFields DEF RInv, IInv
<1>3. \A j \in 1..Depth : sessions'[j].done <=> (j >= i \/ sessions[j].done)
  BY <1>2 DEF ContextDone, Session
<1>4. CASE i = 1
  BY <1>1, <1>3, <1>4 DEF ContextDone, DoneInv
<1>5. CASE i # 1
  BY <1>1, <1>3, <1>5 DEF ContextDone, RInv, DoneInv
<1> QED BY <1>4, <1>5

\* Every step keeps DoneInv.
LEMMA StepDone ==
    ASSUME RInv, [Next]_vars
    PROVE  DoneInv'
<1>1. CASE Begin \/ Transaction
  <2>1. PICK kind \in {"func", "manual"} : BeginTx(kind)
    BY <1>1 DEF Begin, Transaction
  <2>2. sessions' = <<[kind |-> kind, name |-> NoName, done |-> FALSE, sp |-> 0]>>
    BY <2>1 DEF BeginTx
  <2>3. Depth' = 1 /\ ~sessions'[1].done
    BY <2>2 DEF Depth
  <2>4. alive' /\ work' = committed /\ committed' = committed
    BY <2>1 DEF BeginTx
  <2> QED BY <2>3, <2>4 DEF DoneInv
<1>2. ASSUME NEW p \in Pointers, NestedBegin(p) PROVE DoneInv'
  BY <1>2, NestDone DEF NestedBegin, Names
<1>3. ASSUME NEW f \in Funs, NestedTransaction(f) PROVE DoneInv'
  BY <1>3, NestDone DEF NestedTransaction, Names
<1>4. CASE TransactionCommits \/ TransactionFails \/ TransactionPanics
           \/ Commit \/ Rollback
  <2>1. Depth = 1 /\ Pop /\ work' = committed'
    BY <1>4 DEF TransactionCommits, TransactionFails, TransactionPanics, Commit, Rollback,
                Outer, CommitTx, RollbackTx, EndTx
  <2>2. Depth' = 0
    BY <2>1, PopType DEF RInv, IInv
  <2> QED BY <2>1, <2>2 DEF DoneInv
<1>5. CASE \/ NestedTransactionReturns \/ NestedCommit
           \/ NestedTransactionFails \/ NestedRollback
  <2>1. Depth > 1 /\ Pop /\ UNCHANGED <<alive, committed>>
    BY <1>5 DEF NestedTransactionReturns, NestedCommit, NestedTransactionFails,
                NestedRollback, RollbackNested, Nested, EndNested
  <2>2. alive \/ work' = work
    BY <1>5 DEF NestedTransactionReturns, NestedCommit, NestedTransactionFails,
                NestedRollback, RollbackNested, Usable
  <2> QED BY <2>1, <2>2, PopDone
<1>6. CASE RollbackCommitted \/ \E v \in Values : Write(v)
  <2>1. alive /\ Depth # 0
    BY <1>6, EmptySeq DEF RollbackCommitted, Write, Usable, RInv, IInv, ClosedInv, TypeOK, Depth
  <2>2. UNCHANGED <<alive, sessions, committed>>
    BY <1>6 DEF RollbackCommitted, Write
  <2> QED BY <2>1, <2>2 DEF RInv, DoneInv, Depth
<1>7. ASSUME NEW i \in 1..Depth, ContextDone(i) PROVE DoneInv'
  BY <1>7, ContextDoneDone
<1>8. CASE UNCHANGED vars
  BY <1>8 DEF vars, RInv, DoneInv, Depth
<1> QED BY <1>1, <1>2, <1>3, <1>4, <1>5, <1>6, <1>7, <1>8 DEF Next

\* The invariant of the refinement.
LEMMA RInvHolds == ~Recursive /\ Spec => []RInv
<1> SUFFICES ASSUME ~Recursive PROVE Spec => []RInv
  OBVIOUS
<1>1. Init => RInv
  BY InitIInv DEF Init, RInv, DoneInv, Depth
<1>2. RInv /\ [Next]_vars => RInv'
  BY StepIInv, StepDone DEF RInv
<1> QED BY <1>1, <1>2, PTL DEF Spec

\* The abstract steps, in the words of the mapping.
LEMMA InTheMapping ==
    /\ UNCHANGED Nesting!vars <=>
          UNCHANGED <<Partial, committed, work, Begun, Expired, outcome>>
    /\ Nesting!Begin <=>
          /\ Len(Begun) \notin Expired
          /\ Begun' = Append(Begun, IF Begun = <<>> \/ ~Partial THEN committed ELSE work)
          /\ work' = IF Begun = <<>> THEN committed ELSE work
          /\ UNCHANGED <<Partial, committed, Expired, outcome>>
    /\ Nesting!Write <=>
          /\ Begun # <<>>
          /\ work' \in Values
          /\ UNCHANGED <<Partial, committed, Begun, Expired, outcome>>
    /\ Nesting!Pop <=>
          /\ Begun' = [i \in 1..(Len(Begun) - 1) |-> Begun[i]]
          /\ Expired' = Expired \ {Len(Begun)}
    /\ Nesting!Inner <=> Len(Begun) > 1
    /\ Nesting!Outer <=> Len(Begun) = 1
    /\ Nesting!Commit <=>
          /\ Nesting!Inner \/ Nesting!Outer
          /\ Nesting!Pop
          /\ outcome' = "committed"
          /\ committed' = IF Nesting!Outer THEN work ELSE committed
          /\ UNCHANGED <<Partial, work>>
    /\ Nesting!Rollback <=>
          /\ Nesting!Inner \/ Nesting!Outer
          /\ Nesting!Pop
          /\ outcome' = "rolledBack"
          /\ work' = IF Nesting!Inner /\ (~Partial \/ Len(Begun) \in Expired)
                     THEN work ELSE Begun[Len(Begun)]
          /\ UNCHANGED <<Partial, committed>>
    /\ Nesting!CommitFails <=>
          /\ Nesting!Outer
          /\ Nesting!Pop
          /\ outcome' = "failed"
          /\ committed' \in {committed, work}
          /\ work' = committed'
          /\ UNCHANGED Partial
    /\ Nesting!Abort <=>
          /\ Begun # <<>>
          /\ work' = committed
          /\ Begun' = [i \in 1..Len(Begun) |-> committed]
          /\ Expired' = 2..Len(Begun)
          /\ UNCHANGED <<Partial, committed, outcome>>
    /\ Nesting!Expire <=>
          /\ \E i \in 2..Len(Begun) : Expired' = Expired \cup i..Len(Begun)
          /\ UNCHANGED <<Partial, committed, work, Begun, outcome>>
<1> USE DEF Begun, Seen, Expired, Partial
<1>1. UNCHANGED Nesting!vars <=>
          UNCHANGED <<Partial, committed, work, Begun, Expired, outcome>>
  BY DEF Nesting!vars
<1>2. Nesting!Begin <=>
          /\ Len(Begun) \notin Expired
          /\ Begun' = Append(Begun, IF Begun = <<>> \/ ~Partial THEN committed ELSE work)
          /\ work' = IF Begun = <<>> THEN committed ELSE work
          /\ UNCHANGED <<Partial, committed, Expired, outcome>>
  BY DEF Nesting!Begin
<1>3. Nesting!Write <=>
          /\ Begun # <<>>
          /\ work' \in Values
          /\ UNCHANGED <<Partial, committed, Begun, Expired, outcome>>
  BY DEF Nesting!Write
<1>4. Nesting!Pop <=>
          /\ Begun' = [i \in 1..(Len(Begun) - 1) |-> Begun[i]]
          /\ Expired' = Expired \ {Len(Begun)}
  BY DEF Nesting!Pop
<1>5. (Nesting!Inner <=> Len(Begun) > 1) /\ (Nesting!Outer <=> Len(Begun) = 1)
  BY DEF Nesting!Inner, Nesting!Outer
<1>6. Nesting!Abort <=>
          /\ Begun # <<>>
          /\ work' = committed
          /\ Begun' = [i \in 1..Len(Begun) |-> committed]
          /\ Expired' = 2..Len(Begun)
          /\ UNCHANGED <<Partial, committed, outcome>>
  BY DEF Nesting!Abort
<1>7. Nesting!Expire <=>
          /\ \E i \in 2..Len(Begun) : Expired' = Expired \cup i..Len(Begun)
          /\ UNCHANGED <<Partial, committed, work, Begun, outcome>>
  BY DEF Nesting!Expire
<1>8. Nesting!Commit <=>
          /\ Nesting!Inner \/ Nesting!Outer
          /\ Nesting!Pop
          /\ outcome' = "committed"
          /\ committed' = IF Nesting!Outer THEN work ELSE committed
          /\ UNCHANGED <<Partial, work>>
  BY DEF Nesting!Commit
<1>9. Nesting!Rollback <=>
          /\ Nesting!Inner \/ Nesting!Outer
          /\ Nesting!Pop
          /\ outcome' = "rolledBack"
          /\ work' = IF Nesting!Inner /\ (~Partial \/ Len(Begun) \in Expired)
                     THEN work ELSE Begun[Len(Begun)]
          /\ UNCHANGED <<Partial, committed>>
  BY DEF Nesting!Rollback
<1>10. Nesting!CommitFails <=>
          /\ Nesting!Outer
          /\ Nesting!Pop
          /\ outcome' = "failed"
          /\ committed' \in {committed, work}
          /\ work' = committed'
          /\ UNCHANGED Partial
  BY DEF Nesting!CommitFails
<1> QED BY <1>1, <1>2, <1>3, <1>4, <1>5, <1>6, <1>7, <1>8, <1>9, <1>10

\* What a session saw is read off its savepoint, which nobody else changes.
LEMMA SeenKeeps ==
    ASSUME UNCHANGED <<alive, disabled, committed>>,
           NEW i \in 1..Depth, sessions'[i].sp = sessions[i].sp,
           i # 1 /\ alive /\ ~disabled =>
               savepoints'[sessions[i].sp] = savepoints[sessions[i].sp]
    PROVE  Seen(i)' = Seen(i)
BY DEF Seen

\* Savepoints of sessions around the innermost one are older than its own.
LEMMA OlderSavepoints ==
    ASSUME RInv, ~disabled, NEW i \in 2..Depth
    PROVE  /\ sessions[i].sp \in 1..Len(savepoints)
           /\ sessions[i].sp \in 1..sessions[Depth].sp
<1>1. Depth \in Nat /\ Len(savepoints) \in Nat
  BY LenProperties DEF RInv, IInv, TypeOK, Depth
<1>2. \A j \in 2..Depth : sessions[j].sp \in 1..Len(savepoints)
  BY DEF RInv, IInv, SpInv, IsLatest
<1>3. i < Depth => sessions[i].sp < sessions[Depth].sp
  BY <1>1 DEF RInv, IInv, SpInv
<1> QED BY <1>1, <1>2, <1>3

\* Ending a nested session takes the last element away.
LEMMA PopRefines ==
    ASSUME RInv, IInv', Depth > 1, Pop, UNCHANGED <<alive, disabled, committed>>,
           ~disabled => \A j \in 1..sessions[Depth].sp : savepoints'[j] = savepoints[j]
    PROVE  Nesting!Pop /\ Nesting!Inner /\ ~Nesting!Outer
<1>1. /\ Depth' = Depth - 1
      /\ \A i \in 1..(Depth - 1) : sessions'[i] = sessions[i]
  BY PopType, LenProperties DEF RInv, IInv, TypeOK, Depth
<1>2. BegunInv /\ BegunInv'
  BY BegunType, BegunTypeNext DEF RInv
<1>3. \A i \in 1..(Depth - 1) : Seen(i)' = Seen(i)
  <2> SUFFICES ASSUME NEW i \in 1..(Depth - 1) PROVE Seen(i)' = Seen(i)
    OBVIOUS
  <2>1. i \in 1..Depth /\ sessions'[i].sp = sessions[i].sp
    BY <1>1, <1>2 DEF BegunInv
  <2>2. ASSUME i # 1, ~disabled
        PROVE  savepoints'[sessions[i].sp] = savepoints[sessions[i].sp]
    <3>1. i \in 2..Depth
      BY <2>1, <2>2, <1>2 DEF BegunInv
    <3> QED BY <3>1, <2>2, OlderSavepoints
  <2> QED BY <2>1, <2>2, SeenKeeps
<1>4. Begun' = [i \in 1..(Len(Begun) - 1) |-> Begun[i]]
  <2>1. \A i \in 1..(Depth - 1) : Begun[i] = Seen(i)
    BY <1>2 DEF BegunInv
  <2>2. Begun' = [i \in 1..(Depth - 1) |-> Seen(i)']
    BY <1>1 DEF Begun
  <2>3. Len(Begun) = Depth
    BY <1>2 DEF BegunInv
  <2> HIDE DEF Begun
  <2> QED BY <2>1, <2>2, <2>3, <1>3
<1>5. Expired' = Expired \ {Len(Begun)}
  BY <1>1, <1>2 DEF Expired, BegunInv
<1>6. Len(Begun) > 1 /\ Len(Begun) # 1
  BY <1>2 DEF BegunInv
<1> QED BY <1>4, <1>5, <1>6, InTheMapping

\* A nested session that is rolled back.
LEMMA RollbackNestedRefines ==
    ASSUME RInv, IInv', Depth > 1, RollbackNested
    PROVE  Nesting!Rollback
<1>1. /\ Pop /\ outcome' = "rolledBack" /\ UNCHANGED <<alive, disabled, committed>>
  BY DEF RollbackNested, EndNested
<1>2. BegunInv /\ Depth \in 2..Depth /\ Depth \in 1..Depth
  BY BegunType DEF RInv, BegunInv
<1>3. Begun[Len(Begun)] = Seen(Depth) /\ Len(Begun) = Depth
  BY <1>2 DEF BegunInv
<1>4. Partial' = Partial
  BY <1>1 DEF Partial
<1>5. CASE ~disabled /\ Usable
  <2>1. RollbackTo(Top.name)
    BY <1>5 DEF RollbackNested
  <2>2. IsLatest(Top.sp, Top.name)
    BY <1>2, <1>5 DEF RInv, IInv, SpInv, Top
  <2>3. /\ work' = savepoints[Top.sp].value
        /\ \A j \in 1..Top.sp : savepoints'[j] = savepoints[j]
    BY <2>1, <2>2, RollbackToType DEF RInv, IInv
  <2>4. Nesting!Pop /\ Nesting!Inner
    BY <2>3, <1>1, PopRefines DEF Top
  <2>5. work' = Begun[Len(Begun)]
    BY <2>3, <1>2, <1>3, <1>5 DEF Seen, Usable, Top
  <2>6. Partial /\ Len(Begun) \notin Expired
    BY <1>3, <1>5 DEF Partial, Expired, Usable, Top
  <2> QED BY <2>4, <2>5, <2>6, <1>1, <1>4, InTheMapping
<1>6. CASE ~(~disabled /\ Usable)
  <2>1. UNCHANGED <<work, savepoints>>
    BY <1>6 DEF RollbackNested
  <2>2. Nesting!Pop /\ Nesting!Inner
    BY <2>1, <1>1, PopRefines
  <2>3. ~Partial \/ Len(Begun) \in Expired
    BY <1>2, <1>3, <1>6 DEF Partial, Expired, Usable, Top, RInv, DoneInv
  <2> QED BY <2>1, <2>2, <2>3, <1>1, <1>4, InTheMapping
<1> QED BY <1>5, <1>6

\* A nested session that is committed.
LEMMA CommitNestedRefines ==
    ASSUME RInv, IInv', Depth > 1, NEW next, EndNested("committed", next),
           UNCHANGED <<work, savepoints>>
    PROVE  Nesting!Commit
<1>1. /\ Pop /\ outcome' = "committed" /\ UNCHANGED <<alive, disabled, committed>>
  BY DEF EndNested
<1>2. Nesting!Pop /\ Nesting!Inner /\ ~Nesting!Outer
  BY <1>1, PopRefines
<1>3. Partial' = Partial
  BY <1>1 DEF Partial
<1> QED BY <1>1, <1>2, <1>3, InTheMapping

\* The outermost session ends.
LEMMA EndOuterRefines ==
    ASSUME RInv, IInv', Depth = 1,
           CommitTx \/ RollbackTx \/ TransactionPanics
    PROVE  Nesting!Commit \/ Nesting!CommitFails \/ Nesting!Rollback
<1>1. Pop /\ disabled' = disabled
  BY DEF CommitTx, RollbackTx, EndTx, TransactionPanics
<1>2. Depth' = 0
  BY <1>1, PopType DEF RInv, IInv
<1>3. /\ Len(Begun) = 1 /\ Begun[1] = committed
      /\ \A i \in 1..0 : Begun[i] = Seen(i)
  BY BegunType DEF RInv, BegunInv, Seen
<1>4. Expired = {} /\ Expired' = {}
  BY <1>2 DEF Expired
<1>5. Begun' = [i \in 1..(Len(Begun) - 1) |-> Begun[i]]
  <2>1. Begun' = [i \in 1..0 |-> Seen(i)']
    BY <1>2 DEF Begun
  <2> HIDE DEF Begun
  <2>2. [i \in 1..0 |-> Seen(i)'] = [i \in 1..(Len(Begun) - 1) |-> Begun[i]]
    BY <1>3
  <2> QED BY <2>1, <2>2
<1>6. Nesting!Pop /\ Nesting!Outer /\ ~Nesting!Inner
  BY <1>3, <1>4, <1>5, InTheMapping
<1>7. Partial' = Partial
  BY <1>1 DEF Partial
<1>8. CASE CommitTx
  <2>1. \/ outcome' = "committed" /\ committed' = work /\ work' = work
        \/ /\ outcome' = "failed"
           /\ committed' \in {committed, work}
           /\ work' = committed'
    BY <1>8 DEF CommitTx, EndTx
  <2> QED BY <2>1, <1>6, <1>7, InTheMapping
<1>9. CASE RollbackTx \/ TransactionPanics
  <2>1. outcome' = "rolledBack" /\ committed' = committed /\ work' = committed
    BY <1>9 DEF RollbackTx, EndTx, TransactionPanics
  <2> QED BY <2>1, <1>3, <1>6, <1>7, InTheMapping
<1> QED BY <1>8, <1>9

\* A new outermost session.
LEMMA BeginTxRefines ==
    ASSUME RInv, IInv', NEW kind \in {"func", "manual"}, BeginTx(kind)
    PROVE  Nesting!Begin
<1>1. sessions = <<>> /\ Depth = 0
  BY EmptySeq DEF BeginTx, Depth
<1>2. sessions' = <<[kind |-> kind, name |-> NoName, done |-> FALSE, sp |-> 0]>>
  BY DEF BeginTx
<1>3. Depth' = 1
  BY <1>2 DEF Depth
<1>4. Len(Begun) = 0 /\ Begun \in Seq(Values) /\ Begun = <<>>
  BY <1>1, BegunType, EmptySeq DEF RInv, BegunInv
<1>5. Begun' \in Seq(Values) /\ Len(Begun') = 1 /\ Begun'[1] = committed'
  BY <1>3, BegunTypeNext DEF BegunInv, Seen
<1>6. committed' = committed /\ work' = committed /\ committed \in Values
  BY DEF BeginTx, RInv, IInv, TypeOK
<1>7. Begun' = <<committed>>
  BY <1>5, <1>6
<1>8. Begun' = Append(Begun, committed)
  BY <1>4, <1>7
<1>9. Expired = {} /\ Expired' = {}
  BY <1>1, <1>3 DEF Expired
<1>10. Partial' = Partial /\ outcome' = outcome
  BY DEF BeginTx, Partial
<1> QED BY <1>4, <1>6, <1>8, <1>9, <1>10, InTheMapping

\* A new nested session saw what its savepoint keeps.
LEMMA NestRefines ==
    ASSUME RInv, IInv', NEW kind \in {"func", "manual"}, NEW n \in Names, Nest(kind, n)
    PROVE  Nesting!Begin
<1> DEFINE r == [kind |-> kind, name |-> n, done |-> FALSE, sp |-> Len(savepoints) + 1]
           s == [name |-> n, value |-> work]
           seen == IF disabled THEN committed ELSE work
<1>1. /\ Depth \in Nat /\ Depth > 0 /\ Len(savepoints) \in Nat
      /\ sessions \in Seq(Session) /\ savepoints \in Seq(Savepoint)
  BY LenProperties DEF RInv, IInv, TypeOK, Depth, Nest
<1>2. r \in Session /\ s \in Savepoint
  BY <1>1 DEF Session, Savepoint, RInv, IInv, TypeOK
<1>3. /\ alive /\ ~sessions[Depth].done
      /\ UNCHANGED <<alive, disabled, committed, work, outcome>>
      /\ sessions' = Append(sessions, r)
      /\ savepoints' = IF disabled THEN savepoints ELSE Append(savepoints, s)
  BY DEF Nest, Usable, Top
<1>4. /\ Depth' = Depth + 1 /\ sessions'[Depth + 1] = r
      /\ \A i \in 1..Depth : sessions'[i] = sessions[i]
  BY <1>1, <1>2, <1>3, AppendProperties DEF Depth
<1>5. ~disabled => /\ savepoints'[Len(savepoints) + 1] = s
                   /\ \A j \in 1..Len(savepoints) : savepoints'[j] = savepoints[j]
  BY <1>1, <1>2, <1>3, AppendProperties
<1>6. BegunInv /\ BegunInv'
  BY BegunType, BegunTypeNext DEF RInv
<1>7. \A i \in 1..Depth : Seen(i)' = Seen(i)
  <2> SUFFICES ASSUME NEW i \in 1..Depth PROVE Seen(i)' = Seen(i)
    OBVIOUS
  <2>1. ASSUME i # 1, ~disabled
        PROVE  savepoints'[sessions[i].sp] = savepoints[sessions[i].sp]
    <3>1. i \in 2..Depth
      BY <2>1, <1>1
    <3> QED BY <3>1, <2>1, <1>5, OlderSavepoints
  <2> QED BY <2>1, <1>3, <1>4, SeenKeeps
<1>8. Begun'[Depth + 1] = seen
  <2>1. Depth + 1 \in 1..Depth' /\ Depth + 1 # 1
    BY <1>1, <1>4
  <2>2. Begun'[Depth + 1] = IF ~alive' \/ disabled' THEN committed'
                            ELSE savepoints'[sessions'[Depth + 1].sp].value
    BY <2>1, <1>6 DEF BegunInv, Seen
  <2>3. sessions'[Depth + 1].sp = Len(savepoints) + 1
    BY <1>4
  <2>4. ~disabled => savepoints'[Len(savepoints) + 1].value = work
    BY <1>5
  <2>5. UNCHANGED <<alive, disabled, committed>> /\ alive
    BY <1>3
  <2> QED BY <2>2, <2>3, <2>4, <2>5
<1>9. Begun' = Append(Begun, seen)
  <2>1. Begun \in Seq(Values) /\ Begun' \in Seq(Values) /\ seen \in Values
    BY <1>6 DEF BegunInv, RInv, IInv, TypeOK
  <2>2. Len(Begun) = Depth /\ Len(Begun') = Depth + 1
    BY <1>4, <1>6 DEF BegunInv
  <2>3. /\ Append(Begun, seen) \in Seq(Values)
        /\ Len(Append(Begun, seen)) = Depth + 1
        /\ Append(Begun, seen)[Depth + 1] = seen
        /\ \A i \in 1..Depth : Append(Begun, seen)[i] = Begun[i]
    BY <2>1, <2>2, AppendProperties
  <2>4. \A i \in 1..Depth : Begun'[i] = Begun[i]
    BY <1>1, <1>4, <1>6, <1>7 DEF BegunInv
  <2>5. \A i \in 1..(Depth + 1) : Begun'[i] = Append(Begun, seen)[i]
    <3> SUFFICES ASSUME NEW i \in 1..(Depth + 1)
                 PROVE  Begun'[i] = Append(Begun, seen)[i]
      OBVIOUS
    <3>1. i \in 1..Depth \/ i = Depth + 1
      BY <1>1
    <3> QED BY <3>1, <2>3, <2>4, <1>8
  <2> HIDE DEF seen
  <2> QED BY <2>1, <2>2, <2>3, <2>5, SeqEqual
<1>10. Expired' = Expired
  <2>1. \A i \in 2..(Depth + 1) : sessions'[i].done <=> i \in 2..Depth /\ sessions[i].done
    <3> SUFFICES ASSUME NEW i \in 2..(Depth + 1)
                 PROVE  sessions'[i].done <=> i \in 2..Depth /\ sessions[i].done
      OBVIOUS
    <3>1. CASE i = Depth + 1
      BY <3>1, <1>1, <1>4
    <3>2. CASE i # Depth + 1
      BY <3>2, <1>1, <1>4
    <3> QED BY <3>1, <3>2
  <2> QED BY <2>1, <1>1, <1>4 DEF Expired
<1>11. Len(Begun) \notin Expired /\ Len(Begun) # 0
  BY <1>1, <1>3, <1>6 DEF BegunInv, Expired
<1>12. Begun # <<>>
  BY <1>11, EmptySeq
<1>13. Partial' = Partial /\ (seen = IF Begun = <<>> \/ ~Partial THEN committed ELSE work)
  BY <1>3, <1>12 DEF Partial
<1> QED BY <1>3, <1>9, <1>10, <1>11, <1>12, <1>13, InTheMapping

\* A statement of the innermost session, or of one that was committed, changes
\* what the transaction sees and nothing that was seen before.
LEMMA StatementRefines ==
    ASSUME RInv, IInv', RollbackCommitted \/ \E v \in Values : Write(v)
    PROVE  Nesting!Write
<1>1. Depth \in Nat /\ Depth # 0
  BY LenProperties, EmptySeq DEF RollbackCommitted, Write, RInv, IInv, ClosedInv, TypeOK, Depth
<1>2. UNCHANGED <<disabled, committed, alive, sessions, outcome>> /\ work' \in Values
  BY DEF RollbackCommitted, Write, IInv, TypeOK
<1>3. Depth' = Depth /\ Expired' = Expired /\ Partial' = Partial
  BY <1>2 DEF Depth, Expired, Partial
<1>4. ~disabled => \A i \in 2..Depth : savepoints'[sessions[i].sp] = savepoints[sessions[i].sp]
  <2>1. CASE RollbackCommitted
    <3> SUFFICES ASSUME ~disabled, NEW i \in 2..Depth
                 PROVE  savepoints'[sessions[i].sp] = savepoints[sessions[i].sp]
      OBVIOUS
    <3>1. PICK k \in 1..Len(savepoints) : /\ IsLatest(k, late)
                                          /\ \A j \in 2..Depth : sessions[j].sp < k
      BY <2>1 DEF RollbackCommitted, RInv, IInv, LateInv
    <3>2. \A j \in 1..k : savepoints'[j] = savepoints[j]
      BY <2>1, <3>1, RollbackToType DEF RollbackCommitted, RInv, IInv
    <3>3. sessions[i].sp \in 1..Len(savepoints) /\ sessions[i].sp < k
      BY <3>1, OlderSavepoints
    <3>4. sessions[i].sp \in 1..k
      BY <3>1, <3>3
    <3> QED BY <3>2, <3>4
  <2>2. CASE \E v \in Values : Write(v)
    BY <2>2 DEF Write
  <2> QED BY <2>1, <2>2
<1>5. \A i \in 1..Depth : Seen(i)' = Seen(i)
  <2> SUFFICES ASSUME NEW i \in 1..Depth PROVE Seen(i)' = Seen(i)
    OBVIOUS
  <2>1. i # 1 => i \in 2..Depth
    BY <1>1
  <2> QED BY <2>1, <1>2, <1>4, SeenKeeps
<1>6. Begun' = Begun
  BY <1>3, <1>5 DEF Begun
<1>7. Begun # <<>>
  BY <1>1, BegunType, EmptySeq DEF RInv, BegunInv
<1> QED BY <1>2, <1>3, <1>6, <1>7, InTheMapping

\* The context of a session is done.
LEMMA ContextDoneRefines ==
    ASSUME RInv, IInv', NEW i \in 1..Depth, ContextDone(i)
    PROVE  Nesting!Abort \/ Nesting!Expire
<1>1. Depth \in Nat /\ Depth' = Depth
  BY ContextDoneKeeps, LenProperties DEF RInv, IInv, TypeOK, Depth, ContextDone
<1>2. \A j \in 1..Depth : sessions[j] \in Session
  BY SessionFields DEF RInv, IInv
<1>3. \A j \in 1..Depth : /\ sessions'[j].sp = sessions[j].sp
                          /\ sessions'[j].done <=> (j >= i \/ sessions[j].done)
  BY <1>2 DEF ContextDone, Session
<1>4. UNCHANGED <<disabled, committed, savepoints, outcome>> /\ Partial' = Partial
  BY DEF ContextDone, Partial
<1>5. Len(Begun) = Depth
  BY BegunType DEF RInv, BegunInv
<1>6. CASE i = 1
  <2>1. ~alive' /\ work' = committed
    BY <1>6 DEF ContextDone
  <2>2. \A j \in 1..Depth : Seen(j)' = committed
    BY <2>1, <1>4 DEF Seen
  <2>3. Begun' = [j \in 1..Len(Begun) |-> committed]
    <3>1. Begun' = [j \in 1..Depth |-> Seen(j)']
      BY <1>1 DEF Begun
    <3> HIDE DEF Begun
    <3> QED BY <3>1, <2>2, <1>5
  <2>4. Expired' = 2..Len(Begun)
    <3>1. \A j \in 2..Depth : sessions'[j].done
      BY <1>1, <1>3, <1>6
    <3> HIDE DEF Begun
    <3> QED BY <3>1, <1>1, <1>5 DEF Expired
  <2>5. Begun # <<>>
    BY <1>1, <1>5, EmptySeq
  <2> QED BY <2>1, <2>3, <2>4, <2>5, <1>4, InTheMapping
<1>7. CASE i # 1
  <2>1. UNCHANGED <<alive, work>>
    BY <1>7 DEF ContextDone
  <2>2. \A j \in 1..Depth : Seen(j)' = Seen(j)
    BY <2>1, <1>3, <1>4, SeenKeeps
  <2>3. Begun' = Begun
    BY <2>2, <1>1 DEF Begun
  <2>4. Expired' = Expired \cup i..Len(Begun)
    <3> HIDE DEF Begun
    <3> QED BY <1>1, <1>3, <1>5, <1>7 DEF Expired
  <2>5. i \in 2..Len(Begun)
    BY <1>1, <1>5, <1>7
  <2> QED BY <2>1, <2>3, <2>4, <2>5, <1>4, InTheMapping
<1> QED BY <1>6, <1>7

\* Initially nothing is open on either side.
LEMMA InitRefines == Init => Nesting!Init
<1> SUFFICES ASSUME Init PROVE Nesting!Init
  OBVIOUS
<1>1. Depth = 0
  BY EmptySeq DEF Init, Depth
<1>2. IInv
  BY InitIInv
<1>3. Begun = <<>>
  BY <1>1, <1>2, BegunType, EmptySeq DEF BegunInv
<1>4. Expired = {}
  BY <1>1 DEF Expired
<1>5. Nesting!Init <=>
          /\ Partial \in BOOLEAN
          /\ committed \in Values
          /\ work = committed
          /\ Begun = <<>>
          /\ Expired = {}
          /\ outcome = "none"
  BY DEF Nesting!Init, Begun, Seen, Expired, Partial
<1> QED BY <1>3, <1>4, <1>5 DEF Init, Partial

\* Every step is one of the nested transactions, or none.
LEMMA StepRefines ==
    ASSUME ~Recursive, RInv, [Next]_vars
    PROVE  [Nesting!Next]_(Nesting!vars)
<1>1. IInv'
  BY StepIInv DEF RInv
<1>2. CASE Begin \/ Transaction
  BY <1>1, <1>2, BeginTxRefines DEF Begin, Transaction, Nesting!Next
<1>3. ASSUME NEW p \in Pointers, NestedBegin(p) PROVE Nesting!Next
  BY <1>1, <1>3, NestRefines DEF NestedBegin, Names, Nesting!Next
<1>4. ASSUME NEW f \in Funs, NestedTransaction(f) PROVE Nesting!Next
  BY <1>1, <1>4, NestRefines DEF NestedTransaction, Names, Nesting!Next
<1>5. CASE TransactionCommits \/ TransactionFails \/ TransactionPanics
           \/ Commit \/ Rollback
  BY <1>1, <1>5, EndOuterRefines DEF TransactionCommits, TransactionFails, Commit,
     Rollback, Outer, TransactionPanics, Nesting!Next
<1>6. CASE NestedTransactionReturns \/ NestedCommit
  BY <1>1, <1>6, CommitNestedRefines DEF NestedTransactionReturns, NestedCommit,
     Nested, Nesting!Next
<1>7. CASE NestedTransactionFails \/ NestedRollback
  BY <1>1, <1>7, RollbackNestedRefines DEF NestedTransactionFails, NestedRollback,
     Nested, Nesting!Next
<1>8. CASE RollbackCommitted \/ \E v \in Values : Write(v)
  BY <1>1, <1>8, StatementRefines DEF Nesting!Next
<1>9. ASSUME NEW i \in 1..Depth, ContextDone(i) PROVE Nesting!Next
  BY <1>1, <1>9, ContextDoneRefines DEF Nesting!Next
<1>10. CASE UNCHANGED vars
  <2>1. UNCHANGED <<disabled, committed, work, alive, savepoints, sessions, outcome>>
    BY <1>10 DEF vars
  <2>2. Depth' = Depth /\ Partial' = Partial /\ Expired' = Expired
    BY <2>1 DEF Depth, Partial, Expired
  <2>3. \A i \in 1..Depth : Seen(i)' = Seen(i)
    BY <2>1 DEF Seen
  <2>4. Begun' = Begun
    BY <2>2, <2>3 DEF Begun
  <2>5. UNCHANGED Nesting!vars
    BY <2>1, <2>2, <2>4, InTheMapping
  <2> QED BY <2>5
<1> QED BY <1>2, <1>3, <1>4, <1>5, <1>6, <1>7, <1>8, <1>9, <1>10 DEF Next

\* session.go:12-41: when no function runs inside itself, sessions are nested
\* transactions, however deep, with contexts that are done at any moment and
\* rollbacks of sessions that were committed.
THEOREM Refinement == ~Recursive /\ Spec => NestingSpec
<1> SUFFICES ASSUME ~Recursive PROVE Spec => NestingSpec
  OBVIOUS
<1>1. Init => Nesting!Init
  BY InitRefines
<1>2. RInv /\ [Next]_vars => [Nesting!Next]_(Nesting!vars)
  BY StepRefines
<1>3. Spec => []RInv
  BY RInvHolds
<1> QED BY <1>1, <1>2, <1>3, PTL DEF Spec, NestingSpec, Nesting!Spec
=============================================================================

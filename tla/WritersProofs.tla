---------------------------- MODULE WritersProofs ----------------------------
(***************************************************************************)
(* Proofs about the chain of writers of a Response, for every chain the    *)
(* middleware can build, every set of encoders and every sequence of       *)
(* calls: what the client gets is what the handler wrote, and the access   *)
(* logs count it.                                                          *)
(***************************************************************************)
EXTENDS Writers, SequenceTheorems, WellFoundedInduction, TLAPS

-----------------------------------------------------------------------------
(* Induction over an interval, by a least counterexample. *)

LEMMA LeastNumber ==
    ASSUME NEW T, T \subseteq Nat, T # {}
    PROVE  \E n \in T : \A m \in T : n <= m
  <1> DEFINE R == {ss \in Nat \X Nat : ss[1] < ss[2]}
  <1>1. OpToRel(<, Nat) = R
    BY DEF OpToRel
  <1>2. IsWellFoundedOn(R, Nat)
    BY <1>1, NatLessThanWellFounded
  <1> HIDE DEF R
  <1>3. PICK n \in T : \A m \in T : ~(<<m, n>> \in R)
    BY <1>2, WFMin
  <1>4. ASSUME NEW m \in T PROVE n <= m
    <2>1. m \in Nat /\ n \in Nat /\ ~(m < n)
      BY <1>3 DEF R
    <2> QED BY <2>1
  <1> QED BY <1>4

LEMMA IntervalInduction ==
    ASSUME NEW N \in Nat, NEW T, 0 \in T, \A n \in 0..(N - 1) : n \in T => n + 1 \in T
    PROVE  0..N \subseteq T
  <1> DEFINE B == {n \in Nat : n <= N /\ n \notin T}
  <1> SUFFICES ASSUME B # {} PROVE FALSE
    OBVIOUS
  <1>1. PICK n \in B : \A m \in B : n <= m
    BY LeastNumber
  <1>2. n # 0 /\ n - 1 \in 0..(N - 1) /\ n - 1 \notin B
    BY <1>1
  <1> QED BY <1>1, <1>2

-----------------------------------------------------------------------------
(* Tokens without the marks. *)

\* Strings, and those that the code has itself.
Texts == STRING \cup {"", "detected", "set", "page"}

\* What a handler writes is no mark.
Handed == {<<c>> : c \in Texts \ {"sync", "end"}}
Tokens == Handed \cup Marks

\* The function that Plain is made from.
IsKept(tokens, kept) ==
    kept = [n \in 0..Len(tokens) |->
              IF n = 0 THEN <<>>
              ELSE IF tokens[n] \in Marks THEN kept[n - 1] ELSE Append(kept[n - 1], tokens[n])]

LEMMA KeptAt ==
    ASSUME NEW S, NEW tokens \in Seq(S), NEW kept, IsKept(tokens, kept)
    PROVE  /\ kept[0] = <<>>
           /\ \A n \in 1..Len(tokens) :
                kept[n] = IF tokens[n] \in Marks THEN kept[n - 1] ELSE Append(kept[n - 1], tokens[n])
  <1> DEFINE step(n) == IF n = 0 THEN <<>> ELSE IF tokens[n] \in Marks THEN kept[n - 1]
                                               ELSE Append(kept[n - 1], tokens[n])
  <1>1. kept = [n \in 0..Len(tokens) |-> step(n)]
    BY DEF IsKept
  <1>2. step(0) = <<>> /\ \A n \in 1..Len(tokens) : step(n) =
           IF tokens[n] \in Marks THEN kept[n - 1] ELSE Append(kept[n - 1], tokens[n])
    OBVIOUS
  <1> HIDE DEF step
  <1>3. kept[0] = step(0) /\ \A n \in 1..Len(tokens) : kept[n] = step(n)
    BY <1>1
  <1> QED BY <1>2, <1>3

LEMMA KeptTyped ==
    ASSUME NEW S, NEW tokens \in Seq(S), NEW kept, IsKept(tokens, kept)
    PROVE  \A n \in 0..Len(tokens) : kept[n] \in Seq(S)
  <1> DEFINE T == {n \in 0..Len(tokens) : kept[n] \in Seq(S)}
  <1>0. kept[0] = <<>> /\ <<>> \in Seq(S) /\ 0 \in 0..Len(tokens)
    BY KeptAt
  <1>1. 0 \in T
    <2>1. kept[0] \in Seq(S)
      BY <1>0
    <2> QED BY <1>0, <2>1
  <1>2. ASSUME NEW n \in 0..(Len(tokens) - 1), n \in T PROVE n + 1 \in T
    <2>1. n + 1 \in 1..Len(tokens) /\ (n + 1) - 1 = n
      OBVIOUS
    <2>2. kept[n + 1] = IF tokens[n + 1] \in Marks THEN kept[n] ELSE Append(kept[n], tokens[n + 1])
      BY <2>1, KeptAt
    <2>3. tokens[n + 1] \in S
      BY <2>1
    <2>4. kept[n + 1] \in Seq(S)
      BY <1>2, <2>2, <2>3
    <2> QED BY <2>1, <2>4
  <1> HIDE DEF T
  <1>3. 0..Len(tokens) \subseteq T
    <2>1. PICK N \in Nat : N = Len(tokens)
      OBVIOUS
    <2>2. \A n \in 0..(N - 1) : n \in T => n + 1 \in T
      BY <1>2, <2>1
    <2>3. 0..N \subseteq T
      BY <1>1, <2>2, IntervalInduction
    <2> QED BY <2>1, <2>3
  <1> QED BY <1>3 DEF T

LEMMA KeptExists ==
    ASSUME NEW S, NEW tokens \in Seq(S)
    PROVE  \E kept : IsKept(tokens, kept)
  <1> DEFINE Next1(n, before) == IF tokens[n] \in Marks THEN before ELSE Append(before, tokens[n])
             Upto(k, g) == g = [n \in 0..k |-> IF n = 0 THEN <<>> ELSE Next1(n, g[n - 1])]
             T == {k \in Nat : \E g : Upto(k, g)}
  <1>0. \A g : Upto(Len(tokens), g) => IsKept(tokens, g)
    BY DEF IsKept
  <1> HIDE DEF Next1
  <1>1. 0 \in T
    <2> DEFINE g == [n \in 0..0 |-> <<>>]
    <2>1. Upto(0, g)
      OBVIOUS
    <2> QED BY <2>1
  <1>2. ASSUME NEW k \in T PROVE k + 1 \in T
    <2>1. PICK g : Upto(k, g)
      OBVIOUS
    <2> DEFINE h == [n \in 0..(k + 1) |-> IF n = k + 1 THEN Next1(n, g[k]) ELSE g[n]]
    <2>2. Upto(k + 1, h)
      <3>1. \A n \in 0..(k + 1) : h[n] = IF n = 0 THEN <<>> ELSE Next1(n, h[n - 1])
        <4> TAKE n \in 0..(k + 1)
        <4>1. CASE n = k + 1
          BY <2>1, <4>1
        <4>2. CASE n # k + 1
          BY <2>1, <4>2
        <4> QED BY <4>1, <4>2
      <3> QED BY <3>1
    <2> HIDE DEF h, Upto
    <2> QED BY <2>2
  <1> HIDE DEF Upto
  <1>3. \A n \in 0..(Len(tokens) - 1) : n \in T => n + 1 \in T
    BY <1>2
  <1> HIDE DEF T
  <1>4. Len(tokens) \in 0..Len(tokens) /\ Len(tokens) \in Nat
    OBVIOUS
  <1>5. Len(tokens) \in T
    BY <1>1, <1>3, <1>4, IntervalInduction
  <1> QED BY <1>0, <1>5 DEF T

LEMMA KeptUnique ==
    ASSUME NEW S, NEW tokens \in Seq(S), NEW g, NEW h, IsKept(tokens, g), IsKept(tokens, h)
    PROVE  g = h
  <1> DEFINE T == {n \in 0..Len(tokens) : g[n] = h[n]}
  <1>1. 0 \in T
    BY KeptAt
  <1>2. ASSUME NEW n \in 0..(Len(tokens) - 1), n \in T PROVE n + 1 \in T
    <2>1. n + 1 \in 1..Len(tokens) /\ (n + 1) - 1 = n
      OBVIOUS
    <2>2. /\ g[n + 1] = IF tokens[n + 1] \in Marks THEN g[n] ELSE Append(g[n], tokens[n + 1])
          /\ h[n + 1] = IF tokens[n + 1] \in Marks THEN h[n] ELSE Append(h[n], tokens[n + 1])
      BY <2>1, KeptAt
    <2> QED BY <1>2, <2>1, <2>2
  <1>3. /\ DOMAIN g = 0..Len(tokens) /\ g = [n \in DOMAIN g |-> g[n]]
        /\ DOMAIN h = 0..Len(tokens) /\ h = [n \in DOMAIN h |-> h[n]]
    BY DEF IsKept
  <1> HIDE DEF T
  <1>4. 0..Len(tokens) \subseteq T
    BY <1>1, <1>2, IntervalInduction
  <1>5. \A n \in 0..Len(tokens) : g[n] = h[n]
    BY <1>4 DEF T
  <1> QED BY <1>3, <1>5

\* Whatever satisfies the equation of the recursion gives Plain.
LEMMA PlainIs ==
    ASSUME NEW S, NEW tokens \in Seq(S), NEW kept, IsKept(tokens, kept)
    PROVE  Plain(tokens) = kept[Len(tokens)]
  <1> DEFINE g == CHOOSE g : IsKept(tokens, g)
  <1>1. Plain(tokens) = g[Len(tokens)]
    BY DEF Plain, IsKept
  <1>2. IsKept(tokens, g)
    OBVIOUS
  <1> HIDE DEF g
  <1>3. g = kept
    BY <1>2, KeptUnique
  <1> QED BY <1>1, <1>3

LEMMA PlainTyped ==
    ASSUME NEW S, NEW tokens \in Seq(S)
    PROVE  Plain(tokens) \in Seq(S)
  <1>1. PICK kept : IsKept(tokens, kept)
    BY KeptExists
  <1>2. Plain(tokens) = kept[Len(tokens)]
    BY <1>1, PlainIs
  <1> QED BY <1>1, <1>2, KeptTyped

LEMMA PlainConcat ==
    ASSUME NEW S, NEW a \in Seq(S), NEW b \in Seq(S)
    PROVE  Plain(a \o b) = Plain(a) \o Plain(b)
  <1>1. PICK g : IsKept(a, g)
    BY KeptExists
  <1>2. PICK h : IsKept(b, h)
    BY KeptExists
  <1> DEFINE f == [n \in 0..Len(a \o b) |-> IF n <= Len(a) THEN g[n] ELSE g[Len(a)] \o h[n - Len(a)]]
  <1>3. /\ a \o b \in Seq(S) /\ Len(a \o b) = Len(a) + Len(b)
        /\ \A n \in 1..Len(a) : (a \o b)[n] = a[n]
        /\ \A n \in 1..Len(b) : (a \o b)[Len(a) + n] = b[n]
        /\ Len(a) \in Nat /\ Len(b) \in Nat
    OBVIOUS
  <1>4. g[Len(a)] \in Seq(S) /\ \A n \in 0..Len(b) : h[n] \in Seq(S)
    BY <1>1, <1>2, <1>3, KeptTyped
  <1>5. h[0] = <<>> /\ g[Len(a)] \o <<>> = g[Len(a)]
    <2>1. h[0] = <<>>
      BY <1>2, KeptAt
    <2>2. ASSUME NEW x \in Seq(S) PROVE x \o <<>> = x
      OBVIOUS
    <2> QED BY <1>4, <2>1, <2>2
  <1>6. /\ \A n \in 0..Len(a) : f[n] = g[n]
        /\ \A m \in 0..Len(b) : f[Len(a) + m] = g[Len(a)] \o h[m]
    <2>1. ASSUME NEW n \in 0..Len(a) PROVE f[n] = g[n]
      <3>1. n \in 0..Len(a \o b) /\ n <= Len(a)
        BY <1>3
      <3> QED BY <3>1
    <2>2. ASSUME NEW m \in 0..Len(b) PROVE f[Len(a) + m] = g[Len(a)] \o h[m]
      <3> DEFINE n == Len(a) + m
      <3>1. n \in 0..Len(a \o b) /\ n - Len(a) = m /\ n \in Nat
        BY <1>3
      <3>2. CASE m = 0
        <4>1. n = Len(a) /\ n <= Len(a)
          BY <1>3, <3>2
        <4>2. f[n] = g[n]
          BY <2>1, <4>1, <1>3
        <4> QED BY <1>5, <3>2, <4>1, <4>2
      <3>3. CASE m # 0
        <4>1. ~(n <= Len(a))
          BY <1>3, <3>3
        <4> HIDE DEF n
        <4>2. f[n] = g[Len(a)] \o h[n - Len(a)]
          BY <3>1, <4>1
        <4> QED BY <3>1, <4>2 DEF n
      <3> QED BY <3>2, <3>3
    <2> HIDE DEF f
    <2> QED BY <2>1, <2>2
  <1>7. IsKept(a \o b, f)
    <2>1. ASSUME NEW n \in 0..Len(a \o b)
          PROVE  f[n] = IF n = 0 THEN <<>> ELSE IF (a \o b)[n] \in Marks THEN f[n - 1]
                                                ELSE Append(f[n - 1], (a \o b)[n])
      <3> HIDE DEF f
      <3>0. CASE n = 0
        BY <1>1, <1>3, <1>6, <3>0, KeptAt
      <3>1. CASE n \in 1..Len(a)
        <4>1. n \in 0..Len(a) /\ n - 1 \in 0..Len(a) /\ n # 0
          BY <1>3, <3>1
        <4>2. g[n] = IF a[n] \in Marks THEN g[n - 1] ELSE Append(g[n - 1], a[n])
          BY <1>1, <3>1, KeptAt
        <4> QED BY <1>3, <1>6, <3>1, <4>1, <4>2
      <3>2. CASE n > Len(a)
        <4>0. PICK m \in 1..Len(b) : n = Len(a) + m
          <5>1. n - Len(a) \in 1..Len(b) /\ n = Len(a) + (n - Len(a))
            BY <1>3, <3>2
          <5> QED BY <5>1
        <4>1. /\ (a \o b)[n] = b[m] /\ b[m] \in S /\ n # 0
              /\ m \in 0..Len(b) /\ m - 1 \in 0..Len(b) /\ n - 1 = Len(a) + (m - 1)
          BY <1>3, <4>0
        <4>2. f[n] = g[Len(a)] \o h[m] /\ f[n - 1] = g[Len(a)] \o h[m - 1]
          BY <1>6, <4>0, <4>1
        <4>3. h[m] = IF b[m] \in Marks THEN h[m - 1] ELSE Append(h[m - 1], b[m])
          BY <1>2, <4>0, KeptAt
        <4>4. g[Len(a)] \o Append(h[m - 1], b[m]) = Append(g[Len(a)] \o h[m - 1], b[m])
          <5> DEFINE x == g[Len(a)]  y == h[m - 1]  z == b[m]
          <5>1. x \in Seq(S) /\ y \in Seq(S) /\ z \in S
            BY <1>4, <4>1
          <5> HIDE DEF x, y, z
          <5>2. x \o Append(y, z) = Append(x \o y, z)
            BY <5>1
          <5> QED BY <5>2 DEF x, y, z
        <4> QED BY <4>1, <4>2, <4>3, <4>4
      <3> QED BY <1>3, <3>0, <3>1, <3>2
    <2> QED BY <2>1 DEF IsKept
  <1>8. Plain(a) = g[Len(a)] /\ Plain(b) = h[Len(b)]
    BY <1>1, <1>2, PlainIs
  <1>9. Plain(a \o b) = f[Len(a \o b)]
    BY <1>3, <1>7, PlainIs
  <1> HIDE DEF f
  <1>10. f[Len(a) + Len(b)] = g[Len(a)] \o h[Len(b)]
    <2>1. Len(b) \in 0..Len(b)
      BY <1>3
    <2> QED BY <1>6, <2>1
  <1> QED BY <1>3, <1>8, <1>9, <1>10

LEMMA PlainSame ==
    ASSUME NEW a \in Seq(Handed)
    PROVE  Plain(a) = a
  <1> DEFINE f == [n \in 0..Len(a) |-> SubSeq(a, 1, n)]
  <1>1. \A n \in 1..Len(a) : a[n] \notin Marks
    BY DEF Marks, Handed
  <1>2. ASSUME NEW n \in 0..Len(a)
        PROVE  f[n] = IF n = 0 THEN <<>> ELSE IF a[n] \in Marks THEN f[n - 1] ELSE Append(f[n - 1], a[n])
    BY <1>1
  <1>3. IsKept(a, f)
    BY <1>2 DEF IsKept
  <1>4. Plain(a) = f[Len(a)]
    BY <1>3, PlainIs
  <1> QED BY <1>4

LEMMA PlainMark ==
    ASSUME NEW m \in Marks
    PROVE  Plain(<<m>>) = <<>>
  <1> DEFINE f == [n \in 0..1 |-> <<>>]
  <1>1. IsKept(<<m>>, f)
    BY DEF IsKept
  <1>2. <<m>> \in Seq(Marks) /\ Len(<<m>>) = 1
    OBVIOUS
  <1> QED BY <1>1, <1>2, PlainIs

-----------------------------------------------------------------------------
(* The tokens that reach each writer of a chain. *)

Links == [is : {"log", "compress"}, encoder : Texts, pending : Seq(Handed), empty : BOOLEAN, length : Nat]

\* What is on the wire: tokens, or tokens compressed once.
Compressed == Texts \X Tokens
OnWire == Tokens \cup Compressed

Headers == [encoding : Texts, vary : BOOLEAN, length : BOOLEAN, type : Texts]
IsResponse(s) ==
    /\ s = [chain |-> s.chain, header |-> s.header, sent |-> s.sent, wire |-> s.wire,
            status |-> s.status, empty |-> s.empty, wroteHeader |-> s.wroteHeader,
            entries |-> s.entries, early |-> s.early]
    /\ s.chain \in Seq(Links) /\ s.header \in Headers /\ s.wire \in Seq(OnWire)
    /\ s.sent \in Seq([header : Headers, status : Nat]) /\ s.status \in Nat
    /\ s.empty \in BOOLEAN /\ s.wroteHeader \in BOOLEAN /\ s.early \in BOOLEAN

Encoding(chain) == {i \in DOMAIN chain : chain[i].is = "compress"}
AtMostOne(chain) == \A i, j \in Encoding(chain) : i = j

LetOut(link, op, spill, tokens) == Through(link, op, spill, tokens).out

\* With at most one encoder, a link gets what was written, or what the encoder lets out.
Reaches(chain, op, spill, tokens, i) ==
    IF \E k \in Encoding(chain) : k < i
    THEN LetOut(chain[CHOOSE k \in Encoding(chain) : TRUE], op, spill, tokens)
    ELSE tokens

\* The function that Pass is made from.
IsArriving(chain, op, spill, tokens, arriving) ==
    arriving = [i \in 1..(Len(chain) + 1) |->
                  IF i = 1 THEN tokens ELSE LetOut(chain[i - 1], op, spill, arriving[i - 1])]

LEMMA ReachesFirst ==
    ASSUME NEW chain \in Seq(Links), NEW op, NEW spill, NEW tokens
    PROVE  Reaches(chain, op, spill, tokens, 1) = tokens
  BY DEF Reaches, Encoding

LEMMA ReachesNext ==
    ASSUME NEW chain \in Seq(Links), AtMostOne(chain), NEW op, NEW spill, NEW tokens,
           NEW i \in 1..Len(chain)
    PROVE  Reaches(chain, op, spill, tokens, i + 1)
             = LetOut(chain[i], op, spill, Reaches(chain, op, spill, tokens, i))
  <1> DEFINE at(j) == Reaches(chain, op, spill, tokens, j)
  <1>0. Encoding(chain) \subseteq 1..Len(chain)
    BY DEF Encoding
  <1>1. chain[i].is \in {"log", "compress"}
    <2>1. chain[i] \in Links
      OBVIOUS
    <2> QED BY <2>1 DEF Links
  <1>2. CASE chain[i].is = "log"
    <2>1. LetOut(chain[i], op, spill, at(i)) = at(i)
      BY <1>2 DEF LetOut, Through
    <2>2. (\E k \in Encoding(chain) : k < i + 1) <=> (\E k \in Encoding(chain) : k < i)
      <3>1. i \notin Encoding(chain)
        BY <1>2 DEF Encoding
      <3>2. ASSUME NEW k \in Encoding(chain) PROVE k < i + 1 <=> k < i
        BY <1>0, <3>1
      <3> QED BY <3>2
    <2>3. at(i + 1) = at(i)
      BY <2>2 DEF Reaches
    <2> QED BY <2>1, <2>3
  <1>3. CASE chain[i].is = "compress"
    <2>1. i \in Encoding(chain)
      BY <1>3 DEF Encoding
    <2>2. \A k \in Encoding(chain) : k = i
      BY <2>1 DEF AtMostOne
    <2>3. (CHOOSE k \in Encoding(chain) : TRUE) = i
      BY <2>1, <2>2
    <2>4. ~(\E k \in Encoding(chain) : k < i) /\ \E k \in Encoding(chain) : k < i + 1
      BY <2>1, <2>2
    <2>5. at(i) = tokens
      BY <2>4 DEF Reaches
    <2>6. at(i + 1) = LetOut(chain[i], op, spill, tokens)
      BY <2>3, <2>4 DEF Reaches
    <2> QED BY <2>5, <2>6
  <1> QED BY <1>1, <1>2, <1>3

LEMMA ArrivingReaches ==
    ASSUME NEW chain \in Seq(Links), AtMostOne(chain), NEW op, NEW spill, NEW tokens,
           NEW arriving, IsArriving(chain, op, spill, tokens, arriving)
    PROVE  \A i \in 1..(Len(chain) + 1) : arriving[i] = Reaches(chain, op, spill, tokens, i)
  <1> DEFINE at(i) == Reaches(chain, op, spill, tokens, i)
             after(i, before) == LetOut(chain[i], op, spill, before)
             N == Len(chain)
             T == {n \in 0..N : arriving[n + 1] = at(n + 1)}
  <1>1. /\ at(1) = tokens /\ \A i \in 1..N : at(i + 1) = after(i, at(i))
    BY ReachesFirst, ReachesNext
  <1>2. arriving = [i \in 1..(N + 1) |-> IF i = 1 THEN tokens ELSE after(i - 1, arriving[i - 1])]
    BY DEF IsArriving
  <1>3. N \in Nat
    OBVIOUS
  <1> HIDE DEF at, after, N
  <1>4. arriving[1] = tokens /\ \A i \in 1..N : arriving[i + 1] = after(i, arriving[i])
    <2>1. arriving[1] = tokens
      BY <1>2, <1>3
    <2>2. ASSUME NEW i \in 1..N PROVE arriving[i + 1] = after(i, arriving[i])
      <3>1. i + 1 \in 1..(N + 1) /\ i + 1 # 1 /\ (i + 1) - 1 = i
        BY <1>3
      <3>2. arriving[i + 1] = after((i + 1) - 1, arriving[(i + 1) - 1])
        BY <1>2, <3>1
      <3> QED BY <3>1, <3>2
    <2> QED BY <2>1, <2>2
  <1>5. 0 \in T
    BY <1>1, <1>3, <1>4
  <1>6. ASSUME NEW n \in 0..(N - 1), n \in T PROVE n + 1 \in T
    <2>1. n + 1 \in 1..N /\ n + 1 \in 0..N
      BY <1>3
    <2>2. arriving[(n + 1) + 1] = after(n + 1, arriving[n + 1])
      BY <1>4, <2>1
    <2>3. at((n + 1) + 1) = after(n + 1, at(n + 1))
      BY <1>1, <2>1
    <2>4. arriving[n + 1] = at(n + 1)
      BY <1>6
    <2> QED BY <2>1, <2>2, <2>3, <2>4
  <1> HIDE DEF T
  <1>7. 0..N \subseteq T
    BY <1>3, <1>5, <1>6, IntervalInduction
  <1>8. ASSUME NEW i \in 1..(N + 1) PROVE arriving[i] = at(i)
    <2>1. i - 1 \in 0..N /\ (i - 1) + 1 = i
      BY <1>3
    <2>2. i - 1 \in T
      BY <1>7, <2>1
    <2>3. arriving[(i - 1) + 1] = at((i - 1) + 1)
      BY <2>2 DEF T
    <2> QED BY <2>1, <2>3
  <1> QED BY <1>8 DEF at, N

LEMMA ArrivingExists ==
    ASSUME NEW chain \in Seq(Links), AtMostOne(chain), NEW op, NEW spill, NEW tokens
    PROVE  \E arriving : IsArriving(chain, op, spill, tokens, arriving)
  <1> DEFINE at(i) == Reaches(chain, op, spill, tokens, i)
             after(i, before) == LetOut(chain[i], op, spill, before)
             N == Len(chain)
             f == [i \in 1..(N + 1) |-> at(i)]
  <1>1. /\ at(1) = tokens /\ \A i \in 1..N : at(i + 1) = after(i, at(i))
    BY ReachesFirst, ReachesNext
  <1>2. N \in Nat
    OBVIOUS
  <1>3. f = [i \in 1..(N + 1) |-> IF i = 1 THEN tokens ELSE after(i - 1, f[i - 1])]
    <2> HIDE DEF at, after, N
    <2>1. ASSUME NEW i \in 1..(N + 1)
          PROVE  at(i) = IF i = 1 THEN tokens ELSE after(i - 1, f[i - 1])
      <3>1. CASE i = 1
        BY <1>1, <3>1
      <3>2. CASE i # 1
        <4>1. i - 1 \in 1..N /\ i - 1 \in 1..(N + 1) /\ (i - 1) + 1 = i
          BY <1>2, <3>2
        <4>2. f[i - 1] = at(i - 1)
          BY <4>1
        <4>3. at((i - 1) + 1) = after(i - 1, at(i - 1))
          BY <1>1, <4>1
        <4> HIDE DEF f
        <4> QED BY <3>2, <4>1, <4>2, <4>3
      <3> QED BY <3>1, <3>2
    <2> QED BY <2>1
  <1>4. IsArriving(chain, op, spill, tokens, f)
    <2> HIDE DEF f
    <2> QED BY <1>3 DEF IsArriving
  <1> QED BY <1>4

\* What Pass does to a response.
LEMMA PassIs ==
    ASSUME NEW s, s.chain \in Seq(Links), AtMostOne(s.chain), NEW op, NEW spill, NEW tokens
    PROVE  LET at(i) == Reaches(s.chain, op, spill, tokens, i)
               after(i) == [s.chain[i] EXCEPT !.pending = Through(s.chain[i], op, spill, at(i)).pending,
                                              !.length = Counted(s.chain[i], op, at(i))]
           IN  Pass(s, op, spill, tokens) = [s EXCEPT !.chain = [i \in DOMAIN s.chain |-> after(i)],
                                                      !.wire = s.wire \o at(Len(s.chain) + 1)]
  <1> DEFINE at(i) == Reaches(s.chain, op, spill, tokens, i)
             after(i) == [s.chain[i] EXCEPT !.pending = Through(s.chain[i], op, spill, at(i)).pending,
                                            !.length = Counted(s.chain[i], op, at(i))]
             a == CHOOSE a : IsArriving(s.chain, op, spill, tokens, a)
             afterA(i) == [s.chain[i] EXCEPT !.pending = Through(s.chain[i], op, spill, a[i]).pending,
                                             !.length = Counted(s.chain[i], op, a[i])]
  <1>1. IsArriving(s.chain, op, spill, tokens, a)
    BY ArrivingExists
  <1>2. \A i \in 1..(Len(s.chain) + 1) : a[i] = at(i)
    BY <1>1, ArrivingReaches
  <1>3. Pass(s, op, spill, tokens) = [s EXCEPT !.chain = [i \in DOMAIN s.chain |-> afterA(i)],
                                               !.wire = s.wire \o a[Len(s.chain) + 1]]
    BY DEF Pass, IsArriving, LetOut
  <1> HIDE DEF a
  <1>4. DOMAIN s.chain = 1..Len(s.chain) /\ Len(s.chain) \in Nat
    OBVIOUS
  <1>5. \A i \in DOMAIN s.chain : afterA(i) = after(i)
    <2> TAKE i \in DOMAIN s.chain
    <2>1. a[i] = at(i)
      BY <1>2, <1>4
    <2> HIDE DEF at
    <2> QED BY <2>1
  <1>6. a[Len(s.chain) + 1] = at(Len(s.chain) + 1)
    BY <1>2, <1>4
  <1> HIDE DEF at, after, afterA
  <1>7. [i \in DOMAIN s.chain |-> afterA(i)] = [i \in DOMAIN s.chain |-> after(i)]
    BY <1>5
  <1>8. Pass(s, op, spill, tokens) = [s EXCEPT !.chain = [i \in DOMAIN s.chain |-> after(i)],
                                               !.wire = s.wire \o at(Len(s.chain) + 1)]
    BY <1>3, <1>6, <1>7
  <1> QED BY <1>8 DEF at, after

-----------------------------------------------------------------------------
(* What an encoder lets out. *)

NoEnd(tokens) == \A i \in DOMAIN tokens : tokens[i] # <<"end">>

LEMMA TokensAre ==
    /\ Handed \subseteq Tokens /\ Marks \subseteq Tokens /\ Tokens \subseteq OnWire
    /\ \A t \in Handed : t \notin Marks
    /\ <<"end">> \in Marks /\ <<"sync">> \in Marks /\ <<"sync">> # <<"end">>
  BY DEF Handed, Tokens, Marks, OnWire

LEMMA EncodedToken ==
    ASSUME NEW e \in Texts, NEW t \in Tokens
    PROVE  <<e, t>> \in OnWire /\ <<e, t>>[1] = e /\ <<e, t>>[2] = t /\ <<e, t>> \notin Marks
  BY DEF OnWire, Compressed, Marks

LEMMA EncodedAt ==
    ASSUME NEW e \in Texts, NEW a \in Seq(Tokens)
    PROVE  /\ Encoded(e, a) \in Seq(OnWire) /\ Len(Encoded(e, a)) = Len(a)
           /\ \A i \in 1..Len(a) : Encoded(e, a)[i] = <<e, a[i]>>
  <1> DEFINE on(i) == <<e, a[i]>>
  <1>1. Encoded(e, a) = [i \in 1..Len(a) |-> on(i)] /\ Len(a) \in Nat
    BY DEF Encoded
  <1>2. \A i \in 1..Len(a) : a[i] \in Tokens
    OBVIOUS
  <1>3. \A i \in 1..Len(a) : on(i) \in OnWire
    BY <1>2, EncodedToken
  <1>4. \A i \in 1..Len(a) : on(i) = <<e, a[i]>>
    OBVIOUS
  <1> HIDE DEF on
  <1>5. /\ Encoded(e, a) \in Seq(OnWire) /\ Len(Encoded(e, a)) = Len(a)
        /\ \A i \in 1..Len(a) : Encoded(e, a)[i] = on(i)
    BY <1>1, <1>3
  <1> QED BY <1>4, <1>5

LEMMA EncodedConcat ==
    ASSUME NEW e \in Texts, NEW a \in Seq(Tokens), NEW b \in Seq(Tokens)
    PROVE  Encoded(e, a) \o Encoded(e, b) = Encoded(e, a \o b)
  <1> DEFINE ea == Encoded(e, a)  eb == Encoded(e, b)  ab == a \o b  eab == Encoded(e, ab)  x == ea \o eb
  <1>1. /\ ab \in Seq(Tokens) /\ Len(ab) = Len(a) + Len(b) /\ Len(a) \in Nat /\ Len(b) \in Nat
        /\ \A i \in 1..(Len(a) + Len(b)) : ab[i] = IF i <= Len(a) THEN a[i] ELSE b[i - Len(a)]
    BY ConcatProperties
  <1> HIDE DEF ab
  <1>2. /\ ea \in Seq(OnWire) /\ Len(ea) = Len(a) /\ \A i \in 1..Len(a) : ea[i] = <<e, a[i]>>
        /\ eb \in Seq(OnWire) /\ Len(eb) = Len(b) /\ \A i \in 1..Len(b) : eb[i] = <<e, b[i]>>
        /\ eab \in Seq(OnWire) /\ Len(eab) = Len(a) + Len(b)
        /\ \A i \in 1..(Len(a) + Len(b)) : eab[i] = <<e, ab[i]>>
    BY <1>1, EncodedAt
  <1> HIDE DEF ea, eb, eab
  <1>3. /\ x \in Seq(OnWire) /\ Len(x) = Len(a) + Len(b)
        /\ \A i \in 1..(Len(a) + Len(b)) : x[i] = IF i <= Len(a) THEN ea[i] ELSE eb[i - Len(a)]
    <2>1. ASSUME NEW u \in Seq(OnWire), NEW v \in Seq(OnWire)
          PROVE  /\ u \o v \in Seq(OnWire) /\ Len(u \o v) = Len(u) + Len(v)
                 /\ \A i \in 1..(Len(u) + Len(v)) :
                      (u \o v)[i] = IF i <= Len(u) THEN u[i] ELSE v[i - Len(u)]
      BY ConcatProperties
    <2>2. /\ x \in Seq(OnWire) /\ Len(x) = Len(ea) + Len(eb)
          /\ \A i \in 1..(Len(ea) + Len(eb)) : x[i] = IF i <= Len(ea) THEN ea[i] ELSE eb[i - Len(ea)]
      BY <1>2, <2>1, Zenon
    <2> HIDE DEF x
    <2> QED BY <1>2, <2>2
  <1>4. ASSUME NEW i \in 1..(Len(a) + Len(b)) PROVE x[i] = eab[i]
    <2>1. CASE i <= Len(a)
      <3>1. i \in 1..Len(a)
        BY <1>1, <2>1
      <3> HIDE DEF x
      <3> QED BY <1>1, <1>2, <1>3, <2>1, <3>1
    <2>2. CASE ~(i <= Len(a))
      <3>1. i - Len(a) \in 1..Len(b)
        BY <1>1, <2>2
      <3> HIDE DEF x
      <3> QED BY <1>1, <1>2, <1>3, <2>2, <3>1
    <2> QED BY <2>1, <2>2
  <1> HIDE DEF x
  <1>5. x = eab
    BY <1>1, <1>2, <1>3, <1>4, SeqEqual
  <1> QED BY <1>5 DEF x, ea, eb, eab, ab

LEMMA PlainEnd ==
    ASSUME NEW a \in Seq(Handed), NEW m \in Marks
    PROVE  Plain(a \o <<m>>) = a /\ a \o <<m>> \in Seq(Tokens)
  <1>1. a \in Seq(Tokens) /\ <<m>> \in Seq(Tokens)
    BY TokensAre
  <1>2. Plain(a \o <<m>>) = Plain(a) \o Plain(<<m>>)
    BY <1>1, PlainConcat
  <1>3. Plain(a) = a /\ Plain(<<m>>) = <<>>
    BY PlainSame, PlainMark
  <1>4. a \o <<>> = a
    OBVIOUS
  <1> QED BY <1>1, <1>2, <1>3, <1>4

\* An encoder that is reset is one that nothing was written to.
Dropped(link, op) == op = "close" /\ link.empty /\ link.encoder \in Resettable

\* What an encoder makes of the tokens it gets: t.out, compressed, and what it still holds.
Encodes(link, op, tokens, t) ==
    /\ t.pending \in Seq(Handed)
    /\ op = "close" \/ (op = "flush" /\ link.encoder \in Flushable) => t.pending = <<>>
    /\ \E more \in Seq(Tokens) :
         /\ t.out = Encoded(link.encoder, more)
         /\ Plain(more) \o t.pending = link.pending \o tokens
         /\ op # "close" => NoEnd(more)
         /\ op = "close" => IF Dropped(link, op) THEN more = <<>>
                            ELSE \E front \in Seq(Tokens) : NoEnd(front) /\ more = front \o <<<<"end">>>>

LEMMA ThroughEncoder ==
    ASSUME NEW link \in Links, link.is = "compress", NEW op, NEW spill \in BOOLEAN,
           NEW tokens \in Seq(Handed),
           Dropped(link, op) => link.pending = <<>> /\ tokens = <<>>
    PROVE  Encodes(link, op, tokens, Through(link, op, spill, tokens))
  <1> DEFINE t == Through(link, op, spill, tokens)
             all == link.pending \o tokens
             e == link.encoder
             flushes == op = "flush" /\ e \in Flushable
  <1>1. /\ link.pending \in Seq(Handed) /\ e \in Texts /\ all \in Seq(Handed) /\ all \in Seq(Tokens)
        /\ <<>> \in Seq(Tokens) /\ <<>> \in Seq(Handed) /\ \A x \in Seq(Handed) : x \o <<>> = x /\ <<>> \o x = x
    BY TokensAre DEF Links
  <1>2. NoEnd(all) /\ NoEnd(<<>>) /\ NoEnd(all \o <<<<"sync">>>>)
    <2>1. \A i \in 1..Len(all) : all[i] # <<"end">>
      <3> HIDE DEF all
      <3>1. ASSUME NEW i \in 1..Len(all) PROVE all[i] \in Handed
        BY <1>1
      <3> QED BY <3>1, TokensAre
    <2>2. all \o <<<<"sync">>>> \in Seq(Tokens) /\ Len(all \o <<<<"sync">>>>) = Len(all) + 1
          /\ (\A i \in 1..Len(all) : (all \o <<<<"sync">>>>)[i] = all[i])
          /\ (all \o <<<<"sync">>>>)[Len(all) + 1] = <<"sync">>
      BY <1>1, TokensAre
    <2> DEFINE b == all \o <<<<"sync">>>>
    <2> HIDE DEF all, b
    <2>3. ASSUME NEW i \in DOMAIN b PROVE b[i] # <<"end">>
      <3>1. i \in 1..Len(all) \/ i = Len(all) + 1
        BY <2>2 DEF b
      <3> QED BY <2>1, <2>2, <3>1, TokensAre DEF b
    <2>4. NoEnd(b)
      BY <2>3 DEF NoEnd
    <2>5. NoEnd(all)
      BY <1>1, <2>1 DEF NoEnd
    <2>6. NoEnd(<<>>)
      BY DEF NoEnd
    <2> QED BY <2>4, <2>5, <2>6 DEF b
  <1>3. Plain(<<>>) = <<>> /\ Plain(all) = all /\ Encoded(e, <<>>) = <<>>
    <2>1. Plain(<<>>) = <<>> /\ Plain(all) = all
      BY <1>1, PlainSame
    <2>2. Encoded(e, <<>>) \in Seq(OnWire) /\ Len(Encoded(e, <<>>)) = 0
      BY <1>1, EncodedAt
    <2> QED BY <2>1, <2>2
  <1>4. CASE Dropped(link, op)
    <2>1. t = [out |-> <<>>, pending |-> <<>>]
      BY <1>4 DEF Through, Dropped
    <2>2. all = <<>>
      BY <1>1, <1>4
    <2>3. t.out = Encoded(e, <<>>) /\ t.pending = <<>> /\ Plain(<<>>) \o t.pending = all
      BY <1>1, <1>3, <2>1, <2>2
    <2> HIDE DEF t, all
    <2> QED BY <1>1, <1>4, <2>3 DEF Dropped, Encodes, t, all
  <1>5. CASE op = "close" /\ ~Dropped(link, op)
    <2>1. t = [out |-> Encoded(e, all \o <<<<"end">>>>), pending |-> <<>>]
      BY <1>5 DEF Through, Dropped
    <2>2. Plain(all \o <<<<"end">>>>) = all /\ all \o <<<<"end">>>> \in Seq(Tokens)
      BY <1>1, PlainEnd, TokensAre
    <2>3. t.out = Encoded(e, all \o <<<<"end">>>>) /\ t.pending = <<>> /\ all \o t.pending = all
      BY <1>1, <2>1
    <2> DEFINE ended == all \o <<<<"end">>>>
    <2>4. \E front \in Seq(Tokens) : NoEnd(front) /\ ended = front \o <<<<"end">>>>
      <3> HIDE DEF all
      <3> QED BY <1>1, <1>2
    <2> HIDE DEF t, all, ended
    <2>5. /\ t.pending = <<>> /\ t.pending \in Seq(Handed) /\ ended \in Seq(Tokens)
          /\ t.out = Encoded(e, ended) /\ Plain(ended) \o t.pending = all
      BY <1>1, <2>2, <2>3 DEF ended
    <2>6. Encodes(link, op, tokens, t)
      BY <1>5, <2>4, <2>5 DEF Encodes, all
    <2> QED BY <2>6 DEF t
  <1>6. CASE flushes
    <2>1. t = [out |-> Encoded(e, all \o <<<<"sync">>>>), pending |-> <<>>]
      BY <1>6 DEF Through
    <2>2. Plain(all \o <<<<"sync">>>>) = all /\ all \o <<<<"sync">>>> \in Seq(Tokens)
      BY <1>1, PlainEnd, TokensAre
    <2>3. t.out = Encoded(e, all \o <<<<"sync">>>>) /\ t.pending = <<>> /\ all \o t.pending = all
      BY <1>1, <2>1
    <2> HIDE DEF t, all
    <2> QED BY <1>1, <1>2, <1>6, <2>2, <2>3 DEF Encodes, t, all
  <1>7. CASE op # "close" /\ ~flushes /\ spill
    <2>1. t = [out |-> Encoded(e, all \o <<>>), pending |-> <<>>] /\ all \o <<>> = all
      BY <1>1, <1>7 DEF Through
    <2>2. t.out = Encoded(e, all) /\ t.pending = <<>> /\ Plain(all) \o t.pending = all
      BY <1>1, <1>3, <2>1
    <2> HIDE DEF t, all
    <2> QED BY <1>1, <1>2, <1>7, <2>2 DEF Encodes, t, all
  <1>8. CASE op # "close" /\ ~flushes /\ ~spill
    <2>1. t = [out |-> <<>>, pending |-> all]
      BY <1>8 DEF Through
    <2>2. t.out = Encoded(e, <<>>) /\ t.pending = all /\ Plain(<<>>) \o t.pending = all
      <3>1. t.out = Encoded(e, <<>>) /\ t.pending = all
        BY <1>3, <2>1
      <3> HIDE DEF t, all
      <3> QED BY <1>1, <1>3, <3>1
    <2> HIDE DEF t, all
    <2> QED BY <1>1, <1>2, <1>8, <2>2 DEF Encodes, t, all
  <1> HIDE DEF t, all
  <1> QED BY <1>4, <1>5, <1>6, <1>7, <1>8

-----------------------------------------------------------------------------
(* What Write, Flush and Close keep true of a response s when the handler has *)
(* written w.                                                                 *)

Shape(s) ==
    /\ IsResponse(s) /\ AtMostOne(s.chain)
    /\ \A i \in DOMAIN s.chain : s.chain[i].empty = s.empty

\* The wire carries w compressed, but for what the encoder still holds; closed, it ends
\* with the footer.
Body(link, wire, empty, early, w, closed) ==
    /\ closed => link.pending = <<>>
    /\ \E inner \in Seq(Tokens) :
         /\ wire = Encoded(link.encoder, inner)
         /\ Plain(inner) \o link.pending = w
         /\ ~closed => NoEnd(inner) /\ (empty /\ ~early => inner = <<>>)
         /\ closed => IF empty /\ link.encoder \in Resettable
                      THEN ~early => inner = <<>>
                      ELSE \E front \in Seq(Tokens) : NoEnd(front) /\ inner = front \o <<<<"end">>>>

\* The body is w, as it is or compressed.
Carried(s, w, closed) ==
    /\ w \in Seq(Handed)
    /\ s.empty => w = <<>>
    /\ Encoding(s.chain) = {} => s.wire = w
    /\ \A k \in Encoding(s.chain) : Body(s.chain[k], s.wire, s.empty, s.early, w, closed)

CompressedAt(chain, i) == \E j \in 1..(i - 1) : chain[j].is = "compress"

Logged(s, w) ==
    \A i \in DOMAIN s.chain : s.chain[i].is = "log" =>
        s.chain[i].length = Len(IF CompressedAt(s.chain, i) THEN s.wire ELSE w)

LEMMA ReachesIs ==
    ASSUME NEW chain \in Seq(Links), AtMostOne(chain), NEW op, NEW spill, NEW tokens,
           NEW i \in 1..(Len(chain) + 1)
    PROVE  /\ ~CompressedAt(chain, i) => Reaches(chain, op, spill, tokens, i) = tokens
           /\ CompressedAt(chain, i) => \E k \in Encoding(chain) :
                Reaches(chain, op, spill, tokens, i) = LetOut(chain[k], op, spill, tokens)
           /\ i \in Encoding(chain) => ~CompressedAt(chain, i)
           /\ Encoding(chain) = {} => ~CompressedAt(chain, i)
           /\ CompressedAt(chain, Len(chain) + 1) <=> Encoding(chain) # {}
  <1>1. DOMAIN chain = 1..Len(chain) /\ Len(chain) \in Nat /\ Encoding(chain) \subseteq 1..Len(chain)
    BY DEF Encoding
  <1>2. CompressedAt(chain, i) <=> \E k \in Encoding(chain) : k < i
    BY <1>1 DEF CompressedAt, Encoding
  <1>3. CompressedAt(chain, Len(chain) + 1) <=> Encoding(chain) # {}
    BY <1>1 DEF CompressedAt, Encoding
  <1>4. i \in Encoding(chain) => ~CompressedAt(chain, i)
    BY <1>1, <1>2 DEF AtMostOne
  <1>5. Encoding(chain) = {} => ~CompressedAt(chain, i)
    BY <1>2
  <1>6. ~CompressedAt(chain, i) => Reaches(chain, op, spill, tokens, i) = tokens
    BY <1>2 DEF Reaches
  <1>7. ASSUME CompressedAt(chain, i)
        PROVE  \E k \in Encoding(chain) : Reaches(chain, op, spill, tokens, i) = LetOut(chain[k], op, spill, tokens)
    <2> DEFINE k == CHOOSE k \in Encoding(chain) : TRUE
    <2>1. k \in Encoding(chain)
      BY <1>2, <1>7
    <2>2. Reaches(chain, op, spill, tokens, i) = LetOut(chain[k], op, spill, tokens)
      BY <1>2, <1>7 DEF Reaches
    <2> QED BY <2>1, <2>2
  <1> QED BY <1>3, <1>4, <1>5, <1>6, <1>7

\* The encoder of a chain.
LEMMA EncoderThrough ==
    ASSUME NEW chain \in Seq(Links), NEW op, NEW spill \in BOOLEAN, NEW tokens \in Seq(Handed),
           NEW k \in Encoding(chain), Dropped(chain[k], op) => chain[k].pending = <<>> /\ tokens = <<>>
    PROVE  Encodes(chain[k], op, tokens, Through(chain[k], op, spill, tokens))
  <1>1. chain[k] \in Links /\ chain[k].is = "compress"
    BY DEF Encoding
  <1> QED BY <1>1, ThroughEncoder

\* What Pass does to the fields of a response, and to its links.
Framed(s, u, op, spill, tokens) ==
    LET at(i) == Reaches(s.chain, op, spill, tokens, i)
    IN  /\ IsResponse(u) /\ DOMAIN u.chain = DOMAIN s.chain /\ Len(u.chain) = Len(s.chain)
        /\ u.header = s.header /\ u.sent = s.sent /\ u.status = s.status /\ u.empty = s.empty
        /\ u.wroteHeader = s.wroteHeader /\ u.entries = s.entries /\ u.early = s.early
        /\ u.wire = s.wire \o at(Len(s.chain) + 1)
        /\ \A i \in 1..(Len(s.chain) + 1) : at(i) \in Seq(OnWire)
        /\ \A i \in DOMAIN s.chain :
             /\ u.chain[i].is = s.chain[i].is /\ u.chain[i].encoder = s.chain[i].encoder
             /\ u.chain[i].empty = s.chain[i].empty
             /\ u.chain[i].pending = Through(s.chain[i], op, spill, at(i)).pending
             /\ u.chain[i].length = s.chain[i].length + Len(at(i))

LEMMA PassFrame ==
    ASSUME NEW s, IsResponse(s), AtMostOne(s.chain), NEW op, NEW spill \in BOOLEAN,
           NEW tokens \in Seq(Handed),
           \A k \in Encoding(s.chain) :
               Dropped(s.chain[k], op) => s.chain[k].pending = <<>> /\ tokens = <<>>
    PROVE  Framed(s, Pass(s, op, spill, tokens), op, spill, tokens)
  <1> DEFINE u == Pass(s, op, spill, tokens)
             at(i) == Reaches(s.chain, op, spill, tokens, i)
             pend(i) == Through(s.chain[i], op, spill, at(i)).pending
             after(i) == [s.chain[i] EXCEPT !.pending = pend(i), !.length = Counted(s.chain[i], op, at(i))]
             ch == [i \in DOMAIN s.chain |-> after(i)]
  <1>1. s.chain \in Seq(Links) /\ DOMAIN s.chain = 1..Len(s.chain) /\ Len(s.chain) \in Nat
    BY DEF IsResponse
  <1>2. u = [s EXCEPT !.chain = ch, !.wire = s.wire \o at(Len(s.chain) + 1)]
    BY <1>1, PassIs
  <1>3. ASSUME NEW i \in 1..(Len(s.chain) + 1) PROVE at(i) \in Seq(OnWire)
    <2>1. CASE ~CompressedAt(s.chain, i)
      <3>1. at(i) = tokens
        BY <1>1, <2>1, ReachesIs
      <3> HIDE DEF at
      <3> QED BY <3>1, TokensAre
    <2>2. CASE CompressedAt(s.chain, i)
      <3>1. PICK k \in Encoding(s.chain) : at(i) = LetOut(s.chain[k], op, spill, tokens)
        BY <1>1, <2>2, ReachesIs
      <3> DEFINE t == Through(s.chain[k], op, spill, tokens)
      <3>2. \E more \in Seq(Tokens) : t.out = Encoded(s.chain[k].encoder, more)
        <4>1. Encodes(s.chain[k], op, tokens, t)
          BY <1>1, EncoderThrough
        <4> HIDE DEF t
        <4> QED BY <4>1 DEF Encodes
      <3>3. s.chain[k].encoder \in Texts
        <4>1. s.chain[k] \in Links
          BY <1>1 DEF Encoding
        <4> QED BY <4>1 DEF Links
      <3>4. t.out \in Seq(OnWire)
        <4> HIDE DEF t
        <4> QED BY <3>2, <3>3, EncodedAt
      <3> QED BY <3>1, <3>4 DEF LetOut
    <2> QED BY <2>1, <2>2
  <1>4. ASSUME NEW i \in DOMAIN s.chain PROVE pend(i) \in Seq(Handed)
    <2>1. s.chain[i] \in Links
      BY <1>1
    <2>2. CASE s.chain[i].is = "log"
      <3>1. pend(i) = <<>>
        BY <2>2 DEF Through
      <3> HIDE DEF pend
      <3> QED BY <3>1
    <2>3. CASE s.chain[i].is = "compress"
      <3>1. i \in Encoding(s.chain)
        BY <2>3 DEF Encoding
      <3>2. at(i) = tokens
        BY <1>1, <3>1, ReachesIs
      <3>3. Through(s.chain[i], op, spill, tokens).pending \in Seq(Handed)
        BY <1>1, <3>1, EncoderThrough DEF Encodes
      <3> HIDE DEF at
      <3> QED BY <3>2, <3>3
    <2> QED BY <2>1, <2>2, <2>3 DEF Links
  <1>5. ASSUME NEW i \in DOMAIN s.chain
        PROVE  /\ after(i) \in Links
               /\ after(i).is = s.chain[i].is /\ after(i).encoder = s.chain[i].encoder
               /\ after(i).empty = s.chain[i].empty /\ after(i).pending = pend(i)
               /\ after(i).length = s.chain[i].length + Len(at(i))
    <2>1. s.chain[i] \in Links /\ at(i) \in Seq(OnWire) /\ pend(i) \in Seq(Handed)
      BY <1>1, <1>3, <1>4
    <2>2. Counted(s.chain[i], op, at(i)) = s.chain[i].length + Len(at(i)) /\ Len(at(i)) \in Nat
      BY <2>1 DEF Counted
    <2>3. s.chain[i].length + Len(at(i)) \in Nat
      BY <2>1, <2>2 DEF Links
    <2> DEFINE link == s.chain[i]  p == pend(i)  n == Counted(link, op, at(i))
    <2>4. link \in Links /\ p \in Seq(Handed) /\ n \in Nat
      BY <2>1, <2>2, <2>3
    <2>5. after(i) = [link EXCEPT !.pending = p, !.length = n]
      OBVIOUS
    <2> HIDE DEF link, p, n, after
    <2>6. /\ after(i) \in Links /\ after(i).is = link.is /\ after(i).encoder = link.encoder
          /\ after(i).empty = link.empty /\ after(i).pending = p /\ after(i).length = n
      BY <2>4, <2>5 DEF Links
    <2> QED BY <2>2, <2>6 DEF link, p, n
  <1> HIDE DEF after, at, pend
  <1>6. /\ ch \in Seq(Links) /\ DOMAIN ch = DOMAIN s.chain /\ Len(ch) = Len(s.chain)
        /\ \A i \in DOMAIN s.chain : ch[i] = after(i)
    BY <1>1, <1>5
  <1>7. s.wire \o at(Len(s.chain) + 1) \in Seq(OnWire)
    <2>1. Len(s.chain) + 1 \in 1..(Len(s.chain) + 1)
      BY <1>1
    <2>2. at(Len(s.chain) + 1) \in Seq(OnWire) /\ s.wire \in Seq(OnWire)
      BY <1>3, <2>1 DEF IsResponse
    <2> QED BY <2>2
  <1> HIDE DEF ch
  <1>8. /\ u = [chain |-> ch, header |-> s.header, sent |-> s.sent,
                wire |-> s.wire \o at(Len(s.chain) + 1), status |-> s.status, empty |-> s.empty,
                wroteHeader |-> s.wroteHeader, entries |-> s.entries, early |-> s.early]
    <2> HIDE DEF u
    <2> QED BY <1>2 DEF IsResponse
  <1> HIDE DEF u
  <1>9. IsResponse(u)
    BY <1>6, <1>7, <1>8 DEF IsResponse
  <1>10. \A i \in DOMAIN s.chain :
            /\ u.chain[i].is = s.chain[i].is /\ u.chain[i].encoder = s.chain[i].encoder
            /\ u.chain[i].empty = s.chain[i].empty /\ u.chain[i].pending = pend(i)
            /\ u.chain[i].length = s.chain[i].length + Len(at(i))
    BY <1>5, <1>6, <1>8
  <1>11. /\ DOMAIN u.chain = DOMAIN s.chain /\ Len(u.chain) = Len(s.chain)
         /\ u.header = s.header /\ u.sent = s.sent /\ u.status = s.status /\ u.empty = s.empty
         /\ u.wroteHeader = s.wroteHeader /\ u.entries = s.entries /\ u.early = s.early
         /\ u.wire = s.wire \o at(Len(s.chain) + 1)
    BY <1>6, <1>8
  <1>12. Framed(s, u, op, spill, tokens)
    BY <1>3, <1>9, <1>10, <1>11 DEF Framed, at, pend
  <1> QED BY <1>12 DEF u

LEMMA NoEndConcat ==
    ASSUME NEW a \in Seq(Tokens), NEW b \in Seq(Tokens), NoEnd(a), NoEnd(b)
    PROVE  NoEnd(a \o b)
  <1> DEFINE m == a \o b
  <1>1. /\ m \in Seq(Tokens) /\ Len(m) = Len(a) + Len(b) /\ Len(a) \in Nat /\ Len(b) \in Nat
        /\ \A i \in 1..(Len(a) + Len(b)) : m[i] = IF i <= Len(a) THEN a[i] ELSE b[i - Len(a)]
    BY ConcatProperties
  <1> HIDE DEF m
  <1>2. ASSUME NEW i \in DOMAIN m PROVE m[i] # <<"end">>
    <2>1. i \in 1..(Len(a) + Len(b))
      BY <1>1
    <2>2. CASE i <= Len(a)
      <3>1. i \in DOMAIN a
        BY <1>1, <2>1, <2>2
      <3> QED BY <1>1, <2>1, <2>2, <3>1 DEF NoEnd
    <2>3. CASE ~(i <= Len(a))
      <3>1. i - Len(a) \in DOMAIN b
        BY <1>1, <2>1, <2>3
      <3> QED BY <1>1, <2>1, <2>3, <3>1 DEF NoEnd
    <2> QED BY <2>2, <2>3
  <1> QED BY <1>2 DEF NoEnd, m

Joined(a, b) == a \o b

LEMMA ConcatTokens ==
    ASSUME NEW a \in Seq(Tokens), NEW b \in Seq(Tokens), NEW c \in Seq(Tokens)
    PROVE  Joined(Joined(a, b), c) = Joined(a, Joined(b, c))
  BY DEF Joined

Passed(s, w, op, tokens, u) ==
    /\ Shape(u) /\ Carried(u, w \o tokens, op = "close") /\ Logged(u, w \o tokens)
    /\ Encoding(u.chain) = Encoding(s.chain) /\ DOMAIN u.chain = DOMAIN s.chain
    /\ u.header = s.header /\ u.sent = s.sent /\ u.status = s.status /\ u.empty = s.empty
    /\ u.wroteHeader = s.wroteHeader /\ u.entries = s.entries /\ u.early = s.early
    /\ \A i \in DOMAIN s.chain : u.chain[i].is = s.chain[i].is /\ u.chain[i].encoder = s.chain[i].encoder
    /\ \A k \in Encoding(s.chain) :
         op = "flush" /\ s.chain[k].encoder \in Flushable => u.chain[k].pending = <<>>

LEMMA PassSound ==
    ASSUME NEW s, NEW w, Shape(s), Carried(s, w, FALSE), Logged(s, w),
           NEW op \in {"write", "flush", "close"}, NEW spill \in BOOLEAN, NEW tokens \in Seq(Handed),
           s.empty => tokens = <<>>,
           op # "close" => ~s.empty \/ s.early
    PROVE  Passed(s, w, op, tokens, Pass(s, op, spill, tokens))
  <1> DEFINE u == Pass(s, op, spill, tokens)
             at(i) == Reaches(s.chain, op, spill, tokens, i)
             v == w \o tokens
  <1>0. /\ IsResponse(s) /\ AtMostOne(s.chain) /\ s.chain \in Seq(Links)
        /\ DOMAIN s.chain = 1..Len(s.chain) /\ Len(s.chain) \in Nat
        /\ Encoding(s.chain) \subseteq 1..Len(s.chain)
        /\ w \in Seq(Handed) /\ v \in Seq(Handed) /\ s.wire \in Seq(OnWire)
    BY DEF Shape, IsResponse, Carried, Body, Encoding
  <1>1. ASSUME NEW k \in Encoding(s.chain), Dropped(s.chain[k], op)
        PROVE  s.chain[k].pending = <<>> /\ tokens = <<>>
    <2>1. s.empty
      BY <1>0, <1>1 DEF Dropped, Shape
    <2>2. w = <<>> /\ tokens = <<>>
      BY <2>1 DEF Carried, Body
    <2>3. PICK inner \in Seq(Tokens) : Plain(inner) \o s.chain[k].pending = w
      BY DEF Carried, Body
    <2>4. Plain(inner) \in Seq(Tokens) /\ s.chain[k].pending \in Seq(Tokens)
      <3>1. s.chain[k].pending \in Seq(Handed)
        <4>1. s.chain[k] \in Links
          BY <1>0
        <4> QED BY <4>1 DEF Links
      <3> QED BY <3>1, PlainTyped, TokensAre
    <2>5. s.chain[k].pending = <<>>
      BY <2>2, <2>3, <2>4, ConcatEqualIffEmpty
    <2> QED BY <2>2, <2>5
  <1>2. /\ IsResponse(u) /\ DOMAIN u.chain = DOMAIN s.chain /\ Len(u.chain) = Len(s.chain)
        /\ u.header = s.header /\ u.sent = s.sent /\ u.status = s.status /\ u.empty = s.empty
        /\ u.wroteHeader = s.wroteHeader /\ u.entries = s.entries /\ u.early = s.early
        /\ u.wire = s.wire \o at(Len(s.chain) + 1)
        /\ \A i \in 1..(Len(s.chain) + 1) : at(i) \in Seq(OnWire)
        /\ \A i \in DOMAIN s.chain :
             /\ u.chain[i].is = s.chain[i].is /\ u.chain[i].encoder = s.chain[i].encoder
             /\ u.chain[i].empty = s.chain[i].empty
             /\ u.chain[i].pending = Through(s.chain[i], op, spill, at(i)).pending
             /\ u.chain[i].length = s.chain[i].length + Len(at(i))
    <2>1. \A k \in Encoding(s.chain) : Dropped(s.chain[k], op) => s.chain[k].pending = <<>> /\ tokens = <<>>
      BY <1>1
    <2>2. Framed(s, u, op, spill, tokens)
      BY <1>0, <2>1, PassFrame
    <2> HIDE DEF u
    <2> QED BY <2>2 DEF Framed
  <1> HIDE DEF u
  <1>3. /\ Encoding(u.chain) = Encoding(s.chain)
        /\ \A i \in 1..(Len(s.chain) + 1) : CompressedAt(u.chain, i) <=> CompressedAt(s.chain, i)
    <2>1. Encoding(u.chain) = Encoding(s.chain)
      BY <1>2 DEF Encoding
    <2>2. ASSUME NEW i \in 1..(Len(s.chain) + 1)
          PROVE  CompressedAt(u.chain, i) <=> CompressedAt(s.chain, i)
      <3>1. \A j \in 1..(i - 1) : u.chain[j].is = s.chain[j].is
        <4>1. \A j \in 1..(i - 1) : j \in DOMAIN s.chain
          BY <1>0
        <4> QED BY <1>2, <4>1
      <3> QED BY <3>1 DEF CompressedAt
    <2> QED BY <2>1, <2>2
  <1>4. Shape(u)
    BY <1>2, <1>3 DEF Shape, AtMostOne
  <1>5. /\ \A i \in 1..(Len(s.chain) + 1) : ~CompressedAt(s.chain, i) => at(i) = tokens
        /\ \A i \in Encoding(s.chain) : at(i) = tokens
        /\ Encoding(s.chain) = {} => at(Len(s.chain) + 1) = tokens
        /\ \A k \in Encoding(s.chain), i \in 1..(Len(s.chain) + 1) :
             CompressedAt(s.chain, i) => at(i) = Through(s.chain[k], op, spill, tokens).out
    <2>1. ASSUME NEW i \in 1..(Len(s.chain) + 1), ~CompressedAt(s.chain, i) PROVE at(i) = tokens
      BY <1>0, <2>1, ReachesIs
    <2>2. ASSUME NEW i \in Encoding(s.chain) PROVE at(i) = tokens
      <3>1. i \in 1..(Len(s.chain) + 1)
        BY <1>0
      <3> QED BY <1>0, <2>1, <3>1, ReachesIs
    <2>3. Len(s.chain) + 1 \in 1..(Len(s.chain) + 1)
      BY <1>0
    <2>4. Encoding(s.chain) = {} => at(Len(s.chain) + 1) = tokens
      BY <1>0, <2>1, <2>3, ReachesIs
    <2>5. ASSUME NEW k \in Encoding(s.chain), NEW i \in 1..(Len(s.chain) + 1), CompressedAt(s.chain, i)
          PROVE  at(i) = Through(s.chain[k], op, spill, tokens).out
      <3>0. s.chain \in Seq(Links) /\ AtMostOne(s.chain)
        BY <1>0
      <3>1. PICK j \in Encoding(s.chain) : at(i) = LetOut(s.chain[j], op, spill, tokens)
        BY <2>5, <3>0, ReachesIs
      <3>2. j = k
        BY <1>0 DEF AtMostOne
      <3> QED BY <3>1, <3>2 DEF LetOut
    <2> HIDE DEF at
    <2> QED BY <2>1, <2>2, <2>4, <2>5
  <1>6. Encoding(s.chain) # {} => CompressedAt(s.chain, Len(s.chain) + 1)
    <2>1. ASSUME NEW k \in Encoding(s.chain) PROVE CompressedAt(s.chain, Len(s.chain) + 1)
      <3>1. k \in 1..((Len(s.chain) + 1) - 1) /\ s.chain[k].is = "compress"
        BY <1>0 DEF Encoding
      <3> QED BY <3>1 DEF CompressedAt
    <2> QED BY <2>1
  <1>7. Logged(u, v)
    <2> SUFFICES ASSUME NEW i \in DOMAIN u.chain, u.chain[i].is = "log"
                 PROVE  u.chain[i].length = Len(IF CompressedAt(u.chain, i) THEN u.wire ELSE v)
      BY DEF Logged
    <2>1. i \in 1..Len(s.chain) /\ i \in 1..(Len(s.chain) + 1) /\ s.chain[i].is = "log"
      BY <1>0, <1>2
    <2>2. CASE ~CompressedAt(s.chain, i)
      <3>1. s.chain[i].length = Len(w) /\ at(i) = tokens
        BY <1>0, <1>5, <2>1, <2>2 DEF Logged
      <3>2. u.chain[i].length = Len(w) + Len(tokens)
        BY <1>0, <1>2, <2>1, <3>1
      <3>3. Len(v) = Len(w) + Len(tokens)
        BY <1>0
      <3> QED BY <1>3, <2>1, <2>2, <3>2, <3>3
    <2>3. CASE CompressedAt(s.chain, i)
      <3>1. s.chain[i].length = Len(s.wire)
        BY <1>0, <2>1, <2>3 DEF Logged
      <3>2. PICK k \in Encoding(s.chain) : TRUE
        <4>1. PICK j \in 1..(i - 1) : s.chain[j].is = "compress"
          BY <2>3 DEF CompressedAt
        <4>2. j \in DOMAIN s.chain
          BY <1>0, <2>1
        <4> QED BY <4>1, <4>2 DEF Encoding
      <3>3. at(i) = at(Len(s.chain) + 1)
        <4>1. Len(s.chain) + 1 \in 1..(Len(s.chain) + 1) /\ CompressedAt(s.chain, Len(s.chain) + 1)
          BY <1>0, <1>6, <3>2
        <4> HIDE DEF at
        <4> QED BY <1>5, <2>1, <2>3, <3>2, <4>1
      <3>4. u.chain[i].length = Len(s.wire) + Len(at(Len(s.chain) + 1))
        <4> HIDE DEF at
        <4> QED BY <1>0, <1>2, <2>1, <3>1, <3>3
      <3>5. at(Len(s.chain) + 1) \in Seq(OnWire)
        BY <1>0, <1>2
      <3>6. Len(u.wire) = Len(s.wire) + Len(at(Len(s.chain) + 1))
        <4> HIDE DEF at
        <4> QED BY <1>0, <1>2, <3>5
      <3> QED BY <1>3, <2>1, <2>3, <3>4, <3>6
    <2> QED BY <2>2, <2>3
  <1>8. ASSUME NEW k \in Encoding(s.chain)
        PROVE  /\ op = "close" \/ (op = "flush" /\ s.chain[k].encoder \in Flushable) => u.chain[k].pending = <<>>
               /\ \E inner \in Seq(Tokens) :
                    /\ u.wire = Encoded(u.chain[k].encoder, inner)
                    /\ Plain(inner) \o u.chain[k].pending = v
                    /\ op # "close" => NoEnd(inner) /\ (u.empty /\ ~u.early => inner = <<>>)
                    /\ op = "close" => IF u.empty /\ u.chain[k].encoder \in Resettable
                                 THEN ~u.early => inner = <<>>
                                 ELSE \E front \in Seq(Tokens) : NoEnd(front) /\ inner = front \o <<<<"end">>>>
    <2> DEFINE t == Through(s.chain[k], op, spill, tokens)
               e == s.chain[k].encoder
    <2>1. /\ k \in DOMAIN s.chain /\ k \in 1..(Len(s.chain) + 1) /\ e \in Texts
          /\ s.chain[k].pending \in Seq(Handed) /\ s.chain[k].empty = s.empty
      <3>1. k \in DOMAIN s.chain /\ k \in 1..(Len(s.chain) + 1) /\ s.chain[k] \in Links
        BY <1>0
      <3> QED BY <3>1 DEF Links, Shape
    <2>2. Encodes(s.chain[k], op, tokens, t)
      BY <1>0, <1>1, EncoderThrough
    <2>3. u.chain[k].pending = t.pending /\ u.chain[k].encoder = e
      BY <1>2, <1>5, <2>1
    <2>4. u.wire = s.wire \o t.out
      <3>1. Len(s.chain) + 1 \in 1..(Len(s.chain) + 1)
        BY <1>0
      <3> HIDE DEF t, at
      <3> QED BY <1>2, <1>5, <1>6, <3>1 DEF t
    <2> HIDE DEF t
    <2>5. PICK inner \in Seq(Tokens) :
            /\ s.wire = Encoded(e, inner) /\ Plain(inner) \o s.chain[k].pending = w
            /\ NoEnd(inner) /\ (s.empty /\ ~s.early => inner = <<>>)
      BY DEF Carried, Body
    <2>6. PICK more \in Seq(Tokens) :
            /\ t.out = Encoded(e, more)
            /\ Plain(more) \o t.pending = s.chain[k].pending \o tokens
            /\ op # "close" => NoEnd(more)
            /\ op = "close" => IF Dropped(s.chain[k], op) THEN more = <<>>
                               ELSE \E front \in Seq(Tokens) : NoEnd(front) /\ more = front \o <<<<"end">>>>
      BY <2>2 DEF Encodes
    <2>7. u.wire = Encoded(e, inner \o more) /\ inner \o more \in Seq(Tokens)
      <3>1. Encoded(e, inner) \o Encoded(e, more) = Encoded(e, inner \o more)
        BY <2>1, EncodedConcat
      <3> HIDE DEF e
      <3> QED BY <2>4, <2>5, <2>6, <3>1
    <2>8. Plain(inner \o more) \o t.pending = v
      <3>1. PICK a \in Seq(Tokens) : a = Plain(inner)
        BY PlainTyped
      <3>2. PICK b \in Seq(Tokens) : b = Plain(more)
        BY PlainTyped
      <3>3. PICK c \in Seq(Tokens) : c = t.pending
        BY <2>2, TokensAre DEF Encodes
      <3>4. PICK p \in Seq(Tokens) : p = s.chain[k].pending
        BY <2>1, TokensAre
      <3>5. PICK q \in Seq(Tokens) : q = tokens
        BY TokensAre
      <3>6. Plain(inner \o more) = a \o b
        BY <3>1, <3>2, PlainConcat
      <3>7. b \o c = p \o q /\ a \o p = w
        BY <2>5, <2>6, <3>1, <3>2, <3>3, <3>4, <3>5
      <3>8. Joined(Joined(a, b), c) = Joined(a, Joined(b, c))
        BY ConcatTokens
      <3>9. Joined(Joined(a, p), q) = Joined(a, Joined(p, q))
        BY ConcatTokens
      <3>10. (a \o b) \o c = w \o q
        <4>1. Joined(b, c) = Joined(p, q) /\ Joined(a, p) = w
          BY <3>7 DEF Joined
        <4>2. Joined(Joined(a, b), c) = Joined(w, q)
          BY <3>8, <3>9, <4>1
        <4> QED BY <4>2 DEF Joined
      <3> QED BY <3>3, <3>5, <3>6, <3>10
    <2>9. NoEnd(more) => NoEnd(inner \o more)
      BY <2>5, NoEndConcat
    <2>10. CASE op # "close"
      <3>1. NoEnd(inner \o more)
        BY <2>6, <2>9, <2>10
      <3>2. ~(u.empty /\ ~u.early)
        BY <1>2, <2>10
      <3> QED BY <2>2, <2>3, <2>7, <2>8, <2>10, <3>1, <3>2 DEF Encodes
    <2>11. CASE op = "close" /\ Dropped(s.chain[k], op)
      <3>1. more = <<>> /\ inner \o more = inner
        BY <2>6, <2>11
      <3>2. u.empty /\ u.chain[k].encoder \in Resettable
        BY <1>2, <2>1, <2>3, <2>11 DEF Dropped
      <3>3. ~u.early => inner \o more = <<>>
        BY <1>2, <2>5, <3>1, <3>2
      <3> QED BY <2>2, <2>3, <2>7, <2>8, <2>11, <3>2, <3>3 DEF Encodes
    <2>12. CASE op = "close" /\ ~Dropped(s.chain[k], op)
      <3>1. ~(u.empty /\ u.chain[k].encoder \in Resettable)
        BY <1>2, <2>1, <2>3, <2>12 DEF Dropped
      <3>2. PICK front \in Seq(Tokens) : NoEnd(front) /\ more = front \o <<<<"end">>>>
        BY <2>6, <2>12
      <3>3. inner \o more = (inner \o front) \o <<<<"end">>>> /\ inner \o front \in Seq(Tokens)
        <4>1. <<<<"end">>>> \in Seq(Tokens)
          BY TokensAre
        <4>2. PICK last \in Seq(Tokens) : last = <<<<"end">>>>
          BY <4>1
        <4>3. inner \o front \in Seq(Tokens)
          OBVIOUS
        <4>4. Joined(Joined(inner, front), last) = Joined(inner, Joined(front, last))
          BY ConcatTokens
        <4>5. (inner \o front) \o last = inner \o (front \o last)
          BY <4>4 DEF Joined
        <4> QED BY <3>2, <4>2, <4>3, <4>5
      <3>4. NoEnd(inner \o front)
        <4> QED BY <2>5, <3>2, NoEndConcat
      <3> QED BY <2>2, <2>3, <2>7, <2>8, <2>12, <3>1, <3>3, <3>4 DEF Encodes
    <2> QED BY <2>10, <2>11, <2>12
  <1>9. Carried(u, v, op = "close")
    <2>1. u.empty => v = <<>>
      BY <1>0, <1>2 DEF Carried, Body
    <2>2. Encoding(u.chain) = {} => u.wire = v
      <3> HIDE DEF at
      <3> QED BY <1>2, <1>3, <1>5 DEF Carried, Body
    <2> QED BY <1>0, <1>3, <1>8, <2>1, <2>2 DEF Carried, Body
  <1> HIDE DEF at
  <1>10. Passed(s, w, op, tokens, u)
    BY <1>2, <1>3, <1>4, <1>7, <1>8, <1>9 DEF Passed
  <1> QED BY <1>10 DEF u

-----------------------------------------------------------------------------
(* The headers of a response s. *)

HeaderOK(s) ==
    /\ s.wroteHeader => s.status # 0 /\ Len(s.sent) = 1 /\ s.sent[1].status = s.status
    /\ ~s.wroteHeader => ~s.early
    /\ s.wroteHeader /\ ~s.early => s.sent[1].header = s.header
    /\ s.wroteHeader /\ Encoding(s.chain) = {} => s.sent[1].header.encoding = ""
    /\ Encoding(s.chain) = {} \/ s.empty => s.header.encoding = ""
    /\ \A k \in Encoding(s.chain) : ~s.empty =>
         /\ s.header.encoding = s.chain[k].encoder
         /\ s.header.vary /\ ~s.header.length /\ s.header.type # ""

SameLinks(s, u) ==
    /\ DOMAIN u.chain = DOMAIN s.chain
    /\ \A i \in DOMAIN s.chain : u.chain[i].is = s.chain[i].is /\ u.chain[i].encoder = s.chain[i].encoder

\* A response that is not closed and to which w was written.
Open(s, w) == Shape(s) /\ Carried(s, w, FALSE) /\ Logged(s, w) /\ HeaderOK(s)

\* Between two calls of the handler.
Sound(s, w) ==
    /\ Open(s, w)
    /\ s.wroteHeader => ~s.empty \/ s.early
    /\ ~s.wroteHeader => s.empty

Statuses == Nat \ {0}

LEMMA SameEncoding ==
    ASSUME NEW s, NEW u, SameLinks(s, u)
    PROVE  Encoding(u.chain) = Encoding(s.chain)
  BY DEF SameLinks, Encoding

LEMMA SameHeader ==
    ASSUME NEW s, NEW u, HeaderOK(s), SameLinks(s, u),
           u.header = s.header, u.sent = s.sent, u.status = s.status, u.empty = s.empty,
           u.wroteHeader = s.wroteHeader, u.early = s.early
    PROVE  HeaderOK(u)
  <1>1. Encoding(u.chain) = Encoding(s.chain) /\ \A k \in Encoding(s.chain) : u.chain[k].encoder = s.chain[k].encoder
    BY SameEncoding DEF SameLinks, Encoding
  <1> QED BY <1>1 DEF HeaderOK

LEMMA WriteHeaderIs ==
    ASSUME NEW s, IsResponse(s), HeaderOK(s), NEW status \in Statuses
    PROVE  LET u == WriteHeader(s, status)
           IN  /\ IsResponse(u) /\ HeaderOK(u) /\ u.wroteHeader
               /\ u.chain = s.chain /\ u.header = s.header /\ u.wire = s.wire /\ u.empty = s.empty
               /\ u.entries = s.entries /\ u.early = s.early
  <1> DEFINE u == WriteHeader(s, status)
             first == [header |-> s.header, status |-> status]
  <1>1. CASE s.wroteHeader
    <2>1. u = s
      BY <1>1 DEF WriteHeader
    <2> QED BY <1>1, <2>1
  <1>2. CASE ~s.wroteHeader
    <2>1. first \in [header : Headers, status : Nat] /\ first.header = s.header /\ first.status = status
      BY DEF IsResponse, Statuses
    <2>2. u = [s EXCEPT !.status = status, !.wroteHeader = TRUE, !.sent = <<first>>]
      BY <1>2 DEF WriteHeader
    <2> HIDE DEF first, u
    <2>3. <<first>> \in Seq([header : Headers, status : Nat]) /\ Len(<<first>>) = 1 /\ <<first>>[1] = first
      BY <2>1
    <2>4. u = [chain |-> s.chain, header |-> s.header, sent |-> <<first>>, wire |-> s.wire,
               status |-> status, empty |-> s.empty, wroteHeader |-> TRUE,
               entries |-> s.entries, early |-> s.early]
      BY <2>2 DEF IsResponse
    <2>5. IsResponse(u)
      BY <2>3, <2>4 DEF IsResponse, Statuses
    <2>6. /\ u.wroteHeader /\ u.chain = s.chain /\ u.header = s.header /\ u.wire = s.wire /\ u.empty = s.empty
          /\ u.entries = s.entries /\ u.early = s.early /\ u.status = status /\ u.sent = <<first>>
      BY <2>4
    <2>7. ~s.early /\ (Encoding(s.chain) = {} => s.header.encoding = "")
      BY <1>2 DEF HeaderOK
    <2>8. u.sent[1].header = s.header /\ u.sent[1].status = status /\ Len(u.sent) = 1
      BY <2>1, <2>3, <2>6
    <2>9. HeaderOK(u)
      BY <2>6, <2>7, <2>8 DEF HeaderOK, Statuses
    <2> QED BY <2>5, <2>6, <2>9 DEF u
  <1>3. s.wroteHeader \in BOOLEAN
    BY DEF IsResponse
  <1> QED BY <1>1, <1>2, <1>3

\* The fields that Shape, Carried and Logged read.
LEMMA SameOpen ==
    ASSUME NEW s, NEW u, NEW w, Open(s, w), IsResponse(u), HeaderOK(u),
           u.chain = s.chain, u.wire = s.wire, u.empty = s.empty, s.early => u.early
    PROVE  Open(u, w)
  <1>1. Shape(u)
    BY DEF Open, Shape
  <1>2. Carried(u, w, FALSE)
    BY DEF Open, Carried, Body
  <1>3. Logged(u, w)
    BY DEF Open, Logged
  <1> QED BY <1>1, <1>2, <1>3 DEF Open

LEMMA WriteHeaderOpen ==
    ASSUME NEW s, NEW w, Open(s, w), NEW status \in Statuses
    PROVE  LET u == WriteHeader(s, status)
           IN  /\ Open(u, w) /\ SameLinks(s, u) /\ u.wroteHeader
               /\ u.empty = s.empty /\ u.entries = s.entries /\ u.early = s.early /\ u.wire = s.wire
  <1> DEFINE u == WriteHeader(s, status)
  <1>1. IsResponse(s) /\ HeaderOK(s)
    BY DEF Open, Shape
  <1>2. /\ IsResponse(u) /\ HeaderOK(u) /\ u.wroteHeader /\ u.chain = s.chain /\ u.wire = s.wire
        /\ u.empty = s.empty /\ u.entries = s.entries /\ u.early = s.early
    BY <1>1, WriteHeaderIs
  <1> HIDE DEF u
  <1>3. Open(u, w)
    BY <1>2, SameOpen
  <1>4. SameLinks(s, u)
    BY <1>2 DEF SameLinks
  <1> QED BY <1>2, <1>3, <1>4 DEF u

\* PreWrite of the writers.
PreparedAs(s, u) ==
    /\ IsResponse(u) /\ SameLinks(s, u)
    /\ \A i \in DOMAIN s.chain :
         /\ u.chain[i].pending = s.chain[i].pending /\ u.chain[i].length = s.chain[i].length
         /\ u.chain[i].empty = FALSE
    /\ u.sent = s.sent /\ u.status = s.status /\ u.wire = s.wire /\ u.empty = s.empty
    /\ u.wroteHeader = s.wroteHeader /\ u.entries = s.entries /\ u.early = s.early
    /\ Encoding(s.chain) = {} => u.header = s.header
    /\ \A k \in Encoding(s.chain) :
         /\ u.header.encoding = s.chain[k].encoder
         /\ u.header.vary /\ ~u.header.length /\ u.header.type # ""

LEMMA PreparedIs ==
    ASSUME NEW s, Shape(s), HeaderOK(s)
    PROVE  PreparedAs(s, Prepared(s))
  <1> DEFINE u == Prepared(s)
             encoders == {i \in DOMAIN s.chain : s.chain[i].is = "compress"}
             opened(i) == [s.chain[i] EXCEPT !.empty = FALSE]
             ch == [i \in DOMAIN s.chain |-> opened(i)]
             type == IF s.header.type = "" THEN "detected" ELSE s.header.type
             compressed == [encoding |-> s.chain[Min(encoders)].encoder, vary |-> TRUE,
                            length |-> FALSE, type |-> type]
             header == IF encoders = {} THEN s.header ELSE compressed
  <1>1. /\ IsResponse(s) /\ AtMostOne(s.chain) /\ s.chain \in Seq(Links) /\ s.header \in Headers
        /\ DOMAIN s.chain = 1..Len(s.chain) /\ Len(s.chain) \in Nat
    BY DEF Shape, IsResponse
  <1>2. u = [s EXCEPT !.chain = ch, !.header = header]
    BY DEF Prepared
  <1>3. encoders = Encoding(s.chain)
    BY DEF Encoding
  <1>4. ASSUME NEW i \in DOMAIN s.chain
        PROVE  /\ opened(i) \in Links
               /\ opened(i).is = s.chain[i].is /\ opened(i).encoder = s.chain[i].encoder
               /\ opened(i).pending = s.chain[i].pending /\ opened(i).length = s.chain[i].length
               /\ opened(i).empty = FALSE
    <2>1. PICK link \in Links : link = s.chain[i]
      BY <1>1
    <2> QED BY <2>1 DEF Links
  <1> HIDE DEF opened
  <1>5. ch \in Seq(Links) /\ DOMAIN ch = DOMAIN s.chain /\ \A i \in DOMAIN s.chain : ch[i] = opened(i)
    <2>1. \A i \in 1..Len(s.chain) : opened(i) \in Links
      BY <1>1, <1>4
    <2>2. ch = [i \in 1..Len(s.chain) |-> opened(i)] /\ Len(s.chain) \in Nat
      BY <1>1
    <2> HIDE DEF ch
    <2> QED BY <1>1, <2>1, <2>2
  <1>6. ASSUME NEW k \in Encoding(s.chain) PROVE Min(encoders) = k
    <2>1. \A x \in encoders : x = k
      BY <1>1, <1>3 DEF AtMostOne
    <2>2. k \in encoders /\ k \in Nat
      BY <1>1, <1>3
    <2>3. \A y \in encoders : k =< y
      BY <2>1, <2>2
    <2> HIDE DEF encoders
    <2> QED BY <2>1, <2>2, <2>3 DEF Min
  <1>7. type \in Texts /\ type # ""
    <2>1. PICK h \in Headers : h = s.header
      BY <1>1
    <2>2. s.header.type \in Texts
      BY <2>1 DEF Headers
    <2>3. "detected" \in Texts /\ "detected" # ""
      BY DEF Texts
    <2> QED BY <2>2, <2>3
  <1> HIDE DEF type
  <1>8. ASSUME NEW k \in Encoding(s.chain)
        PROVE  /\ compressed \in Headers /\ compressed.encoding = s.chain[k].encoder
               /\ compressed.vary /\ ~compressed.length /\ compressed.type # ""
    <2>1. s.chain[k].encoder \in Texts
      <3>1. s.chain[k] \in Links
        BY <1>1 DEF Encoding
      <3> QED BY <3>1 DEF Links
    <2>2. compressed = [encoding |-> s.chain[k].encoder, vary |-> TRUE, length |-> FALSE, type |-> type]
      BY <1>6
    <2> HIDE DEF compressed
    <2> QED BY <1>7, <2>1, <2>2 DEF Headers
  <1> HIDE DEF compressed, encoders
  <1>9. /\ header \in Headers /\ (Encoding(s.chain) = {} => header = s.header)
        /\ \A k \in Encoding(s.chain) : header = compressed
    BY <1>1, <1>3, <1>8
  <1> HIDE DEF ch, header, u
  <1>10. u = [chain |-> ch, header |-> header, sent |-> s.sent, wire |-> s.wire,
              status |-> s.status, empty |-> s.empty, wroteHeader |-> s.wroteHeader,
              entries |-> s.entries, early |-> s.early]
    BY <1>1, <1>2 DEF IsResponse
  <1>11. IsResponse(u)
    BY <1>1, <1>5, <1>9, <1>10 DEF IsResponse
  <1>12. /\ u.chain = ch /\ u.header = header
         /\ u.sent = s.sent /\ u.status = s.status /\ u.wire = s.wire /\ u.empty = s.empty
         /\ u.wroteHeader = s.wroteHeader /\ u.entries = s.entries /\ u.early = s.early
    BY <1>10
  <1>13. SameLinks(s, u)
    BY <1>4, <1>5, <1>12 DEF SameLinks
  <1>14. \A i \in DOMAIN s.chain :
           /\ u.chain[i].pending = s.chain[i].pending /\ u.chain[i].length = s.chain[i].length
           /\ u.chain[i].empty = FALSE
    BY <1>4, <1>5, <1>12
  <1>15. \A k \in Encoding(s.chain) :
           /\ u.header.encoding = s.chain[k].encoder
           /\ u.header.vary /\ ~u.header.length /\ u.header.type # ""
    BY <1>8, <1>9, <1>12
  <1>16. PreparedAs(s, u)
    BY <1>9, <1>11, <1>12, <1>13, <1>14, <1>15 DEF PreparedAs
  <1> QED BY <1>16 DEF u

\* After PreWrite the header is written and the response is not empty.
LEMMA PreWriteSound ==
    ASSUME NEW s, NEW w, Sound(s, w)
    PROVE  LET u == PreWrite(s)
           IN  /\ Sound(u, w) /\ SameLinks(s, u) /\ u.wroteHeader /\ ~u.empty
               /\ u.entries = s.entries /\ u.early = s.early
  <1> DEFINE p == IF s.empty THEN Prepared(s) ELSE s
             t == [p EXCEPT !.empty = FALSE]
             status == IF t.status = 0 THEN 200 ELSE t.status
             u == PreWrite(s)
  <1>1. u = WriteHeader(t, status)
    BY DEF PreWrite
  <1>2. Shape(s) /\ Carried(s, w, FALSE) /\ Logged(s, w) /\ HeaderOK(s) /\ IsResponse(s)
    BY DEF Sound, Open, Shape
  <1>3. /\ IsResponse(p) /\ SameLinks(s, p)
        /\ \A i \in DOMAIN s.chain :
             /\ p.chain[i].pending = s.chain[i].pending /\ p.chain[i].length = s.chain[i].length
             /\ p.chain[i].empty = FALSE
        /\ p.sent = s.sent /\ p.status = s.status /\ p.wire = s.wire
        /\ p.wroteHeader = s.wroteHeader /\ p.entries = s.entries /\ p.early = s.early
        /\ Encoding(s.chain) = {} => p.header = s.header
        /\ \A k \in Encoding(s.chain) :
             /\ p.header.encoding = s.chain[k].encoder
             /\ p.header.vary /\ ~p.header.length /\ p.header.type # ""
        /\ ~s.empty => p.header = s.header
    <2>1. CASE s.empty
      <3>1. p = Prepared(s)
        BY <2>1
      <3>2. PreparedAs(s, Prepared(s))
        BY <1>2, PreparedIs
      <3> HIDE DEF p
      <3> QED BY <2>1, <3>1, <3>2 DEF PreparedAs
    <2>2. CASE ~s.empty
      <3>1. p = s
        BY <2>2
      <3>2. \A i \in DOMAIN s.chain : s.chain[i].empty = FALSE
        BY <1>2, <2>2 DEF Shape, IsResponse
      <3> HIDE DEF p
      <3>3. SameLinks(s, p)
        BY <3>1 DEF SameLinks
      <3>4. \A k \in Encoding(s.chain) :
              /\ s.header.encoding = s.chain[k].encoder
              /\ s.header.vary /\ ~s.header.length /\ s.header.type # ""
        BY <1>2, <2>2 DEF HeaderOK
      <3> QED BY <1>2, <2>2, <3>1, <3>2, <3>3, <3>4
    <2> QED BY <2>1, <2>2
  <1> HIDE DEF p
  <1>4. /\ IsResponse(t) /\ t.empty = FALSE
        /\ t.chain = p.chain /\ t.header = p.header /\ t.sent = p.sent /\ t.wire = p.wire
        /\ t.status = p.status /\ t.wroteHeader = p.wroteHeader /\ t.entries = p.entries /\ t.early = p.early
    <2>1. IsResponse(p) /\ t = [p EXCEPT !.empty = FALSE]
      BY <1>3
    <2> HIDE DEF t
    <2>2. t = [chain |-> p.chain, header |-> p.header, sent |-> p.sent, wire |-> p.wire,
               status |-> p.status, empty |-> FALSE, wroteHeader |-> p.wroteHeader,
               entries |-> p.entries, early |-> p.early]
      BY <2>1 DEF IsResponse
    <2> QED BY <1>3, <2>2 DEF IsResponse
  <1>5. status \in Statuses
    BY <1>4 DEF IsResponse, Statuses
  <1> HIDE DEF t, status, u
  <1>6. /\ SameLinks(s, t) /\ Encoding(t.chain) = Encoding(s.chain) /\ DOMAIN t.chain = DOMAIN s.chain
        /\ \A i \in DOMAIN s.chain : t.chain[i].is = s.chain[i].is /\ t.chain[i].encoder = s.chain[i].encoder
    <2>1. SameLinks(s, t)
      BY <1>3, <1>4 DEF SameLinks
    <2> QED BY <2>1, SameEncoding DEF SameLinks
  <1>7. Shape(t)
    <2>1. \A i \in DOMAIN t.chain : t.chain[i].empty = t.empty
      BY <1>3, <1>4, <1>6
    <2>2. AtMostOne(t.chain)
      BY <1>2, <1>6 DEF Shape, AtMostOne
    <2> QED BY <1>4, <2>1, <2>2 DEF Shape
  <1>8. Carried(t, w, FALSE)
    <2>1. w \in Seq(Handed) /\ (Encoding(t.chain) = {} => t.wire = w)
      BY <1>2, <1>3, <1>4, <1>6 DEF Carried, Body
    <2>2. ASSUME NEW k \in Encoding(t.chain)
          PROVE  \E inner \in Seq(Tokens) :
                   /\ t.wire = Encoded(t.chain[k].encoder, inner)
                   /\ Plain(inner) \o t.chain[k].pending = w /\ NoEnd(inner)
      <3>1. k \in Encoding(s.chain) /\ k \in DOMAIN s.chain
        BY <1>6 DEF Encoding
      <3>2. PICK inner \in Seq(Tokens) :
              /\ s.wire = Encoded(s.chain[k].encoder, inner)
              /\ Plain(inner) \o s.chain[k].pending = w /\ NoEnd(inner)
        BY <1>2, <3>1 DEF Carried, Body
      <3>3. t.wire = s.wire /\ t.chain[k].encoder = s.chain[k].encoder /\ t.chain[k].pending = s.chain[k].pending
        BY <1>3, <1>4, <1>6, <3>1
      <3> QED BY <3>2, <3>3
    <2> QED BY <1>4, <2>1, <2>2 DEF Carried, Body
  <1>9. Logged(t, w)
    <2> SUFFICES ASSUME NEW i \in DOMAIN t.chain, t.chain[i].is = "log"
                 PROVE  t.chain[i].length = Len(IF CompressedAt(t.chain, i) THEN t.wire ELSE w)
      BY DEF Logged
    <2>1. i \in DOMAIN s.chain /\ s.chain[i].is = "log" /\ i \in 1..Len(s.chain) /\ Len(s.chain) \in Nat
      BY <1>2, <1>6 DEF IsResponse
    <2>2. CompressedAt(t.chain, i) <=> CompressedAt(s.chain, i)
      <3>1. \A j \in 1..(i - 1) : j \in DOMAIN s.chain
        BY <1>2, <2>1 DEF IsResponse
      <3> QED BY <1>6, <3>1 DEF CompressedAt
    <2>3. t.chain[i].length = s.chain[i].length /\ t.wire = s.wire
      BY <1>3, <1>4, <2>1
    <2> QED BY <1>2, <2>1, <2>2, <2>3 DEF Logged
  <1>10. HeaderOK(t)
    <2>0. /\ HeaderOK(s) /\ Encoding(t.chain) = Encoding(s.chain) /\ t.header = p.header
          /\ t.sent = s.sent /\ t.status = s.status /\ t.wroteHeader = s.wroteHeader /\ t.early = s.early
          /\ t.empty = FALSE /\ (Encoding(s.chain) = {} => t.header = s.header)
          /\ (~s.empty => t.header = s.header)
      BY <1>2, <1>3, <1>4, <1>6
    <2>1. t.wroteHeader => t.status # 0 /\ Len(t.sent) = 1 /\ t.sent[1].status = t.status
      BY <2>0 DEF HeaderOK
    <2>2. ~t.wroteHeader => ~t.early
      BY <2>0 DEF HeaderOK
    <2>3. t.wroteHeader /\ ~t.early => ~s.empty /\ t.sent[1].header = t.header
      BY <2>0 DEF HeaderOK, Sound
    <2>4. t.wroteHeader /\ Encoding(t.chain) = {} => t.sent[1].header.encoding = ""
      BY <2>0 DEF HeaderOK
    <2>5. Encoding(t.chain) = {} \/ t.empty => t.header.encoding = ""
      BY <2>0 DEF HeaderOK
    <2>6. \A k \in Encoding(t.chain) :
            /\ t.header.encoding = t.chain[k].encoder
            /\ t.header.vary /\ ~t.header.length /\ t.header.type # ""
      <3>1. \A k \in Encoding(s.chain) : t.chain[k].encoder = s.chain[k].encoder
        BY <1>6 DEF Encoding
      <3>2. \A k \in Encoding(s.chain) :
              /\ p.header.encoding = s.chain[k].encoder
              /\ p.header.vary /\ ~p.header.length /\ p.header.type # ""
        BY <1>3
      <3> QED BY <2>0, <3>1, <3>2
    <2> QED BY <2>1, <2>2, <2>3, <2>4, <2>5, <2>6 DEF HeaderOK
  <1>11. Open(t, w)
    BY <1>7, <1>8, <1>9, <1>10 DEF Open
  <1>12. /\ Open(u, w) /\ SameLinks(t, u) /\ u.wroteHeader
         /\ u.empty = t.empty /\ u.entries = t.entries /\ u.early = t.early
    BY <1>1, <1>5, <1>11, WriteHeaderOpen
  <1>13. SameLinks(s, u)
    BY <1>6, <1>12 DEF SameLinks
  <1>14. Sound(u, w)
    BY <1>4, <1>12 DEF Sound
  <1> QED BY <1>3, <1>4, <1>12, <1>13, <1>14 DEF u

-----------------------------------------------------------------------------
(* Each call of the handler. *)

Closed(s, w) == Shape(s) /\ Carried(s, w, TRUE) /\ Logged(s, w) /\ HeaderOK(s)

SameFields(s, u) ==
    /\ SameLinks(s, u) /\ Encoding(u.chain) = Encoding(s.chain)
    /\ u.status = s.status /\ u.empty = s.empty /\ u.wroteHeader = s.wroteHeader /\ u.early = s.early

LEMMA PassOpen ==
    ASSUME NEW s, NEW w, Open(s, w),
           NEW op \in {"write", "flush", "close"}, NEW spill \in BOOLEAN, NEW tokens \in Seq(Handed),
           s.empty => tokens = <<>>,
           op # "close" => ~s.empty \/ s.early
    PROVE  /\ op # "close" => Open(Pass(s, op, spill, tokens), w \o tokens)
           /\ op = "close" => Closed(Pass(s, op, spill, tokens), w \o tokens)
           /\ SameFields(s, Pass(s, op, spill, tokens))
           /\ \A k \in Encoding(s.chain) :
                op = "flush" /\ s.chain[k].encoder \in Flushable => Pass(s, op, spill, tokens).chain[k].pending = <<>>
  <1> DEFINE u == Pass(s, op, spill, tokens)
             v == w \o tokens
  <1>1. Shape(s) /\ Carried(s, w, FALSE) /\ Logged(s, w) /\ HeaderOK(s)
    BY DEF Open
  <1>2. /\ Shape(u) /\ Carried(u, v, op = "close") /\ Logged(u, v)
        /\ Encoding(u.chain) = Encoding(s.chain) /\ DOMAIN u.chain = DOMAIN s.chain
        /\ u.header = s.header /\ u.sent = s.sent /\ u.status = s.status /\ u.empty = s.empty
        /\ u.wroteHeader = s.wroteHeader /\ u.entries = s.entries /\ u.early = s.early
        /\ \A i \in DOMAIN s.chain : u.chain[i].is = s.chain[i].is
                                     /\ u.chain[i].encoder = s.chain[i].encoder
        /\ \A k \in Encoding(s.chain) :
             op = "flush" /\ s.chain[k].encoder \in Flushable => u.chain[k].pending = <<>>
    <2>1. Passed(s, w, op, tokens, u)
      BY <1>1, PassSound
    <2> HIDE DEF u
    <2> QED BY <2>1 DEF Passed
  <1> HIDE DEF u, v
  <1>3. SameLinks(s, u)
    BY <1>2 DEF SameLinks
  <1>4. HeaderOK(u)
    BY <1>1, <1>2, <1>3, SameHeader
  <1>5. op = "close" => Carried(u, v, TRUE)
    <2>1. ASSUME op = "close" PROVE (op = "close") = TRUE
      BY <2>1
    <2> QED BY <1>2, <2>1
  <1>6. op # "close" => Carried(u, v, FALSE)
    <2>1. ASSUME op # "close" PROVE (op = "close") = FALSE
      BY <2>1
    <2> QED BY <1>2, <2>1
  <1>7. SameFields(s, u)
    BY <1>2, <1>3 DEF SameFields
  <1>8. (op # "close" => Open(u, v)) /\ (op = "close" => Closed(u, v))
    BY <1>2, <1>4, <1>5, <1>6 DEF Open, Closed
  <1> QED BY <1>2, <1>7, <1>8 DEF u, v

\* Write, and the page of a status handler.
LEMMA WriteSound ==
    ASSUME NEW s, NEW w, Sound(s, w), NEW spill \in BOOLEAN, NEW tokens \in Seq(Handed)
    PROVE  LET u == Pass(PreWrite(s), "write", spill, tokens)
           IN  Sound(u, w \o tokens) /\ SameLinks(s, u) /\ u.wroteHeader
  <1> DEFINE p == PreWrite(s)
             u == Pass(p, "write", spill, tokens)
  <1>1. Sound(p, w) /\ SameLinks(s, p) /\ p.wroteHeader /\ ~p.empty
    BY PreWriteSound
  <1> HIDE DEF p
  <1>2. Open(u, w \o tokens) /\ SameFields(p, u)
    BY <1>1, PassOpen DEF Sound
  <1> HIDE DEF u
  <1>3. SameLinks(s, u) /\ u.wroteHeader /\ ~u.empty
    BY <1>1, <1>2 DEF SameLinks, SameFields
  <1>4. Sound(u, w \o tokens)
    BY <1>2, <1>3 DEF Sound
  <1> QED BY <1>3, <1>4 DEF u, p

LEMMA FlushSound ==
    ASSUME NEW s, NEW w, Sound(s, w)
    PROVE  LET u == Pass(IF s.wroteHeader THEN s ELSE PreWrite(s), "flush", FALSE, <<>>)
           IN  /\ Sound(u, w) /\ SameLinks(s, u) /\ u.wroteHeader
               /\ \A k \in Encoding(u.chain) : u.chain[k].encoder \in Flushable => u.chain[k].pending = <<>>
  <1> DEFINE p == IF s.wroteHeader THEN s ELSE PreWrite(s)
             u == Pass(p, "flush", FALSE, <<>>)
  <1>1. Sound(p, w) /\ SameLinks(s, p) /\ p.wroteHeader
    <2>1. CASE s.wroteHeader
      BY <2>1 DEF SameLinks
    <2>2. CASE ~s.wroteHeader
      <3>1. p = PreWrite(s)
        BY <2>2
      <3> HIDE DEF p
      <3> QED BY <3>1, PreWriteSound
    <2> QED BY <2>1, <2>2
  <1> HIDE DEF p
  <1>2. <<>> \in Seq(Handed) /\ w \in Seq(Handed) /\ w \o <<>> = w
    <2>1. w \in Seq(Handed)
      BY <1>1 DEF Sound, Open, Carried, Body
    <2> QED BY <2>1
  <1>3. ~p.empty \/ p.early
    BY <1>1 DEF Sound
  <1>4. /\ Open(u, w \o <<>>) /\ SameFields(p, u)
        /\ \A k \in Encoding(p.chain) : p.chain[k].encoder \in Flushable => u.chain[k].pending = <<>>
    BY <1>1, <1>2, <1>3, PassOpen DEF Sound
  <1> HIDE DEF u
  <1>5. SameLinks(s, u) /\ u.wroteHeader /\ u.empty = p.empty /\ u.early = p.early
    BY <1>1, <1>4 DEF SameLinks, SameFields
  <1>6. Sound(u, w)
    BY <1>2, <1>3, <1>4, <1>5 DEF Sound
  <1>7. \A k \in Encoding(u.chain) : u.chain[k].encoder \in Flushable => u.chain[k].pending = <<>>
    BY <1>4 DEF SameFields, SameLinks, Encoding
  <1> QED BY <1>5, <1>6, <1>7 DEF u, p

\* Status, SetLength and the WriteHeader of a handler.
LEMMA StatusSound ==
    ASSUME NEW s, NEW w, Sound(s, w), NEW status \in Statuses, s.status = 0
    PROVE  Sound([s EXCEPT !.status = status], w) /\ SameLinks(s, [s EXCEPT !.status = status])
  <1> DEFINE u == [s EXCEPT !.status = status]
  <1>1. Open(s, w) /\ HeaderOK(s) /\ IsResponse(s) /\ u = [s EXCEPT !.status = status]
    BY DEF Sound, Open, Shape
  <1> HIDE DEF u
  <1>2. u = [chain |-> s.chain, header |-> s.header, sent |-> s.sent, wire |-> s.wire,
             status |-> status, empty |-> s.empty, wroteHeader |-> s.wroteHeader,
             entries |-> s.entries, early |-> s.early]
    BY <1>1 DEF IsResponse
  <1>3. IsResponse(u)
    BY <1>1, <1>2 DEF IsResponse, Statuses
  <1>4. /\ u.chain = s.chain /\ u.header = s.header /\ u.sent = s.sent /\ u.wire = s.wire
        /\ u.empty = s.empty /\ u.wroteHeader = s.wroteHeader /\ u.early = s.early
    BY <1>2
  <1>5. ~s.wroteHeader
    BY <1>1 DEF HeaderOK
  <1>6. HeaderOK(u)
    BY <1>1, <1>4, <1>5 DEF HeaderOK
  <1>7. Open(u, w)
    BY <1>1, <1>3, <1>4, <1>6, SameOpen
  <1>8. Sound(u, w) /\ SameLinks(s, u)
    BY <1>4, <1>7 DEF Sound, SameLinks
  <1> QED BY <1>8 DEF u

LEMMA LengthSound ==
    ASSUME NEW s, NEW w, Sound(s, w), ~s.wroteHeader
    PROVE  LET u == [s EXCEPT !.header.length = TRUE, !.header.type = "set"]
           IN  Sound(u, w) /\ SameLinks(s, u)
  <1> DEFINE u == [s EXCEPT !.header.length = TRUE, !.header.type = "set"]
             h == [s.header EXCEPT !.length = TRUE, !.type = "set"]
  <1>1. Open(s, w) /\ HeaderOK(s) /\ IsResponse(s) /\ s.header \in Headers /\ s.empty
    BY DEF Sound, Open, Shape, IsResponse
  <1>2. h \in Headers /\ h.encoding = s.header.encoding
    <2>1. "set" \in Texts
      BY DEF Texts
    <2>2. PICK g \in Headers : g = s.header
      BY <1>1
    <2> QED BY <2>1, <2>2 DEF Headers
  <1>3. u = [s EXCEPT !.header = h]
    BY <1>1 DEF IsResponse
  <1> HIDE DEF u, h
  <1>4. u = [chain |-> s.chain, header |-> h, sent |-> s.sent, wire |-> s.wire,
             status |-> s.status, empty |-> s.empty, wroteHeader |-> s.wroteHeader,
             entries |-> s.entries, early |-> s.early]
    BY <1>1, <1>3 DEF IsResponse
  <1>5. IsResponse(u)
    BY <1>1, <1>2, <1>4 DEF IsResponse
  <1>6. /\ u.chain = s.chain /\ u.header = h /\ u.sent = s.sent /\ u.wire = s.wire /\ u.status = s.status
        /\ u.empty = s.empty /\ u.wroteHeader = s.wroteHeader /\ u.early = s.early
    BY <1>4
  <1>7. HeaderOK(u)
    BY <1>1, <1>2, <1>6 DEF HeaderOK
  <1>8. Open(u, w)
    BY <1>1, <1>5, <1>6, <1>7, SameOpen
  <1>9. Sound(u, w) /\ SameLinks(s, u)
    BY <1>6, <1>8 DEF Sound, SameLinks
  <1> QED BY <1>9 DEF u

LEMMA EarlySound ==
    ASSUME NEW s, NEW w, Sound(s, w), NEW status \in Statuses
    PROVE  LET u == [WriteHeader(s, status) EXCEPT !.early = @ \/ ~s.wroteHeader]
           IN  Sound(u, w) /\ SameLinks(s, u)
  <1> DEFINE p == WriteHeader(s, status)
             early == p.early \/ ~s.wroteHeader
             u == [p EXCEPT !.early = @ \/ ~s.wroteHeader]
  <1>1. /\ Open(p, w) /\ SameLinks(s, p) /\ p.wroteHeader /\ p.empty = s.empty /\ p.early = s.early
    BY WriteHeaderOpen DEF Sound
  <1>2. u = [p EXCEPT !.early = early] /\ early \in BOOLEAN
    BY DEF WriteHeader
  <1>3. s.wroteHeader => ~s.empty \/ s.early
    BY DEF Sound
  <1>4. early = (s.early \/ ~s.wroteHeader)
    BY <1>1
  <1> HIDE DEF p, u, early
  <1>5. IsResponse(p) /\ HeaderOK(p)
    BY <1>1 DEF Open, Shape
  <1>6. u = [chain |-> p.chain, header |-> p.header, sent |-> p.sent, wire |-> p.wire,
             status |-> p.status, empty |-> p.empty, wroteHeader |-> p.wroteHeader,
             entries |-> p.entries, early |-> early]
    BY <1>2, <1>5 DEF IsResponse
  <1>7. IsResponse(u)
    BY <1>2, <1>5, <1>6 DEF IsResponse
  <1>8. /\ u.chain = p.chain /\ u.header = p.header /\ u.sent = p.sent /\ u.wire = p.wire
        /\ u.status = p.status /\ u.empty = p.empty /\ u.wroteHeader = p.wroteHeader /\ u.early = early
    BY <1>6
  <1>9. p.early => u.early
    BY <1>1, <1>4, <1>8
  <1>10. HeaderOK(u)
    <2>1. /\ HeaderOK(p) /\ p.wroteHeader /\ (p.early => u.early) /\ u.wroteHeader = p.wroteHeader
          /\ u.chain = p.chain /\ u.header = p.header /\ u.sent = p.sent /\ u.status = p.status
          /\ u.empty = p.empty
      BY <1>1, <1>5, <1>8, <1>9
    <2> QED BY <2>1 DEF HeaderOK
  <1>11. Open(u, w)
    BY <1>1, <1>7, <1>8, <1>9, <1>10, SameOpen
  <1>12. Sound(u, w) /\ SameLinks(s, u)
    BY <1>1, <1>3, <1>4, <1>8, <1>11 DEF Sound, SameLinks
  <1> QED BY <1>12 DEF u, p

-----------------------------------------------------------------------------
(* The middleware. *)

\* A response that nothing was done to but putting writers in front.
Wrapping(s) ==
    /\ IsResponse(s) /\ AtMostOne(s.chain)
    /\ s.header.encoding = "" /\ s.sent = <<>> /\ s.wire = <<>>
    /\ s.empty /\ ~s.wroteHeader /\ ~s.early
    /\ \A i \in DOMAIN s.chain :
         s.chain[i].pending = <<>> /\ s.chain[i].length = 0 /\ s.chain[i].empty = TRUE

LEMMA PlainNone == Plain(<<>>) = <<>> /\ \A e \in Texts : Encoded(e, <<>>) = <<>>
  <1>1. Plain(<<>>) = <<>>
    <2>1. <<>> \in Seq(Handed)
      OBVIOUS
    <2> QED BY <2>1, PlainSame
  <1>2. ASSUME NEW e \in Texts PROVE Encoded(e, <<>>) = <<>>
    <2>1. <<>> \in Seq(Tokens) /\ Len(<<>>) = 0
      OBVIOUS
    <2>2. Encoded(e, <<>>) \in Seq(OnWire) /\ Len(Encoded(e, <<>>)) = 0
      BY <2>1, EncodedAt
    <2> QED BY <2>2
  <1> QED BY <1>1, <1>2

LEMMA WrappingSound ==
    ASSUME NEW s, Wrapping(s)
    PROVE  Sound(s, <<>>)
  <1>1. IsResponse(s) /\ AtMostOne(s.chain) /\ s.wire = <<>> /\ s.empty /\ ~s.wroteHeader /\ ~s.early
    BY DEF Wrapping
  <1>2. Shape(s)
    BY DEF Wrapping, Shape, IsResponse
  <1>3. Carried(s, <<>>, FALSE)
    <2>1. ASSUME NEW k \in Encoding(s.chain)
          PROVE  \E inner \in Seq(Tokens) :
                   /\ s.wire = Encoded(s.chain[k].encoder, inner)
                   /\ Plain(inner) \o s.chain[k].pending = <<>>
                   /\ NoEnd(inner) /\ inner = <<>>
      <3>1. k \in DOMAIN s.chain /\ s.chain[k] \in Links
        BY <1>1 DEF Encoding, IsResponse
      <3>2. s.chain[k].encoder \in Texts /\ s.chain[k].pending = <<>>
        BY <3>1 DEF Links, Wrapping
      <3>3. s.wire = Encoded(s.chain[k].encoder, <<>>)
        BY <1>1, <3>2, PlainNone
      <3>4. Plain(<<>>) \o s.chain[k].pending = <<>>
        BY <3>2, PlainNone
      <3>5. <<>> \in Seq(Tokens) /\ NoEnd(<<>>)
        BY DEF NoEnd
      <3> QED BY <3>3, <3>4, <3>5
    <2>2. <<>> \in Seq(Handed)
      OBVIOUS
    <2> QED BY <1>1, <2>1, <2>2 DEF Carried, Body
  <1>4. Logged(s, <<>>)
    BY <1>1 DEF Wrapping, Logged
  <1>5. HeaderOK(s)
    BY <1>1 DEF Wrapping, HeaderOK
  <1> QED BY <1>1, <1>2, <1>3, <1>4, <1>5 DEF Sound, Open

\* Middleware put a writer in front.
LEMMA WrapSound ==
    ASSUME NEW s, Wrapping(s), NEW link \in Links,
           link.pending = <<>>, link.length = 0, link.empty = TRUE,
           link.is = "compress" => Encoding(s.chain) = {}
    PROVE  LET u == [s EXCEPT !.chain = <<link>> \o @]
           IN  /\ Wrapping(u)
               /\ \A k \in Encoding(u.chain) : u.chain[k] = link \/ (k - 1 \in Encoding(s.chain) /\ u.chain[k] = s.chain[k - 1])
  <1> DEFINE ch == <<link>> \o s.chain
             u == [s EXCEPT !.chain = <<link>> \o @]
  <1>1. IsResponse(s) /\ s.chain \in Seq(Links) /\ DOMAIN s.chain = 1..Len(s.chain) /\ Len(s.chain) \in Nat
    <2>1. IsResponse(s)
      BY DEF Wrapping
    <2> QED BY <2>1 DEF IsResponse
  <1>2. /\ ch \in Seq(Links) /\ DOMAIN ch = 1..(Len(s.chain) + 1) /\ ch[1] = link
        /\ \A i \in 2..(Len(s.chain) + 1) : ch[i] = s.chain[i - 1]
    <2>1. PICK c \in Seq(Links) : c = s.chain
      BY <1>1
    <2>2. /\ <<link>> \o c \in Seq(Links) /\ Len(<<link>> \o c) = Len(c) + 1
          /\ (<<link>> \o c)[1] = link
          /\ \A i \in 2..(Len(c) + 1) : (<<link>> \o c)[i] = c[i - 1]
      OBVIOUS
    <2> DEFINE d == <<link>> \o c
    <2>3. ch = d /\ d \in Seq(Links) /\ Len(d) = Len(c) + 1 /\ d[1] = link
          /\ \A i \in 2..(Len(c) + 1) : d[i] = c[i - 1]
      BY <2>1, <2>2
    <2> HIDE DEF d, ch
    <2> QED BY <2>1, <2>3
  <1>3. u = [s EXCEPT !.chain = ch]
    BY <1>1 DEF IsResponse
  <1> HIDE DEF ch, u
  <1>4. u = [chain |-> ch, header |-> s.header, sent |-> s.sent, wire |-> s.wire, status |-> s.status,
             empty |-> s.empty, wroteHeader |-> s.wroteHeader, entries |-> s.entries, early |-> s.early]
    BY <1>1, <1>3 DEF IsResponse
  <1>5. IsResponse(u)
    BY <1>1, <1>2, <1>4 DEF IsResponse
  <1>6. /\ u.chain = ch /\ u.header = s.header /\ u.sent = s.sent /\ u.wire = s.wire
        /\ u.empty = s.empty /\ u.wroteHeader = s.wroteHeader /\ u.early = s.early
    BY <1>4
  <1>7. ASSUME NEW k \in Encoding(ch)
        PROVE  \/ k = 1 /\ ch[k] = link /\ link.is = "compress"
               \/ k - 1 \in Encoding(s.chain) /\ ch[k] = s.chain[k - 1] /\ k \in Nat
    <2>1. k \in 1..(Len(s.chain) + 1) /\ ch[k].is = "compress"
      BY <1>2 DEF Encoding
    <2>2. CASE k = 1
      BY <1>2, <2>1, <2>2
    <2>3. CASE k # 1
      <3>1. k \in 2..(Len(s.chain) + 1) /\ k - 1 \in DOMAIN s.chain /\ k \in Nat
        BY <1>1, <2>1, <2>3
      <3>2. ch[k] = s.chain[k - 1]
        BY <1>2, <3>1
      <3> QED BY <2>1, <3>1, <3>2 DEF Encoding
    <2> QED BY <2>2, <2>3
  <1>8. AtMostOne(ch)
    <2>1. \A i, j \in Encoding(s.chain) : i = j
      BY DEF Wrapping, AtMostOne
    <2>2. ASSUME NEW i \in Encoding(ch), NEW j \in Encoding(ch) PROVE i = j
      <3>1. CASE link.is = "compress"
        BY <1>7, <3>1
      <3>2. CASE link.is # "compress"
        <4>1. i - 1 \in Encoding(s.chain) /\ j - 1 \in Encoding(s.chain) /\ i \in Nat /\ j \in Nat
          BY <1>7, <3>2
        <4>2. i - 1 = j - 1
          BY <2>1, <4>1
        <4> QED BY <4>1, <4>2
      <3> QED BY <3>1, <3>2
    <2> QED BY <2>2 DEF AtMostOne
  <1>9. ASSUME NEW i \in DOMAIN ch PROVE ch[i].pending = <<>> /\ ch[i].length = 0 /\ ch[i].empty = TRUE
    <2>1. CASE i = 1
      BY <1>2, <2>1
    <2>2. CASE i # 1
      <3>1. i \in 2..(Len(s.chain) + 1) /\ i - 1 \in DOMAIN s.chain
        BY <1>1, <1>2, <2>2
      <3>2. ch[i] = s.chain[i - 1]
        BY <1>2, <3>1
      <3> QED BY <3>1, <3>2 DEF Wrapping
    <2> QED BY <2>1, <2>2
  <1>10. Wrapping(u)
    BY <1>5, <1>6, <1>8, <1>9 DEF Wrapping
  <1>11. \A k \in Encoding(u.chain) : u.chain[k] = link \/ (k - 1 \in Encoding(s.chain) /\ u.chain[k] = s.chain[k - 1])
    <2>1. Encoding(u.chain) = Encoding(ch) /\ u.chain = ch
      BY <1>6
    <2>2. ASSUME NEW k \in Encoding(ch) PROVE ch[k] = link \/ (k - 1 \in Encoding(s.chain) /\ ch[k] = s.chain[k - 1])
      BY <1>7
    <2> QED BY <2>1, <2>2
  <1> QED BY <1>10, <1>11 DEF u

Values == [value : STRING, q : STRING]

\* The encoder that is chosen is one of the request's, or the request leaves it open.
LEMMA ChosenSound ==
    ASSUME NEW accept \in SUBSET Values, NEW e \in Chosen(accept)
    PROVE  e \in STRING \ {""} /\ \E h \in accept : h.value \in {e, "*"}
  <1> DEFINE named(p) == {i \in DOMAIN Encoders : \E h \in accept : Priority(h) = p /\ h.value = Encoders[i]}
             any(p)   == \E h \in accept : Priority(h) = p /\ h.value = "*"
             settled  == {p \in {Priority(h) : h \in accept} : named(p) # {} \/ any(p)}
             p        == Max(settled)
             i        == IF named(p) # {} THEN Min(named(p)) ELSE 1
  <1>1. DOMAIN Encoders \subseteq Nat /\ 1 \in DOMAIN Encoders /\ \A n \in DOMAIN Encoders : Encoders[n] \in STRING \ {""}
    <2> DEFINE Names == STRING \ {""}
    <2>1. Encoders \in Seq(Names) /\ Encoders # <<>>
      BY EncodersAssumption
    <2> HIDE DEF Names
    <2>2. Len(Encoders) \in Nat /\ Len(Encoders) # 0
      BY <2>1, EmptySeq
    <2>3. DOMAIN Encoders = 1..Len(Encoders) /\ \A n \in DOMAIN Encoders : Encoders[n] \in Names
      BY <2>1
    <2>4. DOMAIN Encoders \subseteq Nat /\ 1 \in DOMAIN Encoders
      BY <2>2, <2>3
    <2>5. \A n \in DOMAIN Encoders : Encoders[n] \in STRING \ {""}
      BY <2>3 DEF Names
    <2> QED BY <2>4, <2>5
  <1>2. settled # {} /\ e = Encoders[i]
    BY DEF Chosen
  <1>3. p \in settled
    <2>1. settled \subseteq {0, 5, 10}
      BY DEF Priority
    <2>2. settled # {}
      BY <1>2
    <2> HIDE DEF settled
    <2>3. \E x \in settled : \A y \in settled : x >= y
      <3>1. CASE 10 \in settled
        BY <2>1, <3>1
      <3>2. CASE 10 \notin settled /\ 5 \in settled
        BY <2>1, <3>2
      <3>3. CASE 10 \notin settled /\ 5 \notin settled
        <4>1. settled = {0}
          BY <2>1, <2>2, <3>3
        <4> QED BY <4>1
      <3> QED BY <3>1, <3>2, <3>3
    <2> QED BY <2>3 DEF Max
  <1> HIDE DEF p
  <1>4. named(p) # {} \/ any(p)
    BY <1>3
  <1>5. CASE named(p) # {}
    <2> DEFINE ns == named(p)
    <2>1. ns # {} /\ ns \subseteq DOMAIN Encoders /\ ns \subseteq Nat
      BY <1>1, <1>5
    <2>2. i = Min(ns)
      BY <1>5
    <2>3. i \in ns
      <3> HIDE DEF ns, i
      <3>1. \E x \in ns : \A y \in ns : x =< y
        BY <2>1, LeastNumber
      <3> QED BY <2>2, <3>1 DEF Min
    <2> HIDE DEF i
    <2>4. i \in DOMAIN Encoders /\ \E h \in accept : h.value = Encoders[i]
      BY <2>3
    <2>5. e = Encoders[i]
      BY <1>2
    <2>6. e \in STRING \ {""}
      BY <1>1, <2>4, <2>5
    <2> QED BY <2>4, <2>5, <2>6
  <1>6. CASE named(p) = {}
    <2>1. i = 1 /\ any(p)
      BY <1>4, <1>6
    <2> HIDE DEF i
    <2>2. e \in STRING \ {""}
      <3>1. e = Encoders[1]
        BY <1>2, <2>1
      <3> QED BY <1>1, <3>1
    <2> QED BY <2>1, <2>2
  <1> QED BY <1>5, <1>6

LEMMA ChosenNone == Chosen({}) = {}
  BY DEF Chosen

-----------------------------------------------------------------------------
(* The invariant. *)

Asked ==
    /\ request \in [accept : SUBSET Values, upgrade : BOOLEAN, asked : SUBSET Values]
    /\ request.accept \in {request.asked, {}}

\* One compresses at most, for the first to do it takes the header away.
Asking(s, q) ==
    \A k \in Encoding(s.chain) :
        /\ q.accept = {} /\ ~q.upgrade
        /\ s.chain[k].encoder # "" /\ \E h \in q.asked : h.value \in {s.chain[k].encoder, "*"}

Flushed(s) ==
    s.wroteHeader /\ \A k \in Encoding(s.chain) : s.chain[k].encoder \in Flushable => s.chain[k].pending = <<>>

Finished(s, w) ==
    /\ Closed(s, w) /\ s.wroteHeader
    /\ s.entries = [i \in {i \in DOMAIN s.chain : s.chain[i].is = "log"} |->
                      [status |-> s.status, length |-> s.chain[i].length]]

WritersInv ==
    /\ Asked /\ Asking(r, request) /\ todo \in Seq({"log", "compress"}) /\ calls \in Nat
    /\ todo # <<>> => did = "wrap"
    /\ did = "wrap" => Wrapping(r) /\ written = <<>>
    /\ did # "closed" => Sound(r, written)
    /\ did = "flush" => Flushed(r)
    /\ did = "closed" => Finished(r, written)

LEMMA WritersInitial == WritersInit => WritersInv
  <1> SUFFICES ASSUME WritersInit PROVE WritersInv
    OBVIOUS
  <1>1. Asked
    BY RequestsAssumption DEF WritersInit, Asked, Values
  <1>2. r = Fresh /\ r.chain = <<>> /\ did = "wrap" /\ written = <<>> /\ calls = 0
    BY DEF WritersInit, Fresh
  <1>3. todo \in Seq({"log", "compress"})
    BY OrdersAssumption DEF WritersInit
  <1>4. Encoding(r.chain) = {} /\ DOMAIN r.chain = {}
    BY <1>2 DEF Encoding
  <1>5. Wrapping(r)
    <2> DEFINE h == [encoding |-> "", vary |-> FALSE, length |-> FALSE, type |-> ""]
    <2>1. h \in Headers /\ h.encoding = ""
      <3>1. "" \in Texts
        BY DEF Texts
      <3> QED BY <3>1 DEF Headers
    <2>2. r = [chain |-> <<>>, header |-> h, sent |-> <<>>, wire |-> <<>>, status |-> 0, empty |-> TRUE,
               wroteHeader |-> FALSE, entries |-> <<>>, early |-> FALSE]
      BY <1>2 DEF Fresh
    <2> HIDE DEF h
    <2>3. /\ r.chain = <<>> /\ r.header = h /\ r.sent = <<>> /\ r.wire = <<>> /\ r.status = 0 /\ r.empty
          /\ ~r.wroteHeader /\ ~r.early /\ r.entries = <<>>
      BY <2>2
    <2>4. r = [chain |-> r.chain, header |-> r.header, sent |-> r.sent, wire |-> r.wire,
               status |-> r.status, empty |-> r.empty, wroteHeader |-> r.wroteHeader,
               entries |-> r.entries, early |-> r.early]
      BY <2>2
    <2>5. r.chain \in Seq(Links) /\ r.sent \in Seq([header : Headers, status : Nat]) /\ r.wire \in Seq(OnWire)
      BY <2>3
    <2>6. r.header \in Headers /\ r.status \in Nat /\ r.empty \in BOOLEAN /\ r.wroteHeader \in BOOLEAN /\ r.early \in BOOLEAN
      BY <2>1, <2>2
    <2>7. IsResponse(r)
      BY <2>4, <2>5, <2>6 DEF IsResponse
    <2> QED BY <1>4, <2>1, <2>3, <2>7 DEF Wrapping, AtMostOne
  <1>6. Sound(r, written)
    BY <1>2, <1>5, WrappingSound
  <1>7. Asking(r, request)
    BY <1>4 DEF Asking
  <1> QED BY <1>1, <1>2, <1>3, <1>5, <1>6, <1>7 DEF WritersInv

LEMMA LinksAre ==
    /\ LogLink \in Links /\ LogLink.is = "log"
    /\ LogLink.pending = <<>> /\ LogLink.length = 0 /\ LogLink.empty = TRUE
    /\ \A e \in STRING :
         /\ CompressLink(e) \in Links /\ CompressLink(e).is = "compress" /\ CompressLink(e).encoder = e
         /\ CompressLink(e).pending = <<>> /\ CompressLink(e).length = 0 /\ CompressLink(e).empty = TRUE
  <1>1. "" \in Texts /\ (\A e \in STRING : e \in Texts) /\ <<>> \in Seq(Handed)
    <2>1. "" \in Texts /\ \A e \in STRING : e \in Texts
      BY DEF Texts
    <2>2. <<>> \in Seq(Handed)
      OBVIOUS
    <2> QED BY <2>1, <2>2
  <1>2. /\ LogLink \in Links /\ LogLink.is = "log"
        /\ LogLink.pending = <<>> /\ LogLink.length = 0 /\ LogLink.empty = TRUE
    BY <1>1 DEF LogLink, Links
  <1>3. ASSUME NEW e \in STRING
        PROVE  /\ CompressLink(e) \in Links /\ CompressLink(e).is = "compress" /\ CompressLink(e).encoder = e
               /\ CompressLink(e).pending = <<>> /\ CompressLink(e).length = 0 /\ CompressLink(e).empty = TRUE
    <2>1. CompressLink(e) = [is |-> "compress", encoder |-> e, pending |-> <<>>, empty |-> TRUE, length |-> 0]
      <3>1. CompressLink(e) = [LogLink EXCEPT !.is = "compress", !.encoder = e]
        BY DEF CompressLink
      <3> DEFINE link == CompressLink(e)
      <3> HIDE DEF link
      <3>2. link = [LogLink EXCEPT !.is = "compress", !.encoder = e]
        BY <3>1 DEF link
      <3>3. link = [is |-> "compress", encoder |-> e, pending |-> <<>>, empty |-> TRUE, length |-> 0]
        BY <3>2 DEF LogLink
      <3> QED BY <3>3 DEF link
    <2> DEFINE link == CompressLink(e)
    <2>2. link = [is |-> "compress", encoder |-> e, pending |-> <<>>, empty |-> TRUE, length |-> 0]
      BY <2>1
    <2> HIDE DEF link
    <2>3. e \in Texts
      BY <1>1
    <2>4. /\ link \in Links /\ link.is = "compress" /\ link.encoder = e
          /\ link.pending = <<>> /\ link.length = 0 /\ link.empty = TRUE
      BY <1>1, <2>2, <2>3 DEF Links
    <2> QED BY <2>4 DEF link
  <1> QED BY <1>2, <1>3

\* The calls of the handler leave the writers where they are.
LEMMA SameAsking ==
    ASSUME NEW s, NEW u, NEW q, Asking(s, q), SameLinks(s, u)
    PROVE  Asking(u, q)
  BY DEF Asking, SameLinks, Encoding

LEMMA CompressStep == WritersInv /\ Compress => WritersInv'
  <1> SUFFICES ASSUME WritersInv, Compress PROVE WritersInv'
    OBVIOUS
  <1> DEFINE encoder == IF request.upgrade THEN {} ELSE Chosen(request.accept)
  <1>1. /\ Wrapping(r) /\ written = <<>> /\ Asked /\ Asking(r, request)
        /\ todo \in Seq({"log", "compress"}) /\ todo # <<>> /\ calls \in Nat
    BY DEF WritersInv, Compress
  <1>2. /\ todo' = Tail(todo) /\ did' = "wrap" /\ written' = <<>> /\ calls' = calls
        /\ \/ encoder = {} /\ request' = request /\ r' = r
           \/ \E e \in encoder : /\ request' = [request EXCEPT !.accept = {}]
                                 /\ r' = [r EXCEPT !.chain = <<CompressLink(e)>> \o @]
    BY <1>1 DEF Compress
  <1>3. todo' \in Seq({"log", "compress"}) /\ calls' \in Nat
    BY <1>1, <1>2
  <1>4. Wrapping(r') /\ Asked' /\ Asking(r', request')
    <2>1. CASE encoder = {} /\ request' = request /\ r' = r
      <3>1. Asked'
        BY <1>1, <2>1 DEF Asked
      <3> QED BY <1>1, <2>1, <3>1
    <2>2. ASSUME NEW e \in encoder, request' = [request EXCEPT !.accept = {}],
                 r' = [r EXCEPT !.chain = <<CompressLink(e)>> \o @]
          PROVE  Wrapping(r') /\ Asked' /\ Asking(r', request')
      <3>1. ~request.upgrade /\ e \in Chosen(request.accept)
        BY <2>2
      <3>2. request.accept \in SUBSET Values /\ request.accept \subseteq request.asked
        BY <1>1 DEF Asked
      <3>3. e \in STRING \ {""} /\ \E h \in request.accept : h.value \in {e, "*"}
        BY <3>1, <3>2, ChosenSound
      <3>4. Encoding(r.chain) = {}
        BY <1>1, <3>1, ChosenNone DEF Asking
      <3> DEFINE link == CompressLink(e)
      <3>5. /\ link \in Links /\ link.encoder = e
            /\ link.pending = <<>> /\ link.length = 0 /\ link.empty = TRUE
        BY <3>3, LinksAre
      <3> HIDE DEF link
      <3>6. /\ Wrapping(r')
            /\ \A k \in Encoding(r'.chain) : r'.chain[k] = link
                 \/ (k - 1 \in Encoding(r.chain) /\ r'.chain[k] = r.chain[k - 1])
        <4>1. r' = [r EXCEPT !.chain = <<link>> \o @]
          BY <2>2 DEF link
        <4> QED BY <1>1, <3>4, <3>5, <4>1, WrapSound
      <3>7. /\ request' \in [accept : SUBSET Values, upgrade : BOOLEAN, asked : SUBSET Values]
            /\ request'.accept = {} /\ request'.upgrade = request.upgrade /\ request'.asked = request.asked
        BY <1>1, <2>2 DEF Asked
      <3>8. Asked'
        BY <3>7 DEF Asked
      <3>9. Asking(r', request')
        <4>1. \A k \in Encoding(r'.chain) : r'.chain[k].encoder = e
          BY <3>4, <3>5, <3>6
        <4>2. e # "" /\ \E h \in request'.asked : h.value \in {e, "*"}
          BY <3>2, <3>3, <3>7
        <4>3. request'.accept = {} /\ ~request'.upgrade
          BY <3>1, <3>7
        <4> QED BY <4>1, <4>2, <4>3 DEF Asking
      <3> QED BY <3>6, <3>8, <3>9
    <2> QED BY <1>2, <2>1, <2>2
  <1>5. Sound(r', written')
    BY <1>2, <1>4, WrappingSound
  <1> QED BY <1>2, <1>3, <1>4, <1>5 DEF WritersInv

LEMMA LogStep == WritersInv /\ Log => WritersInv'
  <1> SUFFICES ASSUME WritersInv, Log PROVE WritersInv'
    OBVIOUS
  <1>1. /\ Wrapping(r) /\ written = <<>> /\ Asked /\ Asking(r, request)
        /\ todo \in Seq({"log", "compress"}) /\ todo # <<>> /\ calls \in Nat
    BY DEF WritersInv, Log
  <1>2. /\ todo' = Tail(todo) /\ did' = "wrap" /\ written' = <<>> /\ calls' = calls /\ request' = request
        /\ r' = [r EXCEPT !.chain = <<LogLink>> \o @]
    BY <1>1 DEF Log
  <1>3. todo' \in Seq({"log", "compress"}) /\ calls' \in Nat /\ Asked'
    BY <1>1, <1>2 DEF Asked
  <1> DEFINE link == LogLink
  <1>4. link \in Links /\ link.is = "log" /\ link.pending = <<>> /\ link.length = 0 /\ link.empty = TRUE
    BY LinksAre
  <1> HIDE DEF link
  <1>5. /\ Wrapping(r')
        /\ \A k \in Encoding(r'.chain) : r'.chain[k] = link
             \/ (k - 1 \in Encoding(r.chain) /\ r'.chain[k] = r.chain[k - 1])
    <2>1. r' = [r EXCEPT !.chain = <<link>> \o @]
      BY <1>2 DEF link
    <2> QED BY <1>1, <1>4, <2>1, WrapSound
  <1>6. Asking(r', request')
    <2>1. \A k \in Encoding(r'.chain) : k - 1 \in Encoding(r.chain) /\ r'.chain[k] = r.chain[k - 1]
      BY <1>4, <1>5 DEF Encoding
    <2> QED BY <1>1, <1>2, <2>1 DEF Asking
  <1>7. Sound(r', written')
    BY <1>2, <1>5, WrappingSound
  <1> QED BY <1>2, <1>3, <1>5, <1>6, <1>7 DEF WritersInv

\* What a call of the handler keeps.
LEMMA CallKeeps ==
    ASSUME WritersInv, Handling, calls' = calls + 1, UNCHANGED <<request, todo>>,
           did' \notin {"wrap", "closed"}, Sound(r', written'), SameLinks(r, r'),
           did' = "flush" => Flushed(r')
    PROVE  WritersInv'
  <1>1. Asked' /\ Asking(r', request') /\ todo' = <<>> /\ todo' \in Seq({"log", "compress"}) /\ calls' \in Nat
    <2>1. Asking(r', request')
      BY SameAsking DEF WritersInv
    <2>2. Asked'
      BY DEF WritersInv, Asked
    <2> QED BY <2>1, <2>2 DEF WritersInv, Handling
  <1> QED BY <1>1 DEF WritersInv

LEMMA WriteStep == ASSUME WritersInv, NEW nothing \in BOOLEAN, Write(nothing) PROVE WritersInv'
  <1> DEFINE tokens == IF nothing THEN <<>> ELSE <<<<Chunks[calls + 1]>>>>
  <1>1. Handling /\ calls \in Nat /\ Sound(r, written)
    BY DEF Write, WritersInv, Handling
  <1>2. tokens \in Seq(Handed)
    <2>1. CASE nothing
      BY <2>1
    <2>2. CASE ~nothing
      <3> DEFINE Names == STRING \ {"sync", "end"}
      <3>1. Chunks \in Seq(Names) /\ calls + 1 \in 1..Len(Chunks)
        <4>1. Chunks \in Seq(Names)
          BY ChunksAssumption
        <4> HIDE DEF Names
        <4>2. Len(Chunks) \in Nat
          BY <4>1
        <4> QED BY <1>1, <4>1, <4>2 DEF Handling
      <3>2. Chunks[calls + 1] \in Names
        <4> HIDE DEF Names
        <4> QED BY <3>1
      <3> DEFINE c == Chunks[calls + 1]
      <3> HIDE DEF c
      <3>3. <<c>> \in Handed
        BY <3>2 DEF Handed, Texts, c
      <3>4. tokens = <<<<c>>>>
        BY <2>2 DEF c
      <3> HIDE DEF tokens
      <3> QED BY <3>3, <3>4
    <2> QED BY <2>1, <2>2
  <1>3. PICK spill \in BOOLEAN : r' = Pass(PreWrite(r), "write", spill, tokens)
    BY DEF Write
  <1>4. written' = written \o tokens /\ calls' = calls + 1 /\ did' = "write" /\ UNCHANGED <<request, todo>>
    BY DEF Write
  <1> HIDE DEF tokens
  <1>5. Sound(r', written') /\ SameLinks(r, r')
    BY <1>1, <1>2, <1>3, <1>4, WriteSound
  <1> QED BY <1>1, <1>4, <1>5, CallKeeps

LEMMA FlushStep == WritersInv /\ Flush => WritersInv'
  <1> SUFFICES ASSUME WritersInv, Flush PROVE WritersInv'
    OBVIOUS
  <1>1. Handling /\ Sound(r, written)
    BY DEF Flush, WritersInv, Handling
  <1>2. /\ r' = Pass(IF r.wroteHeader THEN r ELSE PreWrite(r), "flush", FALSE, <<>>)
        /\ calls' = calls + 1 /\ did' = "flush" /\ UNCHANGED <<request, todo, written>>
    BY DEF Flush
  <1>3. Sound(r', written') /\ SameLinks(r, r') /\ Flushed(r')
    BY <1>1, <1>2, FlushSound DEF Flushed
  <1> QED BY <1>1, <1>2, <1>3, CallKeeps

LEMMA StatusStep == ASSUME WritersInv, NEW status \in {200, 404}, Status(status) PROVE WritersInv'
  <1>1. Handling /\ Sound(r, written) /\ status \in Statuses
    BY DEF Status, WritersInv, Handling, Statuses
  <1>2. /\ r' = (IF r.status = 0 THEN [r EXCEPT !.status = status] ELSE r)
        /\ calls' = calls + 1 /\ did' = "status" /\ UNCHANGED <<request, todo, written>>
    BY DEF Status
  <1>3. Sound(r', written') /\ SameLinks(r, r')
    <2>1. CASE r.status = 0
      BY <1>1, <1>2, <2>1, StatusSound
    <2>2. CASE r.status # 0
      BY <1>1, <1>2, <2>2 DEF SameLinks
    <2> QED BY <2>1, <2>2
  <1> QED BY <1>1, <1>2, <1>3, CallKeeps

LEMMA LengthStep == WritersInv /\ SetLength => WritersInv'
  <1> SUFFICES ASSUME WritersInv, SetLength PROVE WritersInv'
    OBVIOUS
  <1>1. Handling /\ Sound(r, written) /\ ~r.wroteHeader
    BY DEF SetLength, WritersInv, Handling
  <1>2. /\ r' = [r EXCEPT !.header.length = TRUE, !.header.type = "set"]
        /\ calls' = calls + 1 /\ did' = "header" /\ UNCHANGED <<request, todo, written>>
    BY DEF SetLength
  <1>3. Sound(r', written') /\ SameLinks(r, r')
    BY <1>1, <1>2, LengthSound
  <1> QED BY <1>1, <1>2, <1>3, CallKeeps

LEMMA EarlyStep ==
    ASSUME WritersInv, NEW status \in {200, 404}, HandlerWritesHeader(status)
    PROVE  WritersInv'
  <1>1. Handling /\ Sound(r, written) /\ status \in Statuses
    BY DEF HandlerWritesHeader, WritersInv, Handling, Statuses
  <1>2. /\ r' = [WriteHeader(r, status) EXCEPT !.early = @ \/ ~r.wroteHeader]
        /\ calls' = calls + 1 /\ did' = "header" /\ UNCHANGED <<request, todo, written>>
    BY DEF HandlerWritesHeader
  <1>3. Sound(r', written') /\ SameLinks(r, r')
    BY <1>1, <1>2, EarlySound
  <1> QED BY <1>1, <1>2, <1>3, CallKeeps

LEMMA SameCarried ==
    ASSUME NEW s, NEW u, NEW w, Carried(s, w, TRUE),
           u.chain = s.chain, u.wire = s.wire, u.empty = s.empty, u.early = s.early
    PROVE  Carried(u, w, TRUE)
  BY DEF Carried

\* Router.finalize.
LEMMA FinalizeStep == WritersInv /\ Finalize => WritersInv'
  <1> SUFFICES ASSUME WritersInv, Finalize PROVE WritersInv'
    OBVIOUS
  <1>1. /\ todo = <<>> /\ did # "closed" /\ Sound(r, written)
        /\ did' = "closed" /\ UNCHANGED <<request, todo, calls>>
    BY DEF Finalize, WritersInv
  <1>2. PICK page \in {<<>>, <<<<"page">>>>} :
          /\ page # <<>> => r.empty /\ r.status # 0
          /\ LET a == IF r.empty /\ r.status = 0 THEN [r EXCEPT !.status = 204] ELSE r
                 b == IF page = <<>> THEN a ELSE Pass(PreWrite(a), "write", FALSE, page)
                 c == Pass(WriteHeader(b, b.status), "close", FALSE, <<>>)
                 logs == {i \in DOMAIN c.chain : c.chain[i].is = "log"}
             IN  r' = [c EXCEPT !.entries = [i \in logs |-> [status |-> c.status,
                                                             length |-> c.chain[i].length]]]
          /\ written' = written \o page
    BY DEF Finalize
  <1> DEFINE a == IF r.empty /\ r.status = 0 THEN [r EXCEPT !.status = 204] ELSE r
             b == IF page = <<>> THEN a ELSE Pass(PreWrite(a), "write", FALSE, page)
             d == WriteHeader(b, b.status)
             c == Pass(d, "close", FALSE, <<>>)
             logged(i) == [status |-> c.status, length |-> c.chain[i].length]
             entries == [i \in {i \in DOMAIN c.chain : c.chain[i].is = "log"} |-> logged(i)]
  <1>3. r' = [c EXCEPT !.entries = entries] /\ written' = written \o page
    BY <1>2
  <1> HIDE DEF logged
  <1>4. page \in Seq(Handed) /\ written \in Seq(Handed) /\ written \o <<>> = written
    <2>1. written \in Seq(Handed)
      BY <1>1 DEF Sound, Open, Carried, Body
    <2>2. <<"page">> \in Handed
      BY DEF Handed, Texts
    <2>3. page \in Seq(Handed)
      <3> DEFINE h == <<"page">>
      <3>1. h \in Handed /\ (page = <<>> \/ page = <<h>>)
        BY <2>2
      <3> HIDE DEF h
      <3>2. <<h>> \in Seq(Handed) /\ <<>> \in Seq(Handed)
        BY <3>1
      <3> QED BY <3>1, <3>2
    <2> QED BY <2>1, <2>3
  <1>5. Sound(a, written) /\ SameLinks(r, a) /\ (page = <<>> => a.status # 0)
    <2>1. CASE r.empty /\ r.status = 0
      <3>1. a = [r EXCEPT !.status = 204] /\ 204 \in Statuses
        BY <2>1 DEF Statuses
      <3> HIDE DEF a
      <3>2. Sound(a, written) /\ SameLinks(r, a)
        BY <1>1, <2>1, <3>1, StatusSound
      <3>3. IsResponse(r)
        BY <1>1 DEF Sound, Open, Shape
      <3>4. a.status = 204
        BY <3>1, <3>3 DEF IsResponse
      <3> QED BY <3>2, <3>4
    <2>2. CASE ~(r.empty /\ r.status = 0)
      <3>1. a = r
        BY <2>2
      <3> HIDE DEF a
      <3>2. r.status # 0
        BY <1>1, <2>2 DEF Sound, Open, HeaderOK
      <3>3. SameLinks(r, a)
        BY <3>1 DEF SameLinks
      <3> QED BY <1>1, <3>1, <3>2, <3>3
    <2> QED BY <2>1, <2>2
  <1> HIDE DEF a
  <1>6. Sound(b, written \o page) /\ SameLinks(r, b) /\ b.status \in Statuses
    <2>1. CASE page = <<>>
      <3>1. b = a /\ written \o page = written
        BY <1>4, <2>1
      <3>2. IsResponse(a)
        BY <1>5 DEF Sound, Open, Shape
      <3>3. a.status \in Statuses
        BY <1>5, <2>1, <3>2 DEF IsResponse, Statuses
      <3> HIDE DEF b
      <3> QED BY <1>5, <3>1, <3>3
    <2>2. CASE page # <<>>
      <3>1. b = Pass(PreWrite(a), "write", FALSE, page)
        BY <2>2
      <3> HIDE DEF b
      <3>2. Sound(b, written \o page) /\ SameLinks(a, b) /\ b.wroteHeader
        BY <1>4, <1>5, <3>1, WriteSound
      <3>3. SameLinks(r, b)
        BY <1>5, <3>2 DEF SameLinks
      <3>4. IsResponse(b) /\ HeaderOK(b)
        BY <3>2 DEF Sound, Open, Shape
      <3>5. b.status \in Statuses
        BY <3>2, <3>4 DEF IsResponse, HeaderOK, Statuses
      <3> QED BY <3>2, <3>3, <3>5
    <2> QED BY <2>1, <2>2
  <1> HIDE DEF b
  <1>7. Open(d, written \o page) /\ SameLinks(b, d) /\ d.wroteHeader
    BY <1>6, WriteHeaderOpen DEF Sound
  <1> HIDE DEF d
  <1>8. Closed(c, written \o page) /\ SameFields(d, c)
    <2>1. <<>> \in Seq(Handed) /\ written \o page \in Seq(Handed)
      BY <1>4
    <2>2. (written \o page) \o <<>> = written \o page
      <3>1. PICK w \in Seq(Handed) : w = written \o page
        BY <2>1
      <3>2. w \o <<>> = w
        OBVIOUS
      <3> QED BY <3>1, <3>2
    <2>3. Closed(c, (written \o page) \o <<>>) /\ SameFields(d, c)
      BY <1>7, <2>1, PassOpen
    <2> HIDE DEF c
    <2> QED BY <2>2, <2>3
  <1> HIDE DEF c, entries
  <1>9. /\ IsResponse(c) /\ HeaderOK(c) /\ c.wroteHeader /\ SameLinks(r, c)
    BY <1>6, <1>7, <1>8 DEF Closed, Shape, SameFields, SameLinks
  <1>10. r' = [chain |-> c.chain, header |-> c.header, sent |-> c.sent, wire |-> c.wire,
               status |-> c.status, empty |-> c.empty, wroteHeader |-> c.wroteHeader,
               entries |-> entries, early |-> c.early]
    BY <1>3, <1>9 DEF IsResponse
  <1>11. /\ r'.chain = c.chain /\ r'.header = c.header /\ r'.sent = c.sent /\ r'.wire = c.wire
         /\ r'.status = c.status /\ r'.empty = c.empty /\ r'.wroteHeader = c.wroteHeader
         /\ r'.entries = entries /\ r'.early = c.early
    BY <1>10
  <1>12. IsResponse(r')
    BY <1>9, <1>10 DEF IsResponse
  <1>13. Closed(r', written')
    <2>1. Shape(r')
      BY <1>8, <1>11, <1>12 DEF Closed, Shape
    <2>2. Carried(r', written', TRUE)
      <3>1. Carried(c, written', TRUE) /\ r'.early = c.early
        BY <1>3, <1>8, <1>11 DEF Closed
      <3> QED BY <1>11, <3>1, SameCarried
    <2>3. Logged(r', written')
      BY <1>3, <1>8, <1>11 DEF Closed, Logged
    <2>4. HeaderOK(r')
      BY <1>9, <1>11 DEF HeaderOK
    <2> QED BY <2>1, <2>2, <2>3, <2>4 DEF Closed
  <1>14. Finished(r', written')
    <2>1. r'.entries = [i \in {i \in DOMAIN r'.chain : r'.chain[i].is = "log"} |->
                          [status |-> r'.status, length |-> r'.chain[i].length]]
      BY <1>11 DEF entries, logged
    <2> QED BY <1>9, <1>11, <1>13, <2>1 DEF Finished
  <1>15. Asking(r', request') /\ Asked' /\ todo' \in Seq({"log", "compress"}) /\ calls' \in Nat
    <2>1. SameLinks(r, r')
      BY <1>9, <1>11 DEF SameLinks
    <2>2. Asking(r', request')
      BY <1>1, <2>1, SameAsking DEF WritersInv
    <2>3. Asked'
      BY <1>1 DEF WritersInv, Asked
    <2> QED BY <1>1, <2>2, <2>3 DEF WritersInv
  <1> QED BY <1>1, <1>14, <1>15 DEF WritersInv

LEMMA WritersStep == WritersInv /\ [WritersNext]_writersVars => WritersInv'
  <1> SUFFICES ASSUME WritersInv, [WritersNext]_writersVars PROVE WritersInv'
    OBVIOUS
  <1>1. CASE UNCHANGED writersVars
    BY <1>1 DEF writersVars, WritersInv, Asked
  <1>2. CASE WritersNext
    BY <1>2, CompressStep, LogStep, FlushStep, LengthStep, FinalizeStep, WriteStep, StatusStep, EarlyStep DEF WritersNext
  <1> QED BY <1>1, <1>2

LEMMA WritersInvHolds == WritersSpec => []WritersInv
  <1> QED BY WritersInitial, WritersStep, PTL DEF WritersSpec

-----------------------------------------------------------------------------
(* What the invariant says of a response that is closed, or was flushed. *)

LEMMA InvLogged == WritersInv => EverythingLogged
  <1> SUFFICES ASSUME WritersInv, did = "closed" PROVE EverythingLogged
    BY DEF EverythingLogged
  <1> DEFINE logs == {i \in DOMAIN r.chain : r.chain[i].is = "log"}
             logged(i) == [status |-> r.status, length |-> r.chain[i].length]
  <1>1. Closed(r, written) /\ r.wroteHeader /\ r.entries = [i \in logs |-> logged(i)]
    BY DEF WritersInv, Finished
  <1>2. r.sent[1].status = r.status
    BY <1>1 DEF Closed, HeaderOK
  <1>3. ASSUME NEW i \in logs
        PROVE  /\ r.entries[i].status = r.sent[1].status
               /\ r.entries[i].length = Len(IF CompressedAt(r.chain, i) THEN r.wire ELSE written)
    <2>1. r.entries[i] = logged(i)
      BY <1>1
    <2>2. r.chain[i].length = Len(IF CompressedAt(r.chain, i) THEN r.wire ELSE written)
      BY <1>1 DEF Closed, Logged
    <2> QED BY <1>2, <2>1, <2>2
  <1>4. DOMAIN r.entries = logs
    BY <1>1
  <1> QED BY <1>3, <1>4 DEF EverythingLogged, CompressedAt

\* Without an encoder the wire is what was written; with one, what the wire says it is.
LEMMA ContentPlain ==
    ASSUME NEW s, NEW w, NEW closed, Carried(s, w, closed), Encoding(s.chain) = {}
    PROVE  Plain(s.wire) = w /\ \A i \in DOMAIN s.wire : s.wire[i] \notin Marks
  <1>1. w \in Seq(Handed) /\ s.wire = w
    BY DEF Carried, Body
  <1>2. Plain(w) = w
    BY <1>1, PlainSame
  <1>3. \A i \in DOMAIN w : w[i] \in Handed
    BY <1>1
  <1> QED BY <1>1, <1>2, <1>3, TokensAre

LEMMA ContentEncoded ==
    ASSUME NEW e \in Texts, NEW inner \in Seq(Tokens)
    PROVE  LET wire == Encoded(e, inner)
           IN  [i \in DOMAIN wire |-> wire[i][2]] = inner /\ \A i \in DOMAIN wire : wire[i][1] = e
  <1> DEFINE wire == Encoded(e, inner)
             second(i) == wire[i][2]
             f == [i \in DOMAIN wire |-> second(i)]
  <1>1. /\ DOMAIN wire = 1..Len(inner) /\ Len(inner) \in Nat /\ DOMAIN inner = 1..Len(inner)
        /\ \A i \in 1..Len(inner) : wire[i] = <<e, inner[i]>>
    <2>1. wire \in Seq(OnWire) /\ Len(wire) = Len(inner) /\ \A i \in 1..Len(inner) : wire[i] = <<e, inner[i]>>
      BY EncodedAt
    <2> HIDE DEF wire
    <2> QED BY <2>1
  <1> HIDE DEF wire
  <1>2. \A i \in 1..Len(inner) : second(i) = inner[i] /\ wire[i][1] = e
    BY <1>1
  <1> HIDE DEF second
  <1>3. f = [i \in 1..Len(inner) |-> inner[i]]
    BY <1>1, <1>2
  <1>4. inner = [i \in 1..Len(inner) |-> inner[i]]
    OBVIOUS
  <1> QED BY <1>1, <1>2, <1>3, <1>4 DEF second, wire

LEMMA EndLast ==
    ASSUME NEW front \in Seq(Tokens), NoEnd(front), NEW inner, inner = front \o <<<<"end">>>>
    PROVE  inner # <<>> /\ \A i \in DOMAIN inner : inner[i] = <<"end">> <=> i = Len(inner)
  <1> DEFINE mark == <<"end">>
  <1>1. mark \in Tokens
    BY TokensAre
  <1> HIDE DEF mark
  <1>2. PICK m \in Tokens : m = mark
    BY <1>1
  <1> DEFINE z == front \o <<m>>
  <1>3. /\ z \in Seq(Tokens) /\ Len(z) = Len(front) + 1 /\ Len(front) \in Nat
        /\ z[Len(front) + 1] = m /\ \A i \in 1..Len(front) : z[i] = front[i]
    OBVIOUS
  <1>4. inner = z
    BY <1>2 DEF mark
  <1> HIDE DEF z
  <1>5. ASSUME NEW i \in DOMAIN z PROVE z[i] = mark <=> i = Len(z)
    <2>1. i \in 1..(Len(front) + 1)
      BY <1>3
    <2>2. CASE i = Len(front) + 1
      BY <1>2, <1>3, <2>2
    <2>3. CASE i # Len(front) + 1
      <3>1. i \in 1..Len(front) /\ i \in DOMAIN front /\ z[i] = front[i]
        BY <1>3, <2>1, <2>3
      <3>2. front[i] # mark
        BY <3>1 DEF NoEnd, mark
      <3> QED BY <1>3, <2>3, <3>1, <3>2
    <2> QED BY <2>2, <2>3
  <1>6. z # <<>>
    BY <1>3
  <1> QED BY <1>4, <1>5, <1>6 DEF mark

\* Of a response whose headers the handler did not write: when it was flushed by an
\* encoder that can, or when it is closed.
LEMMA InvDecodable == WritersInv => BodyDecodable
  <1> SUFFICES ASSUME WritersInv PROVE BodyDecodable
    OBVIOUS
  <1>1. Compressing = Encoding(r.chain)
    BY DEF Compressing, Encoding
  <1>2. ASSUME Shape(r), HeaderOK(r), r.wroteHeader, NEW closed, Carried(r, written, closed), Encoding(r.chain) = {}
        PROVE  /\ Sent.encoding = "" /\ Plain(Content) = written
               /\ \A i \in DOMAIN r.wire : r.wire[i] \notin Marks
    <2>1. Sent.encoding = ""
      BY <1>2 DEF HeaderOK, Sent
    <2>2. Plain(r.wire) = written /\ \A i \in DOMAIN r.wire : r.wire[i] \notin Marks
      BY <1>2, ContentPlain
    <2>3. Content = r.wire
      BY <2>1 DEF Content
    <2> QED BY <2>1, <2>2, <2>3
  <1>3. ASSUME Shape(r), HeaderOK(r), r.wroteHeader, ~HeaderFirst, NEW k \in Encoding(r.chain)
        PROVE  /\ ~r.early /\ Sent = r.header
               /\ r.empty => Sent.encoding = ""
               /\ ~r.empty => Sent.encoding = r.chain[k].encoder /\ Sent.vary /\ ~Sent.length /\ Sent.type # ""
               /\ r.chain[k].encoder \in Texts /\ r.chain[k].encoder # ""
               /\ ~request.upgrade /\ \E h \in request.asked : h.value \in {r.chain[k].encoder, "*"}
               /\ r.chain[k].pending \in Seq(Handed)
    <2>1. ~r.early
      BY <1>1, <1>3 DEF HeaderFirst
    <2>2. Sent = r.header
      BY <1>3, <2>1 DEF HeaderOK, Sent
    <2>3. r.chain[k] \in Links
      BY <1>3 DEF Shape, IsResponse, Encoding
    <2>4. r.chain[k].encoder \in Texts /\ r.chain[k].pending \in Seq(Handed)
      BY <2>3 DEF Links
    <2>5. Asking(r, request)
      BY DEF WritersInv
    <2>6. /\ r.empty => r.header.encoding = ""
          /\ ~r.empty => r.header.encoding = r.chain[k].encoder /\ r.header.vary /\ ~r.header.length /\ r.header.type # ""
      BY <1>3 DEF HeaderOK
    <2> QED BY <1>3, <2>1, <2>2, <2>4, <2>5, <2>6 DEF Asking
  <1>4. ASSUME NEW e \in Texts, e # "", Sent.encoding = e, NEW inner \in Seq(Tokens), r.wire = Encoded(e, inner)
        PROVE  Content = inner /\ \A i \in DOMAIN r.wire : r.wire[i][1] = e
    <2>1. Content = [i \in DOMAIN r.wire |-> r.wire[i][2]]
      BY <1>4 DEF Content
    <2> DEFINE wire == Encoded(e, inner)
    <2>2. [i \in DOMAIN wire |-> wire[i][2]] = inner /\ \A i \in DOMAIN wire : wire[i][1] = e
      BY ContentEncoded
    <2> HIDE DEF wire
    <2>3. r.wire = wire
      BY <1>4 DEF wire
    <2> QED BY <2>1, <2>2, <2>3
  <1>5. ASSUME did = "closed", ~StrayFooter, ~HeaderFirst
        PROVE  /\ Plain(Content) = written
               /\ Sent.encoding # "" =>
                    /\ \A i \in DOMAIN r.wire : r.wire[i][1] = Sent.encoding
                    /\ \A i \in DOMAIN Content : Content[i] = <<"end">> <=> i = Len(Content)
                    /\ Content # <<>>
                    /\ \E h \in request.asked : h.value \in {Sent.encoding, "*"}
                    /\ ~request.upgrade
                    /\ Sent.vary /\ ~Sent.length /\ Sent.type # ""
               /\ Sent.encoding = "" => \A i \in DOMAIN r.wire : r.wire[i] \notin Marks
    <2>1. Shape(r) /\ HeaderOK(r) /\ r.wroteHeader /\ Carried(r, written, TRUE)
      BY <1>5 DEF WritersInv, Finished, Closed
    <2>2. CASE Encoding(r.chain) = {}
      BY <1>2, <2>1, <2>2
    <2>3. ASSUME NEW k \in Encoding(r.chain)
          PROVE  /\ Plain(Content) = written
                 /\ Sent.encoding # "" =>
                      /\ \A i \in DOMAIN r.wire : r.wire[i][1] = Sent.encoding
                      /\ \A i \in DOMAIN Content : Content[i] = <<"end">> <=> i = Len(Content)
                      /\ Content # <<>>
                      /\ \E h \in request.asked : h.value \in {Sent.encoding, "*"}
                      /\ ~request.upgrade
                      /\ Sent.vary /\ ~Sent.length /\ Sent.type # ""
                 /\ Sent.encoding = "" => \A i \in DOMAIN r.wire : r.wire[i] \notin Marks
      <3> DEFINE e == r.chain[k].encoder
      <3>1. /\ ~r.early /\ Sent = r.header
            /\ r.empty => Sent.encoding = ""
            /\ ~r.empty => Sent.encoding = e /\ Sent.vary /\ ~Sent.length /\ Sent.type # ""
            /\ e \in Texts /\ e # ""
            /\ ~request.upgrade /\ \E h \in request.asked : h.value \in {e, "*"}
        BY <1>3, <1>5, <2>1
      <3>2. PICK inner \in Seq(Tokens) :
              /\ r.wire = Encoded(e, inner)
              /\ Plain(inner) \o r.chain[k].pending = written
              /\ r.chain[k].pending = <<>>
              /\ IF r.empty /\ e \in Resettable THEN ~r.early => inner = <<>>
                 ELSE \E front \in Seq(Tokens) : NoEnd(front) /\ inner = front \o <<<<"end">>>>
        BY <2>1 DEF Carried, Body
      <3>3. Plain(inner) = written
        <4>1. PICK p \in Seq(Tokens) : p = Plain(inner)
          BY PlainTyped
        <4>2. p \o <<>> = p
          OBVIOUS
        <4> QED BY <3>2, <4>1, <4>2
      <3> HIDE DEF e
      <3>4. CASE r.empty
        <4>1. e \in Resettable
          BY <1>1, <1>5, <3>4 DEF StrayFooter, e
        <4>2. inner = <<>>
          BY <3>1, <3>2, <3>4, <4>1
        <4>3. Sent.encoding = "" /\ r.wire = <<>>
          BY <3>1, <3>2, <3>4, <4>2, PlainNone
        <4>4. Content = <<>>
          BY <4>3 DEF Content
        <4>5. Plain(Content) = written
          BY <3>3, <4>2, <4>4
        <4>6. \A i \in DOMAIN r.wire : r.wire[i] \notin Marks
          <5>1. DOMAIN r.wire = {}
            <6>1. DOMAIN <<>> = {}
              OBVIOUS
            <6> QED BY <4>3, <6>1
          <5> QED BY <5>1
        <4> QED BY <4>3, <4>5, <4>6
      <3>5. CASE ~r.empty
        <4>1. Sent.encoding = e /\ Sent.vary /\ ~Sent.length /\ Sent.type # ""
          BY <3>1, <3>5
        <4>2. Content = inner /\ \A i \in DOMAIN r.wire : r.wire[i][1] = e
          BY <1>4, <3>1, <3>2, <4>1
        <4>3. PICK front \in Seq(Tokens) : NoEnd(front) /\ inner = front \o <<<<"end">>>>
          BY <3>2, <3>5
        <4>4. /\ inner # <<>>
              /\ \A i \in DOMAIN inner : inner[i] = <<"end">> <=> i = Len(inner)
          BY <4>3, EndLast
        <4> QED BY <3>1, <3>3, <4>1, <4>2, <4>4
      <3> QED BY <3>4, <3>5
    <2> QED BY <2>2, <2>3
  <1>6. ASSUME did = "flush", ~HeaderFirst, \A i \in Compressing : r.chain[i].encoder \in Flushable
        PROVE  Plain(Content) = written
    <2>1. Sound(r, written) /\ Flushed(r)
      BY <1>6 DEF WritersInv
    <2>2. Shape(r) /\ HeaderOK(r) /\ r.wroteHeader /\ Carried(r, written, FALSE)
      BY <2>1 DEF Sound, Open, Flushed
    <2>3. CASE Encoding(r.chain) = {}
      BY <1>2, <2>2, <2>3
    <2>4. ASSUME NEW k \in Encoding(r.chain) PROVE Plain(Content) = written
      <3> DEFINE e == r.chain[k].encoder
      <3>1. /\ ~r.early /\ (~r.empty => Sent.encoding = e) /\ e \in Texts /\ e # ""
        BY <1>3, <1>6, <2>2
      <3>2. ~r.empty
        BY <2>1, <2>2, <3>1 DEF Sound
      <3>3. r.chain[k].pending = <<>>
        BY <1>1, <1>6, <2>1 DEF Flushed
      <3>4. PICK inner \in Seq(Tokens) :
              r.wire = Encoded(e, inner) /\ Plain(inner) \o r.chain[k].pending = written
        BY <2>2 DEF Carried, Body
      <3>5. Plain(inner) = written
        <4>1. PICK p \in Seq(Tokens) : p = Plain(inner)
          BY PlainTyped
        <4>2. p \o <<>> = p
          OBVIOUS
        <4> QED BY <3>3, <3>4, <4>1, <4>2
      <3> HIDE DEF e
      <3>6. Content = inner
        BY <1>4, <3>1, <3>2, <3>4
      <3> QED BY <3>5, <3>6
    <2> QED BY <2>3, <2>4
  <1> QED BY <1>5, <1>6 DEF BodyDecodable

-----------------------------------------------------------------------------

\* Whatever middleware wraps the response, in any order, and whatever the handler calls:
\* each access log has one entry, with the status that was sent and the length of what
\* passed it (AccessMiddleware, Writer.Write of log, Router.finalize).
THEOREM EverythingLoggedHolds == WritersSpec => []EverythingLogged
  BY WritersInvHolds, InvLogged, PTL

\* Whatever middleware wraps the response, for every set of encoders and every sequence
\* of writes, flushes and headers: the client decodes what the handler wrote, in the one
\* encoding that the headers announce (compressWriter, Response.PreWrite and Flush,
\* Router.finalize).
THEOREM BodyDecodableHolds == WritersSpec => []BodyDecodable
  BY WritersInvHolds, InvDecodable, PTL
=============================================================================

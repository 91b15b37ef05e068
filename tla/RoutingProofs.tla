---------------------------- MODULE RoutingProofs ----------------------------
(***************************************************************************)
(* Proofs about the router, for every tree of routers and routes, every    *)
(* order of registrations and every request: Vary names what an answer     *)
(* depends on, a preflight reaches no handler that did not ask for it, and *)
(* the parameters of a route build the path it was reached by.             *)
(***************************************************************************)
EXTENDS Routing, WellFoundedInduction, SequenceTheorems, FiniteSetTheorems, TLAPS

-----------------------------------------------------------------------------
(* Numbers and recursive functions. *)

LEMMA LeastNumber ==
    ASSUME NEW S, S \subseteq Nat, S # {}
    PROVE  \E n \in S : \A m \in S : n <= m
  <1> DEFINE Less == {p \in Nat \X Nat : p[1] < p[2]}
  <1>1. OpToRel(<, Nat) = Less
    BY DEF OpToRel
  <1>2. IsWellFoundedOn(Less, Nat)
    BY <1>1, NatLessThanWellFounded
  <1> HIDE DEF Less
  <1>3. PICK n \in S : \A m \in S : ~(<<m, n>> \in Less)
    BY <1>2, WFMin
  <1>4. ASSUME NEW m \in S PROVE n <= m
    <2>1. m \in Nat /\ n \in Nat /\ ~(m < n)
      BY <1>3 DEF Less
    <2> QED BY <2>1
  <1> QED BY <1>4

\* What is true of a number if it is of all smaller ones is true of all.
LEMMA UpTo ==
    ASSUME NEW N \in Nat, NEW S, \A n \in 0..N : (\A m \in 0..(n - 1) : m \in S) => n \in S
    PROVE  0..N \subseteq S
  <1> DEFINE Bad == {n \in 0..N : n \notin S}
  <1> SUFFICES ASSUME Bad # {} PROVE FALSE
    OBVIOUS
  <1>1. PICK n \in Bad : \A m \in Bad : n <= m
    <2>1. Bad \subseteq Nat
      OBVIOUS
    <2> HIDE DEF Bad
    <2> QED BY <2>1, LeastNumber
  <1>2. \A m \in 0..(n - 1) : m \notin Bad /\ m \in 0..N
    BY <1>1
  <1> QED BY <1>1, <1>2

\* The same from the top: the routers below a router come after it.
LEMMA DownFrom ==
    ASSUME NEW N \in Nat, NEW S, \A n \in 1..N : (\A m \in (n + 1)..N : m \in S) => n \in S
    PROVE  1..N \subseteq S
  <1> DEFINE Mirror == {k \in 0..N : k = N \/ N - k \in S}
  <1>1. ASSUME NEW k \in 0..N, \A j \in 0..(k - 1) : j \in Mirror
        PROVE  k \in Mirror
    <2>1. CASE k = N
      BY <2>1
    <2>2. CASE k # N
      <3>1. N - k \in 1..N
        BY <2>2
      <3>2. ASSUME NEW m \in (N - k + 1)..N PROVE m \in S
        <4>1. N - m \in 0..(k - 1) /\ N - m # N /\ N - (N - m) = m
          BY <2>2
        <4>2. N - m \in Mirror
          BY <4>1, <1>1
        <4> QED BY <4>1, <4>2
      <3> QED BY <3>1, <3>2
    <2> QED BY <2>1, <2>2
  <1> HIDE DEF Mirror
  <1>2. 0..N \subseteq Mirror
    BY <1>1, UpTo
  <1>3. ASSUME NEW n \in 1..N PROVE n \in S
    <2>1. N - n \in 0..N /\ N - n # N /\ N - (N - n) = n
      OBVIOUS
    <2>2. N - n \in Mirror
      BY <1>2, <2>1
    <2> QED BY <2>1, <2>2 DEF Mirror
  <1> QED BY <1>3

\* Each value of a sequence is made from the one before, in a set that is closed.
Steppers(N, A) == [1..N -> [A -> A]]
Iterates(f, N, A, base, step) ==
    f \in [0..N -> A] /\ f[0] = base /\ \A n \in 1..N : f[n] = step[n][f[n - 1]]

LEMMA Iteration ==
    ASSUME NEW N \in Nat, NEW A, NEW base \in A, NEW step, step \in Steppers(N, A)
    PROVE  \E f : Iterates(f, N, A, base, step)
  <1> DEFINE Is(f, k) == Iterates(f, k, A, base, step)
             S == {k \in 0..N : \E f : Is(f, k)}
  <1>1. ASSUME NEW k \in 0..N, \A j \in 0..(k - 1) : j \in S
        PROVE  k \in S
    <2>1. CASE k = 0
      <3> DEFINE f == [n \in 0..0 |-> base]
      <3>1. Is(f, 0)
        BY DEF Iterates
      <3> HIDE DEF f, Is
      <3> QED BY <2>1, <3>1
    <2>2. CASE k # 0
      <3>1. PICK f : Is(f, k - 1)
        <4>1. k - 1 \in 0..(k - 1)
          BY <2>2
        <4> QED BY <4>1, <1>1
      <3> DEFINE g == [n \in 0..k |-> IF n = k THEN step[k][f[k - 1]] ELSE f[n]]
      <3>2. k \in 1..N /\ k - 1 \in 0..(k - 1)
        BY <2>2
      <3>3. step[k][f[k - 1]] \in A
        BY <3>1, <3>2 DEF Steppers, Iterates
      <3>4. g \in [0..k -> A] /\ g[0] = base /\ g[k] = step[k][f[k - 1]] /\ \A n \in 0..(k - 1) : g[n] = f[n]
        BY <3>1, <3>2, <3>3 DEF Iterates
      <3> HIDE DEF g
      <3>5. \A n \in 1..k : g[n] = step[n][g[n - 1]]
        <4> TAKE n \in 1..k
        <4>1. CASE n = k
          BY <3>2, <3>4, <4>1
        <4>2. CASE n # k
          <5>1. n \in 1..(k - 1) /\ n - 1 \in 0..(k - 1) /\ n \in 0..(k - 1)
            BY <4>2
          <5> QED BY <3>1, <3>4, <5>1 DEF Iterates
        <4> QED BY <4>1, <4>2
      <3>6. Is(g, k)
        BY <3>4, <3>5 DEF Iterates
      <3> HIDE DEF Is
      <3> QED BY <3>6
    <2> QED BY <2>1, <2>2
  <1> HIDE DEF S
  <1>2. N \in S
    <2>1. 0..N \subseteq S
      BY <1>1, UpTo
    <2> QED BY <2>1
  <1>3. PICK f : Is(f, N)
    BY <1>2 DEF S
  <1> QED BY <1>3

-----------------------------------------------------------------------------
(* What a pattern captures. *)

LEMMA ExtendedTyped ==
    ASSUME NEW T, NEW P, NEW pattern \in Seq(P), NEW text \in Seq(T), NEW place \in 1..Len(pattern),
           NEW D \in SUBSET (1..Len(pattern)), NEW rest \in [0..Len(text) -> SUBSET [D -> Seq(T)]]
    PROVE  Extended(pattern, place, text, rest)
             \in [0..Len(text) ->
                    SUBSET [IF pattern[place] \in Parameters THEN {place} \cup D ELSE D -> Seq(T)]]
  <1> DEFINE Longer(from, to, c) == [i \in {place} \cup DOMAIN c |->
                                       IF i = place THEN SubSeq(text, from + 1, to) ELSE c[i]]
             Row(from) == IF pattern[place] \notin Parameters
                          THEN IF from < Len(text) /\ text[from + 1] = pattern[place] THEN rest[from + 1] ELSE {}
                          ELSE UNION {{Longer(from, to, c) : c \in rest[to]} :
                                        to \in Ends(pattern[place], text, from)}
             E == IF pattern[place] \in Parameters THEN {place} \cup D ELSE D
  <1>1. Extended(pattern, place, text, rest) = [from \in 0..Len(text) |-> Row(from)]
    BY DEF Extended
  <1>2. ASSUME NEW from \in 0..Len(text) PROVE Row(from) \in SUBSET [E -> Seq(T)]
    <2>1. CASE pattern[place] \notin Parameters
      <3>1. from < Len(text) => from + 1 \in 0..Len(text)
        OBVIOUS
      <3> QED BY <2>1, <3>1
    <2>2. CASE pattern[place] \in Parameters
      <3>1. ASSUME NEW to \in Ends(pattern[place], text, from), NEW c \in rest[to]
            PROVE  Longer(from, to, c) \in [E -> Seq(T)]
        <4>1. to \in 0..Len(text)
          BY DEF Ends
        <4>2. c \in [D -> Seq(T)]
          BY <4>1
        <4>3. SubSeq(text, from + 1, to) \in Seq(T)
          BY <4>1
        <4> QED BY <2>2, <4>2, <4>3
      <3>2. ASSUME NEW x \in Row(from) PROVE x \in [E -> Seq(T)]
        <4>1. PICK to \in Ends(pattern[place], text, from) : x \in {Longer(from, to, c) : c \in rest[to]}
          BY <2>2
        <4>2. PICK c \in rest[to] : x = Longer(from, to, c)
          BY <4>1
        <4> HIDE DEF Longer, E
        <4> QED BY <3>1, <4>2
      <3> HIDE DEF Row, E
      <3> QED BY <3>2
    <2> QED BY <2>1, <2>2
  <1> HIDE DEF Row, E
  <1>3. [from \in 0..Len(text) |-> Row(from)] \in [0..Len(text) -> SUBSET [E -> Seq(T)]]
    BY <1>2
  <1> QED BY <1>1, <1>3 DEF E

\* What the last n tokens of a pattern capture, from each place of a text.
AtEnd(text, slash) ==
    [from \in 0..Len(text) |->
        IF from = Len(text) \/ (slash /\ SubSeq(text, from + 1, Len(text)) = <<"/">>)
        THEN {[i \in {} |-> <<>>]} ELSE {}]
LastPlaces(pattern, n) == {i \in Places(pattern) : i > Len(pattern) - n}
Fitting(f, T, pattern, text, slash) ==
    /\ f[0] = AtEnd(text, slash)
    /\ \A n \in 1..Len(pattern) : f[n] = Extended(pattern, Len(pattern) - n + 1, text, f[n - 1])
    /\ \A n \in 0..Len(pattern) : f[n] \in [0..Len(text) -> SUBSET [LastPlaces(pattern, n) -> Seq(T)]]

LEMMA CapturesFit ==
    ASSUME NEW T, NEW P, NEW pattern \in Seq(P), NEW text \in Seq(T), NEW slash
    PROVE  \E f : Fitting(f, T, pattern, text, slash) /\ Captures(pattern, text, slash) = f[Len(pattern)][0]
  <1> DEFINE N == Len(pattern)
             none == [i \in {} |-> <<>>]
             Base == [from \in 0..Len(text) |->
                        IF from = Len(text) \/ (slash /\ SubSeq(text, from + 1, Len(text)) = <<"/">>)
                        THEN {none} ELSE {}]
             Step(n, rest) == Extended(pattern, N - n + 1, text, rest)
             Behind(n) == {i \in Places(pattern) : i > N - n}
             Row(n) == [0..Len(text) -> SUBSET [Behind(n) -> Seq(T)]]
             Is(f) == f = [n \in 0..N |-> IF n = 0 THEN Base ELSE Step(n, f[n - 1])]
  <1>1. Captures(pattern, text, slash) = (CHOOSE f : Is(f))[N][0]
    BY DEF Captures
  <1>2. N \in Nat /\ Places(pattern) \subseteq 1..N
    BY DEF Places
  <1>3. Base \in Row(0)
    <2>1. Behind(0) = {}
      BY <1>2
    <2>2. none \in [{} -> Seq(T)]
      OBVIOUS
    <2> HIDE DEF none, Behind
    <2> QED BY <2>1, <2>2
  <1>4. ASSUME NEW n \in 1..N, NEW rest \in Row(n - 1) PROVE Step(n, rest) \in Row(n)
    <2>1. N - n + 1 \in 1..N
      BY <1>2
    <2>2. Behind(n - 1) \in SUBSET (1..Len(pattern))
      BY <1>2
    <2>3. Behind(n) = IF pattern[N - n + 1] \in Parameters THEN {N - n + 1} \cup Behind(n - 1) ELSE Behind(n - 1)
      BY <1>2, <2>1 DEF Places
    <2> HIDE DEF Behind
    <2> QED BY <2>1, <2>2, <2>3, ExtendedTyped
  <1> HIDE DEF Base, Step
  <1>5. \E f : Is(f)
    <2> DEFINE A == UNION {Row(n) : n \in 0..N}
               Stage(n) == [rest \in A |-> IF rest \in Row(n - 1) THEN Step(n, rest) ELSE Base]
               steps == [n \in 1..N |-> Stage(n)]
    <2> HIDE DEF Row
    <2>1. Base \in A
      BY <1>2, <1>3
    <2>2. \A n \in 1..N : Stage(n) \in [A -> A]
      BY <1>2, <1>4, <2>1
    <2>3. steps \in Steppers(N, A)
      BY <2>2 DEF Steppers
    <2> HIDE DEF A, Stage, N, steps
    <2>4. PICK f : Iterates(f, N, A, Base, steps)
      BY <1>2, <2>1, <2>3, Iteration
    <2>5. f \in [0..N -> A] /\ f[0] = Base /\ \A n \in 1..N : f[n] = steps[n][f[n - 1]]
      BY <2>4 DEF Iterates
    <2> DEFINE Good == {n \in 0..N : f[n] \in Row(n)}
    <2>6. ASSUME NEW n \in 1..N, f[n - 1] \in Row(n - 1)
          PROVE  f[n] = Step(n, f[n - 1]) /\ f[n] \in Row(n)
      <3>1. n - 1 \in 0..N
        BY <1>2
      <3>2. f[n - 1] \in A
        BY <2>5, <3>1
      <3>3. f[n] = Step(n, f[n - 1])
        BY <2>5, <2>6, <3>2 DEF steps, Stage
      <3> QED BY <3>3, <2>6, <1>4
    <2>7. 0..N \subseteq Good
      <3>1. ASSUME NEW n \in 0..N, \A m \in 0..(n - 1) : m \in Good PROVE n \in Good
        <4>1. CASE n = 0
          BY <2>5, <1>3, <4>1
        <4>2. CASE n # 0
          <5>1. n \in 1..N /\ n - 1 \in 0..(n - 1)
            BY <1>2, <4>2
          <5> QED BY <3>1, <5>1, <2>6
        <4> QED BY <4>1, <4>2
      <3> HIDE DEF Good
      <3> QED BY <3>1, <1>2, UpTo
    <2>8. \A n \in 1..N : f[n - 1] \in Row(n - 1)
      <3> TAKE n \in 1..N
      <3>1. n - 1 \in 0..N
        BY <1>2
      <3> QED BY <2>7, <3>1
    <2>9. \A n \in 0..N : f[n] = IF n = 0 THEN Base ELSE Step(n, f[n - 1])
      <3> TAKE n \in 0..N
      <3>1. n # 0 => n \in 1..N
        BY <1>2
      <3> QED BY <2>5, <2>6, <2>8, <3>1
    <2>10. f = [n \in 0..N |-> f[n]]
      BY <2>5
    <2>11. Is(f)
      BY <2>9, <2>10
    <2> HIDE DEF Is
    <2> QED BY <2>11
  <1> DEFINE f == CHOOSE g : Is(g)
  <1>6. Is(f)
    BY <1>5
  <1> HIDE DEF f
  <1>7. f[0] = Base /\ \A n \in 1..N : f[n] = Step(n, f[n - 1])
    <2> HIDE DEF N
    <2>1. \A n \in 0..N : f[n] = IF n = 0 THEN Base ELSE Step(n, f[n - 1])
      BY <1>6
    <2> QED BY <1>2, <2>1
  <1> DEFINE Good == {n \in 0..N : f[n] \in Row(n)}
  <1> HIDE DEF Row, N
  <1>8. 0..N \subseteq Good
    <2>1. ASSUME NEW n \in 0..N, \A m \in 0..(n - 1) : m \in Good PROVE n \in Good
      <3>1. CASE n = 0
        BY <1>3, <1>7, <3>1
      <3>2. CASE n # 0
        <4>1. n \in 1..N /\ n - 1 \in 0..(n - 1)
          BY <1>2, <3>2
        <4> QED BY <2>1, <4>1, <1>4, <1>7
      <3> QED BY <3>1, <3>2
    <2> HIDE DEF Good
    <2> QED BY <2>1, <1>2, UpTo
  <1>9. /\ f[0] = AtEnd(text, slash)
        /\ \A n \in 1..Len(pattern) : f[n] = Extended(pattern, Len(pattern) - n + 1, text, f[n - 1])
    BY <1>7 DEF AtEnd, Base, Step, N
  <1>10. \A n \in 0..Len(pattern) : f[n] \in [0..Len(text) -> SUBSET [LastPlaces(pattern, n) -> Seq(T)]]
    BY <1>8 DEF LastPlaces, Row, Behind, N
  <1>11. Fitting(f, T, pattern, text, slash)
    BY <1>9, <1>10 DEF Fitting
  <1>12. Captures(pattern, text, slash) = f[Len(pattern)][0]
    BY <1>1 DEF f, N
  <1> QED BY <1>11, <1>12

LEMMA CapturesTyped ==
    ASSUME NEW T, NEW P, NEW pattern \in Seq(P), NEW text \in Seq(T), NEW slash
    PROVE  Captures(pattern, text, slash) \subseteq [Places(pattern) -> Seq(T)]
  <1>1. PICK f : Fitting(f, T, pattern, text, slash) /\ Captures(pattern, text, slash) = f[Len(pattern)][0]
    BY CapturesFit
  <1>2. LastPlaces(pattern, Len(pattern)) = Places(pattern)
    BY DEF LastPlaces, Places
  <1>3. Len(pattern) \in 0..Len(pattern) /\ 0 \in 0..Len(text)
    OBVIOUS
  <1>4. f[Len(pattern)] \in [0..Len(text) -> SUBSET [Places(pattern) -> Seq(T)]]
    BY <1>1, <1>2, <1>3 DEF Fitting
  <1> QED BY <1>1, <1>3, <1>4

LEMMA MaxIn ==
    ASSUME NEW N \in Nat, NEW S \in SUBSET (1..N), S # {}
    PROVE  Max(S) \in S
  <1> DEFINE Mirror == {n \in Nat : \E x \in S : n = N - x}
  <1>1. PICK n \in Mirror : \A m \in Mirror : n <= m
    <2>1. Mirror # {} /\ Mirror \subseteq Nat
      <3>1. PICK x \in S : TRUE
        OBVIOUS
      <3>2. N - x \in Mirror
        BY <3>1
      <3> QED BY <3>2
    <2> HIDE DEF Mirror
    <2> QED BY <2>1, LeastNumber
  <1>2. PICK x \in S : n = N - x
    BY <1>1
  <1>3. \A y \in S : x >= y
    <2> TAKE y \in S
    <2>1. N - y \in Mirror
      OBVIOUS
    <2> QED BY <1>1, <1>2, <2>1
  <1> QED BY <1>3 DEF Max

LEMMA MergeTyped ==
    ASSUME NEW T, NEW P, NEW pattern \in Seq(P), NEW params \in [Parameters -> Seq(T)],
           NEW captured \in [Places(pattern) -> Seq(T)]
    PROVE  Merge(params, pattern, captured) \in [Parameters -> Seq(T)]
  <1> DEFINE at(p) == {i \in Places(pattern) : pattern[i] = p}
             value(p) == IF at(p) = {} THEN params[p] ELSE captured[Max(at(p))]
  <1>1. ASSUME NEW p \in Parameters PROVE value(p) \in Seq(T)
    <2>1. CASE at(p) = {}
      BY <2>1
    <2>2. CASE at(p) # {}
      <3>1. at(p) \in SUBSET (1..Len(pattern)) /\ at(p) \subseteq Places(pattern) /\ Len(pattern) \in Nat
        BY DEF Places
      <3> HIDE DEF at
      <3>2. Max(at(p)) \in at(p)
        BY <2>2, <3>1, MaxIn
      <3>3. Max(at(p)) \in Places(pattern)
        BY <3>1, <3>2
      <3> QED BY <2>2, <3>3
    <2> QED BY <2>1, <2>2
  <1>2. Merge(params, pattern, captured) = [p \in Parameters |-> value(p)]
    BY DEF Merge
  <1> HIDE DEF value
  <1> QED BY <1>1, <1>2

\* The capture that is used.
LEMMA FoundTyped ==
    ASSUME NEW T, NEW P, NEW pattern \in Seq(P), NEW text \in Seq(T), NEW slash,
           FindSubmatch(pattern, text, slash) # {}
    PROVE  (CHOOSE c \in FindSubmatch(pattern, text, slash) : TRUE) \in [Places(pattern) -> Seq(T)]
  <1>1. FindSubmatch(pattern, text, slash) \subseteq Captures(pattern, text, slash)
    BY DEF FindSubmatch
  <1>2. (CHOOSE c \in FindSubmatch(pattern, text, slash) : TRUE) \in FindSubmatch(pattern, text, slash)
    OBVIOUS
  <1> QED BY <1>1, <1>2, CapturesTyped

LEMMA CutTyped ==
    ASSUME NEW T, NEW path \in Seq(T), NEW n
    PROVE  Cut(path, n) \in Seq(T)
  <1> DEFINE nth == {i \in 2..Len(path) : path[i] = "/" /\ n > 0 /\ Cardinality({j \in 2..i : path[j] = "/"}) = n}
  <1>1. Cut(path, n) = IF nth = {} THEN path ELSE SubSeq(path, 1, (CHOOSE i \in nth : TRUE) - 1)
    BY DEF Cut
  <1>2. CASE nth = {}
    BY <1>1, <1>2
  <1>3. CASE nth # {}
    <2>1. PICK i \in nth : i = CHOOSE j \in nth : TRUE
      BY <1>3
    <2>2. i \in 2..Len(path) /\ Cut(path, n) = SubSeq(path, 1, i - 1)
      BY <1>1, <1>3, <2>1
    <2> QED BY <2>2
  <1> QED BY <1>2, <1>3

-----------------------------------------------------------------------------
(* The route that a request is matched with has its method. *)

GivenPrefixes == {<<>>} \cup GroupPrefixes
Patterns == GivenPrefixes \cup URIs
Options  == {Unset, NoCORS} \cup CORSOptions
Methods  == (UNION MethodSets) \cup {"OPTIONS", "HEAD"}

LEMMA PatternSeq == ASSUME NEW p \in Patterns PROVE p \in Seq(ToSet(p))
  <1>1. <<>> \in Seq(ToSet(<<>>))
    OBVIOUS
  <1> QED BY <1>1, PatternsAssumption DEF Patterns, GivenPrefixes

\* A root, and below it routers that were created after their parents.
Tree(rs) ==
    /\ rs \in Seq([parent : Nat, prefix : GivenPrefixes, cors : Options])
    /\ rs # <<>> /\ rs[Root].parent = 0 /\ rs[Root].prefix = <<>>
    /\ \A r \in DOMAIN rs : r # Root => rs[r].parent \in 1..(r - 1)

RoutersInv == Tree(routers)

RoutesInv ==
    /\ routes \in Seq([parent : Nat, uri : Patterns, cors : Options, given : MethodSets,
                       methods : SUBSET Methods])
    /\ \A t \in DOMAIN routes : routes[t].parent \in DOMAIN routers

LEMMA MethodsHave ==
  "OPTIONS" \in Methods /\ "HEAD" \in Methods /\ \A m \in MethodSets : m \subseteq Methods
  <1>1. \A m \in MethodSets : m \subseteq (UNION MethodSets)
    OBVIOUS
  <1> QED BY <1>1 DEF Methods

LEMMA At == ASSUME NEW S, NEW s \in Seq(S), NEW i \in DOMAIN s PROVE s[i] \in S
  OBVIOUS

LEMMA RouteFields ==
    ASSUME RoutesInv, NEW t \in DOMAIN routes
    PROVE  /\ routes[t].uri \in Patterns /\ routes[t].cors \in Options /\ routes[t].given \in MethodSets
           /\ routes[t].methods \in SUBSET Methods /\ routes[t].parent \in DOMAIN routers
           /\ routes[t] = [parent |-> routes[t].parent, uri |-> routes[t].uri, cors |-> routes[t].cors,
                           given |-> routes[t].given, methods |-> routes[t].methods]
  <1> DEFINE M == SUBSET Methods
  <1>1. routes[t] \in [parent : Nat, uri : Patterns, cors : Options, given : MethodSets, methods : M]
    BY At DEF RoutesInv
  <1>2. routes[t].parent \in DOMAIN routers
    BY DEF RoutesInv
  <1> HIDE DEF M
  <1>3. /\ routes[t].uri \in Patterns /\ routes[t].cors \in Options /\ routes[t].given \in MethodSets
        /\ routes[t].methods \in M
        /\ routes[t] = [parent |-> routes[t].parent, uri |-> routes[t].uri, cors |-> routes[t].cors,
                        given |-> routes[t].given, methods |-> routes[t].methods]
    BY <1>1
  <1> QED BY <1>2, <1>3 DEF M

\* The root has no parent.
LEMMA RootParent == ASSUME RoutersInv PROVE routers[Root].parent = 0
  BY DEF RoutersInv, Tree

LEMMA RouterFields ==
    ASSUME RoutersInv, NEW r \in DOMAIN routers
    PROVE  /\ routers[r].prefix \in GivenPrefixes /\ routers[r].cors \in Options /\ routers[r].parent \in Nat
           /\ routers[r] = [parent |-> routers[r].parent, prefix |-> routers[r].prefix,
                            cors |-> routers[r].cors]
  <1>1. routers[r] \in [parent : Nat, prefix : GivenPrefixes, cors : Options]
    BY At DEF RoutersInv, Tree
  <1> QED BY <1>1

\* A match whose route, if there is one, has the method, and what a matcher answers.
Sound(method, path) ==
    {m \in Matches(path) : m.route > NotFound => method \in routes[m.route].methods}
Answers(method, path) == [ok : BOOLEAN, m : Sound(method, path)]

\* The fields of a sound match, and what makes one of its fields and others.
LEMMA SoundFields ==
    ASSUME NEW method, NEW path, NEW m \in Sound(method, path)
    PROVE  /\ m.path \in Seq(ToSet(path)) /\ m.params \in [Parameters -> Seq(ToSet(path))]
           /\ m.route \in {NotFound, MethodNotAllowed, Nil} \cup DOMAIN routes
           /\ m.err \in {NotFound, MethodNotAllowed, Nil} /\ m.resumed \in BOOLEAN
           /\ m.route > NotFound => method \in routes[m.route].methods
           /\ m = [path |-> m.path, params |-> m.params, route |-> m.route,
                   err |-> m.err, resumed |-> m.resumed]
  <1> DEFINE S == Seq(ToSet(path))
             D == DOMAIN routes
  <1>1. m \in [path : S, params : [Parameters -> S], route : {NotFound, MethodNotAllowed, Nil} \cup D,
               err : {NotFound, MethodNotAllowed, Nil}, resumed : BOOLEAN]
    BY DEF Sound, Matches
  <1>2. m.route > NotFound => method \in routes[m.route].methods
    BY DEF Sound
  <1> HIDE DEF S, D
  <1>3. /\ m.path \in S /\ m.params \in [Parameters -> S]
        /\ m.route \in {NotFound, MethodNotAllowed, Nil} \cup D
        /\ m.err \in {NotFound, MethodNotAllowed, Nil} /\ m.resumed \in BOOLEAN
        /\ m = [path |-> m.path, params |-> m.params, route |-> m.route,
                err |-> m.err, resumed |-> m.resumed]
    BY <1>1
  <1> QED BY <1>2, <1>3 DEF S, D

LEMMA SoundWith ==
    ASSUME NEW method, NEW path, NEW p \in Seq(ToSet(path)), NEW q \in [Parameters -> Seq(ToSet(path))],
           NEW t \in {NotFound, MethodNotAllowed, Nil} \cup DOMAIN routes,
           NEW e \in {NotFound, MethodNotAllowed, Nil}, NEW b \in BOOLEAN,
           t > NotFound => method \in routes[t].methods
    PROVE  [path |-> p, params |-> q, route |-> t, err |-> e, resumed |-> b] \in Sound(method, path)
  <1> DEFINE S == Seq(ToSet(path))
             D == DOMAIN routes
             m == [path |-> p, params |-> q, route |-> t, err |-> e, resumed |-> b]
  <1>1. m.route = t
    OBVIOUS
  <1>2. p \in S /\ q \in [Parameters -> S] /\ t \in {NotFound, MethodNotAllowed, Nil} \cup D
    OBVIOUS
  <1> HIDE DEF S, D
  <1>3. m \in [path : S, params : [Parameters -> S], route : {NotFound, MethodNotAllowed, Nil} \cup D,
               err : {NotFound, MethodNotAllowed, Nil}, resumed : BOOLEAN]
    BY <1>2
  <1> HIDE DEF m
  <1>4. m \in Matches(path)
    BY <1>3 DEF Matches, S, D
  <1>5. m \in Sound(method, path)
    BY <1>1, <1>4 DEF Sound
  <1> QED BY <1>5 DEF m

\* The updates of a sound match that the matchers make.
LEMMA SoundUpdates ==
    ASSUME NEW method, NEW path, NEW m \in Sound(method, path)
    PROVE  /\ \A e \in {NotFound, MethodNotAllowed, Nil} : [m EXCEPT !.err = e] \in Sound(method, path)
           /\ \A t \in {NotFound, MethodNotAllowed} : [m EXCEPT !.route = t] \in Sound(method, path)
           /\ [m EXCEPT !.resumed = TRUE] \in Sound(method, path)
           /\ \A t \in DOMAIN routes, q \in [Parameters -> Seq(ToSet(path))] :
                method \in routes[t].methods =>
                  [m EXCEPT !.route = t, !.params = q] \in Sound(method, path)
           /\ \A p \in Seq(ToSet(path)), q \in [Parameters -> Seq(ToSet(path))] :
                  [m EXCEPT !.path = p, !.params = q] \in Sound(method, path)
  <1> DEFINE With(p, q, t, e, b) == [path |-> p, params |-> q, route |-> t, err |-> e, resumed |-> b]
  <1>1. m = With(m.path, m.params, m.route, m.err, m.resumed)
    BY SoundFields
  <1>2. /\ m.path \in Seq(ToSet(path)) /\ m.params \in [Parameters -> Seq(ToSet(path))]
        /\ m.route \in {NotFound, MethodNotAllowed, Nil} \cup DOMAIN routes
        /\ m.err \in {NotFound, MethodNotAllowed, Nil} /\ m.resumed \in BOOLEAN
        /\ m.route > NotFound => method \in routes[m.route].methods
    BY SoundFields
  <1>3. PICK p0, q0, t0, e0, b0 : m = With(p0, q0, t0, e0, b0)
    BY <1>1
  <1>11. m.path = p0 /\ m.params = q0 /\ m.route = t0 /\ m.err = e0 /\ m.resumed = b0
    BY <1>3
  <1>4. \A p \in Seq(ToSet(path)), q \in [Parameters -> Seq(ToSet(path))],
           t \in {NotFound, MethodNotAllowed, Nil} \cup DOMAIN routes,
           e \in {NotFound, MethodNotAllowed, Nil}, b \in BOOLEAN :
           (t > NotFound => method \in routes[t].methods) => With(p, q, t, e, b) \in Sound(method, path)
    BY SoundWith
  <1>5. \A t \in {NotFound, MethodNotAllowed} : ~(t > NotFound)
    BY DEF NotFound, MethodNotAllowed
  <1> HIDE DEF With
  <1>6. ASSUME NEW e \in {NotFound, MethodNotAllowed, Nil} PROVE [m EXCEPT !.err = e] \in Sound(method, path)
    <2>1. [m EXCEPT !.err = e] = With(p0, q0, t0, e, b0)
      BY <1>3 DEF With
    <2> QED BY <2>1, <1>2, <1>11, <1>4
  <1>7. ASSUME NEW t \in {NotFound, MethodNotAllowed} PROVE [m EXCEPT !.route = t] \in Sound(method, path)
    <2>1. [m EXCEPT !.route = t] = With(p0, q0, t, e0, b0)
      BY <1>3 DEF With
    <2>2. With(p0, q0, t, e0, b0) \in Sound(method, path)
      BY <1>2, <1>11, <1>4, <1>5
    <2> QED BY <2>1, <2>2
  <1>8. [m EXCEPT !.resumed = TRUE] \in Sound(method, path)
    <2>1. PICK b \in BOOLEAN : b
      OBVIOUS
    <2>2. [m EXCEPT !.resumed = b] = With(p0, q0, t0, e0, b)
      BY <1>3 DEF With
    <2>3. With(p0, q0, t0, e0, b) \in Sound(method, path)
      BY <1>2, <1>11, <1>4
    <2> QED BY <2>1, <2>2, <2>3
  <1>9. ASSUME NEW t \in DOMAIN routes, NEW q \in [Parameters -> Seq(ToSet(path))], method \in routes[t].methods
        PROVE  [m EXCEPT !.route = t, !.params = q] \in Sound(method, path)
    <2>1. [m EXCEPT !.route = t] = With(p0, q0, t, e0, b0)
      BY <1>3 DEF With
    <2>2. [With(p0, q0, t, e0, b0) EXCEPT !.params = q] = With(p0, q, t, e0, b0)
      BY DEF With
    <2>3. With(p0, q, t, e0, b0) \in Sound(method, path)
      BY <1>2, <1>9, <1>11, <1>4
    <2> QED BY <2>1, <2>2, <2>3
  <1>10. ASSUME NEW p \in Seq(ToSet(path)), NEW q \in [Parameters -> Seq(ToSet(path))]
         PROVE  [m EXCEPT !.path = p, !.params = q] \in Sound(method, path)
    <2>1. [m EXCEPT !.path = p] = With(p, q0, t0, e0, b0)
      BY <1>3 DEF With
    <2>2. [With(p, q0, t0, e0, b0) EXCEPT !.params = q] = With(p, q, t0, e0, b0)
      BY DEF With
    <2>3. With(p, q, t0, e0, b0) \in Sound(method, path)
      BY <1>2, <1>11, <1>4
    <2> QED BY <2>1, <2>2, <2>3
  <1> QED BY <1>6, <1>7, <1>8, <1>9, <1>10

LEMMA MatchRouteSound ==
    ASSUME NEW method, NEW path, RoutesInv, NEW t \in DOMAIN routes, NEW m \in Sound(method, path)
    PROVE  MatchRoute(t, method, m) \in Answers(method, path)
  <1> DEFINE found == FindSubmatch(routes[t].uri, m.path, FALSE)
             c == CHOOSE c \in found : TRUE
             missed == [m EXCEPT !.err = IF m.err = Nil THEN NotFound ELSE m.err]
             forbidden == [m EXCEPT !.err = MethodNotAllowed]
             matched == [m EXCEPT !.route = t, !.params = Merge(m.params, routes[t].uri, c)]
  <1>1. MatchRoute(t, method, m) =
          IF found = {} THEN [ok |-> FALSE, m |-> missed]
          ELSE IF method \notin routes[t].methods THEN [ok |-> FALSE, m |-> forbidden]
          ELSE [ok |-> TRUE, m |-> matched]
    <2>1. m = [path |-> m.path, params |-> m.params, route |-> m.route,
               err |-> m.err, resumed |-> m.resumed]
      BY SoundFields
    <2> HIDE DEF found, c
    <2> QED BY <2>1 DEF MatchRoute, found, c
  <1>2. missed \in Sound(method, path)
    <2>1. (IF m.err = Nil THEN NotFound ELSE m.err) \in {NotFound, MethodNotAllowed, Nil}
      BY SoundFields
    <2> QED BY <2>1, SoundUpdates
  <1>3. forbidden \in Sound(method, path)
    BY SoundUpdates
  <1>4. ASSUME found # {}, method \in routes[t].methods PROVE matched \in Sound(method, path)
    <2>1. routes[t].uri \in Seq(ToSet(routes[t].uri))
      <3>1. routes[t].uri \in Patterns
        BY RouteFields
      <3> QED BY <3>1, PatternSeq
    <2>2. m.path \in Seq(ToSet(path)) /\ m.params \in [Parameters -> Seq(ToSet(path))]
      BY SoundFields
    <2>3. c \in [Places(routes[t].uri) -> Seq(ToSet(path))]
      BY <1>4, <2>1, <2>2, FoundTyped
    <2> HIDE DEF c, found
    <2>4. Merge(m.params, routes[t].uri, c) \in [Parameters -> Seq(ToSet(path))]
      BY <2>1, <2>2, <2>3, MergeTyped
    <2> QED BY <1>4, <2>4, SoundUpdates
  <1> HIDE DEF found, missed, forbidden, matched
  <1> QED BY <1>1, <1>2, <1>3, <1>4 DEF Answers

LEMMA GiveUpSound ==
    ASSUME NEW method, NEW path, NEW m \in Sound(method, path), NEW consumed \in BOOLEAN
    PROVE  GiveUp(m, consumed) \in Answers(method, path)
  <1>1. [m EXCEPT !.route = MethodNotAllowed] \in Sound(method, path)
    BY SoundUpdates
  <1>2. [m EXCEPT !.route = NotFound] \in Sound(method, path)
    BY SoundUpdates
  <1> QED BY <1>1, <1>2 DEF GiveUp, Answers

\* match answers soundly for the subrouters of r.
Answering(r, match, method, path) ==
    \A s \in DOMAIN routers, m \in Sound(method, path) :
        routers[s].parent = r => match[s][m] \in Answers(method, path)

LEMMA TrySubrouterSound ==
    ASSUME NEW method, NEW path, NEW r, NEW match, Answering(r, match, method, path),
           NEW tried \in Answers(method, path), NEW s \in DOMAIN routers, routers[s].parent = r
    PROVE  TrySubrouter(tried, s, match) \in Answers(method, path)
  <1> DEFINE result == match[s][tried.m]
  <1>1. result \in Answers(method, path)
    BY DEF Answers, Answering
  <1>2. TrySubrouter(tried, s, match) =
          IF tried.ok THEN tried
          ELSE IF result.ok /\ routers[s].prefix = <<>> /\ result.m.route = MethodNotAllowed
          THEN [ok |-> FALSE, m |-> [result.m EXCEPT !.resumed = TRUE]] ELSE result
    BY DEF TrySubrouter
  <1> HIDE DEF result
  <1>3. result.m \in Sound(method, path)
    BY <1>1 DEF Answers
  <1>4. [result.m EXCEPT !.resumed = TRUE] \in Sound(method, path)
    BY <1>3, SoundUpdates
  <1> QED BY <1>1, <1>2, <1>4 DEF Answers

LEMMA Stays ==
    ASSUME NEW N \in Nat, NEW A, NEW f, f[0] \in A, \A n \in 1..N : f[n - 1] \in A => f[n] \in A
    PROVE  \A n \in 0..N : f[n] \in A
  <1> DEFINE Good == {n \in 0..N : f[n] \in A}
  <1>1. ASSUME NEW n \in 0..N, \A m \in 0..(n - 1) : m \in Good PROVE n \in Good
    <2>1. CASE n = 0
      BY <2>1
    <2>2. CASE n # 0
      <3>1. n \in 1..N /\ n - 1 \in 0..(n - 1)
        BY <2>2
      <3> QED BY <1>1, <3>1
    <2> QED BY <2>1, <2>2
  <1> HIDE DEF Good
  <1>2. 0..N \subseteq Good
    BY <1>1, UpTo
  <1> QED BY <1>2 DEF Good

SubrouterStep(r, match, s, x) == IF routers[s].parent = r THEN TrySubrouter(x, s, match) ELSE x
RouteStep(r, method, t, x) ==
    IF routes[t].parent = r /\ ~x.ok THEN MatchRoute(t, method, x.m) ELSE x

\* What the subrouters of r answer one after the other, the last one in the end.
SubroutersPass(f, r, match, m, A) ==
    /\ f[0] = [ok |-> FALSE, m |-> m]
    /\ \A s \in 1..Len(routers) : f[s] = SubrouterStep(r, match, s, f[s - 1])
    /\ \A s \in 0..Len(routers) : f[s] \in A
    /\ InSubrouters(r, match, m) = f[Len(routers)]
RoutesPass(f, r, method, result, A) ==
    /\ f[0] = result
    /\ \A t \in 1..Len(routes) : f[t] = RouteStep(r, method, t, f[t - 1])
    /\ \A t \in 0..Len(routes) : f[t] \in A
    /\ InRoutes(r, method, result) = f[Len(routes)]

LEMMA InSubroutersSteps ==
    ASSUME RoutersInv, NEW r, NEW match, NEW m, NEW A, [ok |-> FALSE, m |-> m] \in A,
           \A s \in DOMAIN routers, x \in A : routers[s].parent = r => TrySubrouter(x, s, match) \in A
    PROVE  \E f : SubroutersPass(f, r, match, m, A)
  <1> DEFINE N == Len(routers)
             base == [ok |-> FALSE, m |-> m]
             Body(s, x) == SubrouterStep(r, match, s, x)
             Is(f) == f = [s \in 0..N |-> IF s = 0 THEN base ELSE Body(s, f[s - 1])]
  <1>1. InSubrouters(r, match, m) = (CHOOSE f : Is(f))[N]
    BY DEF InSubrouters, SubrouterStep
  <1>2. N \in Nat /\ DOMAIN routers = 1..N
    BY DEF RoutersInv, Tree
  <1>3. base \in A
    OBVIOUS
  <1>4. ASSUME NEW s \in 1..N, NEW x \in A PROVE Body(s, x) \in A
    BY <1>2 DEF SubrouterStep
  <1> HIDE DEF base, N, Body
  <1>5. \E f : Is(f)
    <2> DEFINE Step(s) == [x \in A |-> Body(s, x)]
               steps == [s \in 1..N |-> Step(s)]
    <2>1. \A s \in 1..N : Step(s) \in [A -> A]
      BY <1>4
    <2>2. steps \in Steppers(N, A)
      BY <2>1 DEF Steppers
    <2> HIDE DEF steps
    <2>3. PICK f : Iterates(f, N, A, base, steps)
      BY <1>2, <1>3, <2>2, Iteration
    <2>4. f \in [0..N -> A] /\ f[0] = base /\ \A s \in 1..N : f[s] = steps[s][f[s - 1]]
      BY <2>3 DEF Iterates
    <2>5. \A s \in 1..N : f[s] = Body(s, f[s - 1])
      <3> TAKE s \in 1..N
      <3>1. s - 1 \in 0..N
        BY <1>2
      <3> QED BY <2>4, <3>1 DEF steps
    <2>6. \A s \in 0..N : f[s] = IF s = 0 THEN base ELSE Body(s, f[s - 1])
      <3> TAKE s \in 0..N
      <3>1. s # 0 => s \in 1..N
        BY <1>2
      <3> QED BY <2>4, <2>5, <3>1
    <2>7. Is(f)
      BY <2>4, <2>6
    <2> HIDE DEF Is
    <2> QED BY <2>7
  <1> DEFINE f == CHOOSE g : Is(g)
  <1>6. Is(f)
    <2> HIDE DEF Is
    <2> QED BY <1>5
  <1> HIDE DEF f
  <1>7. f[0] = base /\ \A s \in 1..N : f[s] = Body(s, f[s - 1])
    <2>1. \A s \in 0..N : f[s] = IF s = 0 THEN base ELSE Body(s, f[s - 1])
      BY <1>6
    <2> QED BY <1>2, <2>1
  <1>8. \A s \in 1..N : f[s - 1] \in A => f[s] \in A
    BY <1>4, <1>7
  <1>9. f[0] \in A
    BY <1>3, <1>7
  <1> HIDE DEF Is
  <1>10. \A s \in 0..N : f[s] \in A
    BY <1>2, <1>8, <1>9, Stays
  <1>11. SubroutersPass(f, r, match, m, A)
    BY <1>1, <1>7, <1>10 DEF SubroutersPass, f, N, Body, base
  <1> QED BY <1>11

LEMMA InSubroutersAmong ==
    ASSUME RoutersInv, NEW r, NEW match, NEW m, NEW A, [ok |-> FALSE, m |-> m] \in A,
           \A s \in DOMAIN routers, x \in A : routers[s].parent = r => TrySubrouter(x, s, match) \in A
    PROVE  InSubrouters(r, match, m) \in A
  <1>1. PICK f : SubroutersPass(f, r, match, m, A)
    BY InSubroutersSteps
  <1>2. Len(routers) \in 0..Len(routers)
    BY DEF RoutersInv, Tree
  <1> QED BY <1>1, <1>2 DEF SubroutersPass

LEMMA InRoutesSteps ==
    ASSUME RoutesInv, NEW r, NEW method, NEW A, NEW result \in A,
           \A t \in DOMAIN routes, x \in A : routes[t].parent = r /\ ~x.ok => MatchRoute(t, method, x.m) \in A
    PROVE  \E f : RoutesPass(f, r, method, result, A)
  <1> DEFINE N == Len(routes)
             Body(t, x) == RouteStep(r, method, t, x)
             Is(f) == f = [t \in 0..N |-> IF t = 0 THEN result ELSE Body(t, f[t - 1])]
  <1>1. InRoutes(r, method, result) = (CHOOSE f : Is(f))[N]
    BY DEF InRoutes, RouteStep
  <1>2. N \in Nat /\ DOMAIN routes = 1..N
    BY DEF RoutesInv
  <1>3. result \in A
    OBVIOUS
  <1>4. ASSUME NEW t \in 1..N, NEW x \in A PROVE Body(t, x) \in A
    BY <1>2 DEF RouteStep
  <1> HIDE DEF N, Body
  <1>5. \E f : Is(f)
    <2> DEFINE Step(t) == [x \in A |-> Body(t, x)]
               steps == [t \in 1..N |-> Step(t)]
    <2>1. \A t \in 1..N : Step(t) \in [A -> A]
      BY <1>4
    <2>2. steps \in Steppers(N, A)
      BY <2>1 DEF Steppers
    <2> HIDE DEF steps
    <2>3. PICK f : Iterates(f, N, A, result, steps)
      BY <1>2, <1>3, <2>2, Iteration
    <2>4. f \in [0..N -> A] /\ f[0] = result /\ \A t \in 1..N : f[t] = steps[t][f[t - 1]]
      BY <2>3 DEF Iterates
    <2>5. \A t \in 1..N : f[t] = Body(t, f[t - 1])
      <3> TAKE t \in 1..N
      <3>1. t - 1 \in 0..N
        BY <1>2
      <3> QED BY <2>4, <3>1 DEF steps
    <2>6. \A t \in 0..N : f[t] = IF t = 0 THEN result ELSE Body(t, f[t - 1])
      <3> TAKE t \in 0..N
      <3>1. t # 0 => t \in 1..N
        BY <1>2
      <3> QED BY <2>4, <2>5, <3>1
    <2>7. Is(f)
      BY <2>4, <2>6
    <2> HIDE DEF Is
    <2> QED BY <2>7
  <1> DEFINE f == CHOOSE g : Is(g)
  <1>6. Is(f)
    <2> HIDE DEF Is
    <2> QED BY <1>5
  <1> HIDE DEF f
  <1>7. f[0] = result /\ \A t \in 1..N : f[t] = Body(t, f[t - 1])
    <2>1. \A t \in 0..N : f[t] = IF t = 0 THEN result ELSE Body(t, f[t - 1])
      BY <1>6
    <2> QED BY <1>2, <2>1
  <1>8. \A t \in 1..N : f[t - 1] \in A => f[t] \in A
    BY <1>4, <1>7
  <1>9. f[0] \in A
    BY <1>3, <1>7
  <1> HIDE DEF Is
  <1>10. \A t \in 0..N : f[t] \in A
    BY <1>2, <1>8, <1>9, Stays
  <1>11. RoutesPass(f, r, method, result, A)
    BY <1>1, <1>7, <1>10 DEF RoutesPass, f, N, Body
  <1> QED BY <1>11

LEMMA InRoutesAmong ==
    ASSUME RoutesInv, NEW r, NEW method, NEW A, NEW result \in A,
           \A t \in DOMAIN routes, x \in A : routes[t].parent = r /\ ~x.ok => MatchRoute(t, method, x.m) \in A
    PROVE  InRoutes(r, method, result) \in A
  <1>1. PICK f : RoutesPass(f, r, method, result, A)
    BY InRoutesSteps
  <1>2. Len(routes) \in 0..Len(routes)
    BY DEF RoutesInv
  <1> QED BY <1>1, <1>2 DEF RoutesPass

LEMMA InSubroutersSound ==
    ASSUME NEW method, NEW path, RoutersInv, NEW r, NEW match, Answering(r, match, method, path),
           NEW m \in Sound(method, path)
    PROVE  InSubrouters(r, match, m) \in Answers(method, path)
  <1>1. [ok |-> FALSE, m |-> m] \in Answers(method, path)
    BY DEF Answers
  <1>2. \A s \in DOMAIN routers, x \in Answers(method, path) :
          routers[s].parent = r => TrySubrouter(x, s, match) \in Answers(method, path)
    BY TrySubrouterSound
  <1> QED BY <1>1, <1>2, InSubroutersAmong

LEMMA InRoutesSound ==
    ASSUME NEW method, NEW path, RoutesInv, NEW r, NEW result \in Answers(method, path)
    PROVE  InRoutes(r, method, result) \in Answers(method, path)
  <1>1. ASSUME NEW t \in DOMAIN routes, NEW x \in Answers(method, path)
        PROVE  MatchRoute(t, method, x.m) \in Answers(method, path)
    <2>1. x.m \in Sound(method, path)
      BY DEF Answers
    <2> QED BY <2>1, MatchRouteSound
  <1> QED BY <1>1, InRoutesAmong

\* What of a path the prefix of a router may match, how it does, and what then goes on.
Headed(r, m) == IF routers[r].prefix = <<>> THEN <<>> ELSE Cut(m.path, SlashCount(routers[r].prefix))
HeadFits(r, m) == FindSubmatch(routers[r].prefix, Headed(r, m), routers[r].prefix # <<>>)
HeadCapture(r, m) == CHOOSE c \in HeadFits(r, m) : TRUE
Entered(r, m) ==
    [m EXCEPT !.path = SubSeq(m.path, Len(Headed(r, m)) + 1, Len(m.path)),
              !.params = Merge(m.params, routers[r].prefix, HeadCapture(r, m))]
Inside(r, method, match, m) == InRoutes(r, method, InSubrouters(r, match, Entered(r, m)))

LEMMA MatchInIs ==
    ASSUME NEW method, NEW path, NEW r, NEW match, NEW m \in Sound(method, path)
    PROVE  MatchIn(r, method, match, m) =
             IF HeadFits(r, m) = {} THEN GiveUp(m, FALSE)
             ELSE IF Inside(r, method, match, m).ok THEN Inside(r, method, match, m)
             ELSE GiveUp(Inside(r, method, match, m).m, Headed(r, m) # <<>>)
  <1> DEFINE text == Headed(r, m)
             fits == HeadFits(r, m)
             prefix == routers[r].prefix
             entered == [m EXCEPT !.path = SubSeq(@, Len(text) + 1, Len(@)),
                                  !.params = Merge(@, prefix, CHOOSE c \in fits : TRUE)]
             inside == InRoutes(r, method, InSubrouters(r, match, entered))
  <1>1. m = [path |-> m.path, params |-> m.params, route |-> m.route,
             err |-> m.err, resumed |-> m.resumed]
    BY SoundFields
  <1>2. entered = Entered(r, m)
    <2> HIDE DEF text, fits, prefix
    <2>1. entered = [m EXCEPT !.path = SubSeq(m.path, Len(text) + 1, Len(m.path)),
                              !.params = Merge(m.params, prefix, CHOOSE c \in fits : TRUE)]
      BY <1>1
    <2> QED BY <2>1 DEF Entered, HeadCapture, text, fits, prefix
  <1>3. MatchIn(r, method, match, m) =
          IF fits = {} THEN GiveUp(m, FALSE) ELSE IF inside.ok THEN inside ELSE GiveUp(inside.m, text # <<>>)
    BY DEF MatchIn, Headed, HeadFits
  <1> HIDE DEF entered
  <1> QED BY <1>2, <1>3 DEF Inside

LEMMA HeadTyped ==
    ASSUME NEW method, NEW path, RoutersInv, NEW r \in DOMAIN routers, NEW m \in Sound(method, path)
    PROVE  /\ Headed(r, m) \in Seq(ToSet(path)) /\ routers[r].prefix \in Seq(ToSet(routers[r].prefix))
           /\ HeadFits(r, m) # {} =>
                 HeadCapture(r, m) \in [Places(routers[r].prefix) -> Seq(ToSet(path))]
  <1>1. m.path \in Seq(ToSet(path))
    BY SoundFields
  <1>2. Headed(r, m) \in Seq(ToSet(path))
    BY <1>1, CutTyped DEF Headed
  <1>3. routers[r].prefix \in Seq(ToSet(routers[r].prefix))
    <2>1. routers[r].prefix \in Patterns
      BY RouterFields DEF Patterns
    <2> QED BY <2>1, PatternSeq
  <1> QED BY <1>2, <1>3, FoundTyped DEF HeadFits, HeadCapture

Enters(r, m, entered) ==
    /\ entered.path = SubSeq(m.path, Len(Headed(r, m)) + 1, Len(m.path))
    /\ entered.params = Merge(m.params, routers[r].prefix, HeadCapture(r, m))
    /\ entered.resumed = m.resumed /\ entered.err = m.err

LEMMA EnteredSound ==
    ASSUME NEW method, NEW path, RoutersInv, NEW r \in DOMAIN routers, NEW m \in Sound(method, path),
           HeadFits(r, m) # {}
    PROVE  Entered(r, m) \in Sound(method, path) /\ Enters(r, m, Entered(r, m))
  <1> DEFINE S == Seq(ToSet(path))
             rest == SubSeq(m.path, Len(Headed(r, m)) + 1, Len(m.path))
             params == Merge(m.params, routers[r].prefix, HeadCapture(r, m))
  <1>1. /\ m.path \in S /\ m.params \in [Parameters -> S]
        /\ m = [path |-> m.path, params |-> m.params, route |-> m.route,
                err |-> m.err, resumed |-> m.resumed]
    BY SoundFields
  <1>2. Headed(r, m) \in S /\ HeadCapture(r, m) \in [Places(routers[r].prefix) -> S]
    BY HeadTyped
  <1>3. params \in [Parameters -> S]
    BY <1>1, <1>2, HeadTyped, MergeTyped
  <1>4. rest \in S
    <2>1. Len(Headed(r, m)) \in Nat
      BY <1>2
    <2> HIDE DEF S
    <2> QED BY <1>1, <2>1 DEF S
  <1> HIDE DEF rest, params
  <1>5. [m EXCEPT !.path = rest, !.params = params] \in Sound(method, path)
    BY <1>3, <1>4, SoundUpdates
  <1>6. Entered(r, m) = [m EXCEPT !.path = rest, !.params = params]
    BY DEF Entered, rest, params
  <1>7. Entered(r, m) = [path |-> rest, params |-> params, route |-> m.route, err |-> m.err, resumed |-> m.resumed]
    <2> HIDE DEF S
    <2>1. [m EXCEPT !.path = rest] = [path |-> rest, params |-> m.params, route |-> m.route,
                                      err |-> m.err, resumed |-> m.resumed]
      BY <1>1
    <2>2. [[path |-> rest, params |-> m.params, route |-> m.route, err |-> m.err, resumed |-> m.resumed]
             EXCEPT !.params = params]
            = [path |-> rest, params |-> params, route |-> m.route, err |-> m.err, resumed |-> m.resumed]
      OBVIOUS
    <2> QED BY <1>6, <2>1, <2>2
  <1>8. /\ Entered(r, m).path = rest /\ Entered(r, m).params = params
        /\ Entered(r, m).resumed = m.resumed /\ Entered(r, m).err = m.err
    BY <1>7
  <1> QED BY <1>5, <1>6, <1>8 DEF Enters, rest, params

LEMMA MatchInSound ==
    ASSUME NEW method, NEW path, RoutersInv, RoutesInv, NEW r \in DOMAIN routers, NEW match,
           Answering(r, match, method, path), NEW m \in Sound(method, path)
    PROVE  MatchIn(r, method, match, m) \in Answers(method, path)
  <1> DEFINE inside == Inside(r, method, match, m)
             consumed == Headed(r, m) # <<>>
  <1>1. ASSUME HeadFits(r, m) # {} PROVE inside \in Answers(method, path)
    <2>1. InSubrouters(r, match, Entered(r, m)) \in Answers(method, path)
      BY <1>1, EnteredSound, InSubroutersSound
    <2> QED BY <2>1, InRoutesSound DEF Inside
  <1>2. MatchIn(r, method, match, m) =
          IF HeadFits(r, m) = {} THEN GiveUp(m, FALSE)
          ELSE IF inside.ok THEN inside ELSE GiveUp(inside.m, consumed)
    BY MatchInIs
  <1>3. FALSE \in BOOLEAN /\ consumed \in BOOLEAN
    OBVIOUS
  <1> HIDE DEF inside, consumed
  <1>4. ASSUME HeadFits(r, m) # {} PROVE inside.m \in Sound(method, path)
    BY <1>1, <1>4 DEF Answers
  <1>5. GiveUp(m, FALSE) \in Answers(method, path)
    BY <1>3, GiveUpSound
  <1>6. ASSUME HeadFits(r, m) # {} PROVE GiveUp(inside.m, consumed) \in Answers(method, path)
    BY <1>3, <1>4, <1>6, GiveUpSound
  <1> QED BY <1>1, <1>2, <1>5, <1>6

\* A router looks at the answers of its own subrouters only.
LEMMA MatchInLocal ==
    ASSUME NEW method, NEW r, NEW g, NEW h, NEW m,
           \A s \in 1..Len(routers) : routers[s].parent = r => g[s] = h[s]
    PROVE  MatchIn(r, method, g, m) = MatchIn(r, method, h, m)
  <1>1. ASSUME NEW x PROVE InSubrouters(r, g, x) = InSubrouters(r, h, x)
    <2> DEFINE N == Len(routers)
               base == [ok |-> FALSE, m |-> x]
               G(f, s) == IF s = 0 THEN base
                          ELSE IF routers[s].parent = r THEN TrySubrouter(f[s - 1], s, g) ELSE f[s - 1]
               H(f, s) == IF s = 0 THEN base
                          ELSE IF routers[s].parent = r THEN TrySubrouter(f[s - 1], s, h) ELSE f[s - 1]
               IsG(f) == f = [s \in 0..N |-> G(f, s)]
               IsH(f) == f = [s \in 0..N |-> H(f, s)]
    <2>1. \A s \in 1..N : \A y : routers[s].parent = r => TrySubrouter(y, s, g) = TrySubrouter(y, s, h)
      BY DEF TrySubrouter
    <2>2. \A f : \A s \in 0..N : G(f, s) = H(f, s)
      <3> TAKE f
      <3> TAKE s \in 0..N
      <3>1. s # 0 => s \in 1..N
        OBVIOUS
      <3> HIDE DEF N, base
      <3> QED BY <2>1, <3>1
    <2> HIDE DEF N, base, G, H
    <2>3. \A f : IsG(f) <=> IsH(f)
      <3> TAKE f
      <3>1. [s \in 0..N |-> G(f, s)] = [s \in 0..N |-> H(f, s)]
        BY <2>2
      <3> QED BY <3>1
    <2>4. InSubrouters(r, g, x) = (CHOOSE f : IsG(f))[N] /\ InSubrouters(r, h, x) = (CHOOSE f : IsH(f))[N]
      BY DEF InSubrouters, N, base, G, H
    <2> HIDE DEF IsG, IsH
    <2>5. (CHOOSE f : IsG(f)) = (CHOOSE f : IsH(f))
      BY <2>3
    <2> QED BY <2>4, <2>5
  <1> DEFINE prefix == routers[r].prefix
             text   == IF prefix = <<>> THEN <<>> ELSE Cut(m.path, SlashCount(prefix))
             found  == FindSubmatch(prefix, text, prefix # <<>>)
             entered == [m EXCEPT !.path = SubSeq(@, Len(text) + 1, Len(@)),
                                  !.params = Merge(@, prefix, CHOOSE c \in found : TRUE)]
             Result(match) == InRoutes(r, method, InSubrouters(r, match, entered))
  <1>2. ASSUME NEW match
        PROVE  MatchIn(r, method, match, m) =
                 IF found = {} THEN GiveUp(m, FALSE)
                 ELSE IF Result(match).ok THEN Result(match) ELSE GiveUp(Result(match).m, text # <<>>)
    BY DEF MatchIn
  <1> HIDE DEF entered
  <1>3. Result(g) = Result(h)
    BY <1>1
  <1> HIDE DEF found, text, Result
  <1> QED BY <1>2, <1>3

\* All matchers of a tree are defined, from the last router up to the root.
IsMatch(match, method, path) ==
    match = [r \in DOMAIN routers |-> [m \in Matches(path) |-> MatchIn(r, method, match, m)]]

LEMMA MatchExists ==
    ASSUME NEW method, NEW path, RoutersInv
    PROVE  \E match : IsMatch(match, method, path)
  <1> DEFINE N == Len(routers)
             Row(g, r) == [m \in Matches(path) |-> MatchIn(r, method, g, m)]
             From(k) == \E g : DOMAIN g = 1..N /\ g = [r \in 1..N |-> g[r]] /\ \A r \in k..N : g[r] = Row(g, r)
             S == {k \in 1..N : From(k)}
  <1>1. N \in Nat /\ DOMAIN routers = 1..N /\ N # 0
    BY DEF RoutersInv, Tree
  <1>2. \A s \in 1..N : s # Root => routers[s].parent \in 1..(s - 1)
    BY <1>1 DEF RoutersInv, Tree
  <1> HIDE DEF N
  <1>3. ASSUME NEW k \in 1..N, \A j \in (k + 1)..N : j \in S PROVE k \in S
    <2>1. PICK g : DOMAIN g = 1..N /\ g = [r \in 1..N |-> g[r]] /\ \A r \in (k + 1)..N : g[r] = Row(g, r)
      <3>1. CASE k = N
        <4> DEFINE none == [r \in 1..N |-> r]
        <4>1. DOMAIN none = 1..N /\ none = [r \in 1..N |-> none[r]] /\ (k + 1)..N = {}
          BY <3>1, <1>1
        <4> HIDE DEF none
        <4> QED BY <4>1
      <3>2. CASE k # N
        <4>1. k + 1 \in (k + 1)..N
          BY <3>2, <1>1
        <4>2. From(k + 1)
          BY <4>1, <1>3
        <4> HIDE DEF Row
        <4> QED BY <4>2
      <3> QED BY <3>1, <3>2
    <2> DEFINE h == [r \in 1..N |-> IF r = k THEN Row(g, k) ELSE g[r]]
    <2>2. \A r \in k..N : h[r] = Row(g, r)
      <3> TAKE r \in k..N
      <3>1. r \in 1..N /\ (r # k => r \in (k + 1)..N)
        BY <1>1
      <3> HIDE DEF Row
      <3> QED BY <2>1, <3>1
    <2>3. ASSUME NEW r \in k..N PROVE Row(g, r) = Row(h, r)
      <3>1. ASSUME NEW s \in 1..Len(routers), routers[s].parent = r PROVE g[s] = h[s]
        <4>1. s \in 1..N /\ s # k
          <5>1. s \in 1..N /\ r >= k /\ r \in Nat /\ s \in Nat /\ k \in 1..N
            BY <1>1 DEF N
          <5>2. CASE s = Root
            BY <5>1, <5>2, <3>1, <2>3, RootParent
          <5>3. CASE s # Root
            BY <5>1, <5>3, <3>1, <1>2
          <5> QED BY <5>2, <5>3
        <4> HIDE DEF Row
        <4> QED BY <4>1
      <3> HIDE DEF h
      <3>2. \A m : MatchIn(r, method, g, m) = MatchIn(r, method, h, m)
        BY <3>1, MatchInLocal
      <3> QED BY <3>2
    <2>4. DOMAIN h = 1..N /\ h = [r \in 1..N |-> h[r]]
      <3> HIDE DEF Row
      <3> QED OBVIOUS
    <2> HIDE DEF h, Row
    <2>5. \A r \in k..N : h[r] = Row(h, r)
      BY <2>2, <2>3
    <2> QED BY <2>4, <2>5
  <1> HIDE DEF S
  <1>4. 1 \in S
    <2>1. 1..N \subseteq S
      BY <1>1, <1>3, DownFrom
    <2> QED BY <1>1, <2>1
  <1>5. PICK g : g = [r \in 1..N |-> g[r]] /\ \A r \in 1..N : g[r] = Row(g, r)
    BY <1>4 DEF S
  <1> HIDE DEF Row
  <1>6. g = [r \in 1..N |-> Row(g, r)]
    BY <1>5
  <1> QED BY <1>1, <1>6 DEF IsMatch, Row

\* What every matcher answers if those of its subrouters do.
LEMMA MatchRouterAmong ==
    ASSUME NEW method, NEW path, RoutersInv, NEW M \in SUBSET Matches(path), NEW G,
           Unmatched(path) \in M,
           \A match : \A r \in DOMAIN routers, m \in M :
              (\A s \in DOMAIN routers, x \in M : routers[s].parent = r => match[s][x] \in G[s][x])
                => MatchIn(r, method, match, m) \in G[r][m]
    PROVE  MatchRouter(method, path) \in G[Root][Unmatched(path)]
  <1> DEFINE N == Len(routers)
             match == CHOOSE g : IsMatch(g, method, path)
             S == {r \in 1..N : \A m \in M : match[r][m] \in G[r][m]}
  <1>1. MatchRouter(method, path) = match[Root][Unmatched(path)]
    BY DEF MatchRouter, IsMatch
  <1>2. IsMatch(match, method, path)
    BY MatchExists
  <1> HIDE DEF match
  <1>3. N \in Nat /\ DOMAIN routers = 1..N /\ N # 0
    BY DEF RoutersInv, Tree
  <1>4. \A s \in 1..N : s # Root => routers[s].parent \in 1..(s - 1)
    BY <1>3 DEF RoutersInv, Tree
  <1> HIDE DEF N
  <1>5. \A r \in 1..N, m \in Matches(path) : match[r][m] = MatchIn(r, method, match, m)
    <2> TAKE r \in 1..N, m \in Matches(path)
    <2> DEFINE row == [x \in Matches(path) |-> MatchIn(r, method, match, x)]
    <2>1. match[r] = row
      BY <1>2, <1>3 DEF IsMatch
    <2>2. row[m] = MatchIn(r, method, match, m)
      OBVIOUS
    <2> HIDE DEF row
    <2> QED BY <2>1, <2>2
  <1>6. ASSUME NEW r \in 1..N, \A s \in (r + 1)..N : s \in S PROVE r \in S
    <2>1. ASSUME NEW s \in DOMAIN routers, NEW m \in M, routers[s].parent = r
          PROVE  match[s][m] \in G[s][m]
      <3>1. s \in (r + 1)..N
        <4>1. CASE s = Root
          BY <4>1, <2>1, RootParent
        <4>2. CASE s # Root
          <5>1. s \in 1..N /\ r \in 1..(s - 1)
            BY <4>2, <1>3, <1>4, <2>1
          <5> QED BY <1>3, <5>1
        <4> QED BY <4>1, <4>2
      <3> QED BY <3>1, <1>6
    <2>2. \A m \in M : MatchIn(r, method, match, m) \in G[r][m]
      <3>1. r \in DOMAIN routers
        BY <1>3
      <3>2. \A s \in DOMAIN routers, x \in M : routers[s].parent = r => match[s][x] \in G[s][x]
        BY <2>1
      <3> QED BY <3>1, <3>2
    <2> QED BY <2>2, <1>5
  <1> HIDE DEF S
  <1>7. 1..N \subseteq S
    BY <1>3, <1>6, DownFrom
  <1>8. Root \in S
    BY <1>3, <1>7 DEF Root
  <1> QED BY <1>1, <1>8 DEF S

LEMMA UnmatchedSound ==
    ASSUME NEW method, NEW path, path \in Seq(ToSet(path))
    PROVE  Unmatched(path) \in Sound(method, path)
  <1>1. NoParams \in [Parameters -> Seq(ToSet(path))]
    <2>1. <<>> \in Seq(ToSet(path))
      OBVIOUS
    <2> HIDE DEF NoParams
    <2> QED BY <2>1 DEF NoParams
  <1>2. ~(Nil > NotFound)
    BY DEF Nil, NotFound
  <1> QED BY <1>1, <1>2, SoundWith DEF Unmatched

LEMMA MatchRouterSound ==
    ASSUME NEW method, NEW path, path \in Seq(ToSet(path)), RoutersInv, RoutesInv
    PROVE  MatchRouter(method, path) \in Answers(method, path)
  <1> DEFINE M == Sound(method, path)
             A == Answers(method, path)
             G == [r \in DOMAIN routers |-> [m \in M |-> A]]
  <1>1. M \in SUBSET Matches(path) /\ Unmatched(path) \in M
    BY UnmatchedSound DEF Sound
  <1>2. Root \in DOMAIN routers
    BY DEF RoutersInv, Tree, Root
  <1>3. ASSUME NEW match, NEW r \in DOMAIN routers, NEW m \in M,
               \A s \in DOMAIN routers, x \in M : routers[s].parent = r => match[s][x] \in A
        PROVE  MatchIn(r, method, match, m) \in A
    BY <1>3, MatchInSound DEF Answering
  <1> HIDE DEF M, A
  <1>4. \A s \in DOMAIN routers, x \in M : G[s][x] = A
    OBVIOUS
  <1> HIDE DEF G
  <1>5. \A match : \A r \in DOMAIN routers, m \in M :
           (\A s \in DOMAIN routers, x \in M : routers[s].parent = r => match[s][x] \in G[s][x])
             => MatchIn(r, method, match, m) \in G[r][m]
    <2> TAKE match
    <2> TAKE r \in DOMAIN routers, m \in M
    <2> HAVE \A s \in DOMAIN routers, x \in M : routers[s].parent = r => match[s][x] \in G[s][x]
    <2>1. \A s \in DOMAIN routers, x \in M : routers[s].parent = r => match[s][x] \in A
      BY <1>4
    <2>2. MatchIn(r, method, match, m) \in A
      BY <1>3, <2>1
    <2> QED BY <2>2, <1>4
  <1>6. MatchRouter(method, path) \in G[Root][Unmatched(path)]
    BY <1>1, <1>5, MatchRouterAmong
  <1> QED BY <1>1, <1>2, <1>4, <1>6 DEF A

-----------------------------------------------------------------------------
(* The options in effect at a router. *)

Inherited(meta, rs, s) ==
    IF rs[s].cors # Unset \/ s = Root THEN rs[s].cors ELSE meta[rs[s].parent]
IsMeta(meta, rs) == meta = [s \in DOMAIN rs |-> Inherited(meta, rs, s)]
Meta(rs) == CHOOSE meta : IsMeta(meta, rs)

LEMMA LookupMetaIs == ASSUME NEW r PROVE LookupMeta(r) = Meta(routers)[r]
  BY DEF LookupMeta, Meta, IsMeta, Inherited

\* What a router has may depend on what its parent has.
Descends(f, rs, A, base, step) ==
    /\ f \in [1..Len(rs) -> A]
    /\ \A s \in 1..Len(rs) : f[s] = step[s][IF s = Root THEN base ELSE f[rs[s].parent]]

LEMMA DownTree ==
    ASSUME NEW rs, Tree(rs), NEW A, NEW base \in A, NEW step, step \in Steppers(Len(rs), A)
    PROVE  \E f : Descends(f, rs, A, base, step)
  <1> DEFINE N == Len(rs)
             From(g, s) == IF s = Root THEN base ELSE g[rs[s].parent]
             Up(k) == \E g \in [1..N -> A] : \A s \in 1..k : g[s] = step[s][From(g, s)]
             S == {k \in 0..N : Up(k)}
  <1>1. N \in Nat /\ DOMAIN rs = 1..N
    BY DEF Tree
  <1>2. \A s \in 1..N : s # Root => rs[s].parent \in 1..(s - 1)
    BY <1>1 DEF Tree
  <1>3. \A s \in 1..N, x \in A : step[s][x] \in A
    BY DEF Steppers
  <1> HIDE DEF N
  <1>4. ASSUME NEW k \in 0..N, \A j \in 0..(k - 1) : j \in S PROVE k \in S
    <2>1. CASE k = 0
      <3> DEFINE g == [s \in 1..N |-> base]
      <3>1. g \in [1..N -> A] /\ \A s \in 1..k : g[s] = step[s][From(g, s)]
        BY <2>1
      <3> QED BY <3>1
    <2>2. CASE k # 0
      <3>1. k - 1 \in 0..(k - 1) /\ k \in 1..N
        BY <2>2
      <3>2. PICK g \in [1..N -> A] : \A s \in 1..(k - 1) : g[s] = step[s][From(g, s)]
        BY <3>1, <1>4
      <3>3. From(g, k) \in A
        <4>1. k # Root => rs[k].parent \in 1..N
          BY <1>1, <1>2, <3>1
        <4> QED BY <4>1
      <3> DEFINE h == [s \in 1..N |-> IF s = k THEN step[k][From(g, k)] ELSE g[s]]
      <3>4. h \in [1..N -> A] /\ \A s \in 1..N : h[s] = IF s = k THEN step[k][From(g, k)] ELSE g[s]
        BY <1>3, <3>1, <3>3
      <3> HIDE DEF h
      <3>5. ASSUME NEW s \in 1..k PROVE h[s] = step[s][From(h, s)]
        <4>1. h[s] = step[s][From(g, s)]
          <5>1. s \in 1..N /\ (s # k => s \in 1..(k - 1))
            BY <1>1
          <5> QED BY <3>2, <3>4, <5>1
        <4>2. s # Root => h[rs[s].parent] = g[rs[s].parent]
          <5>1. s # Root => rs[s].parent \in 1..N /\ rs[s].parent # k
            BY <1>1, <1>2
          <5> QED BY <3>4, <5>1
        <4> QED BY <4>1, <4>2
      <3> HIDE DEF From
      <3> QED BY <3>4, <3>5
    <2> QED BY <2>1, <2>2
  <1> HIDE DEF S
  <1>5. N \in S
    <2>1. 0..N \subseteq S
      BY <1>1, <1>4, UpTo
    <2> QED BY <1>1, <2>1
  <1> QED BY <1>5 DEF S, N, Descends

LEMMA MetaStep ==
    ASSUME NEW rs, Tree(rs)
    PROVE  \A s \in 1..Len(rs) : Meta(rs)[s] = Inherited(Meta(rs), rs, s)
  <1> DEFINE N == Len(rs)
             Step(s) == [x \in Options |-> IF rs[s].cors # Unset \/ s = Root THEN rs[s].cors ELSE x]
             steps == [s \in 1..N |-> Step(s)]
  <1>1. N \in Nat /\ DOMAIN rs = 1..N /\ Unset \in Options
    BY DEF Tree, Options
  <1>2. \A s \in 1..N : rs[s].cors \in Options
    <2> TAKE s \in 1..N
    <2>1. rs[s] \in [parent : Nat, prefix : GivenPrefixes, cors : Options]
      BY <1>1, At DEF Tree
    <2> QED BY <2>1
  <1>3. \A s \in 1..N : s # Root => rs[s].parent \in 1..N
    <2> TAKE s \in 1..N
    <2>1. s # Root => rs[s].parent \in 1..(s - 1)
      BY <1>1 DEF Tree
    <2> HIDE DEF N
    <2> QED BY <1>1, <2>1
  <1>4. \A s \in 1..N : Step(s) \in [Options -> Options]
    BY <1>2
  <1>5. steps \in Steppers(N, Options)
    BY <1>4 DEF Steppers
  <1> HIDE DEF steps
  <1>6. PICK g : Descends(g, rs, Options, Unset, steps)
    BY <1>1, <1>5, DownTree
  <1>7. /\ g \in [1..N -> Options]
        /\ \A s \in 1..N : g[s] = steps[s][IF s = Root THEN Unset ELSE g[rs[s].parent]]
    BY <1>6 DEF Descends
  <1> HIDE DEF N
  <1>8. \A s \in 1..N : g[s] = Inherited(g, rs, s)
    <2> TAKE s \in 1..N
    <2>1. (IF s = Root THEN Unset ELSE g[rs[s].parent]) \in Options
      BY <1>1, <1>3, <1>7
    <2> QED BY <1>7, <2>1 DEF steps, Inherited
  <1>9. IsMeta(g, rs)
    BY <1>1, <1>7, <1>8 DEF IsMeta
  <1>10. IsMeta(Meta(rs), rs)
    BY <1>9 DEF Meta
  <1> QED BY <1>1, <1>10 DEF IsMeta, N

\* What is inherited was set somewhere.
LEMMA MetaAmong ==
    ASSUME NEW rs, Tree(rs), NEW C, \A s \in DOMAIN rs : rs[s].cors \in C
    PROVE  \A r \in DOMAIN rs : Meta(rs)[r] \in C
  <1> DEFINE N == Len(rs)
             S == {k \in 0..N : k # 0 => Meta(rs)[k] \in C}
  <1>1. N \in Nat /\ DOMAIN rs = 1..N
    BY DEF Tree
  <1>2. \A s \in 1..N : s # Root => rs[s].parent \in 1..(s - 1)
    BY <1>1 DEF Tree
  <1>3. \A s \in 1..N : Meta(rs)[s] = Inherited(Meta(rs), rs, s)
    BY MetaStep
  <1> HIDE DEF N
  <1>4. ASSUME NEW k \in 0..N, \A j \in 0..(k - 1) : j \in S PROVE k \in S
    <2>1. CASE k = 0
      BY <2>1
    <2>2. CASE k # 0
      <3>1. k \in 1..N
        BY <2>2
      <3>2. k # Root => Meta(rs)[rs[k].parent] \in C
        <4>1. k # Root => rs[k].parent \in 0..(k - 1) /\ rs[k].parent # 0
          BY <1>2, <3>1
        <4> QED BY <4>1, <1>4
      <3> QED BY <1>1, <1>3, <3>1, <3>2 DEF Inherited
    <2> QED BY <2>1, <2>2
  <1> HIDE DEF S
  <1>5. 0..N \subseteq S
    BY <1>1, <1>4, UpTo
  <1>6. \A r \in 1..N : r \in 0..N /\ r # 0
    BY <1>1
  <1> QED BY <1>1, <1>5, <1>6 DEF S

\* A router that is added changes nothing for the others, and options that are set where
\* there were none put no others out of effect.
LEMMA MetaGrows ==
    ASSUME NEW rs, Tree(rs), NEW new, Tree(new), Len(rs) <= Len(new),
           \A s \in DOMAIN rs : new[s].parent = rs[s].parent,
           \A s \in DOMAIN rs : new[s].cors = rs[s].cors \/ (rs[s].cors = Unset /\ InEffect(new[s].cors))
    PROVE  \A r \in DOMAIN rs : InEffect(Meta(rs)[r]) => InEffect(Meta(new)[r])
  <1> DEFINE N == Len(rs)
             S == {k \in 0..N : k # 0 => (InEffect(Meta(rs)[k]) => InEffect(Meta(new)[k]))}
  <1>1. N \in Nat /\ DOMAIN rs = 1..N /\ Len(new) \in Nat
    BY DEF Tree
  <1>2. \A s \in 1..N : s # Root => rs[s].parent \in 1..(s - 1)
    BY <1>1 DEF Tree
  <1>3. \A s \in 1..N : Meta(rs)[s] = Inherited(Meta(rs), rs, s) /\ Meta(new)[s] = Inherited(Meta(new), new, s)
    <2>1. \A s \in 1..N : s \in 1..Len(new)
      BY <1>1
    <2> QED BY <2>1, MetaStep
  <1> HIDE DEF N
  <1>4. ASSUME NEW k \in 0..N, \A j \in 0..(k - 1) : j \in S PROVE k \in S
    <2>1. CASE k = 0
      BY <2>1
    <2>2. CASE k # 0
      <3>1. k \in 1..N
        BY <2>2
      <3>2. k # Root => (InEffect(Meta(rs)[rs[k].parent]) => InEffect(Meta(new)[rs[k].parent]))
        <4>1. k # Root => rs[k].parent \in 0..(k - 1) /\ rs[k].parent # 0
          BY <1>2, <3>1
        <4> QED BY <4>1, <1>4
      <3>3. InEffect(Meta(rs)[k]) => InEffect(Meta(new)[k])
        BY <1>1, <1>3, <3>1, <3>2 DEF Inherited, InEffect
      <3> QED BY <3>3
    <2> QED BY <2>1, <2>2
  <1> HIDE DEF S
  <1>5. 0..N \subseteq S
    BY <1>1, <1>4, UpTo
  <1>6. \A r \in 1..N : r \in 0..N /\ r # 0
    BY <1>1
  <1> QED BY <1>1, <1>5, <1>6 DEF S

-----------------------------------------------------------------------------
(* What holds of the tree and of the answered request. *)

\* Options that are set need the middleware.
CorsInv ==
    ~corsMiddleware =>
        /\ \A r \in DOMAIN routers : routers[r].cors \in {Unset, NoCORS}
        /\ \A t \in DOMAIN routes : routes[t].cors \in {Unset, NoCORS}

\* OPTIONS was asked for, or options are in effect, until some are taken back.
PreflightInv ==
    ~revoked =>
        \A t \in DOMAIN routes :
            "OPTIONS" \in routes[t].methods =>
                "OPTIONS" \in routes[t].given \/ InEffect(RouteOptions(t))

\* The answer is the one for the options of the route, and the route has the method.
ServedInv ==
    served # <<>> =>
        /\ served.req \in Requests
        /\ served.answer = Answer(served.options, served.req)
        /\ served.route > NotFound =>
              /\ served.route \in DOMAIN routes
              /\ served.req.method \in routes[served.route].methods
              /\ served.options = RouteOptions(served.route)

IInv == RoutersInv /\ RoutesInv /\ CorsInv /\ PreflightInv /\ ServedInv

LEMMA SeqAppend ==
    ASSUME NEW S, NEW s \in Seq(S), NEW x \in S
    PROVE  /\ Append(s, x) \in Seq(S) /\ Len(Append(s, x)) = Len(s) + 1
           /\ DOMAIN Append(s, x) = 1..(Len(s) + 1) /\ DOMAIN s = 1..Len(s) /\ Len(s) \in Nat
           /\ \A i \in DOMAIN s : Append(s, x)[i] = s[i]
           /\ Append(s, x)[Len(s) + 1] = x
  OBVIOUS

LEMMA SeqExcept ==
    ASSUME NEW S, NEW s \in Seq(S), NEW i \in DOMAIN s, NEW x \in S
    PROVE  /\ [s EXCEPT ![i] = x] \in Seq(S) /\ Len([s EXCEPT ![i] = x]) = Len(s)
           /\ DOMAIN [s EXCEPT ![i] = x] = DOMAIN s
           /\ \A j \in DOMAIN s : [s EXCEPT ![i] = x][j] = IF j = i THEN x ELSE s[j]
  OBVIOUS

\* What an action does to the routers and to the routes, field by field.
LEMMA SubrouterDoes ==
    ASSUME IInv, NEW r \in DOMAIN routers, NEW prefix \in GroupPrefixes, Subrouter(r, prefix)
    PROVE  /\ Tree(routers') /\ Len(routers') = Len(routers) + 1
           /\ \A s \in DOMAIN routers : routers'[s] = routers[s]
           /\ routers'[Len(routers) + 1].cors = Unset
           /\ DOMAIN routers' = 1..(Len(routers) + 1)
  <1> DEFINE R == [parent : Nat, prefix : GivenPrefixes, cors : Options]
             x == [parent |-> r, cors |-> Unset, prefix |-> IF prefix = <<"/">> THEN <<>> ELSE prefix]
  <1>1. routers' = Append(routers, x)
    BY DEF Subrouter
  <1>2. Tree(routers)
    BY DEF IInv, RoutersInv
  <1>3. routers \in Seq(R) /\ DOMAIN routers = 1..Len(routers) /\ Len(routers) \in Nat /\ Len(routers) # 0
    BY <1>2 DEF Tree
  <1>4. x \in R
    <2>1. r \in Nat /\ Unset \in Options
      BY <1>3 DEF Options
    <2>2. (IF prefix = <<"/">> THEN <<>> ELSE prefix) \in GivenPrefixes
      BY DEF GivenPrefixes
    <2> QED BY <2>1, <2>2
  <1>5. x.parent = r /\ x.cors = Unset
    OBVIOUS
  <1> HIDE DEF R, x
  <1>6. /\ routers' \in Seq(R) /\ Len(routers') = Len(routers) + 1
        /\ DOMAIN routers' = 1..(Len(routers) + 1)
        /\ \A i \in DOMAIN routers : routers'[i] = routers[i]
        /\ routers'[Len(routers) + 1] = x
    BY <1>1, <1>3, <1>4, SeqAppend
  <1>7. routers' # <<>> /\ routers'[Root].parent = 0 /\ routers'[Root].prefix = <<>>
    BY <1>2, <1>3, <1>6 DEF Tree, Root
  <1>8. ASSUME NEW s \in DOMAIN routers', s # Root PROVE routers'[s].parent \in 1..(s - 1)
    <2>1. CASE s \in DOMAIN routers
      BY <1>2, <1>6, <1>8, <2>1 DEF Tree
    <2>2. CASE s \notin DOMAIN routers
      <3>1. s = Len(routers) + 1
        BY <1>3, <1>6, <2>2
      <3> QED BY <1>3, <1>5, <1>6, <3>1
    <2> QED BY <2>1, <2>2
  <1>9. Tree(routers')
    BY <1>6, <1>7, <1>8 DEF Tree, R
  <1> QED BY <1>5, <1>6, <1>9

LEMMA RouteDoes ==
    ASSUME IInv, NEW r \in DOMAIN routers, NEW methods \in MethodSets, NEW uri \in URIs,
           Route(r, methods, uri)
    PROVE  /\ RoutesInv'
           /\ DOMAIN routes' = 1..(Len(routes) + 1)
           /\ \A t \in DOMAIN routes : routes'[t] = routes[t]
           /\ routes'[Len(routes) + 1].cors = Unset
           /\ routes'[Len(routes) + 1].given = methods
           /\ routes'[Len(routes) + 1].parent = r
           /\ "OPTIONS" \in routes'[Len(routes) + 1].methods =>
                "OPTIONS" \in methods \/ InEffect(LookupMeta(r))
  <1> DEFINE M == SUBSET Methods
             R == [parent : Nat, uri : Patterns, cors : Options, given : MethodSets, methods : M]
             able == methods \cup (IF InEffect(LookupMeta(r)) THEN {"OPTIONS"} ELSE {})
                             \cup (IF "GET" \in methods THEN {"HEAD"} ELSE {})
             x == [parent |-> r, uri |-> Normalized(r, uri), cors |-> Unset, given |-> methods,
                   methods |-> able]
  <1>1. routes' = Append(routes, x) /\ routers' = routers
    BY DEF Route
  <1>2. DOMAIN routers \subseteq Nat
    BY DEF IInv, RoutersInv, Tree
  <1>3. routes \in Seq(R)
    BY DEF IInv, RoutesInv
  <1>4. "OPTIONS" \in able => "OPTIONS" \in methods \/ InEffect(LookupMeta(r))
    OBVIOUS
  <1>5. able \in M
    <2>1. methods \subseteq Methods
      BY MethodsHave
    <2>2. able \subseteq Methods
      BY <2>1, MethodsHave
    <2> QED BY <2>2
  <1>6. Normalized(r, uri) \in Patterns
    BY DEF Normalized, Patterns, GivenPrefixes
  <1>7. r \in Nat /\ Unset \in Options
    BY <1>2 DEF Options
  <1> HIDE DEF M, able
  <1>8. x \in R /\ x.cors = Unset /\ x.given = methods /\ x.methods = able /\ x.parent = r
    BY <1>5, <1>6, <1>7
  <1> HIDE DEF R, x
  <1>9. /\ routes' \in Seq(R) /\ DOMAIN routes' = 1..(Len(routes) + 1)
        /\ DOMAIN routes = 1..Len(routes) /\ Len(routes) \in Nat
        /\ \A t \in DOMAIN routes : routes'[t] = routes[t]
        /\ routes'[Len(routes) + 1] = x
    BY <1>1, <1>3, <1>8, SeqAppend
  <1>10. \A t \in DOMAIN routes' : routes'[t].parent \in DOMAIN routers'
    <2> TAKE t \in DOMAIN routes'
    <2>1. t \in DOMAIN routes \/ t = Len(routes) + 1
      BY <1>9
    <2>2. \A i \in DOMAIN routes : routes[i].parent \in DOMAIN routers
      BY DEF IInv, RoutesInv
    <2> QED BY <1>1, <1>8, <1>9, <2>1, <2>2
  <1>11. RoutesInv'
    BY <1>9, <1>10 DEF RoutesInv, R, M
  <1> QED BY <1>4, <1>8, <1>9, <1>11

LEMMA RouterCORSDoes ==
    ASSUME IInv, NEW r \in DOMAIN routers, NEW options \in CORSOptions \cup {NoCORS},
           RouterCORS(r, options)
    PROVE  /\ Tree(routers') /\ DOMAIN routers' = DOMAIN routers /\ Len(routers') = Len(routers)
           /\ \A s \in DOMAIN routers : /\ routers'[s].parent = routers[s].parent
                                        /\ routers'[s].prefix = routers[s].prefix
                                        /\ routers'[s].cors = IF s = r THEN options ELSE routers[s].cors
  <1> DEFINE R == [parent : Nat, prefix : GivenPrefixes, cors : Options]
             x == [routers[r] EXCEPT !.cors = options]
  <1>1. routers' = [routers EXCEPT ![r] = x]
    BY DEF RouterCORS
  <1>2. Tree(routers)
    BY DEF IInv, RoutersInv
  <1>3. routers \in Seq(R)
    BY <1>2 DEF Tree
  <1>4. routers[r] \in R
    BY <1>3, At
  <1>5. options \in Options
    BY DEF Options
  <1>6. x \in R /\ x.cors = options /\ x.parent = routers[r].parent /\ x.prefix = routers[r].prefix
    BY <1>4, <1>5
  <1> HIDE DEF R, x
  <1>7. /\ routers' \in Seq(R) /\ Len(routers') = Len(routers) /\ DOMAIN routers' = DOMAIN routers
        /\ \A s \in DOMAIN routers : routers'[s] = IF s = r THEN x ELSE routers[s]
    BY <1>1, <1>3, <1>6, SeqExcept
  <1>8. \A s \in DOMAIN routers : /\ routers'[s].parent = routers[s].parent
                                  /\ routers'[s].prefix = routers[s].prefix
                                  /\ routers'[s].cors = IF s = r THEN options ELSE routers[s].cors
    BY <1>6, <1>7
  <1>9. Root \in DOMAIN routers /\ routers' # <<>>
    BY <1>2, <1>7 DEF Tree, Root
  <1>10. Tree(routers')
    BY <1>2, <1>7, <1>8, <1>9 DEF Tree, R
  <1> QED BY <1>7, <1>8, <1>10

LEMMA RouteCORSDoes ==
    ASSUME IInv, NEW t \in DOMAIN routes, NEW options \in CORSOptions \cup {NoCORS},
           RouteCORS(t, options)
    PROVE  /\ RoutesInv' /\ DOMAIN routes' = DOMAIN routes
           /\ \A i \in DOMAIN routes : /\ routes'[i].parent = routes[i].parent
                                       /\ i # t => routes'[i] = routes[i]
           /\ routes'[t].cors = options
  <1> DEFINE M == SUBSET Methods
             R == [parent : Nat, uri : Patterns, cors : Options, given : MethodSets, methods : M]
             able == IF options # NoCORS THEN routes[t].methods \cup {"OPTIONS"}
                     ELSE IF Cardinality(routes[t].methods) > 1 THEN routes[t].methods \ {"OPTIONS"}
                     ELSE routes[t].methods
             x == [parent |-> routes[t].parent, uri |-> routes[t].uri, cors |-> options,
                   given |-> routes[t].given, methods |-> able]
  <1>1. RoutesInv /\ routers' = routers
    BY DEF IInv, RouteCORS
  <1>2. /\ routes[t].uri \in Patterns /\ routes[t].given \in MethodSets
        /\ routes[t].methods \in M /\ routes[t].parent \in DOMAIN routers
        /\ routes[t] = [parent |-> routes[t].parent, uri |-> routes[t].uri, cors |-> routes[t].cors,
                        given |-> routes[t].given, methods |-> routes[t].methods]
    BY <1>1, RouteFields
  <1>3. routes' = [routes EXCEPT ![t] = x]
    <2>1. PICK p, u, c, g, m : routes[t] = [parent |-> p, uri |-> u, cors |-> c, given |-> g, methods |-> m]
      BY <1>2
    <2>2. routes' = [routes EXCEPT ![t].cors = options,
             ![t].methods = IF options # NoCORS THEN @ \cup {"OPTIONS"}
                            ELSE IF Cardinality(@) > 1 THEN @ \ {"OPTIONS"} ELSE @]
      BY DEF RouteCORS
    <2>3. routes[t].methods = m
      BY <2>1
    <2> DEFINE y == [parent |-> p, uri |-> u, cors |-> options, given |-> g, methods |-> m]
               a == [routes EXCEPT ![t] = y]
    <2>4. [routes EXCEPT ![t].cors = options] = a
      <3>1. [routes[t] EXCEPT !.cors = options] = y
        BY <2>1
      <3> HIDE DEF y
      <3> QED BY <3>1
    <2>5. a[t] = y /\ \A z : [a EXCEPT ![t] = z] = [routes EXCEPT ![t] = z]
      <3> HIDE DEF y
      <3> QED BY <1>1 DEF RoutesInv
    <2> HIDE DEF a
    <2>6. routes' = [a EXCEPT ![t].methods = IF options # NoCORS THEN @ \cup {"OPTIONS"}
                              ELSE IF Cardinality(@) > 1 THEN @ \ {"OPTIONS"} ELSE @]
      BY <2>2, <2>4
    <2>7. x = [y EXCEPT !.methods = able] /\ y.methods = m
      BY <2>1
    <2>8. able = IF options # NoCORS THEN m \cup {"OPTIONS"}
                 ELSE IF Cardinality(m) > 1 THEN m \ {"OPTIONS"} ELSE m
      BY <2>3
    <2> HIDE DEF x, y, able
    <2>9. routes' = [a EXCEPT ![t] = x]
      BY <2>5, <2>6, <2>7, <2>8
    <2> QED BY <2>5, <2>9
  <1>4. routes \in Seq(R)
    BY <1>1 DEF RoutesInv
  <1>5. options \in Options
    BY DEF Options
  <1>6. able \in M
    <2>1. routes[t].methods \subseteq Methods
      BY <1>2
    <2>2. able \subseteq Methods
      BY <2>1, MethodsHave
    <2> QED BY <2>2
  <1>7. routes[t].parent \in Nat
    BY <1>2 DEF IInv, RoutersInv, Tree
  <1> HIDE DEF M, able
  <1>8. x \in R /\ x.cors = options /\ x.parent = routes[t].parent
    BY <1>2, <1>5, <1>6, <1>7
  <1> HIDE DEF R, x
  <1>9. /\ routes' \in Seq(R) /\ DOMAIN routes' = DOMAIN routes
        /\ \A i \in DOMAIN routes : routes'[i] = IF i = t THEN x ELSE routes[i]
    BY <1>3, <1>4, <1>8, SeqExcept
  <1>10. \A i \in DOMAIN routes : routes'[i].parent = routes[i].parent
    BY <1>8, <1>9
  <1>11. \A i \in DOMAIN routes' : routes'[i].parent \in DOMAIN routers'
    BY <1>1, <1>9, <1>10 DEF RoutesInv
  <1>12. RoutesInv'
    BY <1>9, <1>11 DEF RoutesInv, R, M
  <1> QED BY <1>8, <1>9, <1>10, <1>12

-----------------------------------------------------------------------------
(* The inductive invariant. *)

OptionsAt(rts, rs, t) == IF rts[t].cors # Unset THEN rts[t].cors ELSE Meta(rs)[rts[t].parent]

LEMMA OptionsAre ==
    \A t : RouteOptions(t) = OptionsAt(routes, routers, t) /\ RouteOptions(t)' = OptionsAt(routes', routers', t)
  BY DEF RouteOptions, OptionsAt, LookupMeta, Meta, IsMeta, Inherited

LEMMA SetInEffect == \A o \in CORSOptions \cup {NoCORS} : o # NoCORS => InEffect(o)
  BY OptionsAssumption DEF InEffect

LEMMA InitIInv == Init => IInv
  <1> SUFFICES ASSUME Init PROVE IInv
    OBVIOUS
  <1> DEFINE R == [parent : Nat, prefix : GivenPrefixes, cors : Options]
             root == [parent |-> 0, prefix |-> <<>>, cors |-> Unset]
  <1>1. routers = <<root>> /\ routes = <<>> /\ served = <<>>
    BY DEF Init
  <1>2. root \in R /\ root.cors = Unset /\ root.parent = 0 /\ root.prefix = <<>>
    BY DEF GivenPrefixes, Options
  <1> HIDE DEF R, root
  <1>3. routers \in Seq(R) /\ routers # <<>> /\ DOMAIN routers = {1} /\ routers[1] = root
    BY <1>1, <1>2
  <1>4. RoutersInv
    BY <1>2, <1>3 DEF RoutersInv, Tree, Root, R
  <1>5. DOMAIN routes = {} /\ \A S : routes \in Seq(S)
    BY <1>1
  <1>6. RoutesInv
    <2> DEFINE S == [parent : Nat, uri : Patterns, cors : Options, given : MethodSets, methods : SUBSET Methods]
    <2>1. routes \in Seq(S)
      <3> HIDE DEF S
      <3> QED BY <1>5
    <2> QED BY <1>5, <2>1 DEF RoutesInv
  <1>7. CorsInv
    BY <1>2, <1>3, <1>5 DEF CorsInv
  <1> QED BY <1>1, <1>4, <1>5, <1>6, <1>7 DEF IInv, PreflightInv, ServedInv

LEMMA SubrouterKeeps ==
    ASSUME IInv, NEW r \in DOMAIN routers, NEW prefix \in GroupPrefixes, Subrouter(r, prefix)
    PROVE  IInv'
  <1>1. /\ Tree(routers') /\ Len(routers') = Len(routers) + 1
        /\ \A s \in DOMAIN routers : routers'[s] = routers[s]
        /\ routers'[Len(routers) + 1].cors = Unset /\ DOMAIN routers' = 1..(Len(routers) + 1)
    BY SubrouterDoes
  <1>2. /\ routes' = routes /\ corsMiddleware' = corsMiddleware /\ revoked' = revoked
        /\ served = <<>> /\ served' = served
    BY DEF Subrouter, Registering
  <1>3. Tree(routers) /\ DOMAIN routers = 1..Len(routers) /\ Len(routers) \in Nat
    BY DEF IInv, RoutersInv, Tree
  <1>4. RoutersInv'
    BY <1>1 DEF RoutersInv, Tree
  <1>5. RoutesInv'
    <2>1. DOMAIN routers \subseteq DOMAIN routers'
      BY <1>1, <1>3
    <2> QED BY <1>2, <2>1 DEF IInv, RoutesInv
  <1>6. CorsInv'
    <2>1. \A s \in DOMAIN routers' : s \in DOMAIN routers \/ s = Len(routers) + 1
      BY <1>1, <1>3
    <2> QED BY <1>1, <1>2, <2>1 DEF IInv, CorsInv
  <1>7. PreflightInv'
    <2>1. \A s \in DOMAIN routers : InEffect(Meta(routers)[s]) => InEffect(Meta(routers')[s])
      <3>1. \A s \in DOMAIN routers : routers'[s].parent = routers[s].parent /\ routers'[s].cors = routers[s].cors
        BY <1>1
      <3>2. Len(routers) <= Len(routers')
        BY <1>1, <1>3
      <3>3. Tree(routers) /\ Tree(routers')
        BY <1>1, <1>3
      <3> QED BY <3>1, <3>2, <3>3, MetaGrows
    <2>2. \A t \in DOMAIN routes : InEffect(RouteOptions(t)) => InEffect(RouteOptions(t)')
      <3>1. \A t \in DOMAIN routes : routes[t].parent \in DOMAIN routers
        BY DEF IInv, RoutesInv
      <3> QED BY <1>2, <2>1, <3>1, OptionsAre DEF OptionsAt
    <2> QED BY <1>2, <2>2 DEF IInv, PreflightInv, InEffect
  <1> QED BY <1>2, <1>4, <1>5, <1>6, <1>7 DEF IInv, ServedInv

LEMMA RouteKeeps ==
    ASSUME IInv, NEW r \in DOMAIN routers, NEW methods \in MethodSets, NEW uri \in URIs,
           Route(r, methods, uri)
    PROVE  IInv'
  <1>7. PICK n : n = Len(routes) + 1
    OBVIOUS
  <1>1. /\ RoutesInv' /\ DOMAIN routes' = 1..n
        /\ \A t \in DOMAIN routes : routes'[t] = routes[t]
        /\ routes'[n].cors = Unset /\ routes'[n].given = methods /\ routes'[n].parent = r
        /\ "OPTIONS" \in routes'[n].methods => "OPTIONS" \in methods \/ InEffect(LookupMeta(r))
    BY <1>7, RouteDoes
  <1>2. /\ routers' = routers /\ corsMiddleware' = corsMiddleware /\ revoked' = revoked
        /\ served = <<>> /\ served' = served
    BY DEF Route, Registering
  <1>3. \A t \in DOMAIN routes' : t \in DOMAIN routes \/ t = n
    <2>1. DOMAIN routes = 1..Len(routes) /\ Len(routes) \in Nat
      BY DEF IInv, RoutesInv
    <2> QED BY <1>1, <1>7, <2>1
  <1>4. RoutersInv'
    BY <1>2 DEF IInv, RoutersInv, Tree
  <1>5. CorsInv'
    BY <1>1, <1>2, <1>3 DEF IInv, CorsInv
  <1>6. PreflightInv'
    <2>1. \A t \in DOMAIN routes : RouteOptions(t)' = RouteOptions(t)
      BY <1>1, <1>2, OptionsAre DEF OptionsAt
    <2>2. RouteOptions(n)' = LookupMeta(r)
      BY <1>1, <1>2, OptionsAre, LookupMetaIs DEF OptionsAt
    <2> SUFFICES ASSUME ~revoked', NEW t \in DOMAIN routes', "OPTIONS" \in routes'[t].methods,
                        "OPTIONS" \notin routes'[t].given
                 PROVE  InEffect(RouteOptions(t)')
      BY DEF PreflightInv, InEffect
    <2>3. CASE t = n
      BY <1>1, <2>2, <2>3
    <2>4. CASE t \in DOMAIN routes
      BY <1>1, <1>2, <2>1, <2>4 DEF IInv, PreflightInv
    <2> QED BY <1>3, <2>3, <2>4
  <1> QED BY <1>1, <1>2, <1>4, <1>5, <1>6 DEF IInv, ServedInv

LEMMA RouterCORSKeeps ==
    ASSUME IInv, NEW r \in DOMAIN routers, NEW options \in CORSOptions \cup {NoCORS},
           RouterCORS(r, options)
    PROVE  IInv'
  <1>1. /\ Tree(routers') /\ DOMAIN routers' = DOMAIN routers /\ Len(routers') = Len(routers)
        /\ \A s \in DOMAIN routers : /\ routers'[s].parent = routers[s].parent
                                     /\ routers'[s].cors = IF s = r THEN options ELSE routers[s].cors
    BY RouterCORSDoes
  <1>2. /\ routes' = routes /\ served = <<>> /\ served' = served
        /\ revoked' = (revoked \/ routers[r].cors # Unset \/ options = NoCORS)
        /\ corsMiddleware' = (corsMiddleware \/ options # NoCORS)
    BY DEF RouterCORS, Registering, SetOptions
  <1>3. RoutersInv'
    BY <1>1 DEF RoutersInv, Tree
  <1>4. RoutesInv'
    BY <1>1, <1>2 DEF IInv, RoutesInv
  <1>5. CorsInv'
    BY <1>1, <1>2 DEF IInv, CorsInv
  <1>6. PreflightInv'
    <2> SUFFICES ASSUME ~revoked', NEW t \in DOMAIN routes, "OPTIONS" \in routes[t].methods,
                        "OPTIONS" \notin routes[t].given
                 PROVE  InEffect(RouteOptions(t)')
      BY <1>2 DEF PreflightInv, InEffect
    <2>1. ~revoked /\ routers[r].cors = Unset /\ InEffect(options)
      BY <1>2, SetInEffect
    <2>2. Tree(routers) /\ Len(routers) <= Len(routers')
      BY <1>1 DEF IInv, RoutersInv, Tree
    <2>3. \A s \in DOMAIN routers : InEffect(Meta(routers)[s]) => InEffect(Meta(routers')[s])
      <3>1. \A s \in DOMAIN routers : routers'[s].cors = routers[s].cors
                                        \/ (routers[s].cors = Unset /\ InEffect(routers'[s].cors))
        BY <1>1, <2>1
      <3> QED BY <1>1, <2>2, <3>1, MetaGrows
    <2>4. InEffect(RouteOptions(t))
      BY <2>1 DEF IInv, PreflightInv
    <2>5. routes[t].parent \in DOMAIN routers
      BY DEF IInv, RoutesInv
    <2> QED BY <1>2, <2>3, <2>4, <2>5, OptionsAre DEF OptionsAt
  <1> QED BY <1>2, <1>3, <1>4, <1>5, <1>6 DEF IInv, ServedInv

LEMMA RouteCORSKeeps ==
    ASSUME IInv, NEW t \in DOMAIN routes, NEW options \in CORSOptions \cup {NoCORS},
           RouteCORS(t, options)
    PROVE  IInv'
  <1>1. /\ RoutesInv' /\ DOMAIN routes' = DOMAIN routes
        /\ \A i \in DOMAIN routes : /\ routes'[i].parent = routes[i].parent
                                    /\ i # t => routes'[i] = routes[i]
        /\ routes'[t].cors = options
    BY RouteCORSDoes
  <1>2. /\ routers' = routers /\ served = <<>> /\ served' = served
        /\ revoked' = (revoked \/ routes[t].cors # Unset \/ options = NoCORS)
        /\ corsMiddleware' = (corsMiddleware \/ options # NoCORS)
    BY DEF RouteCORS, Registering, SetOptions
  <1>3. RoutersInv'
    BY <1>2 DEF IInv, RoutersInv, Tree
  <1>4. CorsInv'
    BY <1>1, <1>2 DEF IInv, CorsInv
  <1>5. PreflightInv'
    <2> SUFFICES ASSUME ~revoked', NEW i \in DOMAIN routes, "OPTIONS" \in routes'[i].methods,
                        "OPTIONS" \notin routes'[i].given
                 PROVE  InEffect(RouteOptions(i)')
      BY <1>1 DEF PreflightInv, InEffect
    <2>1. ~revoked /\ InEffect(options)
      BY <1>2, SetInEffect
    <2>2. CASE i = t
      <3>1. RouteOptions(t)' = options
        BY <1>1, <2>1, OptionsAre DEF OptionsAt, InEffect
      <3> QED BY <2>1, <2>2, <3>1
    <2>3. CASE i # t
      <3>1. InEffect(RouteOptions(i)) /\ routes'[i] = routes[i]
        BY <1>1, <2>1, <2>3 DEF IInv, PreflightInv
      <3>2. RouteOptions(i)' = RouteOptions(i)
        BY <1>2, <3>1, OptionsAre DEF OptionsAt
      <3> QED BY <3>1, <3>2
    <2> QED BY <2>2, <2>3
  <1> QED BY <1>1, <1>2, <1>3, <1>4, <1>5 DEF IInv, ServedInv

LEMMA ServeKeeps ==
    ASSUME IInv, NEW req \in Requests, ServeHTTP(req)
    PROVE  IInv'
  <1> DEFINE m == MatchRouter(req.method, req.path).m
             options == IF m.route \in {NotFound, MethodNotAllowed} THEN Unset ELSE RouteOptions(m.route)
  <1>1. /\ served' = [req |-> req, route |-> m.route, params |-> m.params,
                      resumed |-> m.resumed, options |-> options, answer |-> Answer(options, req)]
        /\ routers' = routers /\ routes' = routes /\ corsMiddleware' = corsMiddleware /\ revoked' = revoked
    BY DEF ServeHTTP
  <1>2. MatchRouter(req.method, req.path) \in Answers(req.method, req.path)
    BY RequestsAssumption, MatchRouterSound DEF IInv
  <1>3. m \in Sound(req.method, req.path)
    <2> HIDE DEF m
    <2>1. \A a \in Answers(req.method, req.path) : a.m \in Sound(req.method, req.path)
      BY DEF Answers
    <2> QED BY <1>2, <2>1 DEF m
  <1> HIDE DEF m
  <1>4. m.route > NotFound => m.route \in DOMAIN routes /\ req.method \in routes[m.route].methods
    BY <1>3, SoundFields DEF NotFound, MethodNotAllowed, Nil
  <1>5. m.route > NotFound => options = RouteOptions(m.route)
    BY DEF NotFound, MethodNotAllowed
  <1>6. \A t : RouteOptions(t)' = RouteOptions(t)
    BY <1>1, OptionsAre
  <1> HIDE DEF options
  <1>8. ServedInv'
    <2>1. /\ served'.req = req /\ served'.route = m.route /\ served'.options = options
          /\ served'.answer = Answer(options, req)
      BY <1>1
    <2>2. Answer(served.options, served.req)' = Answer(options, req)
      BY <1>1, <2>1 DEF Answer, InEffect, Headers, Preflight, NoHeaders
    <2>3. RouteOptions(served.route)' = RouteOptions(m.route)
      BY <1>1, <2>1 DEF RouteOptions, LookupMeta
    <2> QED BY <1>1, <1>4, <1>5, <2>1, <2>2, <2>3 DEF ServedInv
  <1>9. RoutersInv' /\ RoutesInv' /\ CorsInv'
    BY <1>1 DEF IInv, RoutersInv, Tree, RoutesInv, CorsInv
  <1>10. PreflightInv'
    BY <1>1, <1>6 DEF IInv, PreflightInv, InEffect
  <1> QED BY <1>8, <1>9, <1>10 DEF IInv

LEMMA StutterKeeps == ASSUME IInv, UNCHANGED vars PROVE IInv'
  <1>1. routers' = routers /\ routes' = routes /\ corsMiddleware' = corsMiddleware /\ revoked' = revoked /\ served' = served
    BY DEF vars
  <1>2. RoutersInv' /\ RoutesInv' /\ CorsInv'
    BY <1>1 DEF IInv, RoutersInv, Tree, RoutesInv, CorsInv
  <1>3. \A t : RouteOptions(t)' = RouteOptions(t)
    BY <1>1, OptionsAre
  <1>4. PreflightInv'
    BY <1>1, <1>3 DEF IInv, PreflightInv, InEffect
  <1>5. ServedInv'
    <2>1. Answer(served.options, served.req)' = Answer(served.options, served.req)
      BY <1>1 DEF Answer, InEffect, Headers, Preflight, NoHeaders
    <2>2. RouteOptions(served.route)' = RouteOptions(served.route)
      BY <1>1 DEF RouteOptions, LookupMeta
    <2> QED BY <1>1, <2>1, <2>2 DEF IInv, ServedInv
  <1> QED BY <1>2, <1>4, <1>5 DEF IInv

THEOREM Invariance == Spec => []IInv
  <1>1. IInv /\ [Next]_vars => IInv'
    <2> SUFFICES ASSUME IInv, [Next]_vars PROVE IInv'
      OBVIOUS
    <2>1. ASSUME NEW r \in DOMAIN routers, NEW prefix \in GroupPrefixes, Subrouter(r, prefix) PROVE IInv'
      BY <2>1, SubrouterKeeps
    <2>2. ASSUME NEW r \in DOMAIN routers, NEW methods \in MethodSets, NEW uri \in URIs, Route(r, methods, uri)
          PROVE  IInv'
      BY <2>2, RouteKeeps
    <2>3. ASSUME NEW r \in DOMAIN routers, NEW options \in CORSOptions \cup {NoCORS}, RouterCORS(r, options)
          PROVE  IInv'
      BY <2>3, RouterCORSKeeps
    <2>4. ASSUME NEW t \in DOMAIN routes, NEW options \in CORSOptions \cup {NoCORS}, RouteCORS(t, options)
          PROVE  IInv'
      BY <2>4, RouteCORSKeeps
    <2>5. ASSUME NEW req \in Requests, ServeHTTP(req) PROVE IInv'
      BY <2>5, ServeKeeps
    <2>6. CASE UNCHANGED vars
      BY <2>6, StutterKeeps
    <2> QED BY <2>1, <2>2, <2>3, <2>4, <2>5, <2>6 DEF Next
  <1> QED BY <1>1, InitIInv, PTL DEF Spec

-----------------------------------------------------------------------------
(* What an answer depends on. *)

LEMMA OriginVaries ==
    ASSUME NEW o, NEW q \in Requests, NEW x,
           Answer(o, [q EXCEPT !.origin = x]).headers.origin # Answer(o, q).headers.origin
    PROVE  "Origin" \in Answer(o, q).headers.vary
  <1> DEFINE p == [q EXCEPT !.origin = x]
             any == o.origins = <<>> \/ o.origins[1] = "*"
  <1>1. p.method = q.method /\ p.asks = q.asks
    <2>1. q = [method |-> q.method, path |-> q.path, origin |-> q.origin, asks |-> q.asks]
      BY RequestsAssumption
    <2> QED BY <2>1
  <1> HIDE DEF p
  <1>2. any => Headers(o, p).origin = "*" /\ Headers(o, q).origin = "*"
    BY DEF Headers
  <1>3. ~any => Headers(o, q).vary = {"Origin"}
    BY DEF Headers
  <1>4. ASSUME NEW r
        PROVE  /\ Preflight(o, r).origin = Headers(o, r).origin
               /\ Preflight(o, r).vary = IF o.headers = "" THEN Headers(o, r).vary \cup {"Request-Headers"}
                                                           ELSE Headers(o, r).vary
    BY DEF Preflight, Headers
  <1> HIDE DEF any
  <1>5. Answer(o, p).headers.origin # Answer(o, q).headers.origin
    BY DEF p
  <1>6. CASE ~corsMiddleware \/ ~InEffect(o) \/ (q.method = "OPTIONS" /\ q.asks = "")
    BY <1>1, <1>5, <1>6 DEF Answer
  <1>7. CASE corsMiddleware /\ InEffect(o) /\ q.method = "OPTIONS" /\ q.asks # ""
    <2>1. Answer(o, p).headers = Preflight(o, p) /\ Answer(o, q).headers = Preflight(o, q)
      BY <1>1, <1>7 DEF Answer
    <2> QED BY <1>2, <1>3, <1>4, <1>5, <2>1
  <1>8. CASE corsMiddleware /\ InEffect(o) /\ q.method # "OPTIONS"
    <2>1. Answer(o, p).headers = Headers(o, p) /\ Answer(o, q).headers = Headers(o, q)
      BY <1>1, <1>8 DEF Answer
    <2> QED BY <1>2, <1>3, <1>5, <2>1
  <1> QED BY <1>6, <1>7, <1>8

LEMMA AsksVary ==
    ASSUME NEW o, NEW q \in Requests, NEW x, x # "", q.asks # "",
           Answer(o, [q EXCEPT !.asks = x]).headers.allows # Answer(o, q).headers.allows
    PROVE  "Request-Headers" \in Answer(o, q).headers.vary
  <1> DEFINE p == [q EXCEPT !.asks = x]
  <1>1. p.method = q.method /\ p.asks = x
    <2>1. q = [method |-> q.method, path |-> q.path, origin |-> q.origin, asks |-> q.asks]
      BY RequestsAssumption
    <2> QED BY <2>1
  <1> HIDE DEF p
  <1>2. \A r : Headers(o, r).allows = ""
    BY DEF Headers
  <1>3. ASSUME NEW r
        PROVE  /\ Preflight(o, r).allows = IF o.headers = "" THEN r.asks ELSE o.headers
               /\ o.headers = "" => "Request-Headers" \in Preflight(o, r).vary
    BY DEF Preflight, Headers
  <1>4. Answer(o, p).headers.allows # Answer(o, q).headers.allows
    BY DEF p
  <1>5. CASE ~corsMiddleware \/ ~InEffect(o)
    BY <1>4, <1>5 DEF Answer
  <1>6. CASE corsMiddleware /\ InEffect(o) /\ q.method = "OPTIONS"
    <2>1. Answer(o, p).headers = Preflight(o, p) /\ Answer(o, q).headers = Preflight(o, q)
      BY <1>1, <1>6 DEF Answer
    <2> QED BY <1>3, <1>4, <2>1
  <1>7. CASE corsMiddleware /\ InEffect(o) /\ q.method # "OPTIONS"
    <2>1. Answer(o, p).headers = Headers(o, p) /\ Answer(o, q).headers = Headers(o, q)
      BY <1>1, <1>7 DEF Answer
    <2> QED BY <1>2, <1>4, <2>1
  <1> QED BY <1>5, <1>6, <1>7

\* Vary names the origin, and the requested headers of a preflight, whenever another value
\* of theirs would have changed the answer (cors.go:75), whatever tree and options led to it.
THEOREM VaryCompleteHolds == Spec => []VaryComplete
  <1>1. ASSUME IInv PROVE VaryComplete
    <2> SUFFICES ASSUME served # <<>> PROVE VaryComplete
      BY DEF VaryComplete
    <2>1. served.req \in Requests /\ served.answer = Answer(served.options, served.req)
      BY <1>1 DEF IInv, ServedInv
    <2>2. \A x : Answer(served.options, [served.req EXCEPT !.origin = x]).headers.origin
                   # served.answer.headers.origin => "Origin" \in served.answer.headers.vary
      BY <2>1, OriginVaries
    <2>3. \A x : x # "" /\ served.req.asks # ""
                 /\ Answer(served.options, [served.req EXCEPT !.asks = x]).headers.allows
                      # served.answer.headers.allows => "Request-Headers" \in served.answer.headers.vary
      BY <2>1, AsksVary
    <2> QED BY <2>2, <2>3 DEF VaryComplete
  <1> QED BY <1>1, Invariance, PTL

\* A preflight reaches a handler that was not registered for OPTIONS only by passthrough, or
\* when options were taken back after OPTIONS was added to its route (router.go:455): the
\* options that put it there stay in effect, and the middleware that reads them registered.
THEOREM OptionsHandledHolds == Spec => []OptionsHandled
  <1>1. ASSUME IInv PROVE OptionsHandled
    <2> DEFINE t == served.route
               o == served.options
    <2> SUFFICES ASSUME served # <<>>, t > NotFound, served.req.method = "OPTIONS",
                        served.answer.status = 0, "OPTIONS" \notin routes[t].given, ~revoked
                 PROVE  InEffect(o) /\ o.passthrough
      BY DEF OptionsHandled
    <2>1. /\ t \in DOMAIN routes /\ "OPTIONS" \in routes[t].methods /\ o = RouteOptions(t)
          /\ served.answer = Answer(o, served.req)
      BY <1>1 DEF IInv, ServedInv
    <2>2. InEffect(o)
      BY <1>1, <2>1 DEF IInv, PreflightInv
    <2>3. corsMiddleware
      <3> SUFFICES ASSUME ~corsMiddleware PROVE FALSE
        OBVIOUS
      <3>1. Tree(routers) /\ routes[t].parent \in DOMAIN routers
        BY <1>1, <2>1 DEF IInv, RoutersInv, RoutesInv
      <3>2. /\ \A r \in DOMAIN routers : routers[r].cors \in {Unset, NoCORS}
            /\ routes[t].cors \in {Unset, NoCORS}
        BY <1>1, <2>1 DEF IInv, CorsInv
      <3>3. Meta(routers)[routes[t].parent] \in {Unset, NoCORS}
        BY <3>1, <3>2, MetaAmong
      <3>4. RouteOptions(t) \in {Unset, NoCORS}
        BY <3>2, <3>3, OptionsAre DEF OptionsAt
      <3> QED BY <2>1, <2>2, <3>4 DEF InEffect
    <2> HIDE DEF o, t
    <2>4. \A q : q.method = "OPTIONS" =>
            Answer(o, q) = IF q.asks = "" THEN [status |-> 400, headers |-> NoHeaders]
                           ELSE [status |-> IF o.passthrough THEN 0 ELSE 204, headers |-> Preflight(o, q)]
      BY <2>2, <2>3 DEF Answer
    <2>5. \A q : q.method = "OPTIONS" /\ Answer(o, q).status = 0 => o.passthrough
      <3> TAKE q
      <3> HAVE q.method = "OPTIONS" /\ Answer(o, q).status = 0
      <3>1. CASE q.asks = ""
        <4>1. Answer(o, q) = [status |-> 400, headers |-> NoHeaders]
          BY <2>4, <3>1
        <4> QED BY <4>1
      <3>2. CASE q.asks # ""
        <4> DEFINE h == Preflight(o, q)
        <4>1. Answer(o, q) = [status |-> IF o.passthrough THEN 0 ELSE 204, headers |-> h]
          BY <2>4, <3>2
        <4> HIDE DEF h
        <4>2. Answer(o, q).status = IF o.passthrough THEN 0 ELSE 204
          BY <4>1
        <4> QED BY <4>2
      <3> QED BY <3>1, <3>2
    <2>6. served.req.method = "OPTIONS" /\ Answer(o, served.req).status = 0
      BY <2>1
    <2> QED BY <2>2, <2>5, <2>6
  <1> QED BY <1>1, Invariance, PTL

-----------------------------------------------------------------------------
(* Sequences put one after the other. *)

\* \o by a name, for the provers to find instances of its laws.
Conc(x, y) == x \o y

LEMMA ConcAssoc ==
    ASSUME NEW T, NEW x, NEW y, NEW z, x \in Seq(T) /\ y \in Seq(T) /\ z \in Seq(T)
    PROVE  Conc(Conc(x, y), z) = Conc(x, Conc(y, z))
  BY DEF Conc

LEMMA ConcEmpty ==
    ASSUME NEW T, NEW x, x \in Seq(T)
    PROVE  Conc(x, <<>>) = x /\ Conc(<<>>, x) = x
  BY DEF Conc

LEMMA ConcTyped ==
    ASSUME NEW T, NEW x, NEW y, x \in Seq(T) /\ y \in Seq(T)
    PROVE  Conc(x, y) \in Seq(T)
  BY DEF Conc

\* Sequences put one after the other.
Joins(f, parts) ==
    /\ f[0] = <<>>
    /\ \A n \in 1..Len(parts) : f[n] = f[n - 1] \o parts[n]

LEMMA FlattenIs ==
    ASSUME NEW T, NEW parts \in Seq(Seq(T))
    PROVE  \E f \in [0..Len(parts) -> Seq(T)] : Joins(f, parts) /\ FlattenSeq(parts) = f[Len(parts)]
  <1> DEFINE N == Len(parts)
             Q == Seq(T)
  <1>1. N \in Nat /\ \A n \in 1..N : parts[n] \in Q
    OBVIOUS
  <1>2. <<>> \in Q /\ \A x, y \in Q : x \o y \in Q
    BY ConcatProperties
  <1> DEFINE Is(g) == g = [i \in 1..N |-> IF i = 1 THEN parts[i] ELSE g[i - 1] \o parts[i]]
  <1>3. N # 0 => FlattenSeq(parts) = (CHOOSE g : Is(g))[N]
    BY DEF FlattenSeq
  <1>4. N = 0 => FlattenSeq(parts) = <<>>
    BY DEF FlattenSeq
  <1>5. \A x \in Q : <<>> \o x = x
    BY ConcatEmptySeq
  <1> HIDE DEF N, Q
  <1> DEFINE Step(n) == [x \in Q |-> x \o parts[n]]
             steps == [n \in 1..N |-> Step(n)]
  <1>6. \A n \in 1..N : Step(n) \in [Q -> Q]
    BY <1>1, <1>2
  <1>7. steps \in Steppers(N, Q)
    BY <1>6 DEF Steppers
  <1> HIDE DEF steps
  <1>8. PICK f : Iterates(f, N, Q, <<>>, steps)
    BY <1>1, <1>2, <1>7, Iteration
  <1>9. f \in [0..N -> Q] /\ f[0] = <<>> /\ \A n \in 1..N : f[n] = steps[n][f[n - 1]]
    BY <1>8 DEF Iterates
  <1>10. \A n \in 1..N : f[n] = f[n - 1] \o parts[n]
    <2> TAKE n \in 1..N
    <2>1. n - 1 \in 0..N
      BY <1>1
    <2> QED BY <1>9, <2>1 DEF steps
  <1>13. N # 0 => f[1] = parts[1]
    <2> SUFFICES ASSUME N # 0 PROVE f[1] = parts[1]
      OBVIOUS
    <2>1. 1 \in 1..N /\ 1 - 1 = 0
      BY <1>1
    <2>2. f[1] = <<>> \o parts[1]
      BY <1>9, <1>10, <2>1
    <2> QED BY <1>1, <1>5, <2>1, <2>2
  <1>11. CASE N = 0
    BY <1>4, <1>9, <1>10, <1>11 DEF Joins, N, Q
  <1>12. CASE N # 0
    <2> DEFINE h == [i \in 1..N |-> f[i]]
    <2>1. Is(h)
      <3>1. \A i \in 1..N : f[i] = IF i = 1 THEN parts[i] ELSE h[i - 1] \o parts[i]
        <4> TAKE i \in 1..N
        <4>1. i # 1 => i - 1 \in 1..N
          BY <1>1
        <4>2. i # 1 => h[i - 1] = f[i - 1]
          BY <4>1
        <4> HIDE DEF h
        <4>3. f[1] = parts[1]
          BY <1>13, <1>12
        <4> QED BY <1>10, <4>2, <4>3
      <3> QED BY <3>1
    <2> DEFINE g == CHOOSE x : Is(x)
    <2>2. Is(g)
      <3> HIDE DEF Is
      <3> QED BY <2>1
    <2> HIDE DEF g
    <2>3. \A i \in 1..N : g[i] = IF i = 1 THEN parts[i] ELSE g[i - 1] \o parts[i]
      BY <2>2
    <2> DEFINE S == {n \in 0..N : n # 0 => g[n] = f[n]}
    <2>4. ASSUME NEW n \in 0..N, \A m \in 0..(n - 1) : m \in S PROVE n \in S
      <3>1. CASE n = 0
        BY <3>1
      <3>2. CASE n = 1
        <4>1. f[1] = parts[1]
          BY <1>13, <1>12
        <4> QED BY <4>1, <2>3, <3>2
      <3>3. CASE n # 0 /\ n # 1
        <4>1. n - 1 \in 0..(n - 1) /\ n - 1 # 0 /\ n \in 1..N
          BY <3>3, <1>1
        <4>2. g[n - 1] = f[n - 1]
          BY <2>4, <4>1
        <4> QED BY <4>1, <4>2, <2>3, <1>10, <3>3
      <3> QED BY <3>1, <3>2, <3>3
    <2> HIDE DEF S
    <2>5. 0..N \subseteq S
      BY <1>1, <2>4, UpTo
    <2>6. g[N] = f[N]
      <3>1. N \in S
        BY <2>5, <1>1
      <3> QED BY <3>1, <1>12 DEF S
    <2>7. FlattenSeq(parts) = f[N]
      BY <1>3, <1>12, <2>6 DEF g
    <2> QED BY <1>9, <1>10, <2>7 DEF Joins, N, Q
  <1> QED BY <1>11, <1>12

LEMMA FlattenBy ==
    ASSUME NEW T, NEW parts \in Seq(Seq(T)), NEW f, Joins(f, parts)
    PROVE  FlattenSeq(parts) = f[Len(parts)] /\ FlattenSeq(parts) \in Seq(T)
  <1> DEFINE N == Len(parts)
  <1>1. PICK g \in [0..N -> Seq(T)] : Joins(g, parts) /\ FlattenSeq(parts) = g[N]
    BY FlattenIs
  <1>2. N \in Nat
    OBVIOUS
  <1>3. /\ f[0] = <<>> /\ \A n \in 1..N : f[n] = f[n - 1] \o parts[n]
        /\ g[0] = <<>> /\ \A n \in 1..N : g[n] = g[n - 1] \o parts[n]
    BY <1>1 DEF Joins
  <1> HIDE DEF N
  <1> DEFINE S == {n \in 0..N : f[n] = g[n]}
  <1>4. ASSUME NEW n \in 0..N, \A m \in 0..(n - 1) : m \in S PROVE n \in S
    <2>1. CASE n = 0
      BY <1>3, <2>1
    <2>2. CASE n # 0
      <3>1. n - 1 \in 0..(n - 1) /\ n \in 1..N
        BY <2>2, <1>2
      <3> QED BY <3>1, <1>4, <1>3
    <2> QED BY <2>1, <2>2
  <1> HIDE DEF S
  <1>5. N \in S
    <2>1. 0..N \subseteq S
      BY <1>2, <1>4, UpTo
    <2> QED BY <1>2, <2>1
  <1> QED BY <1>1, <1>2, <1>5 DEF S, N

LEMMA FlattenConcat ==
    ASSUME NEW T, NEW a \in Seq(Seq(T)), NEW b \in Seq(Seq(T))
    PROVE  /\ FlattenSeq(a \o b) = FlattenSeq(a) \o FlattenSeq(b)
           /\ FlattenSeq(a) \in Seq(T) /\ FlattenSeq(b) \in Seq(T)
  <1> DEFINE N == Len(a)
             M == Len(b)
  <1>1. PICK f \in [0..N -> Seq(T)] : Joins(f, a) /\ FlattenSeq(a) = f[N]
    BY FlattenIs
  <1>2. PICK g \in [0..M -> Seq(T)] : Joins(g, b) /\ FlattenSeq(b) = g[M]
    BY FlattenIs
  <1>3. /\ f[0] = <<>> /\ \A n \in 1..N : f[n] = f[n - 1] \o a[n]
        /\ g[0] = <<>> /\ \A n \in 1..M : g[n] = g[n - 1] \o b[n]
    BY <1>1, <1>2 DEF Joins
  <1>4. N \in Nat /\ M \in Nat /\ \A n \in 1..M : b[n] \in Seq(T)
    OBVIOUS
  <1>5. /\ a \o b \in Seq(Seq(T)) /\ Len(a \o b) = N + M
        /\ \A n \in 1..N : (a \o b)[n] = a[n]
        /\ \A n \in 1..M : (a \o b)[N + n] = b[n]
    OBVIOUS
  <1> DEFINE c == a \o b
             h == [n \in 0..(N + M) |-> IF n <= N THEN f[n] ELSE f[N] \o g[n - N]]
  <1>6. \A n \in 0..(N + M) : h[n] = IF n <= N THEN f[n] ELSE f[N] \o g[n - N]
    OBVIOUS
  <1> HIDE DEF N, M, c, h
  <1>7. f[N] \in Seq(T) /\ g[M] \in Seq(T)
    BY <1>1, <1>2, <1>4
  <1>8. f[N] \o <<>> = f[N]
    BY <1>7, ConcatEmptySeq
  <1>9. \A n \in 1..(N + M) : h[n] = h[n - 1] \o c[n]
    <2> TAKE n \in 1..(N + M)
    <2>1. n \in 0..(N + M) /\ n - 1 \in 0..(N + M)
      BY <1>4
    <2>2. CASE n <= N
      <3>1. n \in 1..N /\ n - 1 <= N
        BY <2>2, <1>4
      <3> QED BY <2>1, <2>2, <3>1, <1>3, <1>5, <1>6 DEF c
    <2>3. CASE ~(n <= N)
      <3>1. PICK k \in 1..M : n = N + k /\ n - N = k /\ n - 1 - N = k - 1
        <4>1. n - N \in 1..M /\ n = N + (n - N)
          BY <2>3, <1>4
        <4> QED BY <4>1, <1>4
      <3>2. h[n] = f[N] \o g[k]
        BY <1>6, <2>1, <2>3, <3>1
      <3>3. h[n - 1] = f[N] \o g[k - 1]
        <4>1. CASE k = 1
          <5>1. n - 1 = N /\ n - 1 <= N
            BY <3>1, <4>1, <1>4
          <5>2. h[n - 1] = f[N]
            BY <5>1, <1>6, <2>1
          <5>3. k - 1 = 0
            BY <4>1
          <5>4. g[k - 1] = <<>>
            BY <5>3, <1>3
          <5> QED BY <5>2, <5>4, <1>8
        <4>2. CASE k # 1
          <5>1. ~(n - 1 <= N)
            BY <3>1, <4>2, <1>4
          <5> QED BY <5>1, <1>6, <2>1, <3>1
        <4> QED BY <4>1, <4>2
      <3>4. g[k] = g[k - 1] \o b[k] /\ c[n] = b[k]
        BY <1>3, <1>5, <3>1 DEF c
      <3>5. g[k - 1] \in Seq(T) /\ b[k] \in Seq(T)
        <4>1. k - 1 \in 0..M
          BY <3>1, <1>4
        <4> QED BY <4>1, <1>2, <1>4
      <3>6. (f[N] \o g[k - 1]) \o b[k] = f[N] \o (g[k - 1] \o b[k])
        <4>1. Conc(Conc(f[N], g[k - 1]), b[k]) = Conc(f[N], Conc(g[k - 1], b[k]))
          BY <1>7, <3>5, ConcAssoc
        <4> QED BY <4>1 DEF Conc
      <3> QED BY <3>2, <3>3, <3>4, <3>6
    <2> QED BY <2>2, <2>3
  <1>10. h[0] = <<>> /\ h[N + M] = f[N] \o g[M]
    <2>1. h[0] = <<>>
      BY <1>3, <1>4, <1>6
    <2>2. CASE M = 0
      BY <1>3, <1>4, <1>6, <1>8, <2>2
    <2>3. CASE M # 0
      <3>1. PICK k \in 0..(N + M) : k = N + M /\ ~(k <= N) /\ k - N = M
        BY <1>4, <2>3
      <3>2. h[k] = f[N] \o g[k - N]
        BY <1>6, <3>1
      <3> QED BY <2>1, <3>1, <3>2
    <2> QED BY <2>1, <2>2, <2>3
  <1>11. Joins(h, c)
    BY <1>5, <1>9, <1>10 DEF Joins, c
  <1>12. FlattenSeq(c) = h[N + M]
    BY <1>5, <1>11, FlattenBy DEF c
  <1> QED BY <1>1, <1>2, <1>7, <1>10, <1>12 DEF c

LEMMA FlattenOne ==
    ASSUME NEW T, NEW x \in Seq(T)
    PROVE  FlattenSeq(<<x>>) = x /\ <<x>> \in Seq(Seq(T))
  <1> DEFINE Q == Seq(T)
             f == [n \in 0..1 |-> IF n = 0 THEN <<>> ELSE x]
  <1>1. <<>> \o x = x
    BY ConcatEmptySeq
  <1>2. <<x>> \in Seq(Q) /\ Len(<<x>>) = 1 /\ <<x>>[1] = x
    <2>1. x \in Q
      OBVIOUS
    <2> HIDE DEF Q
    <2> QED BY <2>1
  <1>3. f[0] = <<>> /\ f[1] = x
    OBVIOUS
  <1> HIDE DEF f
  <1>4. Joins(f, <<x>>)
    <2>1. \A n \in 1..1 : n = 1 /\ n - 1 = 0
      OBVIOUS
    <2>2. \A n \in 1..Len(<<x>>) : f[n] = f[n - 1] \o <<x>>[n]
      BY <1>1, <1>2, <1>3, <2>1
    <2> QED BY <1>3, <2>2 DEF Joins
  <1> QED BY <1>2, <1>3, <1>4, FlattenBy

-----------------------------------------------------------------------------
(* What a pattern spells with the texts that its parameters capture. *)

Piece(pattern, value, i) == IF pattern[i] \in Parameters THEN value[i] ELSE <<pattern[i]>>
Spelled(pattern, value) == FlattenSeq([i \in DOMAIN pattern |-> Piece(pattern, value, i)])
LastParts(pattern, value, n) == [i \in 1..n |-> Piece(pattern, value, Len(pattern) - n + i)]
Rest(text, from) == SubSeq(text, from + 1, Len(text))
Reaches(x, rest, slash) == x = rest \/ (slash /\ Conc(x, <<"/">>) = rest)

LEMMA LastPartsStep ==
    ASSUME NEW U, NEW pattern \in Seq(U), NEW n \in 1..Len(pattern), NEW value,
           \A i \in LastPlaces(pattern, n) : value[i] \in Seq(U)
    PROVE  LET first == Piece(pattern, value, Len(pattern) - n + 1)
               rest  == FlattenSeq(LastParts(pattern, value, n - 1))
           IN  /\ first \in Seq(U) /\ rest \in Seq(U)
               /\ FlattenSeq(LastParts(pattern, value, n)) = Conc(first, rest)
  <1> DEFINE N == Len(pattern)
             Q == Seq(U)
             P(i) == Piece(pattern, value, i)
             first == P(N - n + 1)
             a == [i \in 1..n |-> P(N - n + i)]
             b == [i \in 1..(n - 1) |-> P(N - (n - 1) + i)]
  <1>1. \A i \in 1..N : i > N - n => P(i) \in Q
    <2> TAKE i \in 1..N
    <2> HAVE i > N - n
    <2>1. CASE pattern[i] \in Parameters
      BY <2>1 DEF LastPlaces, Places, Piece
    <2>2. CASE pattern[i] \notin Parameters
      BY <2>2 DEF Piece
    <2> QED BY <2>1, <2>2
  <1>2. N \in Nat /\ n \in Nat /\ n >= 1 /\ n <= N
    OBVIOUS
  <1> HIDE DEF N, Q, P
  <1>3. a \in Seq(Q) /\ Len(a) = n /\ \A i \in 1..n : a[i] = P(N - n + i)
    <2>1. \A i \in 1..n : N - n + i \in 1..N /\ N - n + i > N - n
      BY <1>2
    <2>2. \A i \in 1..n : a[i] \in Q
      BY <2>1, <1>1
    <2> QED BY <1>2, <2>2
  <1>4. b \in Seq(Q) /\ Len(b) = n - 1 /\ \A i \in 1..(n - 1) : b[i] = P(N - (n - 1) + i)
    <2>1. \A i \in 1..(n - 1) : N - (n - 1) + i \in 1..N /\ N - (n - 1) + i > N - n
      BY <1>2
    <2>2. \A i \in 1..(n - 1) : b[i] \in Q
      BY <2>1, <1>1
    <2>3. n - 1 \in Nat
      BY <1>2
    <2> QED BY <2>2, <2>3
  <1>5. first \in Q
    <2>1. N - n + 1 \in 1..N /\ N - n + 1 > N - n
      BY <1>2
    <2> QED BY <1>1, <2>1
  <1>6. \A i \in 2..n : a[i] = b[i - 1]
    <2> TAKE i \in 2..n
    <2>1. i - 1 \in 1..(n - 1) /\ i \in 1..n /\ N - (n - 1) + (i - 1) = N - n + i
      BY <1>2
    <2> QED BY <2>1, <1>3, <1>4
  <1>7. a[1] = first
    <2>1. 1 \in 1..n
      BY <1>2
    <2> QED BY <2>1, <1>3
  <1> HIDE DEF a, b, first
  <1>8. a = <<first>> \o b
    <2>1. <<first>> \in Seq(Q) /\ Len(<<first>>) = 1 /\ <<first>>[1] = first
      BY <1>5
    <2>2. /\ <<first>> \o b \in Seq(Q) /\ Len(<<first>> \o b) = 1 + (n - 1)
          /\ \A i \in 1..(1 + (n - 1)) : (<<first>> \o b)[i] = IF i <= 1 THEN first ELSE b[i - 1]
      BY <1>4, <2>1, ConcatProperties
    <2> DEFINE c == <<first>> \o b
    <2> HIDE DEF c
    <2>3. \A i \in 1..n : a[i] = c[i]
      <3> TAKE i \in 1..n
      <3>1. i \in 1..(1 + (n - 1)) /\ (i <= 1 => i = 1) /\ (~(i <= 1) => i \in 2..n)
        BY <1>2
      <3>2. c[i] = IF i <= 1 THEN first ELSE b[i - 1]
        BY <2>2, <3>1 DEF c
      <3> QED BY <3>1, <3>2, <1>6, <1>7
    <2>4. c \in Seq(Q) /\ Len(c) = n
      BY <2>2, <1>2 DEF c
    <2>5. a = c
      BY <1>3, <2>3, <2>4, SeqEqual
    <2> QED BY <2>5 DEF c
  <1>9. FlattenSeq(a) = FlattenSeq(<<first>>) \o FlattenSeq(b) /\ FlattenSeq(b) \in Q
    <2>1. <<first>> \in Seq(Q)
      BY <1>5
    <2> QED BY <1>4, <1>8, <2>1, FlattenConcat DEF Q
  <1>10. FlattenSeq(<<first>>) = first
    BY <1>5, FlattenOne DEF Q
  <1>11. a = LastParts(pattern, value, n) /\ b = LastParts(pattern, value, n - 1)
    BY DEF LastParts, a, b, P, N
  <1> QED BY <1>5, <1>9, <1>10, <1>11 DEF Conc, first, P, N, Q

\* One more piece in front.
LEMMA ReachesOn ==
    ASSUME NEW U, "/" \in U, NEW y, NEW x, NEW rest, y \in Seq(U) /\ x \in Seq(U) /\ rest \in Seq(U),
           NEW slash, Reaches(x, rest, slash)
    PROVE  Reaches(Conc(y, x), Conc(y, rest), slash)
  <1> DEFINE z == <<"/">>
  <1>1. z \in Seq(U)
    OBVIOUS
  <1> HIDE DEF z
  <1>2. Conc(Conc(y, x), z) = Conc(y, Conc(x, z))
    BY <1>1, ConcAssoc
  <1>3. Reaches(x, rest, slash) <=> x = rest \/ (slash /\ Conc(x, z) = rest)
    BY DEF Reaches, z
  <1>4. Reaches(Conc(y, x), Conc(y, rest), slash)
          <=> Conc(y, x) = Conc(y, rest) \/ (slash /\ Conc(Conc(y, x), z) = Conc(y, rest))
    BY DEF Reaches, z
  <1> QED BY <1>2, <1>3, <1>4

LEMMA RestSplits ==
    ASSUME NEW U, NEW text \in Seq(U), NEW from \in 0..Len(text), NEW to \in from..Len(text)
    PROVE  /\ Rest(text, from) = Conc(SubSeq(text, from + 1, to), Rest(text, to))
           /\ Rest(text, from) \in Seq(U) /\ Rest(text, to) \in Seq(U)
           /\ SubSeq(text, from + 1, to) \in Seq(U)
  <1>2. SubSeq(text, from + 1, to) \o SubSeq(text, to + 1, Len(text)) = SubSeq(text, from + 1, Len(text))
    <2> DEFINE a == from + 1
               n == Len(text)
    <2>1. a \in 1..(Len(text) + 1) /\ to \in (a - 1)..Len(text) /\ n \in to..Len(text)
      OBVIOUS
    <2> HIDE DEF a, n
    <2>2. SubSeq(text, a, to) \o SubSeq(text, to + 1, n) = SubSeq(text, a, n)
      BY <2>1, ConcatAdjacentSubSeq
    <2> QED BY <2>2 DEF a, n
  <1>3. \A i, j \in 0..Len(text) : SubSeq(text, i + 1, j) \in Seq(U)
    OBVIOUS
  <1>4. from \in 0..Len(text) /\ to \in 0..Len(text) /\ Len(text) \in 0..Len(text)
    OBVIOUS
  <1> QED BY <1>2, <1>3, <1>4 DEF Rest, Conc

\* A capture spells the text from where it begins.
LEMMA FittingSpells ==
    ASSUME NEW U, "/" \in U, NEW pattern \in Seq(U), NEW text \in Seq(U), NEW slash, NEW f,
           Fitting(f, U, pattern, text, slash)
    PROVE  \A n \in 0..Len(pattern), from \in 0..Len(text) : \A c \in f[n][from] :
              Reaches(FlattenSeq(LastParts(pattern, c, n)), Rest(text, from), slash)
  <1> DEFINE N == Len(pattern)
             Good(n) == \A from \in 0..Len(text) : \A c \in f[n][from] :
                          Reaches(FlattenSeq(LastParts(pattern, c, n)), Rest(text, from), slash)
             S == {n \in 0..N : Good(n)}
  <1>1. N \in Nat
    OBVIOUS
  <1>2. ASSUME NEW n \in 0..N, \A k \in 0..(n - 1) : k \in S PROVE n \in S
    <2>1. CASE n = 0
      <3>1. ASSUME NEW from \in 0..Len(text), NEW c \in f[0][from]
            PROVE  Reaches(FlattenSeq(LastParts(pattern, c, 0)), Rest(text, from), slash)
        <4>1. LastParts(pattern, c, 0) = <<>>
          BY DEF LastParts
        <4>2. FlattenSeq(LastParts(pattern, c, 0)) = <<>>
          BY <4>1 DEF FlattenSeq
        <4>3. from = Len(text) \/ (slash /\ Rest(text, from) = <<"/">>)
          BY <3>1 DEF Fitting, AtEnd, Rest
        <4>4. from = Len(text) => Rest(text, from) = <<>>
          BY DEF Rest
        <4>5. Conc(<<>>, <<"/">>) = <<"/">>
          BY DEF Conc
        <4> QED BY <4>2, <4>3, <4>4, <4>5 DEF Reaches
      <3> QED BY <2>1, <3>1
    <2>2. CASE n # 0
      <3>1. n \in 1..N /\ n - 1 \in 0..N /\ n - 1 \in 0..(n - 1)
        BY <2>2, <1>1
      <3>2. Good(n - 1)
        BY <3>1, <1>2
      <3> DEFINE k == N - n + 1
                 rest == f[n - 1]
      <3>3. f[n] = Extended(pattern, k, text, rest)
        BY <3>1 DEF Fitting
      <3>4. /\ f[n] \in [0..Len(text) -> SUBSET [LastPlaces(pattern, n) -> Seq(U)]]
            /\ rest \in [0..Len(text) -> SUBSET [LastPlaces(pattern, n - 1) -> Seq(U)]]
        BY <3>1 DEF Fitting
      <3>5. ASSUME NEW from \in 0..Len(text), NEW c \in f[n][from]
            PROVE  Reaches(FlattenSeq(LastParts(pattern, c, n)), Rest(text, from), slash)
        <4>1. c \in [LastPlaces(pattern, n) -> Seq(U)]
          BY <3>4, <3>5
        <4>2. \A i \in LastPlaces(pattern, n) : c[i] \in Seq(U)
          BY <4>1
        <4>3. /\ Piece(pattern, c, k) \in Seq(U)
              /\ FlattenSeq(LastParts(pattern, c, n - 1)) \in Seq(U)
              /\ FlattenSeq(LastParts(pattern, c, n))
                   = Conc(Piece(pattern, c, k), FlattenSeq(LastParts(pattern, c, n - 1)))
          BY <3>1, <4>2, LastPartsStep
        <4>4. \E to \in from..Len(text) :
                /\ Piece(pattern, c, k) = SubSeq(text, from + 1, to)
                /\ Reaches(FlattenSeq(LastParts(pattern, c, n - 1)), Rest(text, to), slash)
          <5>1. CASE pattern[k] \notin Parameters
            <6>1. from < Len(text) /\ text[from + 1] = pattern[k] /\ c \in rest[from + 1]
              <7>1. c \in Extended(pattern, k, text, rest)[from]
                BY <3>3, <3>5
              <7> QED BY <5>1, <7>1 DEF Extended
            <6>2. from + 1 \in from..Len(text) /\ from + 1 \in 0..Len(text)
              BY <6>1
            <6>3. SubSeq(text, from + 1, from + 1) = <<text[from + 1]>>
              <7> DEFINE a == from + 1
                         t == SubSeq(text, a, a)
                         u == <<text[a]>>
              <7>1. a \in 1..Len(text) /\ a \in Int /\ text[a] \in U
                BY <6>1
              <7> HIDE DEF a
              <7>2. t \in Seq(U) /\ Len(t) = 1 /\ t[1] = text[a]
                <8>1. \A i \in a..a : text[i] \in U
                  BY <7>1
                <8>2. /\ t \in Seq(U) /\ Len(t) = IF a <= a THEN a - a + 1 ELSE 0
                      /\ \A i \in 1..(a - a + 1) : t[i] = text[a + i - 1]
                  BY <7>1, <8>1, SubSeqProperties
                <8> HIDE DEF t
                <8>3. 1 \in 1..(a - a + 1) /\ a + 1 - 1 = a
                  BY <7>1
                <8>4. t[1] = text[a + 1 - 1] /\ Len(t) = a - a + 1
                  BY <7>1, <8>2, <8>3
                <8>5. a - a + 1 = 1
                  BY <7>1
                <8> QED BY <8>2, <8>3, <8>4, <8>5
              <7>3. u \in Seq(U) /\ Len(u) = 1 /\ u[1] = text[a]
                BY <7>1
              <7> HIDE DEF t, u
              <7>4. t = u
                <8>1. \A i \in 1..Len(t) : t[i] = u[i]
                  BY <7>2, <7>3
                <8> QED BY <7>2, <7>3, <8>1, SeqEqual
              <7> QED BY <7>4 DEF t, u, a
            <6> QED BY <3>2, <5>1, <6>1, <6>2, <6>3 DEF Piece
          <5>2. CASE pattern[k] \in Parameters
            <6>0. PICK to \in Ends(pattern[k], text, from) : \E d \in rest[to] :
                    c = [i \in {k} \cup DOMAIN d |-> IF i = k THEN SubSeq(text, from + 1, to) ELSE d[i]]
              <7>1. c \in Extended(pattern, k, text, rest)[from]
                BY <3>3, <3>5
              <7> HIDE DEF k, rest
              <7> QED BY <5>2, <7>1 DEF Extended
            <6>1. PICK d \in rest[to] :
                    c = [i \in {k} \cup DOMAIN d |-> IF i = k THEN SubSeq(text, from + 1, to) ELSE d[i]]
              BY <6>0
            <6>2. to \in from..Len(text) /\ to \in 0..Len(text)
              BY <6>0 DEF Ends
            <6>3. d \in [LastPlaces(pattern, n - 1) -> Seq(U)]
              BY <3>4, <6>2
            <6>4. c[k] = SubSeq(text, from + 1, to) /\ \A i \in LastPlaces(pattern, n - 1) : c[i] = d[i]
              <7>1. k \notin LastPlaces(pattern, n - 1)
                BY <3>1, <1>1 DEF LastPlaces
              <7> HIDE DEF k
              <7> QED BY <6>1, <6>3, <7>1
            <6>5. LastParts(pattern, c, n - 1) = LastParts(pattern, d, n - 1)
              <7>1. \A i \in 1..(n - 1) : Piece(pattern, c, N - (n - 1) + i) = Piece(pattern, d, N - (n - 1) + i)
                <8> TAKE i \in 1..(n - 1)
                <8>1. N - (n - 1) + i \in 1..N /\ N - (n - 1) + i > N - (n - 1)
                  BY <3>1, <1>1
                <8> QED BY <6>4, <8>1 DEF Piece, LastPlaces, Places
              <7> QED BY <7>1 DEF LastParts
            <6>6. Reaches(FlattenSeq(LastParts(pattern, d, n - 1)), Rest(text, to), slash)
              BY <3>2, <6>1, <6>2
            <6> QED BY <5>2, <6>2, <6>4, <6>5, <6>6 DEF Piece
          <5> QED BY <5>1, <5>2
        <4>5. PICK to \in from..Len(text) :
                /\ Piece(pattern, c, k) = SubSeq(text, from + 1, to)
                /\ Reaches(FlattenSeq(LastParts(pattern, c, n - 1)), Rest(text, to), slash)
          BY <4>4
        <4>6. Rest(text, from) = Conc(Piece(pattern, c, k), Rest(text, to)) /\ Rest(text, to) \in Seq(U)
          BY <4>5, RestSplits
        <4> QED BY <4>3, <4>5, <4>6, ReachesOn
      <3> QED BY <3>5
    <2> QED BY <2>1, <2>2
  <1> HIDE DEF S, N
  <1>3. 0..N \subseteq S
    BY <1>1, <1>2, UpTo
  <1> QED BY <1>3 DEF S, N

LEMMA CapturesSpell ==
    ASSUME NEW U, "/" \in U, NEW pattern \in Seq(U), NEW text \in Seq(U), NEW slash,
           NEW c \in Captures(pattern, text, slash)
    PROVE  Reaches(Spelled(pattern, c), text, slash)
  <1>1. PICK f : Fitting(f, U, pattern, text, slash) /\ Captures(pattern, text, slash) = f[Len(pattern)][0]
    BY CapturesFit
  <1>2. Len(pattern) \in 0..Len(pattern) /\ 0 \in 0..Len(text) /\ Len(pattern) \in Nat
    OBVIOUS
  <1>3. Reaches(FlattenSeq(LastParts(pattern, c, Len(pattern))), Rest(text, 0), slash)
    BY <1>1, <1>2, FittingSpells
  <1>4. Rest(text, 0) = text
    BY DEF Rest
  <1>5. LastParts(pattern, c, Len(pattern)) = [i \in DOMAIN pattern |-> Piece(pattern, c, i)]
    <2>1. DOMAIN pattern = 1..Len(pattern) /\ \A i \in 1..Len(pattern) : Len(pattern) - Len(pattern) + i = i
      BY <1>2
    <2> QED BY <2>1 DEF LastParts
  <1> QED BY <1>3, <1>4, <1>5 DEF Spelled

-----------------------------------------------------------------------------
(* A prefix leaves no slash over of what it may match. *)

Slashes(s) == {i \in DOMAIN s : s[i] = "/"}

LEMMA SlashesFinite ==
    ASSUME NEW U, NEW s, s \in Seq(U)
    PROVE  IsFiniteSet(Slashes(s)) /\ SlashCount(s) = Cardinality(Slashes(s)) /\ SlashCount(s) \in Nat
  <1>1. Len(s) \in Nat /\ DOMAIN s = 1..Len(s)
    OBVIOUS
  <1>2. IsFiniteSet(1..Len(s))
    BY <1>1, FS_Interval
  <1>3. IsFiniteSet(Slashes(s))
    BY <1>1, <1>2, FS_Subset DEF Slashes
  <1> QED BY <1>3, FS_CardinalityType DEF SlashCount, Slashes

LEMMA SlashesOfLonger ==
    ASSUME NEW U, NEW x, NEW y, x \in Seq(U) /\ y \in Seq(U)
    PROVE  SlashCount(x) <= SlashCount(Conc(x, y))
  <1>1. Conc(x, y) \in Seq(U)
    BY ConcTyped
  <1>2. Slashes(x) \subseteq Slashes(Conc(x, y))
    BY DEF Slashes, Conc
  <1> QED BY <1>1, <1>2, SlashesFinite, FS_Subset

LEMMA SlashMore ==
    ASSUME NEW U, "/" \in U, NEW x, x \in Seq(U)
    PROVE  SlashCount(x) + 1 <= SlashCount(Conc(x, <<"/">>))
  <1> DEFINE y == Conc(x, <<"/">>)
             k == Len(x) + 1
  <1>1. y \in Seq(U) /\ Len(x) \in Nat
    BY DEF Conc
  <1>2. Slashes(x) \cup {k} \subseteq Slashes(y) /\ k \notin Slashes(x)
    BY DEF Slashes, Conc
  <1> HIDE DEF y, k
  <1>3. Cardinality(Slashes(x) \cup {k}) = Cardinality(Slashes(x)) + 1
    BY <1>2, SlashesFinite, FS_AddElement
  <1>4. Cardinality(Slashes(x) \cup {k}) <= Cardinality(Slashes(y))
    BY <1>1, <1>2, SlashesFinite, FS_Subset
  <1>5. SlashCount(x) + 1 <= SlashCount(y)
    BY <1>1, <1>3, <1>4, SlashesFinite
  <1> QED BY <1>5 DEF y

\* What a prefix may match has no more slashes than the prefix.
LEMMA CutSlashes ==
    ASSUME NEW U, NEW path \in Seq(U), NEW n \in Nat, n # 0
    PROVE  SlashCount(Cut(path, n)) <= n /\ Cut(path, n) \in Seq(U)
  <1> DEFINE L == Len(path)
             C(i) == {j \in 2..i : path[j] = "/"}
             nth == {i \in 2..L : path[i] = "/" /\ n > 0 /\ Cardinality(C(i)) = n}
  <1>1. L \in Nat /\ DOMAIN path = 1..L
    OBVIOUS
  <1>2. \A i \in Nat : IsFiniteSet(C(i)) /\ Cardinality(C(i)) \in Nat
    <2> TAKE i \in Nat
    <2>1. IsFiniteSet(2..i)
      BY FS_Interval
    <2>2. C(i) \subseteq 2..i
      OBVIOUS
    <2> HIDE DEF C
    <2>3. IsFiniteSet(C(i))
      BY <2>1, <2>2, FS_Subset
    <2> QED BY <2>3, FS_CardinalityType
  <1>3. \A i \in 2..L : IF path[i] = "/" THEN Cardinality(C(i)) = Cardinality(C(i - 1)) + 1
                                         ELSE C(i) = C(i - 1)
    <2> TAKE i \in 2..L
    <2>1. CASE path[i] = "/"
      <3>1. C(i) = C(i - 1) \cup {i} /\ i \notin C(i - 1) /\ i - 1 \in Nat
        BY <2>1
      <3> HIDE DEF C
      <3> QED BY <2>1, <3>1, <1>2, FS_AddElement
    <2>2. CASE path[i] # "/"
      BY <2>2
    <2> QED BY <2>1, <2>2
  <1>4. Cut(path, n) = IF nth = {} THEN path ELSE SubSeq(path, 1, (CHOOSE i \in nth : TRUE) - 1)
    BY DEF Cut
  <1>5. ASSUME NEW text \in Seq(U), Len(text) <= L, \A i \in 1..Len(text) : text[i] = path[i]
        PROVE  SlashCount(text) <= Cardinality(C(Len(text))) + 1
    <2>1. Len(text) \in Nat
      OBVIOUS
    <2>2. Slashes(text) \subseteq C(Len(text)) \cup {1}
      BY <1>5 DEF Slashes
    <2>3. 1 \notin C(Len(text))
      OBVIOUS
    <2> HIDE DEF C
    <2> DEFINE A == C(Len(text))
    <2>4. IsFiniteSet(A)
      BY <1>2, <2>1
    <2> HIDE DEF A
    <2>5. IsFiniteSet(A \cup {1}) /\ Cardinality(A \cup {1}) <= Cardinality(A) + 1
      <3>1. 1 \notin A
        BY <2>3 DEF A
      <3>2. IsFiniteSet(A \cup {1}) /\ Cardinality(A \cup {1}) = Cardinality(A) + 1
        BY <2>4, <3>1, FS_AddElement
      <3> QED BY <3>2, <2>4, FS_CardinalityType
    <2>6. Cardinality(Slashes(text)) <= Cardinality(A \cup {1})
      BY <2>2, <2>5, FS_Subset DEF A
    <2>7. SlashCount(text) = Cardinality(Slashes(text)) /\ SlashCount(text) \in Nat
      BY SlashesFinite
    <2> QED BY <2>4, <2>5, <2>6, <2>7, FS_CardinalityType DEF A
  <1>6. C(1) = {} /\ C(0) = {}
    OBVIOUS
  <1> HIDE DEF C
  <1>7. Cardinality(C(1)) = 0 /\ Cardinality(C(0)) = 0
    BY <1>6, FS_EmptySet
  <1>8. CASE nth = {}
    <2> DEFINE S == {i \in 0..L : Cardinality(C(i)) < n}
    <2>1. ASSUME NEW i \in 0..L, \A k \in 0..(i - 1) : k \in S PROVE i \in S
      <3>1. CASE i \in {0, 1}
        BY <3>1, <1>7
      <3>2. CASE i \notin {0, 1}
        <4>1. i \in 2..L /\ i - 1 \in 0..(i - 1) /\ i - 1 \in Nat
          BY <3>2
        <4>2. Cardinality(C(i - 1)) < n
          BY <4>1, <2>1
        <4>3. CASE path[i] # "/"
          BY <4>1, <4>2, <4>3, <1>3
        <4>4. CASE path[i] = "/"
          <5>1. Cardinality(C(i)) = Cardinality(C(i - 1)) + 1 /\ Cardinality(C(i - 1)) \in Nat
            BY <4>1, <4>4, <1>2, <1>3
          <5>2. Cardinality(C(i)) # n
            BY <4>1, <4>4, <1>8
          <5> QED BY <4>2, <5>1, <5>2
        <4> QED BY <4>3, <4>4
      <3> QED BY <3>1, <3>2
    <2> HIDE DEF S, L
    <2>2. L \in S
      <3>1. 0..L \subseteq S
        BY <1>1, <2>1, UpTo
      <3> QED BY <1>1, <3>1
    <2>3. Cardinality(C(L)) < n /\ Cardinality(C(L)) \in Nat
      BY <2>2, <1>1, <1>2 DEF S
    <2>4. SlashCount(path) <= Cardinality(C(L)) + 1 /\ SlashCount(path) \in Nat
      BY <1>1, <1>5, SlashesFinite DEF L
    <2> QED BY <1>4, <1>8, <2>3, <2>4
  <1>9. CASE nth # {}
    <2>1. PICK k \in nth : k = CHOOSE i \in nth : TRUE
      <3> HIDE DEF nth
      <3> QED BY <1>9
    <2>2. k \in 2..L /\ path[k] = "/" /\ Cardinality(C(k)) = n
      OBVIOUS
    <2> DEFINE text == SubSeq(path, 1, k - 1)
    <2>3. Cut(path, n) = text
      <3> HIDE DEF nth
      <3> QED BY <1>4, <1>9, <2>1
    <2>4. text \in Seq(U) /\ Len(text) = k - 1 /\ \A i \in 1..Len(text) : text[i] = path[i]
      BY <2>2
    <2> HIDE DEF text
    <2>5. SlashCount(text) <= Cardinality(C(k - 1)) + 1 /\ SlashCount(text) \in Nat
      BY <1>5, <2>2, <2>4, SlashesFinite
    <2>6. n = Cardinality(C(k - 1)) + 1
      BY <2>2, <1>3
    <2> QED BY <2>3, <2>4, <2>5, <2>6
  <1> QED BY <1>8, <1>9

LEMMA PartsTyped ==
    ASSUME NEW U, NEW pattern, pattern \in Seq(U), NEW value,
           \A i \in Places(pattern) : value[i] \in Seq(U)
    PROVE  LET parts == [i \in DOMAIN pattern |-> Piece(pattern, value, i)]
           IN  /\ parts \in Seq(Seq(U)) /\ Len(parts) = Len(pattern)
               /\ \A i \in 1..Len(pattern) : parts[i] = Piece(pattern, value, i)
               /\ Spelled(pattern, value) \in Seq(U)
               /\ Spelled(pattern, value) = FlattenSeq(parts)
  <1> DEFINE N == Len(pattern)
             Q == Seq(U)
             P(i) == Piece(pattern, value, i)
             parts == [i \in 1..N |-> P(i)]
  <1>1. N \in Nat /\ DOMAIN pattern = 1..N
    OBVIOUS
  <1>2. \A i \in 1..N : P(i) \in Q
    <2> TAKE i \in 1..N
    <2>1. CASE pattern[i] \in Parameters
      BY <2>1 DEF Places, Piece
    <2>2. CASE pattern[i] \notin Parameters
      BY <2>2 DEF Piece
    <2> QED BY <2>1, <2>2
  <1> HIDE DEF N, Q, P
  <1>3. parts \in Seq(Q) /\ Len(parts) = N /\ \A i \in 1..N : parts[i] = P(i)
    BY <1>1, <1>2
  <1>4. parts = [i \in DOMAIN pattern |-> Piece(pattern, value, i)]
    BY <1>1 DEF P
  <1> HIDE DEF parts
  <1>5. Spelled(pattern, value) = FlattenSeq(parts)
    BY <1>4 DEF Spelled
  <1>6. FlattenSeq(parts) \in Seq(U)
    <2>1. PICK f \in [0..Len(parts) -> Seq(U)] : FlattenSeq(parts) = f[Len(parts)]
      BY <1>3, FlattenIs DEF Q
    <2> QED BY <2>1, <1>1, <1>3
  <1> QED BY <1>3, <1>4, <1>5, <1>6 DEF N, P, Q

LEMMA SpelledSlashes ==
    ASSUME NEW U, "/" \in U, NEW pattern, pattern \in Seq(U), NEW value,
           \A i \in Places(pattern) : value[i] \in Seq(U)
    PROVE  SlashCount(pattern) <= SlashCount(Spelled(pattern, value))
  <1> DEFINE N == Len(pattern)
             P(i) == Piece(pattern, value, i)
             parts == [i \in DOMAIN pattern |-> P(i)]
             C(n) == {i \in 1..n : pattern[i] = "/"}
  <1>1. N \in Nat /\ DOMAIN pattern = 1..N
    OBVIOUS
  <1>2. /\ parts \in Seq(Seq(U)) /\ Len(parts) = N /\ \A i \in 1..N : parts[i] = P(i)
        /\ Spelled(pattern, value) = FlattenSeq(parts)
    BY PartsTyped
  <1>3. \A i \in 1..N : pattern[i] = "/" => P(i) = <<"/">>
    BY ParametersAssumption DEF Piece
  <1> HIDE DEF parts, P
  <1>4. PICK f \in [0..N -> Seq(U)] : Joins(f, parts) /\ FlattenSeq(parts) = f[N]
    BY <1>2, FlattenIs
  <1>5. f[0] = <<>> /\ \A n \in 1..N : f[n] = Conc(f[n - 1], P(n))
    BY <1>2, <1>4 DEF Joins, Conc
  <1>6. \A n \in 1..N : P(n) \in Seq(U)
    BY <1>2
  <1>7. C(0) = {} /\ \A n \in 1..N : IF pattern[n] = "/" THEN C(n) = C(n - 1) \cup {n} /\ n \notin C(n - 1)
                                                       ELSE C(n) = C(n - 1)
    <2>1. C(0) = {}
      OBVIOUS
    <2>2. ASSUME NEW n \in 1..N PROVE IF pattern[n] = "/" THEN C(n) = C(n - 1) \cup {n} /\ n \notin C(n - 1)
                                                       ELSE C(n) = C(n - 1)
      <3>1. 1..n = (1..(n - 1)) \cup {n} /\ n \notin 1..(n - 1)
        BY <1>1
      <3> QED BY <3>1
    <2> QED BY <2>1, <2>2
  <1>8. \A n \in Nat : IsFiniteSet(C(n)) /\ Cardinality(C(n)) \in Nat
    <2> TAKE n \in Nat
    <2>1. IsFiniteSet(1..n)
      BY FS_Interval
    <2>2. C(n) \subseteq 1..n
      OBVIOUS
    <2> HIDE DEF C
    <2>3. IsFiniteSet(C(n))
      BY <2>1, <2>2, FS_Subset
    <2> QED BY <2>3, FS_CardinalityType
  <1>9. SlashCount(pattern) = Cardinality(C(N))
    BY <1>1 DEF SlashCount
  <1> HIDE DEF C, N
  <1>10. \A n \in 0..N : f[n] \in Seq(U) /\ SlashCount(f[n]) \in Nat
    BY <1>4, SlashesFinite
  <1> DEFINE S == {n \in 0..N : Cardinality(C(n)) <= SlashCount(f[n])}
  <1>11. ASSUME NEW n \in 0..N, \A k \in 0..(n - 1) : k \in S PROVE n \in S
    <2>1. CASE n = 0
      <3>1. Cardinality(C(0)) = 0
        BY <1>7, FS_EmptySet
      <3> QED BY <2>1, <3>1, <1>10
    <2>2. CASE n # 0
      <3>1. n \in 1..N /\ n - 1 \in 0..N /\ n - 1 \in 0..(n - 1) /\ n - 1 \in Nat
        BY <2>2, <1>1
      <3>2. Cardinality(C(n - 1)) <= SlashCount(f[n - 1])
        BY <3>1, <1>11
      <3>3. f[n - 1] \in Seq(U) /\ P(n) \in Seq(U) /\ f[n] = Conc(f[n - 1], P(n))
        BY <3>1, <1>5, <1>6, <1>10
      <3>4. CASE pattern[n] # "/"
        <4>1. C(n) = C(n - 1)
          BY <3>1, <3>4, <1>7
        <4>2. SlashCount(f[n - 1]) <= SlashCount(f[n])
          BY <3>3, SlashesOfLonger
        <4> QED BY <4>1, <4>2, <3>1, <3>2, <1>8, <1>10
      <3>5. CASE pattern[n] = "/"
        <4>1. C(n) = C(n - 1) \cup {n} /\ n \notin C(n - 1) /\ IsFiniteSet(C(n - 1))
          BY <3>1, <3>5, <1>7, <1>8
        <4>2. Cardinality(C(n)) = Cardinality(C(n - 1)) + 1
          BY <4>1, FS_AddElement
        <4>3. SlashCount(f[n - 1]) + 1 <= SlashCount(f[n])
          <5>1. f[n] = Conc(f[n - 1], <<"/">>)
            BY <3>1, <3>3, <3>5, <1>3
          <5>2. SlashCount(f[n - 1]) + 1 <= SlashCount(Conc(f[n - 1], <<"/">>))
            BY <3>3, SlashMore
          <5> QED BY <5>1, <5>2
        <4> QED BY <4>2, <4>3, <3>1, <3>2, <1>8, <1>10
      <3> QED BY <3>4, <3>5
    <2> QED BY <2>1, <2>2
  <1> HIDE DEF S
  <1>12. N \in S
    <2>1. 0..N \subseteq S
      BY <1>1, <1>11, UpTo
    <2> QED BY <2>1, <1>1
  <1> QED BY <1>2, <1>4, <1>9, <1>12 DEF S

\* A prefix with a slash that fits what it may match spells just that, and not nothing.
LEMMA PrefixSpells ==
    ASSUME NEW U, "/" \in U, NEW prefix, prefix \in Seq(U), "/" \in ToSet(prefix), NEW path, path \in Seq(U),
           NEW c \in Captures(prefix, Cut(path, SlashCount(prefix)), TRUE)
    PROVE  /\ Spelled(prefix, c) = Cut(path, SlashCount(prefix))
           /\ Cut(path, SlashCount(prefix)) # <<>>
  <1> DEFINE n == SlashCount(prefix)
             text == Cut(path, n)
             x == Spelled(prefix, c)
  <1>1. n \in Nat /\ n # 0
    <2>1. IsFiniteSet(Slashes(prefix)) /\ n = Cardinality(Slashes(prefix)) /\ n \in Nat
      BY SlashesFinite
    <2>2. Slashes(prefix) # {}
      BY DEF Slashes, ToSet
    <2> QED BY <2>1, <2>2, FS_EmptySet
  <1>2. text \in Seq(U) /\ SlashCount(text) <= n
    <2> HIDE DEF n
    <2> QED BY <1>1, CutSlashes
  <1>3. Reaches(x, text, TRUE)
    BY <1>2, CapturesSpell
  <1>4. \A i \in Places(prefix) : c[i] \in Seq(U)
    <2>1. Captures(prefix, text, TRUE) \subseteq [Places(prefix) -> Seq(U)]
      BY <1>2, CapturesTyped
    <2>2. c \in [Places(prefix) -> Seq(U)]
      BY <2>1
    <2> QED BY <2>2
  <1>5. x \in Seq(U) /\ n <= SlashCount(x)
    BY <1>4, PartsTyped, SpelledSlashes
  <1> HIDE DEF n, text, x
  <1>6. SlashCount(x) + 1 <= SlashCount(Conc(x, <<"/">>))
    BY <1>5, SlashMore
  <1>7. SlashCount(x) \in Nat /\ SlashCount(text) \in Nat
    BY <1>2, <1>5, SlashesFinite
  <1>8. Conc(x, <<"/">>) # text
    BY <1>1, <1>2, <1>5, <1>6, <1>7
  <1>9. x = text
    BY <1>3, <1>8 DEF Reaches
  <1>10. text # <<>>
    <2>1. SlashCount(<<>>) = 0
      <3>1. <<>> \in Seq(U) /\ Slashes(<<>>) = {}
        BY DEF Slashes
      <3> QED BY <3>1, SlashesFinite, FS_EmptySet
    <2> QED BY <2>1, <1>1, <1>5, <1>7, <1>9
  <1> QED BY <1>9, <1>10 DEF n, text, x

-----------------------------------------------------------------------------
(* The parameters by their names. *)

\* What a pattern reads as when its parameters have the texts they are given by name.
Read(pattern, params) == Spelled(pattern, [i \in Places(pattern) |-> params[pattern[i]]])

Distinct(pattern) == \A i, j \in Places(pattern) : pattern[i] = pattern[j] => i = j

Written(token, params) == IF token \in Parameters THEN params[token] ELSE <<token>>

LEMMA SpelledSame ==
    ASSUME NEW U, NEW pattern, pattern \in Seq(U), NEW v, NEW w, \A i \in Places(pattern) : v[i] = w[i]
    PROVE  Spelled(pattern, v) = Spelled(pattern, w)
  <1>1. \A i \in DOMAIN pattern : Piece(pattern, v, i) = Piece(pattern, w, i)
    BY DEF Piece, Places
  <1>2. [i \in DOMAIN pattern |-> Piece(pattern, v, i)] = [i \in DOMAIN pattern |-> Piece(pattern, w, i)]
    BY <1>1
  <1> QED BY <1>2 DEF Spelled

LEMMA ReadParts ==
    ASSUME NEW U, NEW pattern, pattern \in Seq(U), NEW params \in [Parameters -> Seq(U)]
    PROVE  LET parts == [i \in DOMAIN pattern |-> Written(pattern[i], params)]
           IN  /\ parts \in Seq(Seq(U)) /\ Len(parts) = Len(pattern)
               /\ \A i \in 1..Len(pattern) : parts[i] = Written(pattern[i], params)
               /\ Read(pattern, params) = FlattenSeq(parts)
               /\ Read(pattern, params) \in Seq(U)
  <1> DEFINE value == [i \in Places(pattern) |-> params[pattern[i]]]
             parts == [i \in DOMAIN pattern |-> Piece(pattern, value, i)]
  <1>1. \A i \in Places(pattern) : value[i] \in Seq(U) /\ value[i] = params[pattern[i]]
    BY DEF Places
  <1> HIDE DEF value
  <1>2. /\ parts \in Seq(Seq(U)) /\ Len(parts) = Len(pattern)
        /\ \A i \in 1..Len(pattern) : parts[i] = Piece(pattern, value, i)
        /\ Spelled(pattern, value) \in Seq(U) /\ Spelled(pattern, value) = FlattenSeq(parts)
    <2>1. \A i \in Places(pattern) : value[i] \in Seq(U)
      BY <1>1
    <2> QED BY <2>1, PartsTyped
  <1>3. \A i \in DOMAIN pattern : Piece(pattern, value, i) = Written(pattern[i], params)
    BY <1>1 DEF Piece, Written, Places
  <1>4. parts = [i \in DOMAIN pattern |-> Written(pattern[i], params)]
    BY <1>3
  <1>5. DOMAIN pattern = 1..Len(pattern)
    OBVIOUS
  <1> HIDE DEF parts
  <1>6. Read(pattern, params) = Spelled(pattern, value)
    BY DEF Read, value
  <1> QED BY <1>2, <1>3, <1>4, <1>5, <1>6

LEMMA ReadConcat ==
    ASSUME NEW U, NEW a, NEW b, a \in Seq(U) /\ b \in Seq(U), NEW params \in [Parameters -> Seq(U)]
    PROVE  Read(Conc(a, b), params) = Conc(Read(a, params), Read(b, params))
  <1> DEFINE Q == Seq(U)
             W(x) == Written(x, params)
             c == Conc(a, b)
             pa == [i \in DOMAIN a |-> W(a[i])]
             pb == [i \in DOMAIN b |-> W(b[i])]
             pc == [i \in DOMAIN c |-> W(c[i])]
  <1>1. /\ c \in Seq(U) /\ Len(c) = Len(a) + Len(b) /\ Len(a) \in Nat /\ Len(b) \in Nat
        /\ \A i \in 1..(Len(a) + Len(b)) : c[i] = IF i <= Len(a) THEN a[i] ELSE b[i - Len(a)]
    BY ConcatProperties DEF Conc
  <1>2. /\ pa \in Seq(Q) /\ Len(pa) = Len(a) /\ (\A i \in 1..Len(a) : pa[i] = W(a[i]))
        /\ Read(a, params) = FlattenSeq(pa)
    BY ReadParts
  <1>3. /\ pb \in Seq(Q) /\ Len(pb) = Len(b) /\ (\A i \in 1..Len(b) : pb[i] = W(b[i]))
        /\ Read(b, params) = FlattenSeq(pb)
    BY ReadParts
  <1> HIDE DEF c
  <1>4. /\ pc \in Seq(Q) /\ Len(pc) = Len(c) /\ (\A i \in 1..Len(c) : pc[i] = W(c[i]))
        /\ Read(c, params) = FlattenSeq(pc)
    <2>1. c \in Seq(U)
      BY <1>1
    <2> QED BY <2>1, ReadParts
  <1> HIDE DEF pa, pb, pc, W, Q
  <1>5. pc = pa \o pb
    <2> DEFINE d == pa \o pb
    <2>1. /\ d \in Seq(Q) /\ Len(d) = Len(pa) + Len(pb)
          /\ \A i \in 1..(Len(pa) + Len(pb)) : d[i] = IF i <= Len(pa) THEN pa[i] ELSE pb[i - Len(pa)]
      <3>1. pa \in Seq(Q) /\ pb \in Seq(Q)
        BY <1>2, <1>3
      <3> QED BY <3>1, ConcatProperties
    <2> HIDE DEF d
    <2>2. \A i \in 1..Len(pc) : pc[i] = d[i]
      <3> TAKE i \in 1..Len(pc)
      <3>1. i \in 1..(Len(a) + Len(b)) /\ i \in 1..Len(c) /\ i \in 1..(Len(pa) + Len(pb))
        BY <1>1, <1>2, <1>3, <1>4
      <3>2. i <= Len(a) => i \in 1..Len(a)
        BY <1>1, <3>1
      <3>3. ~(i <= Len(a)) => i - Len(a) \in 1..Len(b)
        BY <1>1, <3>1
      <3>4. pc[i] = W(c[i]) /\ c[i] = IF i <= Len(a) THEN a[i] ELSE b[i - Len(a)]
        BY <1>1, <1>4, <3>1
      <3>5. d[i] = IF i <= Len(a) THEN pa[i] ELSE pb[i - Len(a)]
        BY <1>2, <1>3, <2>1, <3>1
      <3>6. i <= Len(a) => pa[i] = W(a[i])
        BY <1>2, <3>2
      <3>7. ~(i <= Len(a)) => pb[i - Len(a)] = W(b[i - Len(a)])
        BY <1>3, <3>3
      <3> QED BY <3>4, <3>5, <3>6, <3>7
    <2>3. Len(pc) = Len(d)
      BY <1>1, <1>2, <1>3, <1>4, <2>1
    <2>4. pc = d
      BY <1>4, <2>1, <2>2, <2>3, SeqEqual
    <2> QED BY <2>4 DEF d
  <1>6. FlattenSeq(pa \o pb) = FlattenSeq(pa) \o FlattenSeq(pb)
    BY <1>2, <1>3, FlattenConcat DEF Q
  <1> QED BY <1>2, <1>3, <1>4, <1>5, <1>6 DEF Conc, c

\* Captures that were filed under their names read as themselves.
LEMMA MergeReads ==
    ASSUME NEW U, NEW pattern, pattern \in Seq(U), Distinct(pattern), NEW params, NEW captured
    PROVE  Read(pattern, Merge(params, pattern, captured)) = Spelled(pattern, captured)
  <1> DEFINE at(p) == {i \in Places(pattern) : pattern[i] = p}
             merged == Merge(params, pattern, captured)
             value == [i \in Places(pattern) |-> merged[pattern[i]]]
  <1>1. merged = [p \in Parameters |-> IF at(p) = {} THEN params[p] ELSE captured[Max(at(p))]]
    BY DEF Merge
  <1>2. ASSUME NEW i \in Places(pattern) PROVE value[i] = captured[i]
    <2>1. at(pattern[i]) = {i}
      BY DEF Distinct
    <2>2. i \in Int /\ pattern[i] \in Parameters
      BY DEF Places
    <2>3. Max({i}) = i
      BY <2>2 DEF Max
    <2> HIDE DEF at, merged
    <2>4. merged[pattern[i]] = captured[Max(at(pattern[i]))]
      BY <1>1, <2>1, <2>2
    <2>5. Max(at(pattern[i])) = i
      BY <2>1, <2>3
    <2> QED BY <2>4, <2>5
  <1> HIDE DEF value
  <1>3. Spelled(pattern, value) = Spelled(pattern, captured)
    BY <1>2, SpelledSame
  <1> QED BY <1>3 DEF Read, value

LEMMA MergeKeeps ==
    ASSUME NEW pattern, NEW params, NEW captured, NEW p \in Parameters, p \notin ToSet(pattern)
    PROVE  Merge(params, pattern, captured)[p] = params[p]
  <1> DEFINE at(q) == {i \in Places(pattern) : pattern[i] = q}
  <1>1. at(p) = {}
    BY DEF Places, ToSet
  <1>2. Merge(params, pattern, captured)
          = [q \in Parameters |-> IF at(q) = {} THEN params[q] ELSE captured[Max(at(q))]]
    BY DEF Merge
  <1> HIDE DEF at
  <1> QED BY <1>1, <1>2

LEMMA DistinctParts ==
    ASSUME NEW U, NEW a, NEW b, a \in Seq(U) /\ b \in Seq(U), Distinct(Conc(a, b))
    PROVE  /\ Distinct(a) /\ Distinct(b)
           /\ \A i \in Places(a) : a[i] \notin ToSet(b)
  <1> DEFINE c == Conc(a, b)
             n == Len(a)
  <1>1. /\ c \in Seq(U) /\ Len(c) = n + Len(b) /\ n \in Nat /\ Len(b) \in Nat
        /\ DOMAIN a = 1..n /\ DOMAIN b = 1..Len(b) /\ DOMAIN c = 1..(n + Len(b))
        /\ \A i \in 1..(n + Len(b)) : c[i] = IF i <= n THEN a[i] ELSE b[i - n]
    BY ConcatProperties DEF Conc
  <1> HIDE DEF c, n
  <1>2. \A i \in DOMAIN a : i \in DOMAIN c /\ c[i] = a[i] /\ i <= n
    BY <1>1
  <1>3. \A i \in DOMAIN b : n + i \in DOMAIN c /\ c[n + i] = b[i] /\ ~(n + i <= n)
    <2> TAKE i \in DOMAIN b
    <2>1. i \in 1..Len(b) /\ n + i \in 1..(n + Len(b)) /\ ~(n + i <= n) /\ n + i - n = i
      BY <1>1
    <2> QED BY <1>1, <2>1
  <1>4. \A i, j \in DOMAIN c : c[i] \in Parameters /\ c[i] = c[j] => i = j
    BY DEF Distinct, Places, c
  <1>5. Distinct(a)
    BY <1>2, <1>4 DEF Distinct, Places
  <1>6. Distinct(b)
    <2> SUFFICES ASSUME NEW i \in Places(b), NEW j \in Places(b), b[i] = b[j] PROVE i = j
      BY DEF Distinct
    <2>1. i \in DOMAIN b /\ j \in DOMAIN b /\ b[i] \in Parameters
      BY DEF Places
    <2>2. n + i = n + j
      BY <1>3, <1>4, <2>1
    <2>3. i \in Nat /\ j \in Nat /\ n \in Nat
      BY <2>1, <1>1
    <2> QED BY <2>2, <2>3
  <1>7. \A i \in Places(a) : a[i] \notin ToSet(b)
    <2> TAKE i \in Places(a)
    <2> SUFFICES ASSUME a[i] \in ToSet(b) PROVE FALSE
      OBVIOUS
    <2>1. PICK j \in DOMAIN b : b[j] = a[i]
      BY DEF ToSet
    <2>2. i \in DOMAIN a /\ a[i] \in Parameters
      BY DEF Places
    <2>3. i = n + j
      BY <1>2, <1>3, <1>4, <2>1, <2>2
    <2> QED BY <1>2, <1>3, <2>1, <2>2, <2>3
  <1> QED BY <1>5, <1>6, <1>7

\* What stands for other names changes nothing.
LEMMA ReadSame ==
    ASSUME NEW U, NEW pattern, pattern \in Seq(U), NEW p, NEW q, \A i \in Places(pattern) : p[pattern[i]] = q[pattern[i]]
    PROVE  Read(pattern, p) = Read(pattern, q)
  <1> DEFINE v == [i \in Places(pattern) |-> p[pattern[i]]]
             w == [i \in Places(pattern) |-> q[pattern[i]]]
  <1>1. \A i \in Places(pattern) : v[i] = w[i]
    OBVIOUS
  <1> HIDE DEF v, w
  <1>2. Spelled(pattern, v) = Spelled(pattern, w)
    BY <1>1, SpelledSame
  <1> QED BY <1>2 DEF Read, v, w

LEMMA NumberGrows ==
    ASSUME NEW U, NEW pattern, pattern \in Seq(U)
    PROVE  /\ \A i \in Places(pattern) : Number(pattern, i) \in 1..Cardinality(Places(pattern))
           /\ \A i, j \in Places(pattern) : Number(pattern, i) = Number(pattern, j) => i = j
  <1> DEFINE P == Places(pattern)
             Upto(i) == {j \in P : j <= i}
  <1>1. P \subseteq 1..Len(pattern) /\ Len(pattern) \in Nat
    BY DEF Places
  <1>2. IsFiniteSet(1..Len(pattern))
    BY <1>1, FS_Interval
  <1>3. IsFiniteSet(P)
    BY <1>1, <1>2, FS_Subset
  <1> HIDE DEF P
  <1>4. \A i : Number(pattern, i) = Cardinality(Upto(i))
    BY DEF Number, P
  <1>5. \A i : Upto(i) \subseteq P
    OBVIOUS
  <1>6. \A i \in P : i \in Upto(i)
    BY <1>1
  <1>7. ASSUME NEW i \in P, NEW j \in P, i < j PROVE Upto(i) \subseteq Upto(j) /\ j \notin Upto(i) /\ j \in Upto(j)
    <2>1. i \in Int /\ j \in Int /\ \A x \in P : x \in Int
      BY <1>1
    <2>2. \A x \in P : x <= i => x <= j
      BY <1>7, <2>1
    <2>3. ~(j <= i) /\ j <= j
      BY <1>7, <2>1
    <2> QED BY <2>2, <2>3
  <1> HIDE DEF Upto
  <1>8. \A i : IsFiniteSet(Upto(i)) /\ Cardinality(Upto(i)) \in Nat /\ Cardinality(Upto(i)) <= Cardinality(P)
    <2> TAKE i
    <2>1. IsFiniteSet(Upto(i)) /\ Cardinality(Upto(i)) <= Cardinality(P)
      BY <1>3, <1>5, FS_Subset
    <2> QED BY <2>1, FS_CardinalityType
  <1>9. \A i \in P : Number(pattern, i) \in 1..Cardinality(P)
    <2> TAKE i \in P
    <2>1. Cardinality(Upto(i)) # 0
      BY <1>6, <1>8, FS_EmptySet
    <2>2. Cardinality(P) \in Nat
      BY <1>3, FS_CardinalityType
    <2> QED BY <1>4, <1>8, <2>1, <2>2
  <1>10. ASSUME NEW i \in P, NEW j \in P, i < j PROVE Number(pattern, i) < Number(pattern, j)
    <2>1. Upto(i) \cup {j} \subseteq Upto(j) /\ j \notin Upto(i)
      BY <1>7, <1>10
    <2>2. Cardinality(Upto(i) \cup {j}) = Cardinality(Upto(i)) + 1
      BY <2>1, <1>8, FS_AddElement
    <2>3. Cardinality(Upto(i) \cup {j}) <= Cardinality(Upto(j))
      BY <2>1, <1>8, FS_Subset
    <2> QED BY <2>2, <2>3, <1>4, <1>8
  <1>11. \A i, j \in P : Number(pattern, i) = Number(pattern, j) => i = j
    <2> TAKE i, j \in P
    <2>1. i \in Int /\ j \in Int
      BY <1>1
    <2>2. Number(pattern, i) \in Nat /\ Number(pattern, j) \in Nat
      BY <1>4, <1>8
    <2> QED BY <2>1, <2>2, <1>10
  <1> QED BY <1>9, <1>11 DEF P

\* The n-th name of a pattern is that of its n-th parameter.
LEMMA NameAt ==
    ASSUME NEW U, NEW pattern, pattern \in Seq(U), NEW i \in Places(pattern)
    PROVE  Number(pattern, i) \in DOMAIN Names(pattern) /\ Names(pattern)[Number(pattern, i)] = pattern[i]
  <1> DEFINE n == Number(pattern, i)
             c == CHOOSE j \in Places(pattern) : Number(pattern, j) = n
  <1>1. n \in 1..Cardinality(Places(pattern))
    BY NumberGrows
  <1>2. c \in Places(pattern) /\ Number(pattern, c) = n
    <2> HIDE DEF n
    <2>1. \E j \in Places(pattern) : Number(pattern, j) = n
      BY DEF n
    <2> QED BY <2>1
  <1>3. c = i
    <2> HIDE DEF c
    <2> QED BY <1>2, NumberGrows
  <1>4. Names(pattern)[n] = pattern[c] /\ DOMAIN Names(pattern) = 1..Cardinality(Places(pattern))
    <2> HIDE DEF n
    <2> QED BY <1>1 DEF Names
  <1> QED BY <1>1, <1>3, <1>4

LEMMA BuildReads ==
    ASSUME NEW U, NEW pattern, pattern \in Seq(U), NEW params, IsInjective(Names(pattern))
    PROVE  /\ Distinct(pattern)
           /\ BuildURI(pattern, [n \in DOMAIN Names(pattern) |-> params[Names(pattern)[n]]]) = Read(pattern, params)
  <1> DEFINE names == Names(pattern)
             values == [n \in DOMAIN names |-> params[names[n]]]
             read == [i \in Places(pattern) |-> params[pattern[i]]]
  <1>1. \A i \in Places(pattern) : Number(pattern, i) \in DOMAIN names /\ names[Number(pattern, i)] = pattern[i]
    BY NameAt
  <1>2. Distinct(pattern)
    <2> SUFFICES ASSUME NEW i \in Places(pattern), NEW j \in Places(pattern), pattern[i] = pattern[j] PROVE i = j
      BY DEF Distinct
    <2> HIDE DEF names
    <2>1. IsInjective(names)
      BY DEF names
    <2>2. Number(pattern, i) = Number(pattern, j)
      BY <2>1, <1>1 DEF IsInjective
    <2> QED BY <2>2, NumberGrows
  <1> HIDE DEF names
  <1>3. \A i \in Places(pattern) : values[Number(pattern, i)] = params[pattern[i]] /\ read[i] = params[pattern[i]]
    BY <1>1
  <1> HIDE DEF values, read
  <1>4. \A i \in DOMAIN pattern : (IF pattern[i] \in Parameters THEN values[Number(pattern, i)] ELSE <<pattern[i]>>)
                                    = Piece(pattern, read, i)
    BY <1>3 DEF Piece, Places
  <1>5. [i \in DOMAIN pattern |-> IF pattern[i] \in Parameters THEN values[Number(pattern, i)] ELSE <<pattern[i]>>]
          = [i \in DOMAIN pattern |-> Piece(pattern, read, i)]
    BY <1>4
  <1>6. BuildURI(pattern, values) = Spelled(pattern, read)
    BY <1>5 DEF BuildURI, Spelled
  <1> QED BY <1>2, <1>6 DEF Read, read, values, names

-----------------------------------------------------------------------------
(* What the matchers capture of a path. *)

\* The tokens of a path and of all patterns.
Tokens(path) == ToSet(path) \cup {"/"} \cup UNION {ToSet(p) : p \in Patterns}

LEMMA TokensHave ==
    ASSUME NEW path
    PROVE  /\ "/" \in Tokens(path)
           /\ \A p \in Patterns : p \in Seq(Tokens(path))
           /\ \A x \in Seq(ToSet(path)) : x \in Seq(Tokens(path))
  <1> DEFINE U == Tokens(path)
  <1>1. "/" \in U /\ ToSet(path) \subseteq U
    BY DEF Tokens
  <1>2. \A p \in Patterns : ToSet(p) \subseteq U
    BY DEF Tokens
  <1>3. ASSUME NEW p \in Patterns PROVE p \in Seq(U)
    <2> HIDE DEF U
    <2>1. p \in Seq(ToSet(p)) /\ ToSet(p) \subseteq U
      BY <1>2, PatternSeq
    <2> QED BY <2>1
  <1> HIDE DEF U
  <1>4. \A x \in Seq(ToSet(path)) : x \in Seq(U)
    BY <1>1
  <1> QED BY <1>1, <1>3, <1>4 DEF U

\* What stands before the URIs below a router.
Lengthened(full, rs, s) == (IF s = Root THEN <<>> ELSE full[rs[s].parent]) \o rs[s].prefix
IsFull(full, rs) == full = [s \in DOMAIN rs |-> Lengthened(full, rs, s)]
FullOf(rs) == CHOOSE full : IsFull(full, rs)
Above(rs, s) == IF s = Root THEN <<>> ELSE FullOf(rs)[rs[s].parent]

LEMMA FullPrefixIs == ASSUME NEW r PROVE FullPrefix(r) = FullOf(routers)[r]
  BY DEF FullPrefix, FullOf, IsFull, Lengthened

LEMMA FullStep ==
    ASSUME NEW rs, Tree(rs), NEW U, \A s \in DOMAIN rs : rs[s].prefix \in Seq(U)
    PROVE  \A s \in 1..Len(rs) : /\ FullOf(rs)[s] = Conc(Above(rs, s), rs[s].prefix)
                                 /\ FullOf(rs)[s] \in Seq(U) /\ Above(rs, s) \in Seq(U)
  <1> DEFINE N == Len(rs)
             Q == Seq(U)
             Step(s) == [x \in Q |-> x \o rs[s].prefix]
             steps == [s \in 1..N |-> Step(s)]
  <1>1. N \in Nat /\ DOMAIN rs = 1..N
    BY DEF Tree
  <1>2. \A s \in 1..N : rs[s].prefix \in Q
    BY <1>1
  <1>3. <<>> \in Q /\ \A x, y \in Q : x \o y \in Q
    BY ConcatProperties
  <1>4. \A s \in 1..N : s # Root => rs[s].parent \in 1..N
    BY <1>1 DEF Tree
  <1> HIDE DEF Q
  <1>5. \A s \in 1..N : Step(s) \in [Q -> Q]
    BY <1>2, <1>3
  <1>6. steps \in Steppers(N, Q)
    BY <1>5 DEF Steppers
  <1> HIDE DEF steps
  <1>7. PICK g : Descends(g, rs, Q, <<>>, steps)
    BY <1>3, <1>6, DownTree
  <1>8. /\ g \in [1..N -> Q]
        /\ \A s \in 1..N : g[s] = steps[s][IF s = Root THEN <<>> ELSE g[rs[s].parent]]
    BY <1>7 DEF Descends
  <1> HIDE DEF N
  <1>9. \A s \in 1..N : g[s] = Lengthened(g, rs, s)
    <2> TAKE s \in 1..N
    <2>1. (IF s = Root THEN <<>> ELSE g[rs[s].parent]) \in Q
      BY <1>3, <1>4, <1>8
    <2> QED BY <1>8, <2>1 DEF steps, Lengthened
  <1>10. IsFull(g, rs)
    BY <1>1, <1>8, <1>9 DEF IsFull
  <1> DEFINE f == FullOf(rs)
  <1>11. IsFull(f, rs)
    BY <1>10 DEF FullOf
  <1> HIDE DEF f
  <1>12. f = [s \in 1..N |-> Lengthened(f, rs, s)]
    BY <1>1, <1>11 DEF IsFull
  <1>13. \A s \in 1..N : f[s] = Lengthened(f, rs, s)
    BY <1>12
  <1> DEFINE S == {k \in 0..N : k # 0 => f[k] \in Q}
  <1>14. ASSUME NEW k \in 0..N, \A j \in 0..(k - 1) : j \in S PROVE k \in S
    <2>1. CASE k = 0
      BY <2>1
    <2>2. CASE k # 0
      <3>1. k \in 1..N
        BY <2>2
      <3>2. (IF k = Root THEN <<>> ELSE f[rs[k].parent]) \in Q
        <4>1. k # Root => rs[k].parent \in 0..(k - 1) /\ rs[k].parent # 0
          BY <1>1, <3>1 DEF Tree
        <4> QED BY <4>1, <1>3, <1>14
      <3> QED BY <1>2, <1>3, <1>13, <3>1, <3>2 DEF Lengthened
    <2> QED BY <2>1, <2>2
  <1> HIDE DEF S
  <1>15. 0..N \subseteq S
    BY <1>1, <1>14, UpTo
  <1>16. \A s \in 1..N : f[s] \in Q
    <2> TAKE s \in 1..N
    <2>1. s \in 0..N /\ s # 0
      BY <1>1
    <2> QED BY <2>1, <1>15 DEF S
  <1>17. \A s \in 1..N : (IF s = Root THEN <<>> ELSE f[rs[s].parent]) \in Q
    BY <1>3, <1>4, <1>16
  <1> QED BY <1>13, <1>16, <1>17 DEF f, Above, Conc, Lengthened, Q, N

\* A matcher that hands a request to a route, after a beginning of the URI is dealt with, has
\* captured what the rest of the URI needs to read as the path before it.
Told(base, uri, before, after) ==
    /\ FullURI(after.route) = Conc(base, uri)
    /\ Distinct(uri) => Read(uri, after.params) = before.path
    /\ \A p \in Parameters : p \notin ToSet(uri) => after.params[p] = before.params[p]

\* And one that does not leaves the path and the parameters as they were.
Tells(base, path, before, answer) ==
    ~answer.m.resumed =>
        /\ ~before.resumed
        /\ ~answer.ok => answer.m.path = before.path /\ answer.m.params = before.params
        /\ answer.ok /\ answer.m.route > NotFound =>
              \E uri \in Seq(Tokens(path)) : Told(base, uri, before, answer.m)

LEMMA TellsOn ==
    ASSUME NEW base, NEW path, NEW m, NEW x, NEW y, Tells(base, path, m, x), ~x.ok, Tells(base, path, x.m, y)
    PROVE  Tells(base, path, m, y)
  <1> SUFFICES ASSUME ~y.m.resumed
               PROVE  /\ ~m.resumed
                      /\ ~y.ok => y.m.path = m.path /\ y.m.params = m.params
                      /\ y.ok /\ y.m.route > NotFound =>
                            \E uri \in Seq(Tokens(path)) : Told(base, uri, m, y.m)
    BY DEF Tells
  <1>1. ~x.m.resumed /\ (~y.ok => y.m.path = x.m.path /\ y.m.params = x.m.params)
    BY DEF Tells
  <1>2. y.ok /\ y.m.route > NotFound => \E uri \in Seq(Tokens(path)) : Told(base, uri, x.m, y.m)
    BY DEF Tells
  <1>3. ~m.resumed /\ x.m.path = m.path /\ x.m.params = m.params
    BY <1>1 DEF Tells
  <1>4. \A uri : Told(base, uri, x.m, y.m) => Told(base, uri, m, y.m)
    BY <1>3 DEF Told
  <1> QED BY <1>1, <1>2, <1>3, <1>4

LEMMA GiveUpFields ==
    ASSUME NEW method, NEW path, NEW m \in Sound(method, path), NEW consumed \in BOOLEAN
    PROVE  LET a == GiveUp(m, consumed)
           IN  /\ a.m.path = m.path /\ a.m.params = m.params /\ a.m.resumed = m.resumed
               /\ ~(a.m.route > NotFound) /\ (consumed => a.ok)
  <1> DEFINE With(t) == [m EXCEPT !.route = t]
  <1>1. m = [path |-> m.path, params |-> m.params, route |-> m.route, err |-> m.err, resumed |-> m.resumed]
    BY SoundFields
  <1>2. \A t : With(t) = [path |-> m.path, params |-> m.params, route |-> t, err |-> m.err, resumed |-> m.resumed]
    BY <1>1
  <1>3. \A t : /\ With(t).path = m.path /\ With(t).params = m.params /\ With(t).resumed = m.resumed
               /\ With(t).route = t
    BY <1>2
  <1>4. GiveUp(m, consumed) = IF m.err = MethodNotAllowed THEN [ok |-> TRUE, m |-> With(MethodNotAllowed)]
                              ELSE [ok |-> consumed, m |-> With(NotFound)]
    BY DEF GiveUp
  <1>5. ~(MethodNotAllowed > NotFound) /\ ~(NotFound > NotFound)
    BY DEF MethodNotAllowed, NotFound
  <1> HIDE DEF With
  <1> QED BY <1>3, <1>4, <1>5

RouteAnswers(t, m, a) ==
    /\ a.m.path = m.path /\ a.m.resumed = m.resumed
    /\ ~a.ok => a.m.params = m.params
    /\ a.ok => /\ a.m.route = t
               /\ \E c \in Captures(routes[t].uri, m.path, FALSE) :
                     a.m.params = Merge(m.params, routes[t].uri, c)

LEMMA MatchRouteFields ==
    ASSUME NEW method, NEW path, NEW t \in DOMAIN routes, NEW m \in Sound(method, path)
    PROVE  RouteAnswers(t, m, MatchRoute(t, method, m))
  <1> DEFINE found == FindSubmatch(routes[t].uri, m.path, FALSE)
             c == CHOOSE c \in found : TRUE
             params == Merge(m.params, routes[t].uri, c)
             Bad(e) == [m EXCEPT !.err = e]
             matched == [m EXCEPT !.route = t, !.params = params]
  <1>1. m = [path |-> m.path, params |-> m.params, route |-> m.route, err |-> m.err, resumed |-> m.resumed]
    BY SoundFields
  <1>2. MatchRoute(t, method, m) =
          IF found = {} THEN [ok |-> FALSE, m |-> Bad(IF m.err = Nil THEN NotFound ELSE m.err)]
          ELSE IF method \notin routes[t].methods THEN [ok |-> FALSE, m |-> Bad(MethodNotAllowed)]
          ELSE [ok |-> TRUE, m |-> matched]
    <2> HIDE DEF found, c
    <2> QED BY <1>1 DEF MatchRoute, found, c
  <1>3. \A e : Bad(e).path = m.path /\ Bad(e).params = m.params /\ Bad(e).resumed = m.resumed
    <2>1. \A e : Bad(e) = [path |-> m.path, params |-> m.params, route |-> m.route, err |-> e, resumed |-> m.resumed]
      BY <1>1
    <2> QED BY <2>1
  <1>4. found # {} => c \in Captures(routes[t].uri, m.path, FALSE)
    <2>1. found \subseteq Captures(routes[t].uri, m.path, FALSE)
      BY DEF FindSubmatch
    <2> HIDE DEF found
    <2> QED BY <2>1
  <1>7. \A q : q = params => (found # {} => \E d \in Captures(routes[t].uri, m.path, FALSE) :
                                               q = Merge(m.params, routes[t].uri, d))
    BY <1>4
  <1> HIDE DEF params, found, c
  <1>5. matched.path = m.path /\ matched.params = params /\ matched.resumed = m.resumed /\ matched.route = t
    <2>1. [m EXCEPT !.route = t] = [path |-> m.path, params |-> m.params, route |-> t,
                                    err |-> m.err, resumed |-> m.resumed]
      BY <1>1
    <2>2. [[path |-> m.path, params |-> m.params, route |-> t, err |-> m.err, resumed |-> m.resumed]
             EXCEPT !.params = params]
            = [path |-> m.path, params |-> params, route |-> t, err |-> m.err, resumed |-> m.resumed]
      OBVIOUS
    <2> QED BY <2>1, <2>2
  <1> HIDE DEF Bad, matched
  <1>6. \A x : x.path = m.path /\ x.resumed = m.resumed /\ x.params = m.params
               => RouteAnswers(t, m, [ok |-> FALSE, m |-> x])
    BY DEF RouteAnswers
  <1>8. found # {} => RouteAnswers(t, m, [ok |-> TRUE, m |-> matched])
    BY <1>5, <1>7 DEF RouteAnswers
  <1> QED BY <1>2, <1>3, <1>6, <1>8

LEMMA UriSpells ==
    ASSUME NEW path, NEW text \in Seq(Tokens(path)), NEW uri \in Patterns, NEW c \in Captures(uri, text, FALSE)
    PROVE  Spelled(uri, c) = text
  <1>1. uri \in Seq(Tokens(path)) /\ "/" \in Tokens(path)
    BY TokensHave
  <1>2. Reaches(Spelled(uri, c), text, FALSE)
    BY <1>1, CapturesSpell
  <1> QED BY <1>2 DEF Reaches

LEMMA MatchRouteTells ==
    ASSUME NEW method, NEW path, RoutesInv, NEW t \in DOMAIN routes, NEW m \in Sound(method, path)
    PROVE  Tells(FullPrefix(routes[t].parent), path, m, MatchRoute(t, method, m))
  <1> DEFINE a == MatchRoute(t, method, m)
             base == FullPrefix(routes[t].parent)
             uri == routes[t].uri
  <1>1. /\ a.m.path = m.path /\ a.m.resumed = m.resumed
        /\ ~a.ok => a.m.params = m.params
        /\ a.ok => /\ a.m.route = t
                   /\ \E c \in Captures(uri, m.path, FALSE) : a.m.params = Merge(m.params, uri, c)
    <2>1. RouteAnswers(t, m, a)
      BY MatchRouteFields
    <2> HIDE DEF a
    <2> QED BY <2>1 DEF RouteAnswers
  <1>2. uri \in Patterns
    BY RouteFields
  <1>3. uri \in Seq(Tokens(path)) /\ m.path \in Seq(Tokens(path))
    BY <1>2, TokensHave, SoundFields
  <1>4. FullURI(t) = Conc(base, uri)
    BY DEF FullURI, Conc
  <1> HIDE DEF a, base, uri
  <1>5. ASSUME a.ok PROVE Told(base, uri, m, a.m)
    <2>1. PICK c \in Captures(uri, m.path, FALSE) : a.m.params = Merge(m.params, uri, c)
      BY <1>1, <1>5
    <2>2. Spelled(uri, c) = m.path
      BY <1>2, <1>3, UriSpells
    <2>3. Distinct(uri) => Read(uri, a.m.params) = m.path
      BY <1>3, <2>1, <2>2, MergeReads
    <2>4. \A p \in Parameters : p \notin ToSet(uri) => a.m.params[p] = m.params[p]
      BY <2>1, MergeKeeps
    <2> QED BY <1>1, <1>4, <1>5, <2>3, <2>4 DEF Told
  <1>6. Tells(base, path, m, a)
    BY <1>1, <1>3, <1>5 DEF Tells
  <1> QED BY <1>6 DEF a, base

LEMMA TrySubrouterTells ==
    ASSUME NEW method, NEW path, NEW base, NEW match, NEW s, NEW m, NEW tried, Tells(base, path, m, tried),
           match[s][tried.m] \in Answers(method, path), Tells(base, path, tried.m, match[s][tried.m])
    PROVE  Tells(base, path, m, TrySubrouter(tried, s, match))
  <1> DEFINE result == match[s][tried.m]
             over == [ok |-> FALSE, m |-> [result.m EXCEPT !.resumed = TRUE]]
  <1>1. TrySubrouter(tried, s, match) =
          IF tried.ok THEN tried
          ELSE IF result.ok /\ routers[s].prefix = <<>> /\ result.m.route = MethodNotAllowed THEN over ELSE result
    BY DEF TrySubrouter
  <1>2. over.m.resumed
    <2>1. result.m \in Sound(method, path)
      BY DEF Answers
    <2> HIDE DEF result
    <2>2. result.m = [path |-> result.m.path, params |-> result.m.params, route |-> result.m.route,
                      err |-> result.m.err, resumed |-> result.m.resumed]
      BY <2>1, SoundFields
    <2>3. PICK b \in BOOLEAN : b
      OBVIOUS
    <2>4. [result.m EXCEPT !.resumed = b]
            = [path |-> result.m.path, params |-> result.m.params, route |-> result.m.route,
               err |-> result.m.err, resumed |-> b]
      BY <2>2
    <2>5. over.m = [result.m EXCEPT !.resumed = b]
      BY <2>3
    <2> QED BY <2>3, <2>4, <2>5
  <1>3. Tells(base, path, m, over)
    <2> HIDE DEF over
    <2> QED BY <1>2 DEF Tells
  <1> HIDE DEF over
  <1>4. ~tried.ok => Tells(base, path, m, result)
    <2> HIDE DEF result
    <2>1. Tells(base, path, tried.m, result)
      BY DEF result
    <2> QED BY <2>1, TellsOn
  <1> HIDE DEF result
  <1> QED BY <1>1, <1>3, <1>4

LEMMA CutSplits ==
    ASSUME NEW U, NEW path \in Seq(U), NEW n
    PROVE  Conc(Cut(path, n), SubSeq(path, Len(Cut(path, n)) + 1, Len(path))) = path
  <1> DEFINE nth == {i \in 2..Len(path) : path[i] = "/" /\ n > 0 /\ Cardinality({j \in 2..i : path[j] = "/"}) = n}
  <1>1. Cut(path, n) = IF nth = {} THEN path ELSE SubSeq(path, 1, (CHOOSE i \in nth : TRUE) - 1)
    BY DEF Cut
  <1>2. \A k \in 0..Len(path) : Conc(SubSeq(path, 1, k), SubSeq(path, k + 1, Len(path))) = path
    <2> TAKE k \in 0..Len(path)
    <2>1. 0 \in 0..Len(path) /\ k \in 0..Len(path)
      OBVIOUS
    <2>2. Rest(path, 0) = Conc(SubSeq(path, 0 + 1, k), Rest(path, k))
      BY <2>1, RestSplits
    <2>3. Rest(path, 0) = path
      BY DEF Rest
    <2> QED BY <2>2, <2>3 DEF Rest
  <1>3. CASE nth = {}
    <2>1. Cut(path, n) = path
      BY <1>1, <1>3
    <2>2. SubSeq(path, Len(path) + 1, Len(path)) = <<>>
      OBVIOUS
    <2> QED BY <2>1, <2>2, ConcEmpty
  <1>4. CASE nth # {}
    <2>1. PICK i \in nth : i = CHOOSE j \in nth : TRUE
      <3> HIDE DEF nth
      <3> QED BY <1>4
    <2>2. i \in 2..Len(path)
      OBVIOUS
    <2> HIDE DEF nth
    <2>3. Cut(path, n) = SubSeq(path, 1, i - 1)
      BY <1>1, <1>4, <2>1
    <2>4. Len(SubSeq(path, 1, i - 1)) = i - 1 /\ i - 1 \in 0..Len(path)
      BY <2>2
    <2> QED BY <1>2, <2>3, <2>4
  <1> QED BY <1>3, <1>4

LEMMA SpelledEmpty == ASSUME NEW c PROVE Spelled(<<>>, c) = <<>>
  <1>1. [i \in DOMAIN <<>> |-> Piece(<<>>, c, i)] = <<>>
    OBVIOUS
  <1> QED BY <1>1 DEF Spelled, FlattenSeq

\* The prefix of a router spells what of the path it is taken to match.
Splits(r, m, entered) ==
    /\ Spelled(routers[r].prefix, HeadCapture(r, m)) = Headed(r, m)
    /\ routers[r].prefix = <<>> <=> Headed(r, m) = <<>>
    /\ Conc(Headed(r, m), entered.path) = m.path

LEMMA HeadSpells ==
    ASSUME NEW method, NEW path, RoutersInv, NEW r \in DOMAIN routers, NEW m \in Sound(method, path),
           HeadFits(r, m) # {}
    PROVE  Splits(r, m, Entered(r, m))
  <1> DEFINE prefix == routers[r].prefix
             c == HeadCapture(r, m)
             U == Tokens(path)
  <1>1. m.path \in Seq(U) /\ "/" \in U
    BY TokensHave, SoundFields
  <1>2. prefix \in GivenPrefixes
    BY RouterFields
  <1>3. prefix \in Seq(U)
    BY <1>2, TokensHave DEF Patterns
  <1>4. c \in Captures(prefix, Headed(r, m), prefix # <<>>)
    BY DEF HeadCapture, HeadFits, FindSubmatch
  <1>5. Entered(r, m).path = SubSeq(m.path, Len(Headed(r, m)) + 1, Len(m.path))
    <2>1. Enters(r, m, Entered(r, m))
      BY EnteredSound
    <2> QED BY <2>1 DEF Enters
  <1>6. CASE prefix = <<>>
    <2>1. Headed(r, m) = <<>>
      BY <1>6 DEF Headed
    <2>2. Spelled(prefix, c) = <<>>
      <3> HIDE DEF prefix, c
      <3> QED BY <1>6, SpelledEmpty
    <2>3. Entered(r, m).path = m.path
      BY <1>1, <1>5, <2>1
    <2>4. Conc(Headed(r, m), Entered(r, m).path) = m.path
      BY <1>1, <2>1, <2>3, ConcEmpty
    <2> QED BY <1>6, <2>1, <2>2, <2>4 DEF Splits
  <1>7. CASE prefix # <<>>
    <2>1. Headed(r, m) = Cut(m.path, SlashCount(prefix))
      BY <1>7 DEF Headed
    <2>2. "/" \in ToSet(prefix)
      <3> HIDE DEF prefix
      <3> QED BY <1>2, <1>7, PrefixesAssumption DEF GivenPrefixes
    <2> HIDE DEF c, U
    <2>3. c \in Captures(prefix, Cut(m.path, SlashCount(prefix)), TRUE)
      <3>1. (prefix # <<>>) = TRUE
        BY <1>7
      <3> QED BY <1>4, <2>1, <3>1
    <2>4. Spelled(prefix, c) = Headed(r, m) /\ Headed(r, m) # <<>>
      <3> HIDE DEF prefix
      <3> QED BY <1>1, <1>3, <2>1, <2>2, <2>3, PrefixSpells
    <2>5. Conc(Headed(r, m), Entered(r, m).path) = m.path
      BY <1>1, <1>5, <2>1, CutSplits
    <2> QED BY <1>7, <2>4, <2>5 DEF c, Splits
  <1> QED BY <1>6, <1>7

\* With the prefix of a router put before, what is told inside of it is told of it.
LEMMA ToldOutside ==
    ASSUME NEW method, NEW path, RoutersInv, NEW r \in DOMAIN routers, NEW m \in Sound(method, path),
           HeadFits(r, m) # {}, NEW after \in Sound(method, path), NEW uri \in Seq(Tokens(path)),
           Told(FullPrefix(r), uri, Entered(r, m), after)
    PROVE  /\ Conc(routers[r].prefix, uri) \in Seq(Tokens(path))
           /\ Told(Above(routers, r), Conc(routers[r].prefix, uri), m, after)
  <1> DEFINE U == Tokens(path)
             prefix == routers[r].prefix
             c == HeadCapture(r, m)
             whole == Conc(prefix, uri)
             inner == Entered(r, m)
             above == Above(routers, r)
  <1>1. prefix \in Seq(U)
    BY RouterFields, TokensHave DEF Patterns
  <1>2. whole \in Seq(U)
    BY <1>1, ConcTyped
  <1>3. after.params \in [Parameters -> Seq(U)] /\ m.params \in [Parameters -> Seq(U)]
    BY TokensHave, SoundFields
  <1>4. FullURI(after.route) = Conc(above, whole)
    <2>1. \A s \in DOMAIN routers : routers[s].prefix \in Seq(U)
      BY RouterFields, TokensHave DEF Patterns
    <2>2. Tree(routers) /\ r \in 1..Len(routers)
      BY DEF RoutersInv, Tree
    <2> HIDE DEF U
    <2>3. FullOf(routers)[r] = Conc(above, prefix) /\ above \in Seq(U)
      BY <2>1, <2>2, FullStep
    <2>4. FullURI(after.route) = Conc(FullPrefix(r), uri)
      BY DEF Told
    <2> HIDE DEF above, prefix
    <2>5. Conc(Conc(above, prefix), uri) = Conc(above, Conc(prefix, uri))
      <3>1. uri \in Seq(U)
        BY DEF U
      <3> QED BY <1>1, <2>3, <3>1, ConcAssoc
    <2> QED BY <2>3, <2>4, <2>5, FullPrefixIs
  <1>5. inner.params = Merge(m.params, prefix, c)
    <2>1. Enters(r, m, Entered(r, m))
      BY EnteredSound
    <2> QED BY <2>1 DEF Enters
  <1>6. /\ Distinct(uri) => Read(uri, after.params) = inner.path
        /\ \A p \in Parameters : p \notin ToSet(uri) => after.params[p] = inner.params[p]
    BY DEF Told
  <1>7. /\ Spelled(routers[r].prefix, HeadCapture(r, m)) = Headed(r, m)
        /\ Conc(Headed(r, m), Entered(r, m).path) = m.path
    <2>1. Splits(r, m, Entered(r, m))
      BY HeadSpells
    <2> QED BY <2>1 DEF Splits
  <1>8. uri \in Seq(U)
    OBVIOUS
  <1> HIDE DEF U, prefix, c, inner, above
  <1>9. Distinct(whole) => Read(whole, after.params) = m.path
    <2> SUFFICES ASSUME Distinct(whole) PROVE Read(whole, after.params) = m.path
      OBVIOUS
    <2>1. Distinct(prefix) /\ Distinct(uri) /\ \A i \in Places(prefix) : prefix[i] \notin ToSet(uri)
      BY <1>1, <1>8, DistinctParts
    <2>2. \A i \in Places(prefix) : after.params[prefix[i]] = inner.params[prefix[i]]
      <3>1. \A i \in Places(prefix) : prefix[i] \in Parameters
        BY DEF Places
      <3> QED BY <2>1, <3>1, <1>6
    <2>3. Read(prefix, after.params) = Read(prefix, inner.params)
      BY <1>1, <2>2, ReadSame
    <2>4. Read(prefix, inner.params) = Spelled(prefix, c)
      BY <1>1, <1>5, <2>1, MergeReads
    <2>5. Read(whole, after.params) = Conc(Read(prefix, after.params), Read(uri, after.params))
      BY <1>1, <1>3, <1>8, ReadConcat
    <2> QED BY <1>6, <1>7, <2>1, <2>3, <2>4, <2>5 DEF prefix, c, inner
  <1>10. \A p \in Parameters : p \notin ToSet(whole) => after.params[p] = m.params[p]
    <2> TAKE p \in Parameters
    <2> HAVE p \notin ToSet(whole)
    <2>1. p \notin ToSet(prefix) /\ p \notin ToSet(uri)
      <3>1. /\ Len(whole) = Len(prefix) + Len(uri) /\ Len(prefix) \in Nat /\ Len(uri) \in Nat
            /\ \A i \in 1..(Len(prefix) + Len(uri)) :
                  whole[i] = IF i <= Len(prefix) THEN prefix[i] ELSE uri[i - Len(prefix)]
        BY <1>1, <1>8, ConcatProperties DEF Conc
      <3>2. DOMAIN whole = 1..Len(whole) /\ DOMAIN prefix = 1..Len(prefix) /\ DOMAIN uri = 1..Len(uri)
        BY <1>1, <1>2, <1>8
      <3> HIDE DEF whole
      <3>3. \A i \in DOMAIN prefix : i \in DOMAIN whole /\ whole[i] = prefix[i]
        BY <3>1, <3>2
      <3>4. \A i \in DOMAIN uri : Len(prefix) + i \in DOMAIN whole /\ whole[Len(prefix) + i] = uri[i]
        <4> TAKE i \in DOMAIN uri
        <4>1. Len(prefix) + i \in 1..(Len(prefix) + Len(uri)) /\ ~(Len(prefix) + i <= Len(prefix))
              /\ Len(prefix) + i - Len(prefix) = i
          BY <3>1, <3>2
        <4> QED BY <3>1, <3>2, <4>1
      <3> QED BY <3>3, <3>4 DEF ToSet
    <2>2. inner.params[p] = m.params[p]
      BY <1>5, <2>1, MergeKeeps
    <2> QED BY <1>6, <2>1, <2>2
  <1> QED BY <1>2, <1>4, <1>9, <1>10 DEF Told, U, prefix, above

\* What a router may answer when what is above it is dealt with.
Replies(method, path, base, m) == {a \in Answers(method, path) : Tells(base, path, m, a)}

\* A router that does not answer leaves no route.
Hands(a) == a.m.route > NotFound => a.ok

LEMMA InsideTells ==
    ASSUME NEW method, NEW path, RoutersInv, RoutesInv, NEW r \in DOMAIN routers, NEW match, NEW m \in Sound(method, path),
           HeadFits(r, m) # {},
           \A s \in DOMAIN routers, x \in Sound(method, path) :
              routers[s].parent = r => match[s][x] \in Replies(method, path, FullPrefix(r), x)
    PROVE  Inside(r, method, match, m) \in Replies(method, path, FullPrefix(r), Entered(r, m))
  <1> DEFINE base == FullPrefix(r)
             inner == Entered(r, m)
             A == Replies(method, path, base, inner)
             start == [ok |-> FALSE, m |-> inner]
  <1>1. inner \in Sound(method, path)
    BY EnteredSound
  <1>2. start \in A
    <2>1. start \in Answers(method, path) /\ start.m = inner /\ ~start.ok
      BY <1>1 DEF Answers
    <2> HIDE DEF start, inner, base
    <2> QED BY <2>1 DEF Replies, Tells
  <1> HIDE DEF base, inner
  <1>3. \A a : a \in A <=> a \in Answers(method, path) /\ Tells(base, path, inner, a)
    BY DEF Replies
  <1> HIDE DEF A
  <1>4. \A a \in Answers(method, path) : a.m \in Sound(method, path)
    BY DEF Answers
  <1>5. ASSUME NEW s \in DOMAIN routers, NEW x \in A, routers[s].parent = r PROVE TrySubrouter(x, s, match) \in A
    <2>1. x \in Answers(method, path) /\ Tells(base, path, inner, x) /\ x.m \in Sound(method, path)
      BY <1>3, <1>4
    <2>2. match[s][x.m] \in Answers(method, path) /\ Tells(base, path, x.m, match[s][x.m])
      BY <1>5, <2>1 DEF Replies, base
    <2>3. Tells(base, path, inner, TrySubrouter(x, s, match))
      BY <2>1, <2>2, TrySubrouterTells
    <2>4. TrySubrouter(x, s, match) \in Answers(method, path)
      <3>1. \A y \in DOMAIN routers, z \in Sound(method, path) :
              routers[y].parent = r => match[y][z] \in Answers(method, path)
        BY DEF Replies
      <3>2. Answering(r, match, method, path)
        BY <3>1 DEF Answering
      <3> QED BY <1>5, <2>1, <3>2, TrySubrouterSound
    <2> QED BY <1>3, <2>3, <2>4
  <1>6. ASSUME NEW t \in DOMAIN routes, NEW x \in A, routes[t].parent = r, ~x.ok PROVE MatchRoute(t, method, x.m) \in A
    <2>1. Tells(base, path, inner, x) /\ x.m \in Sound(method, path)
      BY <1>3, <1>4
    <2>2. MatchRoute(t, method, x.m) \in Answers(method, path)
      BY <2>1, MatchRouteSound
    <2>3. Tells(base, path, x.m, MatchRoute(t, method, x.m))
      <3>1. Tells(FullPrefix(routes[t].parent), path, x.m, MatchRoute(t, method, x.m))
        BY <2>1, MatchRouteTells
      <3> QED BY <1>6, <3>1 DEF base
    <2>4. Tells(base, path, inner, MatchRoute(t, method, x.m))
      BY <1>6, <2>1, <2>3, TellsOn
    <2> QED BY <1>3, <2>2, <2>4
  <1>7. InSubrouters(r, match, inner) \in A
    BY <1>2, <1>5, InSubroutersAmong
  <1>8. InRoutes(r, method, InSubrouters(r, match, inner)) \in A
    BY <1>6, <1>7, InRoutesAmong
  <1> QED BY <1>8 DEF Inside, A, base, inner

LEMMA MergeNothing ==
    ASSUME NEW T, NEW params \in [Parameters -> T], NEW c
    PROVE  Merge(params, <<>>, c) = params
  <1>1. \A p \in Parameters : Merge(params, <<>>, c)[p] = params[p]
    <2>1. \A p \in Parameters : p \notin ToSet(<<>>)
      BY DEF ToSet
    <2> QED BY <2>1, MergeKeeps
  <1> DEFINE at(q) == {i \in Places(<<>>) : <<>>[i] = q}
  <1>2. Merge(params, <<>>, c) = [p \in Parameters |-> IF at(p) = {} THEN params[p] ELSE c[Max(at(p))]]
    BY DEF Merge
  <1> HIDE DEF at
  <1>3. DOMAIN Merge(params, <<>>, c) = Parameters
    BY <1>2
  <1>4. Merge(params, <<>>, c) = [p \in Parameters |-> Merge(params, <<>>, c)[p]]
    BY <1>2, <1>3
  <1> QED BY <1>1, <1>4

LEMMA MatchInTells ==
    ASSUME NEW method, NEW path, RoutersInv, RoutesInv, NEW r \in DOMAIN routers, NEW match, NEW m \in Sound(method, path),
           \A s \in DOMAIN routers, x \in Sound(method, path) :
              routers[s].parent = r => match[s][x] \in Replies(method, path, FullPrefix(r), x)
    PROVE  /\ Tells(Above(routers, r), path, m, MatchIn(r, method, match, m))
           /\ Hands(MatchIn(r, method, match, m))
  <1> DEFINE above == Above(routers, r)
             inside == Inside(r, method, match, m)
             head == Headed(r, m)
             inner == Entered(r, m)
             consumed == head # <<>>
  <1>1. MatchIn(r, method, match, m) =
          IF HeadFits(r, m) = {} THEN GiveUp(m, FALSE)
          ELSE IF inside.ok THEN inside ELSE GiveUp(inside.m, consumed)
    BY MatchInIs
  <1>2. Tells(above, path, m, GiveUp(m, FALSE)) /\ Hands(GiveUp(m, FALSE))
    <2> DEFINE a == GiveUp(m, FALSE)
    <2>1. a.m.path = m.path /\ a.m.params = m.params /\ a.m.resumed = m.resumed /\ ~(a.m.route > NotFound)
      <3>1. PICK no \in BOOLEAN : no = FALSE
        OBVIOUS
      <3>2. LET b == GiveUp(m, no)
            IN  /\ b.m.path = m.path /\ b.m.params = m.params /\ b.m.resumed = m.resumed
                /\ ~(b.m.route > NotFound)
        BY GiveUpFields
      <3> QED BY <3>1, <3>2
    <2> HIDE DEF a, above
    <2>2. Tells(above, path, m, a) /\ Hands(a)
      BY <2>1 DEF Tells, Hands
    <2> QED BY <2>2 DEF a
  <1>3. ASSUME HeadFits(r, m) # {} PROVE inside \in Answers(method, path) /\ Tells(FullPrefix(r), path, inner, inside)
    BY <1>3, InsideTells DEF Replies
  <1>4. ASSUME HeadFits(r, m) # {} PROVE Enters(r, m, inner) /\ inner \in Sound(method, path) /\ Splits(r, m, inner)
    BY <1>4, EnteredSound, HeadSpells
  <1>5. ASSUME HeadFits(r, m) # {}, inside.ok PROVE Tells(above, path, m, inside)
    <2> SUFFICES ASSUME ~inside.m.resumed
                 PROVE  /\ ~m.resumed
                        /\ inside.m.route > NotFound =>
                              \E uri \in Seq(Tokens(path)) : Told(above, uri, m, inside.m)
      BY <1>5 DEF Tells
    <2>1. ~inner.resumed
      BY <1>3, <1>5 DEF Tells
    <2>2. ~m.resumed
      <3> HIDE DEF inner
      <3> QED BY <1>4, <1>5, <2>1 DEF Enters
    <2>3. ASSUME inside.m.route > NotFound PROVE \E uri \in Seq(Tokens(path)) : Told(above, uri, m, inside.m)
      <3>1. PICK uri \in Seq(Tokens(path)) : Told(FullPrefix(r), uri, inner, inside.m)
        BY <1>3, <1>5, <2>3 DEF Tells
      <3>2. inside.m \in Sound(method, path)
        <4> HIDE DEF inside
        <4> QED BY <1>3, <1>5 DEF Answers
      <3> HIDE DEF inside
      <3>3. /\ Conc(routers[r].prefix, uri) \in Seq(Tokens(path))
            /\ Told(Above(routers, r), Conc(routers[r].prefix, uri), m, inside.m)
        BY <1>5, <3>1, <3>2, ToldOutside
      <3> QED BY <3>3
    <2> QED BY <2>2, <2>3
  <1>6. ASSUME HeadFits(r, m) # {}, ~inside.ok PROVE Tells(above, path, m, GiveUp(inside.m, consumed)) /\ Hands(GiveUp(inside.m, consumed))
    <2> DEFINE a == GiveUp(inside.m, consumed)
    <2>1. inside.m \in Sound(method, path) /\ consumed \in BOOLEAN
      <3>1. inside \in Answers(method, path)
        BY <1>3, <1>6
      <3> HIDE DEF inside
      <3> QED BY <3>1 DEF Answers
    <2> HIDE DEF inside, consumed
    <2>2. /\ a.m.path = inside.m.path /\ a.m.params = inside.m.params /\ a.m.resumed = inside.m.resumed
          /\ ~(a.m.route > NotFound) /\ (consumed => a.ok)
      BY <2>1, GiveUpFields
    <2> HIDE DEF a
    <2>6. Hands(a)
      BY <2>2 DEF Hands
    <2> SUFFICES ASSUME ~a.m.resumed
                 PROVE  ~m.resumed /\ (~a.ok => a.m.path = m.path /\ a.m.params = m.params)
      BY <2>2, <2>6 DEF Tells, a
    <2> HIDE DEF inner
    <2>3. ~inner.resumed /\ inside.m.path = inner.path /\ inside.m.params = inner.params
      BY <1>3, <1>6, <2>2 DEF Tells
    <2>4. ~m.resumed
      BY <1>4, <1>6, <2>3 DEF Enters
    <2>5. ASSUME ~a.ok PROVE inner.path = m.path /\ inner.params = m.params
      <3>1. head = <<>>
        BY <2>2, <2>5 DEF consumed
      <3>2. routers[r].prefix = <<>>
        BY <1>4, <1>6, <3>1 DEF Splits
      <3>3. Conc(<<>>, inner.path) = m.path
        BY <1>4, <1>6, <3>1 DEF Splits
      <3>4. inner.path \in Seq(ToSet(path)) /\ m.params \in [Parameters -> Seq(ToSet(path))]
        BY <1>4, <1>6, SoundFields
      <3>5. inner.path = m.path
        BY <3>3, <3>4, ConcEmpty
      <3>6. inner.params = Merge(m.params, <<>>, HeadCapture(r, m))
        BY <1>4, <1>6, <3>2 DEF Enters
      <3> QED BY <3>4, <3>5, <3>6, MergeNothing
    <2> QED BY <2>2, <2>3, <2>4, <2>5
  <1> HIDE DEF inside, consumed, above
  <1>8. inside.ok => Hands(inside)
    BY DEF Hands
  <1>7. Tells(above, path, m, MatchIn(r, method, match, m)) /\ Hands(MatchIn(r, method, match, m))
    BY <1>1, <1>2, <1>5, <1>6, <1>8
  <1> QED BY <1>7 DEF above

LEMMA MatchRouterTells ==
    ASSUME NEW method, NEW path, path \in Seq(ToSet(path)), RoutersInv, RoutesInv
    PROVE  Tells(<<>>, path, Unmatched(path), MatchRouter(method, path)) /\ Hands(MatchRouter(method, path))
  <1> DEFINE M == Sound(method, path)
             Reply(r, m) == {a \in Replies(method, path, Above(routers, r), m) : Hands(a)}
             G == [r \in DOMAIN routers |-> [m \in M |-> Reply(r, m)]]
  <1>1. M \in SUBSET Matches(path) /\ Unmatched(path) \in M
    BY UnmatchedSound DEF Sound
  <1>2. Root \in DOMAIN routers /\ routers[Root].parent \notin DOMAIN routers
    BY DEF RoutersInv, Tree, Root
  <1>3. ASSUME NEW match, NEW r \in DOMAIN routers, NEW m \in M,
               \A s \in DOMAIN routers, x \in M : routers[s].parent = r => match[s][x] \in Reply(s, x)
        PROVE  MatchIn(r, method, match, m) \in Reply(r, m)
    <2>1. ASSUME NEW s \in DOMAIN routers, NEW x \in M, routers[s].parent = r
          PROVE  match[s][x] \in Replies(method, path, FullPrefix(r), x)
      <3>1. Above(routers, s) = FullPrefix(r)
        <4>1. s # Root
          BY <1>2, <2>1
        <4> QED BY <2>1, <4>1, FullPrefixIs DEF Above
      <3> QED BY <1>3, <2>1, <3>1
    <2>2. /\ Tells(Above(routers, r), path, m, MatchIn(r, method, match, m))
          /\ Hands(MatchIn(r, method, match, m))
      BY <2>1, MatchInTells
    <2>3. MatchIn(r, method, match, m) \in Answers(method, path)
      <3>1. \A s \in DOMAIN routers, x \in M : routers[s].parent = r => match[s][x] \in Answers(method, path)
        BY <2>1 DEF Replies
      <3>2. Answering(r, match, method, path)
        BY <3>1 DEF Answering
      <3> QED BY <3>2, MatchInSound
    <2> QED BY <2>2, <2>3 DEF Replies
  <1> HIDE DEF M, Reply
  <1>4. \A s \in DOMAIN routers, x \in M : G[s][x] = Reply(s, x)
    OBVIOUS
  <1> HIDE DEF G
  <1>5. \A match : \A r \in DOMAIN routers, m \in M :
           (\A s \in DOMAIN routers, x \in M : routers[s].parent = r => match[s][x] \in G[s][x])
             => MatchIn(r, method, match, m) \in G[r][m]
    <2> TAKE match
    <2> TAKE r \in DOMAIN routers, m \in M
    <2> HAVE \A s \in DOMAIN routers, x \in M : routers[s].parent = r => match[s][x] \in G[s][x]
    <2>1. \A s \in DOMAIN routers, x \in M : routers[s].parent = r => match[s][x] \in Reply(s, x)
      BY <1>4
    <2>2. MatchIn(r, method, match, m) \in Reply(r, m)
      BY <1>3, <2>1
    <2> QED BY <2>2, <1>4
  <1>6. MatchRouter(method, path) \in G[Root][Unmatched(path)]
    BY <1>1, <1>5, MatchRouterAmong
  <1>7. MatchRouter(method, path) \in Reply(Root, Unmatched(path))
    BY <1>1, <1>2, <1>4, <1>6
  <1> QED BY <1>7 DEF Reply, Replies, Above

-----------------------------------------------------------------------------
(* The parameters of an answered request. *)

LEMMA AnsweredReads ==
    ASSUME NEW req \in Requests, RoutersInv, RoutesInv, NEW answer, answer = MatchRouter(req.method, req.path),
           ~answer.m.resumed, answer.m.route > NotFound,
           IsInjective(Names(FullURI(answer.m.route)))
    PROVE  LET uri == FullURI(answer.m.route)
               names == Names(uri)
           IN  BuildURI(uri, [i \in DOMAIN names |-> answer.m.params[names[i]]]) = req.path
  <1> DEFINE path == req.path
  <1>1. path \in Seq(ToSet(path))
    BY RequestsAssumption
  <1>2. Tells(<<>>, path, Unmatched(path), answer) /\ Hands(answer)
    BY <1>1, MatchRouterTells
  <1> HIDE DEF path
  <1>3. PICK uri \in Seq(Tokens(path)) : Told(<<>>, uri, Unmatched(path), answer.m)
    BY <1>2 DEF Tells, Hands
  <1>4. FullURI(answer.m.route) = uri
    BY <1>3, ConcEmpty DEF Told
  <1>5. /\ Distinct(uri)
        /\ BuildURI(uri, [n \in DOMAIN Names(uri) |-> answer.m.params[Names(uri)[n]]]) = Read(uri, answer.m.params)
    BY <1>4, BuildReads
  <1>6. Read(uri, answer.m.params) = path
    BY <1>3, <1>5 DEF Told, Unmatched
  <1> QED BY <1>4, <1>5, <1>6 DEF path

FullURIAt(rts, rs, t) == FullOf(rs)[rts[t].parent] \o rts[t].uri

LEMMA FullURIsAre ==
    \A t : FullURI(t) = FullURIAt(routes, routers, t) /\ FullURI(t)' = FullURIAt(routes', routers', t)
  BY DEF FullURI, FullURIAt, FullPrefix, FullOf, IsFull, Lengthened

RoundTrips(answered, uri) ==
    answered.route > NotFound /\ ~answered.resumed /\ IsInjective(Names(uri)) =>
      BuildURI(uri, [i \in DOMAIN Names(uri) |-> answered.params[Names(uri)[i]]]) = answered.req.path

LEMMA RoundTripIs ==
    /\ URIRoundTrip <=> (served # <<>> => RoundTrips(served, FullURI(served.route)))
    /\ URIRoundTrip' <=> (served' # <<>> => RoundTrips(served', FullURI(served.route)'))
  BY DEF URIRoundTrip, RoundTrips, Names, Places, Number, BuildURI

\* The parameters of a route build the path that a request reached it by, whatever routers it
\* lies under: those filled in by a matcher that turned a path away would show, and so would
\* captures filed under the wrong names (parameterizable.go:121, router.go:285).
THEOREM URIRoundTripHolds == Spec => []URIRoundTrip
  <1>1. Init => URIRoundTrip
    BY DEF Init, URIRoundTrip
  <1>2. ASSUME IInv, URIRoundTrip, [Next]_vars PROVE URIRoundTrip'
    <2>1. ASSUME NEW req \in Requests, ServeHTTP(req) PROVE URIRoundTrip'
      <3> DEFINE answer == MatchRouter(req.method, req.path)
                 m == answer.m
      <3>1. /\ routers' = routers /\ routes' = routes
            /\ served'.req = req /\ served'.route = m.route /\ served'.params = m.params
            /\ served'.resumed = m.resumed
        BY <2>1 DEF ServeHTTP
      <3>2. RoutersInv /\ RoutesInv
        BY <1>2 DEF IInv
      <3> DEFINE uri == FullURI(m.route)
                 names == Names(uri)
      <3>3. m.route > NotFound /\ ~m.resumed /\ IsInjective(names) =>
              BuildURI(uri, [i \in DOMAIN names |-> m.params[names[i]]]) = req.path
        BY <3>2, AnsweredReads
      <3>4. FullURI(served.route)' = uri
        BY <3>1, FullURIsAre
      <3>5. served' # <<>> => RoundTrips(served', uri)
        <4> HIDE DEF answer, uri, names
        <4>1. RoundTrips(served', uri) <=>
                (m.route > NotFound /\ ~m.resumed /\ IsInjective(Names(uri)) =>
                   BuildURI(uri, [i \in DOMAIN Names(uri) |-> m.params[Names(uri)[i]]]) = req.path)
          BY <3>1 DEF RoundTrips
        <4> QED BY <3>3, <4>1 DEF names
      <3> HIDE DEF uri
      <3> QED BY <3>4, <3>5, RoundTripIs
    <2>2. ASSUME served' = served, served = <<>> \/ (routers' = routers /\ routes' = routes) PROVE URIRoundTrip'
      <3>1. served # <<>> => FullURI(served.route)' = FullURI(served.route)
        BY <2>2, FullURIsAre
      <3> QED BY <1>2, <2>2, <3>1, RoundTripIs
    <2>3. CASE \E req \in Requests : ServeHTTP(req)
      BY <2>1, <2>3
    <2>4. CASE UNCHANGED vars
      BY <2>2, <2>4 DEF vars
    <2>5. CASE Next /\ ~\E req \in Requests : ServeHTTP(req)
      BY <2>2, <2>5 DEF Next, Subrouter, Route, RouterCORS, RouteCORS, Registering
    <2> QED BY <1>2, <2>3, <2>4, <2>5
  <1> QED BY <1>1, <1>2, Invariance, PTL DEF Spec

-----------------------------------------------------------------------------
(* Whether an expression finds a fit is whether there is one. *)

LEMMA GreatestNumber ==
    ASSUME NEW B \in Nat, NEW S, S \subseteq 0..B, S # {}
    PROVE  \E n \in S : \A m \in S : m <= n
  <1> DEFINE Bounds == {b \in Nat : \A m \in S : m <= b}
  <1>1. B \in Bounds
    OBVIOUS
  <1>2. PICK n \in Bounds : \A b \in Bounds : n <= b
    <2> HIDE DEF Bounds
    <2>1. Bounds \subseteq Nat /\ Bounds # {}
      BY <1>1 DEF Bounds
    <2> QED BY <2>1, LeastNumber
  <1>3. n \in Nat /\ \A m \in S : m <= n
    BY <1>2
  <1>4. CASE n \in S
    BY <1>3, <1>4
  <1>5. CASE n \notin S
    <2>1. \A m \in S : m \in Int /\ m < n
      BY <1>3, <1>5
    <2>2. n - 1 \in Nat
      <3>1. PICK m \in S : m \in 0..B
        OBVIOUS
      <3> QED BY <3>1, <2>1, <1>3
    <2>3. n - 1 \in Bounds
      BY <2>1, <2>2, <1>3
    <2> QED BY <1>2, <2>3, <1>3
  <1> QED BY <1>4, <1>5

LEMMA LongerThanBoth ==
    ASSUME NEW T, NEW x, NEW y, x \in Seq(T) /\ y \in Seq(T)
    PROVE  Len(x) <= Len(Conc(x, y)) /\ Len(y) <= Len(Conc(x, y)) /\ Len(Conc(x, y)) \in Nat
  BY DEF Conc

\* A part is no longer than the whole.
LEMMA PartWithin ==
    ASSUME NEW T, NEW parts \in Seq(Seq(T)), NEW i \in 1..Len(parts)
    PROVE  Len(parts[i]) <= Len(FlattenSeq(parts))
  <1> DEFINE N == Len(parts)
  <1>1. PICK f \in [0..N -> Seq(T)] : Joins(f, parts) /\ FlattenSeq(parts) = f[N]
    BY FlattenIs
  <1>2. N \in Nat /\ \A n \in 1..N : parts[n] \in Seq(T)
    OBVIOUS
  <1>3. \A n \in 1..N : f[n] = Conc(f[n - 1], parts[n])
    BY <1>1 DEF Joins, Conc
  <1> HIDE DEF N
  <1> DEFINE S == {n \in 0..N : n >= i => Len(parts[i]) <= Len(f[n])}
  <1>4. ASSUME NEW n \in 0..N, \A m \in 0..(n - 1) : m \in S PROVE n \in S
    <2>1. CASE n < i
      BY <2>1, <1>2
    <2>2. CASE n >= i
      <3>1. n \in 1..N /\ n - 1 \in 0..(n - 1) /\ n - 1 \in 0..N
        BY <2>2, <1>2 DEF N
      <3>2. f[n - 1] \in Seq(T) /\ parts[n] \in Seq(T) /\ f[n] = Conc(f[n - 1], parts[n])
        BY <3>1, <1>1, <1>2, <1>3
      <3>3. Len(f[n - 1]) <= Len(f[n]) /\ Len(parts[n]) <= Len(f[n]) /\ Len(f[n]) \in Nat
        BY <3>2, LongerThanBoth
      <3>4. CASE i = n
        BY <3>3, <3>4, <1>2
      <3>5. CASE i # n
        <4>1. n - 1 >= i
          BY <3>5, <2>2, <1>2
        <4>2. Len(parts[i]) <= Len(f[n - 1])
          BY <4>1, <3>1, <1>4
        <4>3. Len(parts[i]) \in Nat /\ Len(f[n - 1]) \in Nat
          BY <3>2, <1>2 DEF N
        <4> DEFINE a == Len(parts[i])
                   b == Len(f[n - 1])
                   d == Len(f[n])
        <4>4. a <= b /\ b <= d /\ a \in Nat /\ b \in Nat /\ d \in Nat
          BY <4>2, <4>3, <3>3
        <4> HIDE DEF a, b, d
        <4>5. a <= d
          BY <4>4
        <4> QED BY <4>5, <1>2 DEF a, d
      <3> QED BY <3>4, <3>5
    <2> QED BY <2>1, <2>2, <1>2
  <1> HIDE DEF S
  <1>5. N \in S
    <2>1. 0..N \subseteq S
      BY <1>2, <1>4, UpTo
    <2> QED BY <1>2, <2>1
  <1> QED BY <1>1, <1>2, <1>5 DEF S, N

\* What is captured is part of the text.
LEMMA CapturedWithin ==
    ASSUME NEW U, "/" \in U, NEW pattern \in Seq(U), NEW text \in Seq(U), NEW slash,
           NEW c \in Captures(pattern, text, slash), NEW i \in Places(pattern)
    PROVE  c[i] \in Seq(U) /\ Len(c[i]) \in 0..Len(text) /\ Len(text) \in Nat
  <1>1. c \in [Places(pattern) -> Seq(U)]
    BY CapturesTyped
  <1>2. \A j \in Places(pattern) : c[j] \in Seq(U)
    BY <1>1
  <1>3. Reaches(Spelled(pattern, c), text, slash)
    BY CapturesSpell
  <1> DEFINE parts == [j \in DOMAIN pattern |-> Piece(pattern, c, j)]
  <1>4. /\ parts \in Seq(Seq(U)) /\ Len(parts) = Len(pattern)
        /\ \A j \in 1..Len(pattern) : parts[j] = Piece(pattern, c, j)
        /\ Spelled(pattern, c) \in Seq(U) /\ Spelled(pattern, c) = FlattenSeq(parts)
    <2> HIDE DEF parts
    <2> QED BY <1>2, PartsTyped DEF parts
  <1> HIDE DEF parts
  <1>5. i \in 1..Len(pattern) /\ pattern[i] \in Parameters
    BY DEF Places
  <1>6. parts[i] = c[i]
    BY <1>4, <1>5 DEF Piece
  <1>7. Len(c[i]) <= Len(Spelled(pattern, c))
    BY <1>4, <1>5, <1>6, PartWithin
  <1>8. Len(Spelled(pattern, c)) <= Len(text)
    <2>1. CASE Spelled(pattern, c) = text
      BY <2>1
    <2>2. CASE Conc(Spelled(pattern, c), <<"/">>) = text
      <3>1. <<"/">> \in Seq(U)
        OBVIOUS
      <3>2. /\ Len(Conc(Spelled(pattern, c), <<"/">>)) = Len(Spelled(pattern, c)) + Len(<<"/">>)
            /\ Len(Spelled(pattern, c)) \in Nat /\ Len(<<"/">>) \in Nat
        BY <3>1, <1>4 DEF Conc
      <3> QED BY <2>2, <3>2
    <2> QED BY <1>3, <2>1, <2>2 DEF Reaches
  <1>9. c[i] \in Seq(U) /\ Len(c[i]) \in Nat /\ Len(text) \in Nat /\ Len(Spelled(pattern, c)) \in Nat
    BY <1>2, <1>4
  <1> QED BY <1>7, <1>8, <1>9

\* Of the fits for the places up to n, none is better than c.
Greedy(fits, places, n, c) ==
    \A d \in fits : \A i \in places :
        i <= n /\ Len(c[i]) < Len(d[i]) => \E j \in places : j < i /\ c[j] # d[j]

LEMMA GreedyExists ==
    ASSUME NEW N \in Nat, NEW places \in SUBSET (1..N), NEW B \in Nat, NEW fits, fits # {},
           \A c \in fits : \A i \in places : Len(c[i]) \in 0..B
    PROVE  \E c \in fits : Greedy(fits, places, N, c)
  <1> DEFINE Good(n) == \E c \in fits : Greedy(fits, places, n, c)
             S == {n \in 0..N : Good(n)}
  <1>1. ASSUME NEW n \in 0..N, \A m \in 0..(n - 1) : m \in S PROVE n \in S
    <2>1. CASE n = 0
      <3>1. \A i \in places : ~(i <= n)
        BY <2>1
      <3> QED BY <3>1 DEF Greedy
    <2>2. CASE n # 0
      <3>1. n - 1 \in 0..(n - 1) /\ n \in 1..N
        BY <2>2
      <3>2. PICK c \in fits : Greedy(fits, places, n - 1, c)
        BY <3>1, <1>1
      <3>3. CASE n \notin places
        <4>1. \A i \in places : i <= n => i <= n - 1
          BY <3>1, <3>3
        <4>2. Greedy(fits, places, n, c)
          BY <3>2, <4>1 DEF Greedy
        <4> QED BY <4>2
      <3>4. CASE n \in places
        <4> DEFINE alike == {d \in fits : \A j \in places : j < n => d[j] = c[j]}
                   lengths == {Len(d[n]) : d \in alike}
        <4>1. c \in alike /\ lengths \subseteq 0..B /\ lengths # {}
          BY <3>4
        <4>2. PICK len \in lengths : \A l \in lengths : l <= len
          <5> HIDE DEF lengths
          <5> QED BY <4>1, GreatestNumber
        <4>3. PICK b \in alike : len = Len(b[n])
          BY <4>2
        <4>4. \A d \in alike : Len(d[n]) <= Len(b[n])
          BY <4>2, <4>3
        <4>5. Greedy(fits, places, n, b)
          <5> SUFFICES ASSUME NEW d \in fits, NEW i \in places, i <= n, Len(b[i]) < Len(d[i])
                       PROVE  \E j \in places : j < i /\ b[j] # d[j]
            BY DEF Greedy
          <5>1. Len(b[i]) \in Nat /\ Len(d[i]) \in Nat
            BY <4>3
          <5>2. CASE i = n
            <6>1. d \notin alike
              BY <4>4, <5>1, <5>2
            <6> QED BY <6>1, <4>3, <5>2
          <5>3. CASE i # n
            <6>1. i < n /\ i <= n - 1 /\ b[i] = c[i] /\ \A j \in places : j < i => b[j] = c[j]
              BY <5>3, <4>3
            <6> QED BY <6>1, <3>2 DEF Greedy
          <5> QED BY <5>2, <5>3
        <4> QED BY <4>3, <4>5
      <3> QED BY <3>3, <3>4
    <2> QED BY <2>1, <2>2
  <1> HIDE DEF S
  <1>2. N \in S
    <2>1. 0..N \subseteq S
      BY <1>1, UpTo
    <2> QED BY <2>1
  <1> QED BY <1>2 DEF S

\* The expression finds a fit when there is one.
LEMMA FindsWhatFits ==
    ASSUME NEW U, "/" \in U, NEW pattern \in Seq(U), NEW text \in Seq(U), NEW slash
    PROVE  FindSubmatch(pattern, text, slash) = {} <=> Captures(pattern, text, slash) = {}
  <1> DEFINE fits == Captures(pattern, text, slash)
             places == Places(pattern)
  <1>1. FindSubmatch(pattern, text, slash) \subseteq fits
    BY DEF FindSubmatch
  <1>2. ASSUME fits # {} PROVE FindSubmatch(pattern, text, slash) # {}
    <2>1. places \in SUBSET (1..Len(pattern)) /\ Len(pattern) \in Nat /\ Len(text) \in Nat
      BY DEF Places
    <2>2. \A c \in fits : \A i \in places : Len(c[i]) \in 0..Len(text)
      BY CapturedWithin
    <2>3. \A c \in fits : DOMAIN c = places
      <3>1. fits \subseteq [places -> Seq(U)]
        BY CapturesTyped
      <3> QED BY <3>1
    <2> HIDE DEF fits, places
    <2>4. PICK c \in fits : Greedy(fits, places, Len(pattern), c)
      BY <1>2, <2>1, <2>2, GreedyExists
    <2>5. \A i \in places : i <= Len(pattern)
      BY <2>1
    <2>6. \A d \in fits : \A i \in DOMAIN c : Len(c[i]) < Len(d[i]) => \E j \in DOMAIN c : j < i /\ c[j] # d[j]
      BY <2>3, <2>4, <2>5 DEF Greedy
    <2>7. c \in FindSubmatch(pattern, text, slash)
      BY <2>4, <2>6 DEF FindSubmatch, fits
    <2> QED BY <2>7
  <1> QED BY <1>1, <1>2

-----------------------------------------------------------------------------
(* An optional slash adds only the fits that leave one over. *)

LEMMA OneToken ==
    ASSUME NEW U, NEW text \in Seq(U), NEW a \in 1..Len(text)
    PROVE  SubSeq(text, a, a) = <<text[a]>>
  <1> DEFINE t == SubSeq(text, a, a)
             u == <<text[a]>>
  <1>1. a \in 1..Len(text) /\ a \in Int /\ text[a] \in U
    OBVIOUS
  <1>2. t \in Seq(U) /\ Len(t) = 1 /\ t[1] = text[a]
    <2>1. \A i \in a..a : text[i] \in U
      BY <1>1
    <2>2. /\ t \in Seq(U) /\ Len(t) = IF a <= a THEN a - a + 1 ELSE 0
          /\ \A i \in 1..(a - a + 1) : t[i] = text[a + i - 1]
      BY <1>1, <2>1, SubSeqProperties
    <2> HIDE DEF t
    <2>3. 1 \in 1..(a - a + 1) /\ a + 1 - 1 = a
      BY <1>1
    <2>4. t[1] = text[a + 1 - 1] /\ Len(t) = a - a + 1
      BY <1>1, <2>2, <2>3
    <2>5. a - a + 1 = 1
      BY <1>1
    <2> QED BY <2>2, <2>3, <2>4, <2>5
  <1>3. u \in Seq(U) /\ Len(u) = 1 /\ u[1] = text[a]
    BY <1>1
  <1> HIDE DEF t, u
  <1>4. t = u
    <2>1. \A i \in 1..Len(t) : t[i] = u[i]
      BY <1>2, <1>3
    <2> QED BY <1>2, <1>3, <2>1, SeqEqual
  <1> QED BY <1>4 DEF t, u

WithPlace(place, text, from, to, d) ==
    [i \in {place} \cup DOMAIN d |-> IF i = place THEN SubSeq(text, from + 1, to) ELSE d[i]]

TakesOn(pattern, place, text, from, rest, c) ==
    \E to \in Ends(pattern[place], text, from) : \E d \in rest[to] : c = WithPlace(place, text, from, to, d)

LEMMA ExtendedBy ==
    ASSUME NEW pattern, NEW place, NEW text, NEW from \in 0..Len(text), NEW rest, NEW c,
           pattern[place] \in Parameters
    PROVE  c \in Extended(pattern, place, text, rest)[from] <=> TakesOn(pattern, place, text, from, rest, c)
  <1>1. Extended(pattern, place, text, rest)[from]
          = UNION {{WithPlace(place, text, from, to, d) : d \in rest[to]} : to \in Ends(pattern[place], text, from)}
    BY DEF Extended, WithPlace
  <1>2. c \in UNION {{WithPlace(place, text, from, to, d) : d \in rest[to]} : to \in Ends(pattern[place], text, from)}
          <=> \E to \in Ends(pattern[place], text, from) : \E d \in rest[to] : c = WithPlace(place, text, from, to, d)
    OBVIOUS
  <1> QED BY <1>1, <1>2 DEF TakesOn

\* A fit of the last n tokens takes a piece of the text and goes on with one of those after
\* it; whatever else goes on with that one can be extended alike.
GoesOn(pattern, text, n, from, rest, c) ==
    \E to \in from..Len(text) : \E d \in rest[to] :
        /\ Piece(pattern, c, Len(pattern) - n + 1) = SubSeq(text, from + 1, to)
        /\ LastParts(pattern, c, n - 1) = LastParts(pattern, d, n - 1)
        /\ \A other : d \in other[to] =>
              c \in Extended(pattern, Len(pattern) - n + 1, text, other)[from]

LEMMA FitStep ==
    ASSUME NEW U, NEW pattern \in Seq(U), NEW text \in Seq(U), NEW n \in 1..Len(pattern),
           NEW from \in 0..Len(text),
           NEW rest \in [0..Len(text) -> SUBSET [LastPlaces(pattern, n - 1) -> Seq(U)]],
           NEW c \in Extended(pattern, Len(pattern) - n + 1, text, rest)[from]
    PROVE  GoesOn(pattern, text, n, from, rest, c)
  <1> DEFINE N == Len(pattern)
             k == N - n + 1
  <1>0. N \in Nat /\ k \in 1..N /\ Len(text) \in Nat
    OBVIOUS
  <1>1. CASE pattern[k] \notin Parameters
    <2>1. from < Len(text) /\ text[from + 1] = pattern[k] /\ c \in rest[from + 1]
      <3> HIDE DEF k
      <3>1. c \in Extended(pattern, k, text, rest)[from]
        BY DEF k
      <3> QED BY <1>1, <3>1 DEF Extended
    <2>2. from + 1 \in from..Len(text) /\ from + 1 \in 1..Len(text)
      BY <2>1
    <2>3. SubSeq(text, from + 1, from + 1) = <<text[from + 1]>>
      BY <2>2, OneToken
    <2>4. Piece(pattern, c, k) = SubSeq(text, from + 1, from + 1)
      BY <1>1, <2>1, <2>3 DEF Piece
    <2>5. \A other : c \in other[from + 1] => c \in Extended(pattern, k, text, other)[from]
      <3> HIDE DEF k
      <3> QED BY <1>1, <2>1 DEF Extended
    <2>6. /\ Piece(pattern, c, k) = SubSeq(text, from + 1, from + 1)
          /\ LastParts(pattern, c, n - 1) = LastParts(pattern, c, n - 1)
          /\ \A other : c \in other[from + 1] => c \in Extended(pattern, k, text, other)[from]
      BY <2>4, <2>5
    <2> QED BY <2>1, <2>2, <2>6 DEF GoesOn
  <1>2. CASE pattern[k] \in Parameters
    <2>1. PICK to \in Ends(pattern[k], text, from) : \E d \in rest[to] :
            c = WithPlace(k, text, from, to, d)
      <3> HIDE DEF k
      <3>1. c \in Extended(pattern, k, text, rest)[from]
        BY DEF k
      <3>2. TakesOn(pattern, k, text, from, rest, c)
        BY <1>2, <3>1, ExtendedBy
      <3> QED BY <3>2 DEF TakesOn
    <2>2. PICK d \in rest[to] :
            c = WithPlace(k, text, from, to, d)
      BY <2>1
    <2>3. to \in from..Len(text) /\ to \in 0..Len(text)
      BY <2>1 DEF Ends
    <2>4. d \in [LastPlaces(pattern, n - 1) -> Seq(U)]
      BY <2>3
    <2>5. c[k] = SubSeq(text, from + 1, to) /\ \A i \in LastPlaces(pattern, n - 1) : c[i] = d[i]
      <3>1. k \notin LastPlaces(pattern, n - 1)
        BY DEF LastPlaces
      <3> HIDE DEF k
      <3>2. DOMAIN d = LastPlaces(pattern, n - 1)
        BY <2>4
      <3> QED BY <2>2, <3>1, <3>2 DEF WithPlace
    <2>6. LastParts(pattern, c, n - 1) = LastParts(pattern, d, n - 1)
      <3>1. \A i \in 1..(n - 1) : Piece(pattern, c, N - (n - 1) + i) = Piece(pattern, d, N - (n - 1) + i)
        <4> TAKE i \in 1..(n - 1)
        <4>1. N - (n - 1) + i \in 1..N /\ N - (n - 1) + i > N - (n - 1)
          BY <1>0
        <4> QED BY <2>5, <4>1 DEF Piece, LastPlaces, Places
      <3> QED BY <3>1 DEF LastParts
    <2>7. \A other : d \in other[to] => c \in Extended(pattern, k, text, other)[from]
      <3> HIDE DEF k
      <3> SUFFICES ASSUME NEW other, d \in other[to] PROVE c \in Extended(pattern, k, text, other)[from]
        OBVIOUS
      <3>1. TakesOn(pattern, k, text, from, other, c)
        BY <2>1, <2>2 DEF TakesOn
      <3> QED BY <1>2, <3>1, ExtendedBy
    <2>8. Piece(pattern, c, k) = SubSeq(text, from + 1, to)
      BY <1>2, <2>5 DEF Piece
    <2>9. /\ Piece(pattern, c, k) = SubSeq(text, from + 1, to)
          /\ LastParts(pattern, c, n - 1) = LastParts(pattern, d, n - 1)
          /\ \A other : d \in other[to] => c \in Extended(pattern, k, text, other)[from]
      BY <2>6, <2>7, <2>8
    <2> QED BY <2>2, <2>3, <2>9 DEF GoesOn
  <1> QED BY <1>1, <1>2

Slashed(pattern, c, n) == Conc(FlattenSeq(LastParts(pattern, c, n)), <<"/">>)

OrSlashed(f, g, pattern, text, n, from) ==
    /\ \A c \in g[n][from] : c \in f[n][from]
    /\ \A c \in f[n][from] : c \in g[n][from] \/ Slashed(pattern, c, n) = Rest(text, from)

\* What an optional slash adds to the fits are those that leave it over.
LEMMA OptionalSlash ==
    ASSUME NEW U, "/" \in U, NEW pattern \in Seq(U), NEW text \in Seq(U), NEW f, NEW g,
           Fitting(f, U, pattern, text, TRUE), Fitting(g, U, pattern, text, FALSE)
    PROVE  \A n \in 0..Len(pattern), from \in 0..Len(text) : OrSlashed(f, g, pattern, text, n, from)
  <1> DEFINE N == Len(pattern)
             Good(n) == \A from \in 0..Len(text) :
                          /\ \A c \in g[n][from] : c \in f[n][from]
                          /\ \A c \in f[n][from] : c \in g[n][from] \/ Slashed(pattern, c, n) = Rest(text, from)
             S == {n \in 0..N : Good(n)}
  <1>1. N \in Nat
    OBVIOUS
  <1>2. ASSUME NEW n \in 0..N, \A k \in 0..(n - 1) : k \in S PROVE n \in S
    <2>1. CASE n = 0
      <3>1. f[0] = AtEnd(text, TRUE) /\ g[0] = AtEnd(text, FALSE)
        BY DEF Fitting
      <3>2. ASSUME NEW from \in 0..Len(text)
            PROVE  /\ \A c \in g[0][from] : c \in f[0][from]
                   /\ \A c \in f[0][from] : c \in g[0][from] \/ Slashed(pattern, c, 0) = Rest(text, from)
        <4>1. \A c \in g[0][from] : c \in f[0][from]
          BY <3>1 DEF AtEnd
        <4>2. ASSUME NEW c \in f[0][from], c \notin g[0][from] PROVE Slashed(pattern, c, 0) = Rest(text, from)
          <5>1. Rest(text, from) = <<"/">>
            BY <3>1, <4>2 DEF AtEnd, Rest
          <5>2. LastParts(pattern, c, 0) = <<>>
            BY DEF LastParts
          <5>3. FlattenSeq(LastParts(pattern, c, 0)) = <<>>
            BY <5>2 DEF FlattenSeq
          <5>4. Conc(<<>>, <<"/">>) = <<"/">>
            BY DEF Conc
          <5> QED BY <5>1, <5>3, <5>4 DEF Slashed
        <4> QED BY <4>1, <4>2
      <3> QED BY <2>1, <3>2
    <2>2. CASE n # 0
      <3>1. n \in 1..N /\ n - 1 \in 0..N /\ n - 1 \in 0..(n - 1)
        BY <2>2, <1>1
      <3>2. Good(n - 1)
        BY <3>1, <1>2
      <3> DEFINE k == N - n + 1
      <3>3. f[n] = Extended(pattern, k, text, f[n - 1]) /\ g[n] = Extended(pattern, k, text, g[n - 1])
        BY <3>1 DEF Fitting
      <3>4. /\ f[n] \in [0..Len(text) -> SUBSET [LastPlaces(pattern, n) -> Seq(U)]]
            /\ f[n - 1] \in [0..Len(text) -> SUBSET [LastPlaces(pattern, n - 1) -> Seq(U)]]
            /\ g[n - 1] \in [0..Len(text) -> SUBSET [LastPlaces(pattern, n - 1) -> Seq(U)]]
        BY <3>1 DEF Fitting
      <3>5. ASSUME NEW from \in 0..Len(text), NEW c \in g[n][from] PROVE c \in f[n][from]
        <4>1. c \in Extended(pattern, k, text, g[n - 1])[from]
          BY <3>3, <3>5
        <4>2. GoesOn(pattern, text, n, from, g[n - 1], c)
          BY <3>1, <3>4, <4>1, FitStep
        <4>3. PICK to \in from..Len(text) : \E d \in g[n - 1][to] :
                 \A other : d \in other[to] => c \in Extended(pattern, k, text, other)[from]
          BY <4>2 DEF GoesOn
        <4>4. PICK d \in g[n - 1][to] :
                 \A other : d \in other[to] => c \in Extended(pattern, k, text, other)[from]
          BY <4>3
        <4>5. d \in f[n - 1][to]
          BY <3>2, <4>4
        <4>6. c \in Extended(pattern, k, text, f[n - 1])[from]
          BY <4>4, <4>5
        <4> QED BY <3>3, <4>6
      <3>6. ASSUME NEW from \in 0..Len(text), NEW c \in f[n][from]
            PROVE  c \in g[n][from] \/ Slashed(pattern, c, n) = Rest(text, from)
        <4>1. c \in Extended(pattern, k, text, f[n - 1])[from]
          BY <3>3, <3>6
        <4>2. GoesOn(pattern, text, n, from, f[n - 1], c)
          BY <3>1, <3>4, <4>1, FitStep
        <4>3. PICK to \in from..Len(text) : \E d \in f[n - 1][to] :
                 /\ Piece(pattern, c, k) = SubSeq(text, from + 1, to)
                 /\ LastParts(pattern, c, n - 1) = LastParts(pattern, d, n - 1)
                 /\ \A other : d \in other[to] => c \in Extended(pattern, k, text, other)[from]
          BY <4>2 DEF GoesOn
        <4>4. PICK d \in f[n - 1][to] :
                 /\ Piece(pattern, c, k) = SubSeq(text, from + 1, to)
                 /\ LastParts(pattern, c, n - 1) = LastParts(pattern, d, n - 1)
                 /\ \A other : d \in other[to] => c \in Extended(pattern, k, text, other)[from]
          BY <4>3
        <4>5. CASE d \in g[n - 1][to]
          <5>1. c \in Extended(pattern, k, text, g[n - 1])[from]
            BY <4>4, <4>5
          <5> QED BY <3>3, <5>1
        <4>6. CASE Slashed(pattern, d, n - 1) = Rest(text, to)
          <5>1. c \in [LastPlaces(pattern, n) -> Seq(U)]
            BY <3>4, <3>6
          <5>2. \A i \in LastPlaces(pattern, n) : c[i] \in Seq(U)
            BY <5>1
          <5>3. /\ Piece(pattern, c, k) \in Seq(U)
                /\ FlattenSeq(LastParts(pattern, c, n - 1)) \in Seq(U)
                /\ FlattenSeq(LastParts(pattern, c, n))
                     = Conc(Piece(pattern, c, k), FlattenSeq(LastParts(pattern, c, n - 1)))
            BY <3>1, <5>2, LastPartsStep
          <5>4. <<"/">> \in Seq(U)
            OBVIOUS
          <5>5. Slashed(pattern, c, n) = Conc(Piece(pattern, c, k), Slashed(pattern, c, n - 1))
            <6> DEFINE a == Piece(pattern, c, k)
                       b == FlattenSeq(LastParts(pattern, c, n - 1))
                       e == <<"/">>
            <6>1. a \in Seq(U) /\ b \in Seq(U) /\ e \in Seq(U)
              BY <5>3, <5>4
            <6> HIDE DEF a, b, e
            <6>2. Conc(Conc(a, b), e) = Conc(a, Conc(b, e))
              BY <6>1, ConcAssoc
            <6> QED BY <5>3, <6>2 DEF Slashed, a, b, e
          <5>6. Slashed(pattern, c, n - 1) = Rest(text, to)
            BY <4>4, <4>6 DEF Slashed
          <5>7. Rest(text, from) = Conc(SubSeq(text, from + 1, to), Rest(text, to))
            BY RestSplits
          <5> QED BY <4>4, <5>5, <5>6, <5>7
        <4>7. to \in 0..Len(text)
          OBVIOUS
        <4> QED BY <3>2, <4>4, <4>5, <4>6, <4>7
      <3> QED BY <3>5, <3>6
    <2> QED BY <2>1, <2>2
  <1> HIDE DEF S, N
  <1>3. 0..N \subseteq S
    BY <1>1, <1>2, UpTo
  <1> QED BY <1>3 DEF S, N, OrSlashed

-----------------------------------------------------------------------------
(* What is cut of a path ends at a segment. *)

\* A path that has a slash begins with one.
Sectioned(text) == "/" \in ToSet(text) => text[1] = "/"

\* The slashes that Cut counts.
Later(text, i) == {j \in 2..i : text[j] = "/"}

LEMMA LaterFinite ==
    ASSUME NEW text, NEW i \in Nat
    PROVE  IsFiniteSet(Later(text, i)) /\ Cardinality(Later(text, i)) \in Nat
  <1>1. IsFiniteSet(2..i)
    BY FS_Interval
  <1>2. Later(text, i) \subseteq 2..i
    BY DEF Later
  <1>3. IsFiniteSet(Later(text, i))
    BY <1>1, <1>2, FS_Subset
  <1> QED BY <1>3, FS_CardinalityType

LEMMA LaterGrows ==
    ASSUME NEW text, NEW i \in Nat, NEW j \in Nat, i < j, text[j] = "/", j >= 2
    PROVE  Cardinality(Later(text, i)) < Cardinality(Later(text, j))
  <1>1. Later(text, i) \cup {j} \subseteq Later(text, j) /\ j \notin Later(text, i)
    BY DEF Later
  <1>2. Cardinality(Later(text, i) \cup {j}) = Cardinality(Later(text, i)) + 1
    BY <1>1, LaterFinite, FS_AddElement
  <1>3. Cardinality(Later(text, i) \cup {j}) <= Cardinality(Later(text, j))
    BY <1>1, LaterFinite, FS_Subset
  <1> QED BY <1>2, <1>3, LaterFinite

LEMMA LaterWithin ==
    ASSUME NEW text, NEW i \in Nat, NEW j \in Nat, i <= j
    PROVE  Cardinality(Later(text, i)) <= Cardinality(Later(text, j))
  <1>1. Later(text, i) \subseteq Later(text, j)
    BY DEF Later
  <1> QED BY <1>1, LaterFinite, FS_Subset

\* The part of a path up to a place has one slash more than Cut counts.
LEMMA LaterOf ==
    ASSUME NEW U, NEW text \in Seq(U), Sectioned(text), NEW k \in 0..Len(text), SlashCount(SubSeq(text, 1, k)) # 0
    PROVE  k >= 1 /\ SlashCount(SubSeq(text, 1, k)) = Cardinality(Later(text, k)) + 1
  <1> DEFINE x == SubSeq(text, 1, k)
  <1>1. x \in Seq(U) /\ Len(x) = k /\ \A i \in 1..k : x[i] = text[i]
    OBVIOUS
  <1>2. k \in Nat /\ DOMAIN x = 1..k /\ DOMAIN text = 1..Len(text)
    BY <1>1
  <1>3. SlashCount(x) = Cardinality(Slashes(x))
    BY <1>1, SlashesFinite
  <1> HIDE DEF x
  <1>4. Slashes(x) # {}
    BY <1>3, FS_EmptySet DEF x
  <1>5. PICK i \in 1..k : text[i] = "/"
    BY <1>1, <1>2, <1>4 DEF Slashes
  <1>6. text[1] = "/" /\ k >= 1
    <2>1. "/" \in ToSet(text)
      BY <1>2, <1>5 DEF ToSet
    <2> QED BY <2>1, <1>5 DEF Sectioned
  <1>7. Slashes(x) = Later(text, k) \cup {1} /\ 1 \notin Later(text, k)
    BY <1>1, <1>2, <1>6 DEF Slashes, Later
  <1>8. Cardinality(Slashes(x)) = Cardinality(Later(text, k)) + 1
    BY <1>2, <1>7, LaterFinite, FS_AddElement
  <1> QED BY <1>3, <1>6, <1>8 DEF x

\* A part that ends at the end of a segment is what is cut for its number of slashes.
LEMMA CutAt ==
    ASSUME NEW U, NEW text \in Seq(U), Sectioned(text), NEW k \in 0..Len(text),
           k = Len(text) \/ text[k + 1] = "/", NEW n, n = SlashCount(SubSeq(text, 1, k)), n # 0
    PROVE  Cut(text, n) = SubSeq(text, 1, k)
  <1> DEFINE L == Len(text)
             nth == {i \in 2..L : text[i] = "/" /\ n > 0 /\ Cardinality(Later(text, i)) = n}
  <1>1. L \in Nat /\ k \in Nat /\ k <= L
    OBVIOUS
  <1>2. k >= 1 /\ n = Cardinality(Later(text, k)) + 1
    BY LaterOf
  <1>3. Cardinality(Later(text, k)) \in Nat /\ n > 0
    BY <1>1, <1>2, LaterFinite
  <1>4. Cut(text, n) = IF nth = {} THEN text ELSE SubSeq(text, 1, (CHOOSE i \in nth : TRUE) - 1)
    BY DEF Cut, Later
  <1>5. CASE k = L
    <2>1. ASSUME NEW i \in nth PROVE FALSE
      <3>1. i \in Nat /\ i <= k /\ Cardinality(Later(text, i)) = n
        BY <1>5
      <3>2. Cardinality(Later(text, i)) <= Cardinality(Later(text, k))
        BY <1>1, <3>1, LaterWithin
      <3> QED BY <3>1, <3>2, <1>2, <1>3
    <2>2. nth = {}
      BY <2>1
    <2>3. SubSeq(text, 1, L) = text
      OBVIOUS
    <2> HIDE DEF nth
    <2> QED BY <2>2, <2>3, <1>4, <1>5
  <1>6. CASE k # L
    <2>1. k + 1 \in 2..L /\ text[k + 1] = "/"
      BY <1>1, <1>2, <1>6
    <2>2. Cardinality(Later(text, k + 1)) = n
      <3>1. Later(text, k + 1) = Later(text, k) \cup {k + 1} /\ k + 1 \notin Later(text, k)
        BY <2>1, <1>1 DEF Later
      <3>2. Cardinality(Later(text, k + 1)) = Cardinality(Later(text, k)) + 1
        BY <3>1, <1>1, LaterFinite, FS_AddElement
      <3> QED BY <3>2, <1>2
    <2>3. k + 1 \in nth
      BY <2>1, <2>2, <1>3
    <2>4. ASSUME NEW i \in nth PROVE i = k + 1
      <3>1. i \in 2..L /\ i \in Nat /\ text[i] = "/" /\ Cardinality(Later(text, i)) = n
        OBVIOUS
      <3>2. CASE i < k + 1
        <4>1. Cardinality(Later(text, i)) <= Cardinality(Later(text, k))
          BY <3>1, <3>2, <1>1, LaterWithin
        <4> QED BY <4>1, <3>1, <1>2, <1>3
      <3>3. CASE k + 1 < i
        <4>1. Cardinality(Later(text, k + 1)) < Cardinality(Later(text, i))
          BY <3>1, <3>3, <1>1, LaterGrows
        <4> QED BY <4>1, <3>1, <2>2, <1>2, <1>3
      <3> QED BY <3>1, <3>2, <3>3, <1>1
    <2> HIDE DEF nth
    <2>5. PICK j \in nth : j = CHOOSE i \in nth : TRUE
      BY <2>3
    <2>6. j = k + 1 /\ j - 1 = k
      BY <2>4, <1>1
    <2>7. Cut(text, n) = SubSeq(text, 1, j - 1)
      BY <2>3, <2>5, <1>4
    <2> QED BY <2>6, <2>7
  <1> QED BY <1>5, <1>6

\* What is cut ends at the end of a segment.
LEMMA CutEnds ==
    ASSUME NEW U, NEW text \in Seq(U), NEW n
    PROVE  \E k \in 0..Len(text) : /\ Cut(text, n) = SubSeq(text, 1, k) /\ Len(Cut(text, n)) = k
                                   /\ k = Len(text) \/ text[k + 1] = "/"
  <1> DEFINE L == Len(text)
             nth == {i \in 2..L : text[i] = "/" /\ n > 0 /\ Cardinality(Later(text, i)) = n}
  <1>1. L \in Nat
    OBVIOUS
  <1>2. Cut(text, n) = IF nth = {} THEN text ELSE SubSeq(text, 1, (CHOOSE i \in nth : TRUE) - 1)
    BY DEF Cut, Later
  <1>3. CASE nth = {}
    <2>1. SubSeq(text, 1, L) = text /\ L \in 0..L
      BY <1>1
    <2>2. Cut(text, n) = text
      <3> HIDE DEF nth
      <3> QED BY <1>2, <1>3
    <2> QED BY <2>1, <2>2
  <1>4. CASE nth # {}
    <2>1. PICK i \in nth : i = CHOOSE j \in nth : TRUE
      <3> HIDE DEF nth
      <3> QED BY <1>4
    <2>2. i \in 2..L /\ text[i] = "/"
      BY <2>1
    <2>3. Cut(text, n) = SubSeq(text, 1, i - 1)
      <3> HIDE DEF nth
      <3> QED BY <1>2, <1>4, <2>1
    <2>4. Len(SubSeq(text, 1, i - 1)) = i - 1 /\ i - 1 \in 0..L /\ i - 1 + 1 = i
      BY <2>2
    <2> QED BY <2>2, <2>3, <2>4
  <1> QED BY <1>3, <1>4

LEMMA RestOfRest ==
    ASSUME NEW U, NEW path \in Seq(U), NEW from \in 0..Len(path)
    PROVE  /\ Rest(path, from) \in Seq(U) /\ Len(Rest(path, from)) = Len(path) - from
           /\ \A k \in 0..(Len(path) - from) :
                /\ from + k \in from..Len(path) /\ from + k \in 0..Len(path)
                /\ SubSeq(Rest(path, from), 1, k) = SubSeq(path, from + 1, from + k)
                /\ Rest(Rest(path, from), k) = Rest(path, from + k)
           /\ \A k \in 1..(Len(path) - from) : Rest(path, from)[k] = path[from + k]
  <1> DEFINE rest == Rest(path, from)
             L == Len(path)
             R == L - from
  <1>1. L \in Nat /\ R \in Nat /\ from \in Nat
    OBVIOUS
  <1>2. rest \in Seq(U) /\ Len(rest) = R /\ \A k \in 1..R : rest[k] = path[from + k]
    <2>1. \A i \in (from + 1)..L : path[i] \in U
      OBVIOUS
    <2>2. /\ rest \in Seq(U) /\ Len(rest) = IF from + 1 <= L THEN L - (from + 1) + 1 ELSE 0
          /\ \A i \in 1..(L - (from + 1) + 1) : rest[i] = path[from + 1 + i - 1]
      BY <2>1, <1>1, SubSeqProperties DEF Rest
    <2> HIDE DEF rest
    <2>3. L - (from + 1) + 1 = R /\ (~(from + 1 <= L) => R = 0)
      BY <1>1
    <2>4. \A i \in 1..R : from + 1 + i - 1 = from + i
      BY <1>1
    <2> QED BY <2>2, <2>3, <2>4
  <1>3. ASSUME NEW k \in 0..R
        PROVE  /\ from + k \in from..L /\ from + k \in 0..L
               /\ SubSeq(rest, 1, k) = SubSeq(path, from + 1, from + k)
               /\ Rest(rest, k) = Rest(path, from + k)
    <2>1. from + k \in from..L /\ from + k \in 0..L /\ k \in Nat
      BY <1>1
    <2> DEFINE a == SubSeq(rest, 1, k)
               b == SubSeq(path, from + 1, from + k)
               x == Rest(rest, k)
               y == Rest(path, from + k)
               to == from + k
    <2>2. a \in Seq(U) /\ Len(a) = k /\ \A i \in 1..k : a[i] = rest[i]
      <3> HIDE DEF rest, R
      <3>1. k <= Len(rest) /\ k \in Nat
        BY <1>1, <1>2, <2>1
      <3> QED BY <3>1, <1>2
    <2>3. b \in Seq(U) /\ Len(b) = k /\ \A i \in 1..k : b[i] = path[from + i]
      <3>1. \A i \in (from + 1)..(from + k) : path[i] \in U
        BY <2>1
      <3>2. /\ b \in Seq(U) /\ Len(b) = IF from + 1 <= from + k THEN from + k - (from + 1) + 1 ELSE 0
            /\ \A i \in 1..(from + k - (from + 1) + 1) : b[i] = path[from + 1 + i - 1]
        BY <3>1, <1>1, <2>1, SubSeqProperties
      <3> HIDE DEF b
      <3>3. from + k - (from + 1) + 1 = k /\ (~(from + 1 <= from + k) => k = 0)
        BY <1>1, <2>1
      <3>4. \A i \in 1..k : from + 1 + i - 1 = from + i
        BY <1>1
      <3> QED BY <3>2, <3>3, <3>4
    <2>4. a = b
      <3> HIDE DEF a, b, rest
      <3>1. \A i \in 1..k : i \in 1..R
        BY <1>1
      <3>2. \A i \in 1..Len(a) : a[i] = b[i]
        BY <2>2, <2>3, <3>1, <1>2
      <3> QED BY <2>2, <2>3, <3>2, SeqEqual
    <2>5. x \in Seq(U) /\ Len(x) = R - k /\ \A i \in 1..(R - k) : x[i] = rest[k + i]
      <3> HIDE DEF rest
      <3>1. \A i \in (k + 1)..R : rest[i] \in U
        BY <1>2, <2>1
      <3>2. /\ x \in Seq(U) /\ Len(x) = IF k + 1 <= R THEN R - (k + 1) + 1 ELSE 0
            /\ \A i \in 1..(R - (k + 1) + 1) : x[i] = rest[k + 1 + i - 1]
        BY <3>1, <1>1, <1>2, <2>1, SubSeqProperties DEF Rest
      <3> HIDE DEF x
      <3>3. R - (k + 1) + 1 = R - k /\ (~(k + 1 <= R) => R - k = 0)
        BY <1>1, <2>1
      <3>4. \A i \in 1..(R - k) : k + 1 + i - 1 = k + i
        BY <2>1
      <3> QED BY <3>2, <3>3, <3>4
    <2>6. y \in Seq(U) /\ Len(y) = L - to /\ \A i \in 1..(L - to) : y[i] = path[to + i]
      <3>1. \A i \in (to + 1)..L : path[i] \in U
        BY <2>1
      <3>2. /\ y \in Seq(U) /\ Len(y) = IF to + 1 <= L THEN L - (to + 1) + 1 ELSE 0
            /\ \A i \in 1..(L - (to + 1) + 1) : y[i] = path[to + 1 + i - 1]
        BY <3>1, <1>1, <2>1, SubSeqProperties DEF Rest
      <3> HIDE DEF y
      <3>3. L - (to + 1) + 1 = L - to /\ (~(to + 1 <= L) => L - to = 0)
        BY <1>1, <2>1
      <3>4. \A i \in 1..(L - to) : to + 1 + i - 1 = to + i
        BY <2>1
      <3> QED BY <3>2, <3>3, <3>4
    <2>7. x = y
      <3> HIDE DEF x, y, rest
      <3>1. R - k = L - to /\ \A i \in 1..(R - k) : k + i \in 1..R /\ from + (k + i) = to + i
        BY <1>1, <2>1
      <3>2. \A i \in 1..(R - k) : x[i] = y[i]
        <4> TAKE i \in 1..(R - k)
        <4>1. x[i] = rest[k + i] /\ rest[k + i] = path[from + (k + i)] /\ y[i] = path[to + i]
          BY <2>5, <2>6, <3>1, <1>2
        <4> QED BY <4>1, <3>1
      <3>3. Len(x) = Len(y) /\ \A i \in 1..Len(x) : x[i] = y[i]
        BY <2>5, <2>6, <3>1, <3>2
      <3> QED BY <2>5, <2>6, <3>3, SeqEqual
    <2> QED BY <2>1, <2>4, <2>7
  <1> QED BY <1>2, <1>3

-----------------------------------------------------------------------------
(* The prefix that counts slashes takes the whole segments that are its own. *)

\* With no slash left over, the optional one makes no difference.
LEMMA FitsExactly ==
    ASSUME NEW U, "/" \in U, NEW pattern, pattern \in Seq(U), NEW text, text \in Seq(U)
    PROVE  /\ Captures(pattern, text, FALSE) \subseteq Captures(pattern, text, TRUE)
           /\ \A c \in Captures(pattern, text, TRUE) :
                Spelled(pattern, c) = text => c \in Captures(pattern, text, FALSE)
  <1> DEFINE N == Len(pattern)
  <1>1. PICK f : Fitting(f, U, pattern, text, TRUE) /\ Captures(pattern, text, TRUE) = f[N][0]
    BY CapturesFit
  <1>2. PICK g : Fitting(g, U, pattern, text, FALSE) /\ Captures(pattern, text, FALSE) = g[N][0]
    BY CapturesFit
  <1>3. N \in 0..N /\ 0 \in 0..Len(text) /\ N \in Nat
    OBVIOUS
  <1>4. /\ \A c \in g[N][0] : c \in f[N][0]
        /\ \A c \in f[N][0] : c \in g[N][0] \/ Slashed(pattern, c, N) = Rest(text, 0)
    <2>1. OrSlashed(f, g, pattern, text, N, 0)
      BY <1>1, <1>2, <1>3, OptionalSlash
    <2> QED BY <2>1 DEF OrSlashed
  <1>5. ASSUME NEW c \in f[N][0], Spelled(pattern, c) = text PROVE Slashed(pattern, c, N) # Rest(text, 0)
    <2>1. Rest(text, 0) = text
      BY DEF Rest
    <2>2. LastParts(pattern, c, N) = [i \in DOMAIN pattern |-> Piece(pattern, c, i)]
      <3>1. DOMAIN pattern = 1..N /\ \A i \in 1..N : N - N + i = i
        BY <1>3
      <3> QED BY <3>1 DEF LastParts
    <2>3. Slashed(pattern, c, N) = Conc(text, <<"/">>)
      BY <1>5, <2>2 DEF Slashed, Spelled
    <2>4. Len(Conc(text, <<"/">>)) = Len(text) + 1
      BY DEF Conc
    <2>5. Conc(text, <<"/">>) # text
      BY <2>4
    <2> QED BY <2>1, <2>3, <2>5
  <1> HIDE DEF N
  <1> QED BY <1>1, <1>2, <1>4, <1>5

LEMMA PrefixSlashes ==
    ASSUME NEW U, NEW prefix, prefix \in Seq(U), "/" \in ToSet(prefix)
    PROVE  SlashCount(prefix) \in Nat /\ SlashCount(prefix) # 0
  <1>1. IsFiniteSet(Slashes(prefix)) /\ SlashCount(prefix) = Cardinality(Slashes(prefix)) /\ SlashCount(prefix) \in Nat
    BY SlashesFinite
  <1>2. Slashes(prefix) # {}
    BY DEF Slashes, ToSet
  <1> QED BY <1>1, <1>2, FS_EmptySet

\* What is cut for a prefix fits, with or without an optional slash, or not at all; when it
\* does, it has the slashes of the prefix.
LEMMA CutFits ==
    ASSUME NEW U, "/" \in U, NEW prefix, prefix \in Seq(U), "/" \in ToSet(prefix), NEW rest, rest \in Seq(U)
    PROVE  LET text == Cut(rest, SlashCount(prefix))
           IN  /\ text \in Seq(U)
               /\ Fits(prefix, text, FALSE) <=> FindSubmatch(prefix, text, TRUE) # {}
               /\ Fits(prefix, text, FALSE) => SlashCount(text) = SlashCount(prefix)
  <1> DEFINE n == SlashCount(prefix)
             text == Cut(rest, n)
  <1>1. n \in Nat /\ n # 0
    BY PrefixSlashes
  <1>2. text \in Seq(U) /\ SlashCount(text) <= n
    <2> HIDE DEF n
    <2> QED BY <1>1, CutSlashes
  <1>3. ASSUME NEW c \in Captures(prefix, text, TRUE) PROVE Spelled(prefix, c) = text
    BY PrefixSpells
  <1>4. \A c \in Captures(prefix, text, TRUE) : \A i \in Places(prefix) : c[i] \in Seq(U)
    BY <1>2, CapturedWithin
  <1> HIDE DEF n, text
  <1>5. Captures(prefix, text, FALSE) \subseteq Captures(prefix, text, TRUE)
    BY <1>2, FitsExactly
  <1>6. Captures(prefix, text, TRUE) \subseteq Captures(prefix, text, FALSE)
    BY <1>2, <1>3, FitsExactly
  <1>7. FindSubmatch(prefix, text, TRUE) = {} <=> Captures(prefix, text, TRUE) = {}
    BY <1>2, FindsWhatFits
  <1>8. ASSUME Captures(prefix, text, FALSE) # {} PROVE SlashCount(text) = n
    <2>1. PICK c \in Captures(prefix, text, TRUE) : TRUE
      BY <1>5, <1>8
    <2>2. SlashCount(prefix) <= SlashCount(Spelled(prefix, c))
      BY <1>4, SpelledSlashes
    <2>3. n <= SlashCount(text)
      BY <1>3, <2>2 DEF n
    <2>4. SlashCount(text) \in Nat
      BY <1>2, SlashesFinite
    <2> QED BY <1>1, <1>2, <2>3, <2>4
  <1> QED BY <1>2, <1>5, <1>6, <1>7, <1>8 DEF Fits, n, text

\* The shared path holds what is after a place.
Stands(path, m, from) == from \in 0..Len(path) /\ m.path = Rest(path, from) /\ Sectioned(m.path)

LEMMA EmptyFits ==
    FindSubmatch(<<>>, <<>>, FALSE) # {}
  <1> DEFINE U == {"/"}
             p == <<>>
  <1>1. p \in Seq(U) /\ "/" \in U /\ Len(p) = 0
    OBVIOUS
  <1> HIDE DEF p, U
  <1>2. PICK f : Fitting(f, U, p, p, FALSE) /\ Captures(p, p, FALSE) = f[Len(p)][0]
    BY <1>1, CapturesFit
  <1>3. f[0] = AtEnd(p, FALSE)
    BY <1>2 DEF Fitting
  <1>4. Captures(p, p, FALSE) = AtEnd(p, FALSE)[0]
    BY <1>1, <1>2, <1>3
  <1>5. AtEnd(p, FALSE)[0] # {}
    BY <1>1 DEF AtEnd
  <1>6. FindSubmatch(p, p, FALSE) # {}
    BY <1>1, <1>4, <1>5, FindsWhatFits
  <1> QED BY <1>6 DEF p

\* The prefix that counts slashes and the prefix that takes whole segments are the same.
LEMMA HeadTaken ==
    ASSUME NEW method, NEW path, path \in Seq(ToSet(path)), RoutersInv, NEW r \in DOMAIN routers,
           NEW m \in Sound(method, path), NEW from, Stands(path, m, from), routers[r].prefix # <<>>
    PROVE  /\ HeadFits(r, m) # {} <=> Taken(r, path, from) # {}
           /\ HeadFits(r, m) # {} => Taken(r, path, from) = {from + Len(Headed(r, m))}
  <1> DEFINE prefix == routers[r].prefix
             U == Tokens(path)
             n == SlashCount(prefix)
             rest == Rest(path, from)
             text == Cut(rest, n)
  <1>1. path \in Seq(U) /\ "/" \in U /\ from \in 0..Len(path) /\ m.path = rest /\ Sectioned(rest)
    BY TokensHave DEF Stands
  <1>2. prefix \in GivenPrefixes
    BY RouterFields
  <1>3. prefix \in Seq(U)
    BY <1>2, TokensHave DEF Patterns
  <1>4. "/" \in ToSet(prefix)
    <2> HIDE DEF prefix
    <2> QED BY <1>2, PrefixesAssumption DEF GivenPrefixes, prefix
  <1>5. Headed(r, m) = text /\ HeadFits(r, m) = FindSubmatch(prefix, text, TRUE)
    <2>1. Headed(r, m) = text
      BY <1>1 DEF Headed
    <2>2. (prefix # <<>>) = TRUE
      OBVIOUS
    <2> QED BY <2>1, <2>2 DEF HeadFits
  <1> HIDE DEF U, prefix
  <1>6. rest \in Seq(U) /\ Len(rest) = Len(path) - from
    BY <1>1, RestOfRest
  <1>7. n \in Nat /\ n # 0
    BY <1>3, <1>4, PrefixSlashes
  <1>8. /\ text \in Seq(U) /\ (Fits(prefix, text, FALSE) <=> FindSubmatch(prefix, text, TRUE) # {})
        /\ (Fits(prefix, text, FALSE) => SlashCount(text) = n)
    BY <1>1, <1>3, <1>4, <1>6, CutFits
  <1>9. Taken(r, path, from) =
          {i \in from..Len(path) : /\ Fits(prefix, SubSeq(path, from + 1, i), FALSE)
                                   /\ SlashCount(SubSeq(path, from + 1, i)) = n
                                   /\ i = Len(path) \/ path[i + 1] = "/"}
    BY DEF Taken, prefix
  <1>10. Len(path) \in Nat /\ from \in Nat
    BY <1>1
  <1>11. \A k \in 0..(Len(path) - from) :
            /\ from + k \in from..Len(path)
            /\ SubSeq(rest, 1, k) = SubSeq(path, from + 1, from + k)
    BY <1>1, RestOfRest
  <1>12. \A k \in 1..(Len(path) - from) : rest[k] = path[from + k]
    BY <1>1, RestOfRest
  <1> HIDE DEF rest, n
  <1>13. PICK k \in 0..Len(rest) : /\ text = SubSeq(rest, 1, k) /\ Len(text) = k
                                   /\ k = Len(rest) \/ rest[k + 1] = "/"
    BY <1>6, CutEnds
  <1> HIDE DEF text
  <1>14. ASSUME Fits(prefix, text, FALSE) PROVE from + Len(text) \in Taken(r, path, from)
    <2>1. k \in 0..(Len(path) - from) /\ k \in Nat
      BY <1>6, <1>10, <1>13
    <2>2. from + k \in from..Len(path) /\ text = SubSeq(path, from + 1, from + k)
      BY <1>11, <1>13, <2>1
    <2>3. from + k = Len(path) \/ path[from + k + 1] = "/"
      <3>1. CASE k = Len(rest)
        BY <3>1, <1>6, <1>10
      <3>2. CASE k # Len(rest)
        <4>1. k + 1 \in 1..(Len(path) - from) /\ from + (k + 1) = from + k + 1
          BY <3>2, <2>1, <1>6, <1>10
        <4>2. path[from + k + 1] = rest[k + 1]
          BY <1>12, <4>1
        <4> QED BY <3>2, <4>2, <1>13
      <3> QED BY <3>1, <3>2
    <2> QED BY <1>8, <1>9, <1>13, <1>14, <2>2, <2>3
  <1>15. ASSUME NEW i \in Taken(r, path, from) PROVE Fits(prefix, text, FALSE) /\ i = from + Len(text)
    <2>1. /\ i \in from..Len(path) /\ Fits(prefix, SubSeq(path, from + 1, i), FALSE)
          /\ SlashCount(SubSeq(path, from + 1, i)) = n
          /\ i = Len(path) \/ path[i + 1] = "/"
      BY <1>9
    <2> DEFINE j == i - from
    <2>2. j \in 0..(Len(path) - from) /\ j \in 0..Len(rest) /\ from + j = i /\ j \in Nat
      BY <1>6, <1>10, <2>1
    <2> HIDE DEF j
    <2>3. SubSeq(rest, 1, j) = SubSeq(path, from + 1, i)
      BY <1>11, <2>2
    <2>4. j = Len(rest) \/ rest[j + 1] = "/"
      <3>1. CASE i = Len(path)
        BY <3>1, <2>2, <1>6, <1>10
      <3>2. CASE i # Len(path)
        <4>1. j + 1 \in 1..(Len(path) - from) /\ from + (j + 1) = i + 1
          BY <3>2, <2>1, <2>2, <1>10
        <4>2. rest[j + 1] = path[i + 1]
          BY <1>12, <4>1
        <4> QED BY <3>2, <4>2, <2>1
      <3> QED BY <3>1, <3>2
    <2>5. text = SubSeq(rest, 1, j)
      <3>1. n = SlashCount(SubSeq(rest, 1, j))
        BY <2>1, <2>3
      <3>2. Cut(rest, n) = SubSeq(rest, 1, j)
        BY <3>1, <2>2, <2>4, <1>1, <1>6, <1>7, CutAt
      <3> QED BY <3>2 DEF text
    <2>6. Len(text) = j
      BY <2>2, <2>5, <1>6
    <2> QED BY <2>1, <2>2, <2>3, <2>5, <2>6
  <1> QED BY <1>5, <1>8, <1>14, <1>15

-----------------------------------------------------------------------------
(* What a list of routes resolves to. *)

\* A function by which each depends on later ones exists.
Upward(step, N, A) ==
    /\ step \in [1..N -> [[1..N -> A] -> A]]
    /\ \A s \in 1..N : \A g, h \in [1..N -> A] :
          (\A c \in (s + 1)..N : g[c] = h[c]) => step[s][g] = step[s][h]

LEMMA UpTree ==
    ASSUME NEW N \in Nat, NEW A, NEW base \in A, NEW step, Upward(step, N, A)
    PROVE  \E f \in [1..N -> A] : \A s \in 1..N : f[s] = step[s][f]
  <1> DEFINE F == [1..N -> A]
             Good(k) == \E f \in F : \A s \in (N - k + 1)..N : f[s] = step[s][f]
             S == {k \in 0..N : Good(k)}
  <1>1. \A s \in 1..N : step[s] \in [F -> A]
    BY DEF Upward
  <1>2. ASSUME NEW s \in 1..N, NEW g \in F, NEW h \in F, \A c \in (s + 1)..N : g[c] = h[c]
        PROVE  step[s][g] = step[s][h]
    BY <1>2 DEF Upward
  <1>3. ASSUME NEW k \in 0..N, \A m \in 0..(k - 1) : m \in S PROVE k \in S
    <2>1. CASE k = 0
      <3>1. [s \in 1..N |-> base] \in F
        OBVIOUS
      <3>2. (N - k + 1)..N = {}
        BY <2>1
      <3> QED BY <3>1, <3>2
    <2>2. CASE k # 0
      <3>1. k - 1 \in 0..(k - 1) /\ N - k + 1 \in 1..N
        BY <2>2
      <3> DEFINE i == N - k + 1
      <3>2. PICK f \in F : \A s \in (N - (k - 1) + 1)..N : f[s] = step[s][f]
        BY <3>1, <1>3
      <3>3. N - (k - 1) + 1 = i + 1 /\ i \in 1..N
        BY <3>1
      <3> HIDE DEF F
      <3> DEFINE value == step[i][f]
                 g == [f EXCEPT ![i] = value]
      <3>4. value \in A
        BY <3>2, <3>3, <1>1
      <3>5. g \in F /\ g[i] = value /\ \A s \in 1..N : s # i => g[s] = f[s]
        BY <3>2, <3>3, <3>4 DEF F
      <3> HIDE DEF g, i
      <3>6. ASSUME NEW s \in i..N PROVE g[s] = step[s][g]
        <4>1. s \in 1..N /\ s \in Int /\ i \in Int /\ s >= i
          BY <3>3
        <4>2. \A c \in (s + 1)..N : c \in 1..N /\ c # i
          BY <4>1
        <4>3. \A c \in (s + 1)..N : g[c] = f[c]
          BY <4>2, <3>5
        <4>4. step[s][g] = step[s][f]
          BY <4>1, <4>3, <3>2, <3>5, <1>2
        <4>5. CASE s = i
          BY <4>4, <4>5, <3>5
        <4>6. CASE s # i
          <5>1. s \in (i + 1)..N
            BY <4>1, <4>6
          <5>2. f[s] = step[s][f]
            BY <5>1, <3>2, <3>3
          <5> QED BY <4>1, <4>4, <4>6, <5>2, <3>5
        <4> QED BY <4>5, <4>6
      <3> QED BY <3>5, <3>6 DEF i
    <2> QED BY <2>1, <2>2
  <1> HIDE DEF S
  <1>4. N \in S
    <2>1. 0..N \subseteq S
      BY <1>3, UpTo
    <2> QED BY <2>1
  <1>5. N - N + 1 = 1
    OBVIOUS
  <1> QED BY <1>4, <1>5 DEF S

-----------------------------------------------------------------------------

LEMMA MinIs ==
    ASSUME NEW S, S \subseteq Nat, S # {}
    PROVE  Min(S) \in S /\ \A n \in S : Min(S) <= n
  <1>1. \E n \in S : \A m \in S : n <= m
    BY LeastNumber
  <1> QED BY <1>1 DEF Min

\* Of two routes, or errors, the one a search ends with that meets x first.
Prefer(x, y) == IF x > NotFound \/ y = NotFound THEN x ELSE y

Outcomes == {NotFound, MethodNotAllowed} \cup DOMAIN routes

Able(reached, method) == {i \in DOMAIN reached : Allows(reached[i], method)}

LEMMA ResolutionIs ==
    ASSUME RoutesInv, NEW method, NEW a, a \in Seq(DOMAIN routes)
    PROVE  /\ Able(a, method) = {} /\ a = <<>> => Resolution(a, method) = NotFound
           /\ Able(a, method) = {} /\ a # <<>> => Resolution(a, method) = MethodNotAllowed
           /\ Able(a, method) # {} => \E i \in Able(a, method) : /\ \A j \in Able(a, method) : i <= j
                                                                 /\ Resolution(a, method) = a[i]
                                                                 /\ a[i] \in DOMAIN routes /\ a[i] > NotFound
           /\ Resolution(a, method) \in Outcomes
  <1>1. DOMAIN a = 1..Len(a) /\ Len(a) \in Nat /\ DOMAIN routes = 1..Len(routes) /\ Len(routes) \in Nat
    BY DEF RoutesInv
  <1>2. Able(a, method) \subseteq Nat
    BY <1>1 DEF Able
  <1>3. Resolution(a, method) = IF Able(a, method) # {} THEN a[Min(Able(a, method))]
                                ELSE IF a # <<>> THEN MethodNotAllowed ELSE NotFound
    BY DEF Resolution, Able
  <1>4. ASSUME Able(a, method) # {}
        PROVE  /\ Min(Able(a, method)) \in Able(a, method)
               /\ \A j \in Able(a, method) : Min(Able(a, method)) <= j
    BY <1>2, <1>4, MinIs
  <1>5. \A i \in Able(a, method) : a[i] \in DOMAIN routes /\ a[i] > NotFound
    BY <1>1 DEF Able, NotFound
  <1> QED BY <1>3, <1>4, <1>5 DEF Outcomes

LEMMA ResolutionConc ==
    ASSUME RoutesInv, NEW method, NEW a, NEW b, a \in Seq(DOMAIN routes), b \in Seq(DOMAIN routes)
    PROVE  Resolution(Conc(a, b), method) = Prefer(Resolution(a, method), Resolution(b, method))
  <1> DEFINE c == Conc(a, b)
             A == Able(a, method)
             B == Able(b, method)
             C == Able(c, method)
             R(x) == Resolution(x, method)
  <1>1. /\ c \in Seq(DOMAIN routes) /\ Len(c) = Len(a) + Len(b)
        /\ \A i \in 1..Len(a) : c[i] = a[i]
        /\ \A i \in 1..Len(b) : c[Len(a) + i] = b[i]
    BY DEF Conc
  <1>2. /\ Len(a) \in Nat /\ Len(b) \in Nat /\ DOMAIN a = 1..Len(a) /\ DOMAIN b = 1..Len(b)
        /\ DOMAIN c = 1..Len(c)
    BY <1>1
  <1> HIDE DEF c
  <1>3. \A i \in C : (i <= Len(a) /\ i \in A) \/ (i > Len(a) /\ i - Len(a) \in B)
    <2> SUFFICES ASSUME NEW i \in C PROVE (i <= Len(a) /\ i \in A) \/ (i > Len(a) /\ i - Len(a) \in B)
      OBVIOUS
    <2>1. i \in 1..(Len(a) + Len(b)) /\ Allows(c[i], method)
      BY <1>1, <1>2 DEF Able
    <2>2. CASE i <= Len(a)
      BY <2>1, <2>2, <1>1, <1>2 DEF Able
    <2>3. CASE ~(i <= Len(a))
      <3>1. i - Len(a) \in 1..Len(b) /\ Len(a) + (i - Len(a)) = i
        BY <2>1, <2>3, <1>2
      <3>2. c[i] = b[i - Len(a)]
        BY <3>1, <1>1
      <3> QED BY <2>1, <2>3, <3>1, <3>2, <1>2 DEF Able
    <2> QED BY <2>2, <2>3
  <1>4. (\A i \in A : i \in C) /\ (\A i \in B : Len(a) + i \in C)
    <2>1. \A i \in 1..Len(a) : i \in DOMAIN c
      BY <1>1, <1>2
    <2>2. \A i \in 1..Len(b) : Len(a) + i \in DOMAIN c
      BY <1>1, <1>2
    <2> QED BY <2>1, <2>2, <1>1, <1>2 DEF Able
  <1>5. R(a) \in Outcomes /\ R(b) \in Outcomes
    BY ResolutionIs
  <1>6. A \subseteq 1..Len(a) /\ B \subseteq 1..Len(b) /\ C \subseteq Nat
    BY <1>2 DEF Able
  <1>7. CASE A # {}
    <2>1. PICK i \in A : (\A j \in A : i <= j) /\ R(a) = a[i] /\ a[i] > NotFound
      BY <1>7, ResolutionIs
    <2>2. i \in C /\ i \in 1..Len(a) /\ c[i] = a[i]
      BY <1>1, <1>4, <1>6
    <2>3. PICK k \in C : (\A j \in C : k <= j) /\ R(c) = c[k]
      BY <2>2, <1>1, ResolutionIs
    <2>4. k = i
      <3>1. k <= i /\ i <= Len(a) /\ k \in Nat /\ i \in Nat
        BY <2>2, <2>3, <1>6
      <3>2. k \in A
        BY <3>1, <1>2, <1>3
      <3> QED BY <2>1, <3>1, <3>2
    <2> QED BY <2>1, <2>2, <2>3, <2>4 DEF Prefer, c
  <1>8. CASE A = {} /\ B # {}
    <2>1. PICK i \in B : (\A j \in B : i <= j) /\ R(b) = b[i] /\ b[i] > NotFound
      BY <1>8, ResolutionIs
    <2>2. Len(a) + i \in C /\ i \in 1..Len(b) /\ c[Len(a) + i] = b[i]
      BY <1>1, <1>4, <1>6
    <2>3. PICK k \in C : (\A j \in C : k <= j) /\ R(c) = c[k]
      BY <2>2, <1>1, ResolutionIs
    <2>4. k = Len(a) + i
      <3>1. k <= Len(a) + i /\ k \in Nat /\ i \in Nat
        BY <2>2, <2>3, <1>6
      <3>2. k > Len(a) /\ k - Len(a) \in B
        BY <1>3, <1>8
      <3>3. i <= k - Len(a)
        BY <2>1, <3>2
      <3> QED BY <3>1, <3>3, <1>2
    <2>5. R(a) \in {NotFound, MethodNotAllowed}
      BY <1>8, ResolutionIs
    <2>6. ~(R(a) > NotFound)
      BY <2>5 DEF NotFound, MethodNotAllowed
    <2>7. R(b) # NotFound
      BY <2>1 DEF NotFound
    <2> QED BY <2>1, <2>2, <2>3, <2>4, <2>6, <2>7 DEF Prefer, c
  <1>9. CASE A = {} /\ B = {}
    <2>1. C = {}
      BY <1>3, <1>9
    <2>2. R(c) = IF c = <<>> THEN NotFound ELSE MethodNotAllowed
      BY <2>1, <1>1, ResolutionIs
    <2>3. R(a) = IF a = <<>> THEN NotFound ELSE MethodNotAllowed
      BY <1>9, ResolutionIs
    <2>4. R(b) = IF b = <<>> THEN NotFound ELSE MethodNotAllowed
      BY <1>9, ResolutionIs
    <2>5. c = <<>> <=> (a = <<>> /\ b = <<>>)
      <3>1. \A x \in Seq(DOMAIN routes) : x = <<>> <=> Len(x) = 0
        OBVIOUS
      <3> QED BY <3>1, <1>1, <1>2
    <2> HIDE DEF R
    <2> QED BY <2>2, <2>3, <2>4, <2>5 DEF Prefer, NotFound, MethodNotAllowed, c, R
  <1> QED BY <1>7, <1>8, <1>9

LEMMA ResolutionEmpty ==
    ASSUME RoutesInv, NEW method
    PROVE  Resolution(<<>>, method) = NotFound
  <1>1. <<>> \in Seq(DOMAIN routes) /\ Able(<<>>, method) = {}
    BY DEF Able
  <1> QED BY <1>1, ResolutionIs

LEMMA ResolutionOne ==
    ASSUME RoutesInv, NEW method, NEW t \in DOMAIN routes
    PROVE  Resolution(<<t>>, method) = IF Allows(t, method) THEN t ELSE MethodNotAllowed
  <1> DEFINE a == <<t>>
  <1>1. a \in Seq(DOMAIN routes) /\ DOMAIN a = {1} /\ a[1] = t /\ a # <<>>
    OBVIOUS
  <1> HIDE DEF a
  <1>2. CASE Allows(t, method)
    <2>1. Able(a, method) = {1}
      BY <1>1, <1>2 DEF Able
    <2>2. PICK i \in Able(a, method) : Resolution(a, method) = a[i]
      BY <1>1, <2>1, ResolutionIs
    <2>3. Resolution(a, method) = t
      BY <1>1, <2>1, <2>2
    <2> QED BY <1>2, <2>3 DEF a
  <1>3. CASE ~Allows(t, method)
    <2>1. Able(a, method) = {}
      BY <1>1, <1>3 DEF Able
    <2>2. Resolution(a, method) = MethodNotAllowed
      BY <1>1, <2>1, ResolutionIs
    <2> QED BY <1>3, <2>2 DEF a
  <1> QED BY <1>2, <1>3

-----------------------------------------------------------------------------
(* Which routers claim a path. *)

Claiming(claims, path, from, s) ==
    IF routers[s].prefix # <<>> THEN Taken(s, path, from) # {}
    ELSE \E sub \in DOMAIN routers : routers[sub].parent = s /\ claims[sub]
IsClaims(claims, path, from) == claims = [s \in DOMAIN routers |-> Claiming(claims, path, from, s)]
ClaimsOf(path, from) == CHOOSE claims : IsClaims(claims, path, from)

LEMMA ClaimsAre == ASSUME NEW r, NEW path, NEW from PROVE Claims(r, path, from) = ClaimsOf(path, from)[r]
  BY DEF Claims, ClaimsOf, IsClaims, Claiming

LEMMA ClaimsExist ==
    ASSUME RoutersInv, NEW path, NEW from
    PROVE  \E claims : IsClaims(claims, path, from)
  <1> DEFINE N == Len(routers)
             B == BOOLEAN
             F == [1..N -> B]
             Step(s) == [g \in F |-> Claiming(g, path, from, s)]
             step == [s \in 1..N |-> Step(s)]
  <1>1. N \in Nat /\ DOMAIN routers = 1..N
    BY DEF RoutersInv, Tree
  <1>2. \A s \in 1..N : Step(s) \in [F -> B]
    BY DEF Claiming
  <1>3. \A sub \in DOMAIN routers : \A s \in 1..N : routers[sub].parent = s => sub \in (s + 1)..N
    <2> SUFFICES ASSUME NEW sub \in DOMAIN routers, NEW s \in 1..N, routers[sub].parent = s
                 PROVE  sub \in (s + 1)..N
      OBVIOUS
    <2>1. sub = Root => routers[sub].parent = 0
      BY DEF RoutersInv, Tree
    <2>2. sub # Root => routers[sub].parent \in 1..(sub - 1)
      BY DEF RoutersInv, Tree
    <2> QED BY <2>1, <2>2, <1>1
  <1>4. Upward(step, N, B)
    <2>1. step \in [1..N -> [F -> B]]
      BY <1>2
    <2>2. ASSUME NEW s \in 1..N, NEW g \in F, NEW h \in F, \A c \in (s + 1)..N : g[c] = h[c]
          PROVE  step[s][g] = step[s][h]
      <3>1. \A sub \in DOMAIN routers : routers[sub].parent = s => g[sub] = h[sub]
        BY <1>3, <2>2
      <3>2. Claiming(g, path, from, s) = Claiming(h, path, from, s)
        BY <3>1 DEF Claiming
      <3> QED BY <3>2
    <2> QED BY <2>1, <2>2 DEF Upward
  <1> HIDE DEF step, B
  <1>5. PICK f \in F : \A s \in 1..N : f[s] = step[s][f]
    <2>1. \E base : base \in B
      BY DEF B
    <2>2. PICK base : base \in B
      BY <2>1
    <2> QED BY <2>2, <1>1, <1>4, UpTree
  <1>6. \A s \in 1..N : f[s] = Claiming(f, path, from, s)
    BY <1>5 DEF step
  <1>7. IsClaims(f, path, from)
    BY <1>1, <1>5, <1>6 DEF IsClaims
  <1> QED BY <1>7

\* A router claims a path when its prefix fits, a group when a subrouter does.
LEMMA ClaimsStep ==
    ASSUME RoutersInv, NEW r \in DOMAIN routers, NEW path, NEW from
    PROVE  Claims(r, path, from) <=>
             IF routers[r].prefix # <<>> THEN Taken(r, path, from) # {}
             ELSE \E sub \in DOMAIN routers : routers[sub].parent = r /\ Claims(sub, path, from)
  <1> DEFINE claims == ClaimsOf(path, from)
  <1>1. IsClaims(claims, path, from)
    BY ClaimsExist DEF ClaimsOf
  <1> HIDE DEF claims
  <1>2. claims[r] = Claiming(claims, path, from, r)
    BY <1>1 DEF IsClaims
  <1>3. \A s : Claims(s, path, from) = claims[s]
    BY ClaimsAre DEF claims
  <1> QED BY <1>2, <1>3 DEF Claiming

-----------------------------------------------------------------------------
(* What Reach consists of. *)

Under(r, s, path, from) ==
    /\ routers[s].parent = r /\ ~Decided(r, path, from, s)
    /\ routers[s].prefix = <<>> \/ Claims(s, path, from)
Own(r, t, path, from) ==
    /\ routes[t].parent = r /\ ~Decided(r, path, from, Len(routers) + 1)
    /\ Fits(routes[t].uri, SubSeq(path, from + 1, Len(path)), FALSE)
SubParts(reach, r, path, from) ==
    [s \in DOMAIN routers |-> IF Under(r, s, path, from) THEN reach[s][After(s, path, from)] ELSE <<>>]
OwnParts(r, path, from) == [t \in DOMAIN routes |-> IF Own(r, t, path, from) THEN <<t>> ELSE <<>>]
Reached(reach, r, path, from) ==
    FlattenSeq(SubParts(reach, r, path, from)) \o FlattenSeq(OwnParts(r, path, from))
IsReach(reach, path) ==
    reach = [r \in DOMAIN routers |-> [from \in 0..Len(path) |-> Reached(reach, r, path, from)]]
ReachOf(path) == CHOOSE reach : IsReach(reach, path)

LEMMA ReachIs == ASSUME NEW path PROVE Reach(path) = ReachOf(path)[Root][0]
  BY DEF Reach, ReachOf, IsReach, Reached, SubParts, OwnParts, Under, Own

\* A subrouter that is reached begins at a place of the path.
LEMMA AfterIs ==
    ASSUME RoutersInv, NEW s \in DOMAIN routers, NEW path, Len(path) \in Nat, NEW from \in 0..Len(path),
           routers[s].prefix = <<>> \/ Claims(s, path, from)
    PROVE  After(s, path, from) \in 0..Len(path)
  <1>1. CASE routers[s].prefix = <<>>
    BY <1>1 DEF After
  <1>2. CASE routers[s].prefix # <<>>
    <2>1. Taken(s, path, from) # {}
      BY <1>2, ClaimsStep
    <2>2. PICK n \in Taken(s, path, from) : n = CHOOSE i \in Taken(s, path, from) : TRUE
      BY <2>1
    <2>3. n \in from..Len(path)
      BY DEF Taken
    <2> QED BY <1>2, <2>2, <2>3 DEF After
  <1> QED BY <1>1, <1>2

ReachSet(path) == [0..Len(path) -> Seq(DOMAIN routes)]

LEMMA PartsAre ==
    ASSUME RoutersInv, RoutesInv, NEW path, Len(path) \in Nat, NEW reach, NEW r,
           \A s \in DOMAIN routers : routers[s].parent = r => reach[s] \in ReachSet(path),
           NEW from \in 0..Len(path)
    PROVE  /\ SubParts(reach, r, path, from) \in Seq(Seq(DOMAIN routes))
           /\ Len(SubParts(reach, r, path, from)) = Len(routers)
           /\ OwnParts(r, path, from) \in Seq(Seq(DOMAIN routes))
           /\ Len(OwnParts(r, path, from)) = Len(routes)
           /\ Reached(reach, r, path, from) \in Seq(DOMAIN routes)
  <1> DEFINE T == DOMAIN routes
             subs == SubParts(reach, r, path, from)
             own == OwnParts(r, path, from)
  <1>1. Len(routers) \in Nat /\ DOMAIN routers = 1..Len(routers) /\ Len(routes) \in Nat /\ T = 1..Len(routes)
    BY DEF RoutersInv, RoutesInv, Tree
  <1>2. ASSUME NEW s \in 1..Len(routers)
        PROVE  (IF Under(r, s, path, from) THEN reach[s][After(s, path, from)] ELSE <<>>) \in Seq(T)
    <2>1. CASE Under(r, s, path, from)
      <3>1. After(s, path, from) \in 0..Len(path)
        BY <1>1, <2>1, AfterIs DEF Under
      <3>2. reach[s] \in ReachSet(path)
        BY <1>1, <2>1 DEF Under
      <3>3. reach[s][After(s, path, from)] \in Seq(T)
        BY <3>1, <3>2 DEF ReachSet
      <3> QED BY <2>1, <3>3
    <2>2. CASE ~Under(r, s, path, from)
      BY <2>2
    <2> QED BY <2>1, <2>2
  <1>3. subs \in Seq(Seq(T)) /\ Len(subs) = Len(routers)
    BY <1>1, <1>2 DEF SubParts
  <1>4. own \in Seq(Seq(T)) /\ Len(own) = Len(routes)
    <2>1. ASSUME NEW t \in 1..Len(routes)
          PROVE  (IF Own(r, t, path, from) THEN <<t>> ELSE <<>>) \in Seq(T)
      <3>1. <<t>> \in Seq(T) /\ <<>> \in Seq(T)
        BY <1>1
      <3> QED BY <3>1
    <2>2. own = [t \in 1..Len(routes) |-> IF Own(r, t, path, from) THEN <<t>> ELSE <<>>]
      BY <1>1 DEF OwnParts
    <2> HIDE DEF T, own
    <2> QED BY <1>1, <2>1, <2>2
  <1> HIDE DEF subs, own, T
  <1>5. FlattenSeq(subs) \in Seq(T) /\ FlattenSeq(own) \in Seq(T)
    BY <1>3, <1>4, FlattenConcat
  <1>6. FlattenSeq(subs) \o FlattenSeq(own) \in Seq(T)
    BY <1>5
  <1> QED BY <1>3, <1>4, <1>6 DEF Reached, subs, own, T

LEMMA ReachExists ==
    ASSUME RoutersInv, RoutesInv, NEW path, Len(path) \in Nat
    PROVE  \E reach \in [1..Len(routers) -> ReachSet(path)] : IsReach(reach, path)
  <1> DEFINE N == Len(routers)
             A == ReachSet(path)
             F == [1..N -> A]
             At0(g, s) == [from \in 0..Len(path) |-> Reached(g, s, path, from)]
             Step(s) == [g \in F |-> At0(g, s)]
             step == [s \in 1..N |-> Step(s)]
  <1>1. N \in Nat /\ DOMAIN routers = 1..N
    BY DEF RoutersInv, Tree
  <1>2. ASSUME NEW s \in 1..N, NEW g \in F PROVE At0(g, s) \in A
    <2> HIDE DEF N, F, A
    <2>1. \A from \in 0..Len(path) : Reached(g, s, path, from) \in Seq(DOMAIN routes)
      <3>1. \A sub \in DOMAIN routers : g[sub] \in ReachSet(path)
        BY <1>1 DEF F, A, N
      <3> QED BY <3>1, PartsAre
    <2> QED BY <2>1 DEF A, ReachSet
  <1>3. \A sub \in DOMAIN routers : \A s \in 1..N : routers[sub].parent = s => sub \in (s + 1)..N
    <2> SUFFICES ASSUME NEW sub \in DOMAIN routers, NEW s \in 1..N, routers[sub].parent = s
                 PROVE  sub \in (s + 1)..N
      OBVIOUS
    <2>1. sub = Root => routers[sub].parent = 0
      BY DEF RoutersInv, Tree
    <2>2. sub # Root => routers[sub].parent \in 1..(sub - 1)
      BY DEF RoutersInv, Tree
    <2> QED BY <2>1, <2>2, <1>1
  <1> HIDE DEF A
  <1>4. Upward(step, N, A)
    <2>0. \A s \in 1..N : Step(s) \in [F -> A]
      <3> TAKE s \in 1..N
      <3> HIDE DEF At0, F
      <3> QED BY <1>2
    <2>1. step \in [1..N -> [F -> A]]
      <3> HIDE DEF Step, F
      <3> QED BY <2>0
    <2>2. ASSUME NEW s \in 1..N, NEW g \in F, NEW h \in F, \A c \in (s + 1)..N : g[c] = h[c]
          PROVE  step[s][g] = step[s][h]
      <3>1. \A sub \in DOMAIN routers : routers[sub].parent = s => g[sub] = h[sub]
        BY <1>3, <2>2
      <3>2. \A from \in 0..Len(path) : SubParts(g, s, path, from) = SubParts(h, s, path, from)
        BY <3>1 DEF SubParts, Under
      <3>3. At0(g, s) = At0(h, s)
        BY <3>2 DEF Reached
      <3> HIDE DEF At0, F
      <3> QED BY <3>3
    <2> QED BY <2>1, <2>2 DEF Upward
  <1> HIDE DEF step
  <1>5. PICK f \in F : \A s \in 1..N : f[s] = step[s][f]
    <2>1. [from \in 0..Len(path) |-> <<>>] \in A
      BY DEF A, ReachSet
    <2> QED BY <2>1, <1>1, <1>4, UpTree
  <1>6. \A s \in 1..N : f[s] = At0(f, s)
    <2> HIDE DEF At0, F
    <2> QED BY <1>5 DEF step
  <1>7. f = [s \in 1..N |-> f[s]]
    BY <1>5
  <1>8. f = [s \in 1..N |-> At0(f, s)]
    <2> HIDE DEF At0
    <2> QED BY <1>6, <1>7
  <1>9. IsReach(f, path)
    BY <1>1, <1>8 DEF IsReach
  <1> QED BY <1>5, <1>9 DEF A

LEMMA ReachStep ==
    ASSUME RoutersInv, RoutesInv, NEW path, Len(path) \in Nat
    PROVE  \A r \in DOMAIN routers :
              /\ ReachOf(path)[r] \in ReachSet(path)
              /\ \A from \in 0..Len(path) : ReachOf(path)[r][from] = Reached(ReachOf(path), r, path, from)
  <1> DEFINE reach == ReachOf(path)
             N == Len(routers)
  <1>1. IsReach(reach, path)
    BY ReachExists DEF ReachOf
  <1> HIDE DEF reach
  <1>2. N \in Nat /\ DOMAIN routers = 1..N
    BY DEF RoutersInv, Tree
  <1>3. \A r \in DOMAIN routers : reach[r] = [from \in 0..Len(path) |-> Reached(reach, r, path, from)]
    BY <1>1 DEF IsReach
  <1> DEFINE S == {r \in 1..N : reach[r] \in ReachSet(path)}
  <1>4. ASSUME NEW r \in 1..N, \A s \in (r + 1)..N : s \in S PROVE r \in S
    <2>1. ASSUME NEW s \in DOMAIN routers, routers[s].parent = r PROVE reach[s] \in ReachSet(path)
      <3>1. s = Root => routers[s].parent = 0
        BY DEF RoutersInv, Tree
      <3>2. s # Root => routers[s].parent \in 1..(s - 1)
        BY DEF RoutersInv, Tree
      <3>3. s \in (r + 1)..N
        BY <2>1, <3>1, <3>2, <1>2
      <3> QED BY <3>3, <1>4
    <2>2. \A from \in 0..Len(path) : Reached(reach, r, path, from) \in Seq(DOMAIN routes)
      BY <2>1, PartsAre
    <2>3. [from \in 0..Len(path) |-> Reached(reach, r, path, from)] \in ReachSet(path)
      BY <2>2 DEF ReachSet
    <2> QED BY <2>3, <1>2, <1>3
  <1> HIDE DEF S, N
  <1>5. 1..N \subseteq S
    BY <1>2, <1>4, DownFrom
  <1>6. \A r \in DOMAIN routers : reach[r] \in ReachSet(path)
    BY <1>2, <1>5 DEF S
  <1> QED BY <1>3, <1>6 DEF reach

-----------------------------------------------------------------------------
(* What a search that shares its match has found. *)

\* Where a search is with the router that was entered with e: the route so far, if it is
\* done, is the one the routes reached so far resolve to.
Progress(reached, decided, method, e, a) ==
    ~a.m.resumed =>
        /\ ~e.resumed
        /\ a.ok => /\ a.m.route = Resolution(reached, method)
                   /\ ~(a.m.route > NotFound) => decided
        /\ ~a.ok => /\ a.m.path = e.path /\ ~decided
                    /\ Resolution(reached, method) =
                         IF a.m.err = MethodNotAllowed THEN MethodNotAllowed ELSE NotFound

\* A subrouter leaves no error behind when it does not answer.
Clean(a) == ~a.ok /\ ~a.m.resumed => a.m.err # MethodNotAllowed

\* What a router is to answer for what is after a place.
Verdict(path, method, r, from, m, a) ==
    ~a.m.resumed =>
        /\ a.ok => /\ a.m.route = Resolution(ReachOf(path)[r][After(r, path, from)], method)
                   /\ routers[r].prefix # <<>> \/ a.m.route = NotFound => Claims(r, path, from)
        /\ ~a.ok => /\ a.m.path = m.path /\ a.m.err # MethodNotAllowed /\ a.m.route = NotFound
                    /\ ~Claims(r, path, from)
                    /\ routers[r].prefix = <<>> =>
                         Resolution(ReachOf(path)[r][from], method) = NotFound
Judges(path, method, r, m, a) ==
    /\ m.resumed => a.m.resumed
    /\ \A from : Stands(path, m, from) /\ m.err # MethodNotAllowed => Verdict(path, method, r, from, m, a)

\* Nothing changes where nothing is reached.
LEMMA CarriesOn ==
    ASSUME RoutesInv, NEW method, NEW reached, NEW part, reached \in Seq(DOMAIN routes), part \in Seq(DOMAIN routes),
           NEW decided, NEW now, NEW e, NEW a, Progress(reached, decided, method, e, a),
           a.ok \/ part = <<>>, a.ok => a.m.route \in Outcomes,
           decided => part = <<>> /\ now, ~a.ok => (now => decided)
    PROVE  Progress(Conc(reached, part), now, method, e, a)
  <1>1. Resolution(Conc(reached, part), method) = Prefer(Resolution(reached, method), Resolution(part, method))
    BY ResolutionConc
  <1>2. part = <<>> => Conc(reached, part) = reached
    BY ConcEmpty
  <1>3. Resolution(reached, method) > NotFound =>
          Resolution(Conc(reached, part), method) = Resolution(reached, method)
    BY <1>1 DEF Prefer
  <1> QED BY <1>2, <1>3 DEF Progress

\* The part of a subrouter in what is reached.
LEMMA SubPart ==
    ASSUME RoutersInv, RoutesInv, NEW path, Len(path) \in Nat, NEW r \in DOMAIN routers,
           NEW from \in 0..Len(path), NEW s \in DOMAIN routers
    PROVE  /\ SubParts(ReachOf(path), r, path, from)[s] =
                 IF Under(r, s, path, from) THEN ReachOf(path)[s][After(s, path, from)] ELSE <<>>
           /\ SubParts(ReachOf(path), r, path, from)[s] \in Seq(DOMAIN routes)
           /\ Decided(r, path, from, s + 1) <=>
                 Decided(r, path, from, s) \/ (routers[s].parent = r /\ Claims(s, path, from))
  <1> DEFINE reach == ReachOf(path)
             parts == SubParts(reach, r, path, from)
  <1>1. \A q \in DOMAIN routers : reach[q] \in ReachSet(path)
    BY ReachStep
  <1> HIDE DEF reach
  <1>2. parts[s] = IF Under(r, s, path, from) THEN reach[s][After(s, path, from)] ELSE <<>>
    BY DEF SubParts
  <1>3. parts \in Seq(Seq(DOMAIN routes)) /\ Len(parts) = Len(routers)
    BY <1>1, PartsAre
  <1> HIDE DEF parts
  <1>4. parts[s] \in Seq(DOMAIN routes)
    <2>1. DOMAIN parts = DOMAIN routers
      BY <1>3 DEF RoutersInv, Tree
    <2> QED BY <1>3, <2>1, At
  <1>5. DOMAIN routers = 1..Len(routers) /\ Len(routers) \in Nat
    BY DEF RoutersInv, Tree
  <1>6. \A q \in DOMAIN routers : q < s + 1 <=> q < s \/ q = s
    BY <1>5
  <1>7. Decided(r, path, from, s + 1) <=>
          Decided(r, path, from, s) \/ (routers[s].parent = r /\ Claims(s, path, from))
    BY <1>6, <1>5 DEF Decided
  <1> QED BY <1>2, <1>4, <1>7 DEF parts, reach

LEMMA ResumedField ==
    ASSUME NEW method, NEW path, NEW m \in Sound(method, path)
    PROVE  [m EXCEPT !.resumed = TRUE].resumed
  <1>1. m = [path |-> m.path, params |-> m.params, route |-> m.route, err |-> m.err, resumed |-> m.resumed]
    BY SoundFields
  <1>2. PICK b \in BOOLEAN : b
    OBVIOUS
  <1>3. [m EXCEPT !.resumed = b]
          = [path |-> m.path, params |-> m.params, route |-> m.route, err |-> m.err, resumed |-> b]
    BY <1>1
  <1>4. [m EXCEPT !.resumed = b].resumed = b
    BY <1>3
  <1> QED BY <1>2, <1>4

LEMMA TrySubrouterJudges ==
    ASSUME NEW method, NEW path, path \in Seq(ToSet(path)), RoutersInv, RoutesInv,
           NEW r \in DOMAIN routers, NEW s \in DOMAIN routers, routers[s].parent = r,
           NEW from, NEW e, Stands(path, e, from), NEW reached \in Seq(DOMAIN routes), NEW match,
           NEW x \in Answers(method, path), ~x.ok, Clean(x),
           Progress(reached, Decided(r, path, from, s), method, e, x),
           match[s][x.m] \in Answers(method, path), Judges(path, method, s, x.m, match[s][x.m])
    PROVE  LET y == TrySubrouter(x, s, match)
               part == SubParts(ReachOf(path), r, path, from)[s]
           IN  Progress(Conc(reached, part), Decided(r, path, from, s + 1), method, e, y) /\ Clean(y)
  <1> DEFINE result == match[s][x.m]
             over == [ok |-> FALSE, m |-> [result.m EXCEPT !.resumed = TRUE]]
             y == TrySubrouter(x, s, match)
             part == SubParts(ReachOf(path), r, path, from)[s]
             decided == Decided(r, path, from, s)
             now == Decided(r, path, from, s + 1)
             passed == result.ok /\ routers[s].prefix = <<>> /\ result.m.route = MethodNotAllowed
  <1>1. y = IF passed THEN over ELSE result
    BY DEF TrySubrouter
  <1>2. over.m.resumed
    <2>1. result.m \in Sound(method, path)
      BY DEF Answers
    <2> HIDE DEF result
    <2> QED BY <2>1, ResumedField
  <1> HIDE DEF over
  <1>3. CASE passed
    <2>1. y.m.resumed
      BY <1>1, <1>2, <1>3
    <2> QED BY <2>1 DEF Progress, Clean
  <1>4. CASE ~passed
    <2>1. y = result
      BY <1>1, <1>4
    <2>2. CASE result.m.resumed
      BY <2>1, <2>2 DEF Progress, Clean
    <2>3. CASE ~result.m.resumed
      <3>1. from \in 0..Len(path) /\ e.path = Rest(path, from) /\ Len(path) \in Nat
        BY DEF Stands
      <3>2. /\ part = IF Under(r, s, path, from) THEN ReachOf(path)[s][After(s, path, from)] ELSE <<>>
            /\ part \in Seq(DOMAIN routes)
            /\ now <=> decided \/ Claims(s, path, from)
        BY <3>1, SubPart
      <3>3. ~x.m.resumed /\ (Stands(path, x.m, from) /\ x.m.err # MethodNotAllowed => Verdict(path, method, s, from, x.m, result))
        <4> HIDE DEF result
        <4>1. Judges(path, method, s, x.m, result)
          BY DEF result
        <4> QED BY <4>1, <2>3 DEF Judges
      <3>4. ~e.resumed /\ x.m.path = e.path /\ ~decided /\ Resolution(reached, method) = NotFound
        BY <3>3 DEF Progress, Clean
      <3>5. Verdict(path, method, s, from, x.m, result)
        BY <3>3, <3>4 DEF Clean, Stands
      <3>6. Resolution(Conc(reached, part), method) = Resolution(part, method)
        <4>1. Resolution(Conc(reached, part), method) = Prefer(NotFound, Resolution(part, method))
          BY <3>2, <3>4, ResolutionConc
        <4> QED BY <4>1 DEF Prefer, NotFound
      <3> HIDE DEF result, y, part, decided, now
      <3>7. CASE result.ok
        <4>1. /\ result.m.route = Resolution(ReachOf(path)[s][After(s, path, from)], method)
              /\ routers[s].prefix # <<>> \/ result.m.route = NotFound => Claims(s, path, from)
          BY <3>5, <3>7, <2>3 DEF Verdict
        <4>2. Under(r, s, path, from)
          BY <3>4, <4>1 DEF Under, decided
        <4>3. result.m.route = Resolution(part, method)
          BY <3>2, <4>1, <4>2
        <4>4. ~(result.m.route > NotFound) => now
          <5>1. Resolution(part, method) \in Outcomes
            BY <3>2, ResolutionIs
          <5>2. \A t \in DOMAIN routes : t > NotFound
            BY DEF RoutesInv, NotFound
          <5>3. ~(result.m.route > NotFound) => result.m.route \in {NotFound, MethodNotAllowed}
            BY <4>3, <5>1, <5>2 DEF Outcomes
          <5>4. result.m.route = MethodNotAllowed => routers[s].prefix # <<>>
            BY <1>4, <3>7 DEF passed
          <5> QED BY <3>2, <4>1, <5>3, <5>4
        <4>9. Progress(Conc(reached, part), now, method, e, y) /\ Clean(y)
          BY <2>1, <3>4, <3>6, <3>7, <4>3, <4>4 DEF Progress, Clean
        <4> QED BY <4>9 DEF y, part, now
      <3>8. CASE ~result.ok
        <4>1. /\ result.m.path = x.m.path /\ result.m.err # MethodNotAllowed /\ ~Claims(s, path, from)
              /\ routers[s].prefix = <<>> => Resolution(ReachOf(path)[s][from], method) = NotFound
          BY <3>5, <3>8, <2>3 DEF Verdict
        <4>2. Resolution(part, method) = NotFound
          <5>1. CASE routers[s].prefix = <<>>
            <6>1. part = ReachOf(path)[s][from]
              BY <3>2, <3>4, <5>1 DEF Under, After, decided
            <6> QED BY <4>1, <5>1, <6>1
          <5>2. CASE routers[s].prefix # <<>>
            <6>1. part = <<>>
              BY <3>2, <4>1, <5>2 DEF Under
            <6> QED BY <6>1, ResolutionEmpty
          <5> QED BY <5>1, <5>2
        <4>3. ~now
          BY <3>2, <3>4, <4>1
        <4>9. Progress(Conc(reached, part), now, method, e, y) /\ Clean(y)
          BY <2>1, <3>4, <3>6, <3>8, <4>1, <4>2, <4>3 DEF Progress, Clean
        <4> QED BY <4>9 DEF y, part, now
      <3> QED BY <3>7, <3>8 DEF y, part, now
    <2> QED BY <2>2, <2>3
  <1> QED BY <1>3, <1>4

\* A route that does not answer leaves an error, 405 if its URI fits.
Tried(t, method, m, y, found) ==
    /\ y.m.path = m.path /\ y.m.resumed = m.resumed /\ (y.ok => y.m.route = t)
    /\ y.ok <=> found # {} /\ Allows(t, method)
    /\ ~y.ok => y.m.err = IF found # {} THEN MethodNotAllowed
                          ELSE IF m.err = Nil THEN NotFound ELSE m.err

LEMMA MatchRouteErr ==
    ASSUME NEW method, NEW path, NEW t \in DOMAIN routes, NEW m \in Sound(method, path)
    PROVE  Tried(t, method, m, MatchRoute(t, method, m), FindSubmatch(routes[t].uri, m.path, FALSE))
  <1> DEFINE y == MatchRoute(t, method, m)
             found == FindSubmatch(routes[t].uri, m.path, FALSE)
             Bad(e) == [m EXCEPT !.err = e]
             e == IF found # {} THEN MethodNotAllowed ELSE IF m.err = Nil THEN NotFound ELSE m.err
  <1>1. y.m.path = m.path /\ y.m.resumed = m.resumed /\ (y.ok => y.m.route = t)
    <2>1. RouteAnswers(t, m, y)
      BY MatchRouteFields
    <2> HIDE DEF y
    <2> QED BY <2>1 DEF RouteAnswers
  <1>2. m = [path |-> m.path, params |-> m.params, route |-> m.route, err |-> m.err, resumed |-> m.resumed]
    BY SoundFields
  <1>3. /\ y.ok <=> found # {} /\ Allows(t, method)
        /\ ~y.ok => y = [ok |-> FALSE, m |-> Bad(e)]
    <2> HIDE DEF found
    <2> QED BY <1>2 DEF MatchRoute, found, Allows
  <1>4. \A f : Bad(f).err = f
    <2>1. \A f : Bad(f) = [path |-> m.path, params |-> m.params, route |-> m.route, err |-> f, resumed |-> m.resumed]
      BY <1>2
    <2> QED BY <2>1
  <1> HIDE DEF Bad, y, found, e
  <1>5. ~y.ok => y.m.err = e
    BY <1>3, <1>4
  <1>6. Tried(t, method, m, y, found)
    BY <1>1, <1>3, <1>5 DEF Tried, e
  <1> QED BY <1>6 DEF y, found

\* The routes of a router, tried one after the other.
LEMMA MatchRouteJudges ==
    ASSUME NEW method, NEW path, path \in Seq(ToSet(path)), RoutersInv, RoutesInv,
           NEW r \in DOMAIN routers, NEW t \in DOMAIN routes, routes[t].parent = r,
           NEW from, NEW e, Stands(path, e, from), NEW reached \in Seq(DOMAIN routes),
           NEW x \in Answers(method, path), ~x.ok,
           Progress(reached, Decided(r, path, from, Len(routers) + 1), method, e, x)
    PROVE  Progress(Conc(reached, OwnParts(r, path, from)[t]), Decided(r, path, from, Len(routers) + 1),
                    method, e, MatchRoute(t, method, x.m))
  <1> DEFINE y == MatchRoute(t, method, x.m)
             part == OwnParts(r, path, from)[t]
             decided == Decided(r, path, from, Len(routers) + 1)
             uri == routes[t].uri
             found == FindSubmatch(uri, x.m.path, FALSE)
  <1>1. x.m \in Sound(method, path)
    BY DEF Answers
  <1>2. /\ y.m.path = x.m.path /\ y.m.resumed = x.m.resumed /\ (y.ok => y.m.route = t)
        /\ y.ok <=> found # {} /\ Allows(t, method)
        /\ ~y.ok => y.m.err = IF found # {} THEN MethodNotAllowed
                              ELSE IF x.m.err = Nil THEN NotFound ELSE x.m.err
    <2>1. Tried(t, method, x.m, y, found)
      BY <1>1, MatchRouteErr
    <2> HIDE DEF y, found
    <2> QED BY <2>1 DEF Tried
  <1>3. CASE x.m.resumed
    BY <1>2, <1>3 DEF Progress
  <1>4. CASE ~x.m.resumed
    <2>1. /\ ~e.resumed /\ x.m.path = e.path /\ ~decided
          /\ Resolution(reached, method) = IF x.m.err = MethodNotAllowed THEN MethodNotAllowed ELSE NotFound
      BY <1>4 DEF Progress
    <2>2. found = {} <=> ~Fits(uri, Rest(path, from), FALSE)
      <3>1. uri \in Patterns
        BY RouteFields
      <3>2. uri \in Seq(Tokens(path)) /\ x.m.path \in Seq(Tokens(path)) /\ "/" \in Tokens(path)
        BY <1>1, <3>1, TokensHave, SoundFields
      <3>3. x.m.path = Rest(path, from)
        BY <2>1 DEF Stands
      <3> HIDE DEF uri
      <3> QED BY <3>2, <3>3, FindsWhatFits DEF Fits
    <2>3. part = IF found # {} THEN <<t>> ELSE <<>>
      <3>1. Own(r, t, path, from) <=> Fits(uri, Rest(path, from), FALSE)
        BY <2>1 DEF Own, Rest, decided
      <3> QED BY <2>2, <3>1 DEF OwnParts
    <2> HIDE DEF y, part, decided, found, uri
    <2>4. CASE found = {}
      <3>1. ~y.ok /\ part = <<>> /\ Conc(reached, part) = reached
        BY <1>2, <2>3, <2>4, ConcEmpty
      <3>2. y.m.err = MethodNotAllowed <=> x.m.err = MethodNotAllowed
        BY <1>2, <2>4, <3>1 DEF MethodNotAllowed, NotFound, Nil
      <3> QED BY <1>2, <2>1, <3>1, <3>2 DEF Progress, y, part, decided
    <2>5. CASE found # {}
      <3>1. Resolution(part, method) = IF Allows(t, method) THEN t ELSE MethodNotAllowed
        BY <2>3, <2>5, ResolutionOne
      <3>2. part \in Seq(DOMAIN routes)
        BY <2>3, <2>5
      <3>3. t > NotFound /\ t # NotFound
        BY DEF RoutesInv, NotFound
      <3>4. Resolution(Conc(reached, part), method) = Resolution(part, method)
        <4>1. Resolution(Conc(reached, part), method) = Prefer(Resolution(reached, method), Resolution(part, method))
          BY <3>2, ResolutionConc
        <4>2. Resolution(part, method) # NotFound
          BY <3>1, <3>3 DEF NotFound, MethodNotAllowed
        <4>3. ~(Resolution(reached, method) > NotFound)
          BY <2>1 DEF NotFound, MethodNotAllowed
        <4> QED BY <4>1, <4>2, <4>3 DEF Prefer
      <3>5. ~y.ok => y.m.err = MethodNotAllowed
        BY <1>2, <2>5
      <3> QED BY <1>2, <2>1, <2>5, <3>1, <3>3, <3>4, <3>5 DEF Progress, y, part, decided
    <2> QED BY <2>4, <2>5
  <1> QED BY <1>3, <1>4

\* The subrouters of a router find what is under them.
LEMMA InSubroutersJudges ==
    ASSUME NEW method, NEW path, path \in Seq(ToSet(path)), RoutersInv, RoutesInv, NEW r \in DOMAIN routers,
           NEW e \in Sound(method, path), NEW from, Stands(path, e, from), e.err # MethodNotAllowed, NEW match,
           \A s \in DOMAIN routers, m \in Sound(method, path) : routers[s].parent = r =>
              match[s][m] \in Answers(method, path) /\ Judges(path, method, s, m, match[s][m])
    PROVE  LET x == InSubrouters(r, match, e)
           IN  /\ x \in Answers(method, path) /\ Clean(x)
               /\ Progress(FlattenSeq(SubParts(ReachOf(path), r, path, from)), Decided(r, path, from, Len(routers) + 1),
                           method, e, x)
  <1> DEFINE A == Answers(method, path)
             N == Len(routers)
             parts == SubParts(ReachOf(path), r, path, from)
             D == Seq(DOMAIN routes)
  <1>1. N \in Nat /\ DOMAIN routers = 1..N
    BY DEF RoutersInv, Tree
  <1>2. Len(path) \in Nat /\ from \in 0..Len(path)
    BY DEF Stands
  <1>3. PICK f : SubroutersPass(f, r, match, e, A)
    <2>1. [ok |-> FALSE, m |-> e] \in A
      BY DEF Answers
    <2>2. Answering(r, match, method, path)
      BY DEF Answering
    <2>3. \A s \in DOMAIN routers, x \in A : routers[s].parent = r => TrySubrouter(x, s, match) \in A
      BY <2>2, TrySubrouterSound
    <2> HIDE DEF A
    <2> QED BY <2>1, <2>3, InSubroutersSteps
  <1>4. parts \in Seq(D) /\ Len(parts) = N
    <2>1. \A q \in DOMAIN routers : ReachOf(path)[q] \in ReachSet(path)
      BY <1>2, ReachStep
    <2> QED BY <1>2, <2>1, PartsAre
  <1> HIDE DEF parts
  <1>5. PICK g \in [0..N -> D] : Joins(g, parts) /\ FlattenSeq(parts) = g[N]
    BY <1>4, FlattenIs
  <1> HIDE DEF D
  <1>6. /\ f[0] = [ok |-> FALSE, m |-> e]
        /\ \A s \in 1..N : f[s] = SubrouterStep(r, match, s, f[s - 1])
        /\ \A s \in 0..N : f[s] \in A
        /\ InSubrouters(r, match, e) = f[N]
    BY <1>3 DEF SubroutersPass
  <1>7. g[0] = <<>> /\ \A s \in 1..N : g[s] = Conc(g[s - 1], parts[s])
    BY <1>4, <1>5 DEF Joins, Conc
  <1> HIDE DEF A
  <1> DEFINE Done(k) == Progress(g[k], Decided(r, path, from, k + 1), method, e, f[k]) /\ Clean(f[k])
             S == {k \in 0..N : Done(k)}
  <1>8. ASSUME NEW k \in 0..N, \A j \in 0..(k - 1) : j \in S PROVE k \in S
    <2>1. CASE k = 0
      <3>1. ~f[0].ok /\ f[0].m = e
        BY <1>6
      <3>2. ~Decided(r, path, from, 0 + 1)
        BY <1>1 DEF Decided
      <3>3. Resolution(g[0], method) = NotFound
        BY <1>7, ResolutionEmpty
      <3>4. Done(0)
        BY <3>1, <3>2, <3>3 DEF Progress, Clean
      <3> HIDE DEF Done
      <3> QED BY <2>1, <3>4
    <2>2. CASE k # 0
      <3>1. k \in 1..N /\ k - 1 \in 0..(k - 1) /\ k - 1 \in 0..N /\ (k - 1) + 1 = k /\ k \in DOMAIN routers
        BY <1>1, <2>2
      <3>2. Done(k - 1)
        BY <3>1, <1>8
      <3> DEFINE x == f[k - 1]
                 part == parts[k]
                 reached == g[k - 1]
      <3>3. x \in A /\ reached \in D
        BY <3>1, <1>5, <1>6
      <3>4. Progress(reached, Decided(r, path, from, k), method, e, x) /\ Clean(x)
        BY <3>1, <3>2
      <3>5. f[k] = SubrouterStep(r, match, k, x) /\ g[k] = Conc(reached, part)
        BY <3>1, <1>6, <1>7
      <3>6. /\ part = IF Under(r, k, path, from) THEN ReachOf(path)[k][After(k, path, from)] ELSE <<>>
            /\ part \in Seq(DOMAIN routes)
            /\ Decided(r, path, from, k + 1) <=>
                  Decided(r, path, from, k) \/ (routers[k].parent = r /\ Claims(k, path, from))
        BY <1>2, <3>1, SubPart DEF parts
      <3> HIDE DEF x, reached
      <3>7. Progress(g[k], Decided(r, path, from, k + 1), method, e, f[k]) /\ Clean(f[k])
        <4>1. CASE routers[k].parent = r /\ ~x.ok
          <5>1. x.m \in Sound(method, path)
            BY <3>3 DEF A, Answers
          <5>2. match[k][x.m] \in Answers(method, path) /\ Judges(path, method, k, x.m, match[k][x.m])
            BY <3>1, <4>1, <5>1
          <5>3. reached \in Seq(DOMAIN routes) /\ x \in Answers(method, path)
            BY <3>3 DEF A, D
          <5>4. LET y == TrySubrouter(x, k, match)
                IN  Progress(Conc(reached, part), Decided(r, path, from, k + 1), method, e, y) /\ Clean(y)
            BY <3>1, <3>4, <4>1, <5>2, <5>3, TrySubrouterJudges DEF parts
          <5>5. f[k] = TrySubrouter(x, k, match)
            BY <3>5, <4>1 DEF SubrouterStep
          <5> HIDE DEF part
          <5> QED BY <3>5, <5>4, <5>5
        <4>2. CASE ~(routers[k].parent = r /\ ~x.ok)
          <5>1. f[k] = x
            <6>1. TrySubrouter(x, k, match) = IF x.ok THEN x ELSE TrySubrouter(x, k, match)
              BY DEF TrySubrouter
            <6> QED BY <3>5, <4>2, <6>1 DEF SubrouterStep
          <5>2. CASE x.m.resumed
            BY <5>1, <5>2 DEF Progress, Clean
          <5>3. CASE ~x.m.resumed
            <6>1. reached \in Seq(DOMAIN routes)
              BY <3>3 DEF D
            <6>2. x.ok => x.m.route \in Outcomes
              BY <3>4, <5>3, <6>1, ResolutionIs DEF Progress
            <6> DEFINE before == Decided(r, path, from, k)
                       now == Decided(r, path, from, k + 1)
            <6>3. Under(r, k, path, from) => x.ok /\ ~before
              BY <4>2 DEF Under
            <6>4. x.ok \/ part = <<>>
              BY <3>6, <6>3
            <6>5. before => part = <<>> /\ now
              BY <3>6, <6>3
            <6>6. ~x.ok => (now => before)
              BY <3>6, <4>2
            <6> HIDE DEF before, now, part
            <6>7. Progress(Conc(reached, part), now, method, e, x)
              <7>1. Progress(reached, before, method, e, x)
                BY <3>4 DEF before
              <7> QED BY <7>1, <3>6, <6>1, <6>2, <6>4, <6>5, <6>6, CarriesOn
            <6> QED BY <3>4, <3>5, <5>1, <6>7 DEF now
          <5> QED BY <5>2, <5>3
        <4> QED BY <4>1, <4>2
      <3> QED BY <3>7
    <2> QED BY <2>1, <2>2
  <1> HIDE DEF S
  <1>9. N \in S
    <2>1. 0..N \subseteq S
      BY <1>1, <1>8, UpTo
    <2> QED BY <1>1, <2>1
  <1>10. N \in 0..N
    BY <1>1
  <1> QED BY <1>5, <1>6, <1>9, <1>10 DEF S, A, parts

\* The routes of a router find what is in it, after its subrouters.
LEMMA InRoutesJudges ==
    ASSUME NEW method, NEW path, path \in Seq(ToSet(path)), RoutersInv, RoutesInv, NEW r \in DOMAIN routers,
           NEW e \in Sound(method, path), NEW from, Stands(path, e, from), NEW subs \in Seq(DOMAIN routes),
           NEW result \in Answers(method, path),
           Progress(subs, Decided(r, path, from, Len(routers) + 1), method, e, result)
    PROVE  LET x == InRoutes(r, method, result)
           IN  /\ x \in Answers(method, path)
               /\ Progress(subs \o FlattenSeq(OwnParts(r, path, from)), Decided(r, path, from, Len(routers) + 1),
                           method, e, x)
  <1> DEFINE A == Answers(method, path)
             N == Len(routes)
             parts == OwnParts(r, path, from)
             D == Seq(DOMAIN routes)
             decided == Decided(r, path, from, Len(routers) + 1)
  <1>1. N \in Nat /\ DOMAIN routes = 1..N
    BY DEF RoutesInv
  <1>2. Len(path) \in Nat /\ from \in 0..Len(path)
    BY DEF Stands
  <1>3. PICK f : RoutesPass(f, r, method, result, A)
    <2>1. ASSUME NEW t \in DOMAIN routes, NEW x \in A PROVE MatchRoute(t, method, x.m) \in A
      <3>1. x.m \in Sound(method, path)
        BY DEF Answers
      <3> QED BY <3>1, MatchRouteSound
    <2>2. result \in A
      OBVIOUS
    <2> HIDE DEF A
    <2> QED BY <2>1, <2>2, InRoutesSteps
  <1>4. parts \in Seq(D) /\ Len(parts) = N
    <2>1. \A q \in DOMAIN routers : ReachOf(path)[q] \in ReachSet(path)
      BY <1>2, ReachStep
    <2> QED BY <1>2, <2>1, PartsAre
  <1>5. \A t \in 1..N : parts[t] = IF Own(r, t, path, from) THEN <<t>> ELSE <<>>
    BY <1>1 DEF OwnParts
  <1> HIDE DEF parts
  <1>6. PICK g \in [0..N -> D] : Joins(g, parts) /\ FlattenSeq(parts) = g[N]
    BY <1>4, FlattenIs
  <1>7. /\ f[0] = result
        /\ \A t \in 1..N : f[t] = RouteStep(r, method, t, f[t - 1])
        /\ \A t \in 0..N : f[t] \in A
        /\ InRoutes(r, method, result) = f[N]
    BY <1>3 DEF RoutesPass
  <1>8. g[0] = <<>> /\ \A t \in 1..N : g[t] = Conc(g[t - 1], parts[t])
    BY <1>4, <1>6 DEF Joins, Conc
  <1>9. subs \in D /\ \A t \in 1..N : parts[t] \in D
    BY <1>4
  <1> HIDE DEF D, A, decided
  <1> DEFINE Done(k) == Progress(Conc(subs, g[k]), decided, method, e, f[k])
             S == {k \in 0..N : Done(k)}
  <1>10. ASSUME NEW k \in 0..N, \A j \in 0..(k - 1) : j \in S PROVE k \in S
    <2>1. CASE k = 0
      <3>1. Conc(subs, g[0]) = subs
        BY <1>8, <1>9, ConcEmpty DEF D
      <3>2. Done(0)
        BY <3>1, <1>7 DEF decided
      <3> HIDE DEF Done
      <3> QED BY <2>1, <3>2
    <2>2. CASE k # 0
      <3>1. k \in 1..N /\ k - 1 \in 0..(k - 1) /\ k - 1 \in 0..N /\ k \in DOMAIN routes
        BY <1>1, <2>2
      <3>2. Done(k - 1)
        BY <3>1, <1>10
      <3> DEFINE x == f[k - 1]
                 part == parts[k]
                 reached == Conc(subs, g[k - 1])
      <3>3. x \in A /\ reached \in D /\ part \in D /\ g[k - 1] \in D
        BY <3>1, <1>6, <1>7, <1>9, ConcTyped DEF D
      <3>4. Progress(reached, decided, method, e, x)
        BY <3>2
      <3>5. f[k] = RouteStep(r, method, k, x)
        BY <3>1, <1>7
      <3>6. Conc(subs, g[k]) = Conc(reached, part)
        <4>1. g[k] = Conc(g[k - 1], part)
          BY <3>1, <1>8
        <4> HIDE DEF part
        <4> QED BY <4>1, <3>3, <1>9, ConcAssoc DEF D
      <3>7. part = IF Own(r, k, path, from) THEN <<k>> ELSE <<>>
        BY <3>1, <1>5
      <3> HIDE DEF x, reached
      <3>8. Progress(Conc(reached, part), decided, method, e, f[k])
        <4>1. CASE routes[k].parent = r /\ ~x.ok
          <5>1. reached \in Seq(DOMAIN routes) /\ x \in Answers(method, path)
            BY <3>3 DEF A, D
          <5>2. Progress(Conc(reached, OwnParts(r, path, from)[k]), decided, method, e, MatchRoute(k, method, x.m))
            BY <3>1, <3>4, <4>1, <5>1, MatchRouteJudges DEF decided
          <5>3. f[k] = MatchRoute(k, method, x.m)
            BY <3>5, <4>1 DEF RouteStep
          <5> QED BY <5>2, <5>3 DEF parts
        <4>2. CASE ~(routes[k].parent = r /\ ~x.ok)
          <5>1. f[k] = x
            BY <3>5, <4>2 DEF RouteStep
          <5>2. CASE x.m.resumed
            BY <5>1, <5>2 DEF Progress
          <5>3. CASE ~x.m.resumed
            <6>1. reached \in Seq(DOMAIN routes) /\ part \in Seq(DOMAIN routes)
              BY <3>3 DEF D
            <6>2. x.ok => x.m.route \in Outcomes
              BY <3>4, <5>3, <6>1, ResolutionIs DEF Progress
            <6>3. Own(r, k, path, from) => x.ok /\ ~decided
              BY <4>2 DEF Own, decided
            <6>4. (x.ok \/ part = <<>>) /\ (decided => part = <<>>)
              BY <3>7, <6>3
            <6> HIDE DEF part
            <6> QED BY <3>4, <5>1, <6>1, <6>2, <6>4, CarriesOn
          <5> QED BY <5>2, <5>3
        <4> QED BY <4>1, <4>2
      <3> QED BY <3>6, <3>8
    <2> QED BY <2>1, <2>2
  <1> HIDE DEF S
  <1>11. N \in 0..N
    BY <1>1
  <1>12. N \in S
    <2>1. 0..N \subseteq S
      BY <1>1, <1>10, UpTo
    <2> QED BY <1>11, <2>1
  <1>13. Conc(subs, g[N]) = subs \o FlattenSeq(OwnParts(r, path, from))
    BY <1>6 DEF Conc, parts
  <1>14. Progress(Conc(subs, g[N]), decided, method, e, f[N])
    BY <1>12 DEF S
  <1> QED BY <1>7, <1>11, <1>13, <1>14 DEF A, decided

\* Inside of a router that was entered, all that Reach lists is found.
LEMMA InsideJudges ==
    ASSUME NEW method, NEW path, path \in Seq(ToSet(path)), RoutersInv, RoutesInv, NEW r \in DOMAIN routers,
           NEW m \in Sound(method, path), HeadFits(r, m) # {}, NEW at, Stands(path, Entered(r, m), at),
           Entered(r, m).err # MethodNotAllowed, NEW match,
           \A s \in DOMAIN routers, x \in Sound(method, path) : routers[s].parent = r =>
              match[s][x] \in Answers(method, path) /\ Judges(path, method, s, x, match[s][x])
    PROVE  LET x == Inside(r, method, match, m)
           IN  /\ x \in Answers(method, path)
               /\ Progress(ReachOf(path)[r][at], Decided(r, path, at, Len(routers) + 1), method, Entered(r, m), x)
  <1> DEFINE e == Entered(r, m)
             subs == FlattenSeq(SubParts(ReachOf(path), r, path, at))
             own == FlattenSeq(OwnParts(r, path, at))
             result == InSubrouters(r, match, e)
             decided == Decided(r, path, at, Len(routers) + 1)
  <1>1. e \in Sound(method, path)
    BY EnteredSound
  <1>2. Len(path) \in Nat /\ at \in 0..Len(path)
    BY DEF Stands
  <1> HIDE DEF e
  <1>3. Stands(path, e, at) /\ e.err # MethodNotAllowed
    BY DEF e
  <1>4. result \in Answers(method, path) /\ Progress(subs, decided, method, e, result)
    BY <1>1, <1>3, InSubroutersJudges
  <1>5. ReachOf(path)[r][at] = subs \o own /\ subs \in Seq(DOMAIN routes)
    <2>1. \A q \in DOMAIN routers : ReachOf(path)[q] \in ReachSet(path)
      BY <1>2, ReachStep
    <2>2. ReachOf(path)[r][at] = Reached(ReachOf(path), r, path, at)
      BY <1>2, ReachStep
    <2>3. SubParts(ReachOf(path), r, path, at) \in Seq(Seq(DOMAIN routes))
      BY <1>2, <2>1, PartsAre
    <2>4. subs \in Seq(DOMAIN routes)
      BY <2>3, FlattenConcat
    <2> QED BY <2>2, <2>4 DEF Reached
  <1> HIDE DEF subs, result
  <1>6. LET x == InRoutes(r, method, result)
        IN  x \in Answers(method, path) /\ Progress(subs \o own, decided, method, e, x)
    BY <1>1, <1>3, <1>4, <1>5, InRoutesJudges
  <1> HIDE DEF own, decided
  <1>7. Inside(r, method, match, m) = InRoutes(r, method, result)
    BY DEF Inside, result, e
  <1> QED BY <1>5, <1>6, <1>7 DEF decided, e

\* A router that is entered goes on with what is after its prefix.
Enter(path, r, from, m, e) ==
    /\ Stands(path, e, After(r, path, from)) /\ e.err = m.err /\ e.resumed = m.resumed
    /\ routers[r].prefix # <<>> => Claims(r, path, from)
    /\ routers[r].prefix = <<>> => e.path = m.path /\ After(r, path, from) = from
    /\ routers[r].prefix = <<>> <=> Headed(r, m) = <<>>

LEMMA EnteredPlace ==
    ASSUME NEW method, NEW path, path \in Seq(ToSet(path)), RoutersInv, NEW r \in DOMAIN routers,
           NEW m \in Sound(method, path), NEW from, Stands(path, m, from), HeadFits(r, m) # {}
    PROVE  Enter(path, r, from, m, Entered(r, m))
  <1> DEFINE e == Entered(r, m)
             prefix == routers[r].prefix
             head == Headed(r, m)
             n == Len(head)
             rest == Rest(path, from)
             U == ToSet(path)
  <1>1. Enters(r, m, e) /\ Splits(r, m, e)
    BY EnteredSound, HeadSpells
  <1>2. from \in 0..Len(path) /\ m.path = rest /\ Sectioned(rest) /\ path \in Seq(U) /\ Len(path) \in Nat
    BY DEF Stands
  <1> HIDE DEF e
  <1>3. e.path = Rest(rest, n) /\ e.err = m.err /\ e.resumed = m.resumed
    BY <1>1, <1>2 DEF Enters, Rest
  <1>4. prefix = <<>> <=> head = <<>>
    BY <1>1 DEF Splits
  <1>5. CASE prefix = <<>>
    <2>1. n = 0
      BY <1>4, <1>5
    <2>2. After(r, path, from) = from
      BY <1>5 DEF After
    <2>3. rest \in Seq(U)
      BY <1>2, RestOfRest
    <2>4. Rest(rest, 0) = rest
      <3> HIDE DEF rest, U
      <3> QED BY <2>3 DEF Rest
    <2>5. e.path = m.path
      BY <1>2, <1>3, <2>1, <2>4
    <2>6. Stands(path, e, from)
      BY <1>2, <2>5 DEF Stands
    <2> QED BY <1>3, <1>4, <1>5, <2>2, <2>5, <2>6 DEF Enter, e
  <1>6. CASE prefix # <<>>
    <2>1. Taken(r, path, from) = {from + n}
      BY <1>6, HeadTaken
    <2>2. After(r, path, from) = from + n
      BY <1>6, <2>1 DEF After
    <2>3. Claims(r, path, from)
      BY <1>6, <2>1, ClaimsStep
    <2>4. from + n \in from..Len(path) /\ (from + n = Len(path) \/ path[from + n + 1] = "/")
      BY <2>1 DEF Taken
    <2>5. head \in Seq(U)
      BY HeadTyped
    <2>6. n \in Nat
      <3> HIDE DEF head, U
      <3> QED BY <2>5
    <2>7. n \in 0..(Len(path) - from)
      <3> HIDE DEF n
      <3> QED BY <1>2, <2>4, <2>6
    <2> HIDE DEF n, head
    <2>8. from + n \in 0..Len(path) /\ Rest(rest, n) = Rest(path, from + n)
      BY <1>2, <2>7, RestOfRest
    <2>9. Sectioned(Rest(path, from + n))
      <3> DEFINE k == from + n
                 tail == Rest(path, k)
      <3>1. tail \in Seq(U) /\ Len(tail) = Len(path) - k /\ \A i \in 1..(Len(path) - k) : tail[i] = path[k + i]
        <4> HIDE DEF k
        <4> QED BY <1>2, <2>8, RestOfRest DEF k
      <3>2. k \in 0..Len(path) /\ (k = Len(path) \/ path[k + 1] = "/")
        BY <2>4, <2>8
      <3> HIDE DEF k, tail
      <3>3. CASE k = Len(path)
        <4>1. Len(tail) = 0
          BY <3>1, <3>3, <1>2
        <4>2. tail = <<>>
          BY <3>1, <4>1
        <4>3. ToSet(tail) = {}
          BY <4>2 DEF ToSet
        <4> QED BY <4>3 DEF Sectioned, tail, k
      <3>4. CASE k # Len(path)
        <4>1. 1 \in 1..(Len(path) - k)
          BY <1>2, <3>2, <3>4
        <4>2. tail[1] = "/"
          BY <3>1, <3>2, <3>4, <4>1
        <4> QED BY <4>2 DEF Sectioned, tail, k
      <3> QED BY <3>3, <3>4
    <2>10. Stands(path, e, from + n)
      BY <1>3, <2>8, <2>9 DEF Stands
    <2> QED BY <1>3, <1>4, <1>6, <2>2, <2>3, <2>10 DEF Enter, e, prefix, head
  <1> QED BY <1>5, <1>6

\* Giving up keeps the error and tells 404, or 405 when there was one.
LEMMA GivesUp ==
    ASSUME NEW method, NEW path, NEW m \in Sound(method, path), NEW consumed \in BOOLEAN
    PROVE  LET a == GiveUp(m, consumed)
           IN  /\ a.m.path = m.path /\ a.m.resumed = m.resumed /\ a.m.err = m.err
               /\ a.m.route = IF m.err = MethodNotAllowed THEN MethodNotAllowed ELSE NotFound
               /\ a.ok <=> m.err = MethodNotAllowed \/ consumed
  <1> DEFINE With(t) == [m EXCEPT !.route = t]
  <1>1. m = [path |-> m.path, params |-> m.params, route |-> m.route, err |-> m.err, resumed |-> m.resumed]
    BY SoundFields
  <1>2. \A t : With(t) = [path |-> m.path, params |-> m.params, route |-> t, err |-> m.err, resumed |-> m.resumed]
    BY <1>1
  <1>3. \A t : /\ With(t).path = m.path /\ With(t).resumed = m.resumed /\ With(t).err = m.err
               /\ With(t).route = t
    BY <1>2
  <1>4. GiveUp(m, consumed) = IF m.err = MethodNotAllowed THEN [ok |-> TRUE, m |-> With(MethodNotAllowed)]
                              ELSE [ok |-> consumed, m |-> With(NotFound)]
    BY DEF GiveUp
  <1> HIDE DEF With
  <1> QED BY <1>3, <1>4

\* A router answers for what is after a place as Reach has it.
LEMMA MatchInJudges ==
    ASSUME NEW method, NEW path, path \in Seq(ToSet(path)), RoutersInv, RoutesInv, NEW r \in DOMAIN routers,
           NEW m \in Sound(method, path), NEW from, Stands(path, m, from), m.err # MethodNotAllowed, NEW match,
           \A s \in DOMAIN routers, x \in Sound(method, path) : routers[s].parent = r =>
              match[s][x] \in Answers(method, path) /\ Judges(path, method, s, x, match[s][x])
    PROVE  Verdict(path, method, r, from, m, MatchIn(r, method, match, m))
  <1> DEFINE prefix == routers[r].prefix
             e == Entered(r, m)
             at == After(r, path, from)
             inside == Inside(r, method, match, m)
             consumed == Headed(r, m) # <<>>
             a == MatchIn(r, method, match, m)
             decided == Decided(r, path, at, Len(routers) + 1)
             reached == ReachOf(path)[r][at]
             claims == Claims(r, path, from)
  <1>1. a = IF HeadFits(r, m) = {} THEN GiveUp(m, FALSE)
            ELSE IF inside.ok THEN inside ELSE GiveUp(inside.m, consumed)
    BY MatchInIs
  <1>2. prefix # <<>> => (HeadFits(r, m) # {} <=> claims)
    BY HeadTaken, ClaimsStep
  <1>3. prefix = <<>> => HeadFits(r, m) # {}
    <2>1. ASSUME prefix = <<>> PROVE HeadFits(r, m) = FindSubmatch(<<>>, <<>>, FALSE)
      <3>1. Headed(r, m) = <<>>
        BY <2>1 DEF Headed
      <3>2. (prefix # <<>>) = FALSE
        BY <2>1
      <3> QED BY <2>1, <3>1, <3>2 DEF HeadFits
    <2> QED BY <2>1, EmptyFits
  <1>4. HeadFits(r, m) # {} =>
          /\ Stands(path, e, at) /\ e.err = m.err /\ e.resumed = m.resumed
          /\ prefix # <<>> => claims
          /\ prefix = <<>> => e.path = m.path /\ at = from
          /\ prefix = <<>> <=> ~consumed
    BY EnteredPlace DEF Enter
  <1>5. HeadFits(r, m) # {} => inside \in Answers(method, path) /\ Progress(reached, decided, method, e, inside)
    BY <1>4, InsideJudges
  <1>6. prefix = <<>> => (claims <=> decided)
    <2>1. ASSUME prefix = <<>> PROVE at = from
      BY <2>1 DEF After
    <2>2. \A s \in DOMAIN routers : s < Len(routers) + 1
      BY DEF RoutersInv, Tree
    <2> QED BY <2>1, <2>2, ClaimsStep DEF Decided
  <1>7. consumed \in BOOLEAN /\ FALSE \in BOOLEAN
    OBVIOUS
  <1>8. CASE HeadFits(r, m) = {}
    <2>1. a = GiveUp(m, FALSE) /\ prefix # <<>> /\ ~claims
      BY <1>1, <1>2, <1>3, <1>8
    <2>2. PICK no \in BOOLEAN : no = FALSE
      OBVIOUS
    <2>3. LET b == GiveUp(m, no)
          IN  /\ b.m.path = m.path /\ b.m.resumed = m.resumed /\ b.m.err = m.err
              /\ b.m.route = IF m.err = MethodNotAllowed THEN MethodNotAllowed ELSE NotFound
              /\ b.ok <=> m.err = MethodNotAllowed \/ no
      BY GivesUp
    <2> HIDE DEF a, prefix, claims
    <2>4. /\ a.m.path = m.path /\ a.m.resumed = m.resumed /\ a.m.err = m.err
          /\ a.m.route = NotFound /\ ~a.ok
      BY <2>1, <2>2, <2>3
    <2>5. Verdict(path, method, r, from, m, a)
      BY <2>1, <2>4 DEF Verdict, prefix, claims
    <2> QED BY <2>5 DEF a
  <1>9. CASE HeadFits(r, m) # {}
    <2>1. /\ Stands(path, e, at) /\ e.err = m.err /\ e.resumed = m.resumed
          /\ prefix # <<>> => claims
          /\ prefix = <<>> => e.path = m.path /\ at = from
          /\ prefix = <<>> <=> ~consumed
          /\ inside \in Answers(method, path) /\ Progress(reached, decided, method, e, inside)
      BY <1>4, <1>5, <1>9
    <2>2. inside.m \in Sound(method, path)
      <3> HIDE DEF inside
      <3> QED BY <2>1 DEF Answers
    <2> HIDE DEF inside, e, at, prefix, claims, decided
    <2>3. CASE inside.ok
      <3>1. a = inside
        BY <1>1, <1>9, <2>3
      <3> HIDE DEF a
      <3>2. ~a.m.resumed => a.m.route = Resolution(reached, method) /\ (~(a.m.route > NotFound) => decided)
        BY <2>1, <2>3, <3>1 DEF Progress
      <3>3. ~(NotFound > NotFound)
        BY DEF NotFound
      <3>4. Verdict(path, method, r, from, m, a)
        BY <1>6, <2>1, <2>3, <3>1, <3>2, <3>3 DEF Verdict, prefix, claims, at
      <3> QED BY <3>4 DEF a
    <2>4. CASE ~inside.ok
      <3>1. a = GiveUp(inside.m, consumed)
        BY <1>1, <1>9, <2>4
      <3> HIDE DEF a, consumed
      <3>2. /\ a.m.path = inside.m.path /\ a.m.resumed = inside.m.resumed /\ a.m.err = inside.m.err
            /\ a.m.route = IF inside.m.err = MethodNotAllowed THEN MethodNotAllowed ELSE NotFound
            /\ a.ok <=> inside.m.err = MethodNotAllowed \/ consumed
        BY <1>7, <2>2, <3>1, GivesUp
      <3>3. ~a.m.resumed => inside.m.path = e.path /\ ~decided /\ a.m.route = Resolution(reached, method)
        BY <2>1, <2>4, <3>2 DEF Progress
      <3>4. NotFound # MethodNotAllowed
        BY DEF NotFound, MethodNotAllowed
      <3>5. ~a.m.resumed /\ a.ok => (prefix # <<>> \/ a.m.route = NotFound => claims)
        BY <2>1, <3>2, <3>4
      <3>6. ~a.m.resumed /\ ~a.ok =>
              /\ a.m.path = m.path /\ a.m.err # MethodNotAllowed /\ a.m.route = NotFound /\ ~claims
              /\ Resolution(ReachOf(path)[r][from], method) = NotFound
        BY <1>6, <2>1, <3>2, <3>3
      <3>7. Verdict(path, method, r, from, m, a)
        BY <3>3, <3>5, <3>6 DEF Verdict, prefix, claims, at
      <3> QED BY <3>7 DEF a
    <2> QED BY <2>3, <2>4
  <1> QED BY <1>8, <1>9

-----------------------------------------------------------------------------
(* The route of an answered request. *)

\* Reach looks at the tree alone.
LEMMA ClaimsSame ==
    ASSUME routers' = routers, NEW path
    PROVE  \A r, from : Taken(r, path, from)' = Taken(r, path, from) /\ Claims(r, path, from)' = Claims(r, path, from)
  <1>1. \A r, from : Taken(r, path, from)' = Taken(r, path, from)
    BY DEF Taken
  <1>2. ASSUME NEW from PROVE ClaimsOf(path, from)' = ClaimsOf(path, from)
    <2>1. \A claims, s : Claiming(claims, path, from, s)' = Claiming(claims, path, from, s)
      BY <1>1 DEF Claiming
    <2>2. \A claims : IsClaims(claims, path, from)' <=> IsClaims(claims, path, from)
      <3> TAKE claims
      <3>1. [s \in DOMAIN routers |-> Claiming(claims, path, from, s)]'
              = [s \in DOMAIN routers |-> Claiming(claims, path, from, s)]
        BY <2>1
      <3> QED BY <3>1 DEF IsClaims
    <2>3. (CHOOSE claims : IsClaims(claims, path, from)') = (CHOOSE claims : IsClaims(claims, path, from))
      BY <2>2
    <2> QED BY <2>3 DEF ClaimsOf
  <1>3. \A r, from : Claims(r, path, from) = ClaimsOf(path, from)[r] /\ Claims(r, path, from)' = ClaimsOf(path, from)'[r]
    BY DEF Claims, ClaimsOf, IsClaims, Claiming
  <1> QED BY <1>1, <1>2, <1>3

LEMMA ReachSame ==
    ASSUME routers' = routers, routes' = routes, NEW path
    PROVE  Reach(path)' = Reach(path)
  <1>1. \A r, from : Taken(r, path, from)' = Taken(r, path, from) /\ Claims(r, path, from)' = Claims(r, path, from)
    BY ClaimsSame
  <1>2. ASSUME NEW r, NEW from PROVE After(r, path, from)' = After(r, path, from)
    <2> DEFINE Place(taken) == CHOOSE n \in taken : TRUE
    <2>1. After(r, path, from) = IF routers[r].prefix = <<>> THEN from ELSE Place(Taken(r, path, from))
      BY DEF After
    <2>2. After(r, path, from)' = IF routers'[r].prefix = <<>> THEN from ELSE Place(Taken(r, path, from)')
      BY DEF After
    <2> HIDE DEF Place
    <2>3. Taken(r, path, from)' = Taken(r, path, from)
      BY <1>1
    <2> QED BY <2>1, <2>2, <2>3
  <1>3. \A r, from, n : Decided(r, path, from, n)' <=> Decided(r, path, from, n)
    BY <1>1 DEF Decided
  <1>4. \A r, s, from : Under(r, s, path, from)' <=> Under(r, s, path, from)
    BY <1>1, <1>3 DEF Under
  <1>5. \A r, t, from : Own(r, t, path, from)' <=> Own(r, t, path, from)
    BY <1>3 DEF Own
  <1>6. ASSUME NEW reach, NEW r, NEW from PROVE Reached(reach, r, path, from)' = Reached(reach, r, path, from)
    <2>1. SubParts(reach, r, path, from)' = SubParts(reach, r, path, from)
      BY <1>2, <1>4 DEF SubParts
    <2>2. OwnParts(r, path, from)' = OwnParts(r, path, from)
      BY <1>5 DEF OwnParts
    <2> QED BY <2>1, <2>2 DEF Reached
  <1>7. \A reach : IsReach(reach, path)' <=> IsReach(reach, path)
    <2> TAKE reach
    <2>1. \A r, from : Reached(reach, r, path, from)' = Reached(reach, r, path, from)
      BY <1>6
    <2>2. [r \in DOMAIN routers |-> [from \in 0..Len(path) |-> Reached(reach, r, path, from)]]'
            = [r \in DOMAIN routers |-> [from \in 0..Len(path) |-> Reached(reach, r, path, from)]]
      BY <2>1
    <2> QED BY <2>2 DEF IsReach
  <1>8. ReachOf(path)' = ReachOf(path)
    <2>1. (CHOOSE reach : IsReach(reach, path)') = (CHOOSE reach : IsReach(reach, path))
      BY <1>7
    <2> QED BY <2>1 DEF ReachOf
  <1>9. Reach(path) = ReachOf(path)[Root][0] /\ Reach(path)' = ReachOf(path)'[Root][0]
    BY DEF Reach, ReachOf, IsReach, Reached, SubParts, OwnParts, Under, Own
  <1> QED BY <1>8, <1>9

LEMMA MatchRouterJudges ==
    ASSUME NEW method, NEW path, path \in Seq(ToSet(path)), Sectioned(path), RoutersInv, RoutesInv
    PROVE  Verdict(path, method, Root, 0, Unmatched(path), MatchRouter(method, path))
  <1> DEFINE M == Sound(method, path)
             Reply(r, m) == {a \in Replies(method, path, Above(routers, r), m) :
                                Hands(a) /\ Judges(path, method, r, m, a)}
             G == [r \in DOMAIN routers |-> [m \in M |-> Reply(r, m)]]
  <1>1. M \in SUBSET Matches(path) /\ Unmatched(path) \in M
    BY UnmatchedSound DEF Sound
  <1>2. Root \in DOMAIN routers /\ routers[Root].parent \notin DOMAIN routers
    BY DEF RoutersInv, Tree, Root
  <1>3. ASSUME NEW match, NEW r \in DOMAIN routers, NEW m \in M,
               \A s \in DOMAIN routers, x \in M : routers[s].parent = r => match[s][x] \in Reply(s, x)
        PROVE  MatchIn(r, method, match, m) \in Reply(r, m)
    <2>1. ASSUME NEW s \in DOMAIN routers, NEW x \in M, routers[s].parent = r
          PROVE  /\ match[s][x] \in Replies(method, path, FullPrefix(r), x)
                 /\ match[s][x] \in Answers(method, path) /\ Judges(path, method, s, x, match[s][x])
      <3>1. Above(routers, s) = FullPrefix(r)
        <4>1. s # Root
          BY <1>2, <2>1
        <4> QED BY <2>1, <4>1, FullPrefixIs DEF Above
      <3>2. match[s][x] \in Replies(method, path, FullPrefix(r), x) /\ Judges(path, method, s, x, match[s][x])
        BY <1>3, <2>1, <3>1
      <3> QED BY <3>2 DEF Replies
    <2> DEFINE a == MatchIn(r, method, match, m)
    <2>2. Tells(Above(routers, r), path, m, a) /\ Hands(a)
      BY <2>1, MatchInTells
    <2>3. a \in Answers(method, path)
      <3>1. Answering(r, match, method, path)
        BY <2>1 DEF Answering
      <3> QED BY <3>1, MatchInSound
    <2>4. Judges(path, method, r, m, a)
      <3>1. ASSUME NEW from, Stands(path, m, from), m.err # MethodNotAllowed
            PROVE  Verdict(path, method, r, from, m, a)
        BY <2>1, <3>1, MatchInJudges
      <3>2. m.resumed => a.m.resumed
        <4> HIDE DEF a, M
        <4> QED BY <2>2 DEF Tells
      <3> HIDE DEF a, M
      <3> QED BY <3>1, <3>2 DEF Judges
    <2> HIDE DEF a
    <2>5. a \in Reply(r, m)
      BY <2>2, <2>3, <2>4 DEF Replies
    <2> QED BY <2>5 DEF a
  <1> HIDE DEF M, Reply
  <1>4. \A s \in DOMAIN routers, x \in M : G[s][x] = Reply(s, x)
    OBVIOUS
  <1> HIDE DEF G
  <1>5. \A match : \A r \in DOMAIN routers, m \in M :
           (\A s \in DOMAIN routers, x \in M : routers[s].parent = r => match[s][x] \in G[s][x])
             => MatchIn(r, method, match, m) \in G[r][m]
    <2> TAKE match
    <2> TAKE r \in DOMAIN routers, m \in M
    <2> HAVE \A s \in DOMAIN routers, x \in M : routers[s].parent = r => match[s][x] \in G[s][x]
    <2>1. \A s \in DOMAIN routers, x \in M : routers[s].parent = r => match[s][x] \in Reply(s, x)
      BY <1>4
    <2>2. MatchIn(r, method, match, m) \in Reply(r, m)
      BY <1>3, <2>1
    <2> QED BY <2>2, <1>4
  <1>6. MatchRouter(method, path) \in G[Root][Unmatched(path)]
    BY <1>1, <1>5, MatchRouterAmong
  <1>7. MatchRouter(method, path) \in Reply(Root, Unmatched(path))
    BY <1>1, <1>2, <1>4, <1>6
  <1>8. Stands(path, Unmatched(path), 0) /\ Unmatched(path).err # MethodNotAllowed
    <2>1. Unmatched(path).path = path /\ Unmatched(path).err = Nil
      BY DEF Unmatched
    <2>2. Rest(path, 0) = path /\ 0 \in 0..Len(path)
      BY DEF Rest
    <2> QED BY <2>1, <2>2 DEF Stands, Nil, MethodNotAllowed
  <1>9. Judges(path, method, Root, Unmatched(path), MatchRouter(method, path))
    BY <1>7 DEF Reply
  <1> QED BY <1>8, <1>9 DEF Judges

LEMMA AnsweredResolves ==
    ASSUME NEW req \in Requests, RoutersInv, RoutesInv, NEW answer, answer = MatchRouter(req.method, req.path),
           ~answer.m.resumed
    PROVE  answer.m.route = Resolution(Reach(req.path), req.method)
  <1> DEFINE path == req.path
             reached == ReachOf(path)[Root][0]
  <1>1. path \in Seq(ToSet(path)) /\ Sectioned(path)
    BY RequestsAssumption DEF Sectioned
  <1> HIDE DEF path
  <1>2. Verdict(path, req.method, Root, 0, Unmatched(path), answer)
    BY <1>1, MatchRouterJudges DEF path
  <1>3. routers[Root].prefix = <<>> /\ After(Root, path, 0) = 0
    BY DEF RoutersInv, Tree, After
  <1>4. answer.ok => answer.m.route = Resolution(reached, req.method)
    BY <1>2, <1>3 DEF Verdict
  <1>5. ~answer.ok => answer.m.route = Resolution(reached, req.method)
    BY <1>2, <1>3 DEF Verdict
  <1> QED BY <1>4, <1>5, ReachIs DEF path

Resolves(answered, reached) ==
    ~answered.resumed => answered.route = reached

ResolvesTo(answered) == Resolution(Reach(answered.req.path), answered.req.method)

LEMMA ResolvesIs ==
    /\ ResolvesIndependently <=> (served # <<>> => Resolves(served, ResolvesTo(served)))
    /\ ResolvesIndependently' <=> (served' # <<>> => Resolves(served', ResolvesTo(served)'))
  BY DEF ResolvesIndependently, Resolves, ResolvesTo

LEMMA ResolvesSame ==
    ASSUME routers' = routers, routes' = routes, NEW path, NEW method
    PROVE  Resolution(Reach(path), method)' = Resolution(Reach(path), method)
  <1> DEFINE reached == Reach(path)
  <1>1. reached' = reached
    BY ReachSame
  <1> HIDE DEF reached
  <1>2. {i \in DOMAIN reached : Allows(reached[i], method)}' = {i \in DOMAIN reached : Allows(reached[i], method)}
    BY <1>1 DEF Allows
  <1>3. Resolution(reached, method)' = Resolution(reached, method)
    BY <1>1, <1>2 DEF Resolution
  <1> QED BY <1>3 DEF reached

\* The route that answers a request is the one that a search finds in which no matcher sees
\* what another one did to the shared match (router.go:285), in every tree of routers: unless
\* a group answered 405, trimming paths, counting slashes and turning back lose nothing.
THEOREM ResolvesIndependentlyHolds == Spec => []ResolvesIndependently
  <1>1. Init => ResolvesIndependently
    BY DEF Init, ResolvesIndependently
  <1>2. ASSUME IInv, ResolvesIndependently, [Next]_vars PROVE ResolvesIndependently'
    <2>1. ASSUME NEW req \in Requests, ServeHTTP(req) PROVE ResolvesIndependently'
      <3> DEFINE answer == MatchRouter(req.method, req.path)
                 m == answer.m
      <3>1. /\ routers' = routers /\ routes' = routes
            /\ served'.req = req /\ served'.route = m.route /\ served'.resumed = m.resumed
        BY <2>1 DEF ServeHTTP
      <3>2. RoutersInv /\ RoutesInv
        BY <1>2 DEF IInv
      <3>3. ~m.resumed => m.route = Resolution(Reach(req.path), req.method)
        BY <3>2, AnsweredResolves
      <3>4. ResolvesTo(served)' = Resolution(Reach(req.path), req.method)'
        BY <3>1 DEF ResolvesTo
      <3>5. Resolution(Reach(req.path), req.method)' = Resolution(Reach(req.path), req.method)
        BY <3>1, ResolvesSame
      <3>6. Resolves(served', ResolvesTo(served)')
        <4> HIDE DEF answer
        <4> QED BY <3>1, <3>3, <3>4, <3>5 DEF Resolves
      <3> QED BY <3>6, ResolvesIs
    <2>2. ASSUME served' = served, served = <<>> \/ (routers' = routers /\ routes' = routes)
          PROVE  ResolvesIndependently'
      <3>1. served # <<>> => ResolvesTo(served)' = ResolvesTo(served)
        BY <2>2, ResolvesSame DEF ResolvesTo
      <3> QED BY <1>2, <2>2, <3>1, ResolvesIs
    <2>3. CASE \E req \in Requests : ServeHTTP(req)
      BY <2>1, <2>3
    <2>4. CASE UNCHANGED vars
      BY <2>2, <2>4 DEF vars
    <2>5. CASE Next /\ ~\E req \in Requests : ServeHTTP(req)
      BY <2>2, <2>5 DEF Next, Subrouter, Route, RouterCORS, RouteCORS, Registering
    <2> QED BY <1>2, <2>3, <2>4, <2>5
  <1> QED BY <1>1, <1>2, Invariance, PTL DEF Spec
=============================================================================

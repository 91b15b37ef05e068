----------------------------- MODULE ConfigProofs -----------------------------
(***************************************************************************)
(* Proofs about package config, for every tree of entries, file, setting   *)
(* and environment: what is in use has the type and the values it was      *)
(* registered with, and what fails leaves no trace.                        *)
(***************************************************************************)
EXTENDS Config, TLAPS

\* A tree has a category or the cell of its own at each path; entries that packages
\* registered, and theirs in the configuration, are registrable.
DefaultsInv == \A p \in DOMAIN defaults : defaults[p] # Category =>
    /\ defaults[p] = <<"default", p>> /\ defaults[p] \in DOMAIN heap
    /\ Registrable(heap[defaults[p]])

ConfigInv == \A p \in DOMAIN config : config[p] # Category =>
    /\ config[p] = Cell(p) /\ config[p] \in DOMAIN heap
    /\ Registrable(heap[config[p]])
    /\ Typed(heap[config[p]])

IInv == DefaultsInv /\ ConfigInv

-----------------------------------------------------------------------------
(* One entry. *)

LEMMA MadeRegistrable == ASSUME NEW v PROVE Registrable(MakeEntry(v))
  BY DEF Registrable, MakeEntry, Entry

LEMMA MadeTyped == ASSUME NEW v, v # Nil PROVE Typed(MakeEntry(v))
  BY DEF Typed, Misfit, MakeEntry, Entry

LEMMA ValueRegistrable ==
    ASSUME NEW e, Registrable(e), NEW v
    PROVE  /\ Registrable([e EXCEPT !.value = v])
           /\ [e EXCEPT !.value = v] = [value |-> v, type |-> e.type, slice |-> e.slice,
                                        authorized |-> e.authorized, required |-> e.required]
  BY DEF Registrable

\* The value of an environment variable is a scalar, and for no slice.
LEMMA FoundScalar ==
    ASSUME NEW e, NEW v \in FromEnv(e)
    PROVE  \/ v = e.value /\ v[1] # "env"
           \/ ~e.slice /\ v[1] \in {"int", "float", "bool", "string"}
  BY DEF FromEnv

\* Converting a slice keeps the elements that are of the type already, as all that an
\* entry authorizes are: it does not matter that those before the conversion are checked.
LEMMA ElementsKept ==
    ASSUME NEW elements, NEW allowed, ToSet(elements) \subseteq allowed, \A x \in allowed : x[1] = "int"
    PROVE  ToSet([i \in DOMAIN elements |-> AsInt(elements[i])]) \subseteq allowed
  <1>1. ASSUME NEW i \in DOMAIN elements PROVE AsInt(elements[i]) \in allowed
    <2>1. elements[i] \in allowed
      BY DEF ToSet
    <2>2. AsInt(elements[i]) = elements[i]
      BY <2>1 DEF AsInt, WholeFloat
    <2> QED BY <2>1, <2>2
  <1> QED BY <1>1 DEF ToSet

\* Entry.validate leaves a value of the type in the entry unless it returns an error.
LEMMA ValidTyped ==
    ASSUME NEW e, Registrable(e), Validate(e).is # "error"
    PROVE  Typed([e EXCEPT !.value = Validate(e).value])
  <1> DEFINE found == FromEnv(e)
             v == CHOOSE x \in found : TRUE
             fits == IF KindFor(e, v) = e.type THEN {v} ELSE Conversions(e, v)
             w == CHOOSE x \in fits : TRUE
             left == [e EXCEPT !.value = Validate(e).value]
  <1>1. \/ found = {} /\ Validate(e) = [is |-> "error", value |-> e.value]
        \/ /\ found # {} /\ v = Nil
           /\ Validate(e) = [is |-> IF e.required THEN "error" ELSE "ok", value |-> v]
        \/ found # {} /\ v # Nil /\ fits = {} /\ Validate(e) = [is |-> "error", value |-> v]
        \/ found # {} /\ v # Nil /\ fits # {} /\ Validate(e) = [is |-> Authorized(e, v, w), value |-> w]
    BY DEF Validate
  <1>2. left = [value |-> Validate(e).value, type |-> e.type, slice |-> e.slice,
                authorized |-> e.authorized, required |-> e.required]
    BY ValueRegistrable
  <1>3. CASE found # {} /\ v = Nil
    <2>1. Validate(e).is = (IF e.required THEN "error" ELSE "ok") /\ Validate(e).value = Nil
      <3>1. Validate(e) = [is |-> IF e.required THEN "error" ELSE "ok", value |-> v] /\ v = Nil
        <4> HIDE DEF found, v, fits
        <4> QED BY <1>1, <1>3
      <3> HIDE DEF found, v
      <3> QED BY <3>1
    <2>2. left.value = Nil /\ ~left.required
      BY <1>2, <2>1
    <2> QED BY <2>2 DEF Typed
  <1>4. CASE found # {} /\ v # Nil /\ fits # {}
    <2>0. Validate(e).value = w /\ Authorized(e, v, w) # "error"
      <3>1. Validate(e) = [is |-> Authorized(e, v, w), value |-> w]
        BY <1>1, <1>4
      <3> HIDE DEF found, v, fits, w
      <3> QED BY <3>1
    <2>1. v \in FromEnv(e) /\ w \in fits
      BY <1>4
    <2>2. \/ v = e.value /\ v[1] # "env"
          \/ ~e.slice /\ v[1] \in {"int", "float", "bool", "string"}
      BY <2>1, FoundScalar
    <2>3. left.value = w /\ left.slice = e.slice /\ left.type = e.type /\ left.authorized = e.authorized
      BY <1>2, <2>0
    <2> HIDE DEF found, v, fits, w, left
    <2>4. CASE ~e.slice
      <3>1. Kind(w) = e.type
        <4>1. CASE Kind(v) = e.type
          BY <2>1, <2>4, <4>1 DEF fits, KindFor
        <4>2. CASE Kind(v) # e.type
          BY <2>1, <2>4, <4>2 DEF fits, KindFor, Conversions, AsInt, Kind
        <4> QED BY <4>1, <4>2
      <3>2. e.authorized # {} => w \in e.authorized
        BY <2>0, <2>4 DEF Authorized
      <3> QED BY <2>3, <2>4, <3>1, <3>2 DEF Typed, left
    <2>5. CASE e.slice /\ ~IsSlice(v)
      <3>1. w = v
        BY <2>1, <2>5 DEF fits, KindFor, Conversions
      <3> QED BY <1>4, <2>3, <2>5, <3>1 DEF Typed, Misfit, left
    <2>6. CASE e.slice /\ IsSlice(v)
      <3>1. e.authorized # {} => ToSet(v[3]) \subseteq e.authorized
        BY <2>0, <2>6 DEF Authorized
      <3>2. CASE v[2] = e.type
        <4>1. w = v
          BY <2>1, <2>6, <3>2 DEF fits, KindFor
        <4> QED BY <2>3, <2>6, <3>1, <3>2, <4>1 DEF Typed, left
      <3>3. CASE v[2] # e.type
        <4> DEFINE elements == IF e.type = "int" THEN [i \in DOMAIN v[3] |-> AsInt(v[3][i])] ELSE v[3]
        <4>1. w = <<"slice", e.type, elements>>
          BY <2>1, <2>6, <3>3 DEF fits, KindFor, Conversions
        <4>2. e.authorized # {} => ToSet(elements) \subseteq e.authorized
          BY <3>1, ElementsKept DEF Registrable
        <4>3. IsSlice(w) /\ w[2] = e.type /\ w[3] = elements
          BY <4>1 DEF IsSlice
        <4> HIDE DEF elements
        <4> QED BY <2>3, <2>6, <4>2, <4>3 DEF Typed, left
      <3> QED BY <3>2, <3>3
    <2> QED BY <2>4, <2>5, <2>6
  <1> HIDE DEF found, v, fits, w
  <1> QED BY <1>1, <1>3, <1>4

\* The validation panics, past its own errors, on a scalar in a slice entry with
\* authorized values, and leaves it there.
LEMMA CrashMisfit ==
    ASSUME NEW e, Registrable(e), Validate(e).is = "crash"
    PROVE  LET left == [e EXCEPT !.value = Validate(e).value]
           IN  Misfit(left) /\ left.authorized # {}
  <1> DEFINE found == FromEnv(e)
             v == CHOOSE x \in found : TRUE
             fits == IF KindFor(e, v) = e.type THEN {v} ELSE Conversions(e, v)
             w == CHOOSE x \in fits : TRUE
             left == [e EXCEPT !.value = Validate(e).value]
  <1>1. \/ Validate(e) = [is |-> "error", value |-> e.value]
        \/ Validate(e) = [is |-> IF e.required THEN "error" ELSE "ok", value |-> v]
        \/ Validate(e) = [is |-> "error", value |-> v]
        \/ /\ v # Nil /\ fits # {}
           /\ Validate(e) = [is |-> Authorized(e, v, w), value |-> w]
    BY DEF Validate
  <1>2. left = [value |-> Validate(e).value, type |-> e.type, slice |-> e.slice,
                authorized |-> e.authorized, required |-> e.required]
    BY ValueRegistrable
  <1>3. v # Nil /\ fits # {} /\ Authorized(e, v, w) = "crash" /\ Validate(e).value = w
    <2> HIDE DEF v, fits, w
    <2> QED BY <1>1
  <1>4. w \in fits
    BY <1>3
  <1> HIDE DEF v, fits, w
  <1>5. e.slice \in BOOLEAN
    BY DEF Registrable
  <1>6. e.authorized # {} /\ e.slice /\ ~IsSlice(v)
    BY <1>3, <1>5 DEF Authorized
  <1>7. w = v
    BY <1>4, <1>6 DEF fits, KindFor, Conversions
  <1> HIDE DEF left
  <1>8. left.slice = e.slice /\ left.value = v /\ left.authorized = e.authorized
    BY <1>2, <1>3, <1>7
  <1>9. Misfit(left) /\ left.authorized # {}
    BY <1>3, <1>6, <1>8 DEF Misfit
  <1> QED BY <1>9 DEF left

LEMMA ValidOutcomes ==
    ASSUME NEW e, Registrable(e)
    PROVE  Validate(e).is \in {"ok", "error", "crash"}
  <1> DEFINE found == FromEnv(e)
             v == CHOOSE x \in found : TRUE
             fits == IF KindFor(e, v) = e.type THEN {v} ELSE Conversions(e, v)
             w == CHOOSE x \in fits : TRUE
  <1>1. Authorized(e, v, w) \in {"ok", "error", "crash"}
    <2> HIDE DEF v, w
    <2>1. e.slice \in BOOLEAN
      BY DEF Registrable
    <2> QED BY <2>1 DEF Authorized
  <1>2. \/ Validate(e) = [is |-> "error", value |-> e.value]
        \/ Validate(e) = [is |-> IF e.required THEN "error" ELSE "ok", value |-> v]
        \/ Validate(e) = [is |-> "error", value |-> v]
        \/ Validate(e) = [is |-> Authorized(e, v, w), value |-> w]
    BY DEF Validate
  <1> HIDE DEF v, w
  <1> QED BY <1>1, <1>2

-----------------------------------------------------------------------------
(* The steps. *)

LEMMA CellsDiffer ==
    /\ \A p : Category # <<"default", p>> /\ Category # Cell(p)
    /\ \A p, q : <<"default", p>> # Cell(q)
    /\ \A p, q : p # q => <<"default", p>> # <<"default", q>> /\ Cell(p) # Cell(q)
  BY DEF Category, Cell

LEMMA InitIInv == ConfigInit => IInv
  <1> SUFFICES ASSUME ConfigInit PROVE IInv
    OBVIOUS
  <1>1. ASSUME NEW p \in DOMAIN defaults, defaults[p] # Category
        PROVE  /\ defaults[p] = <<"default", p>> /\ defaults[p] \in DOMAIN heap
               /\ Registrable(heap[defaults[p]])
    <2>1. p \in DOMAIN Registered /\ defaults[p] = <<"default", p>>
      BY <1>1 DEF ConfigInit
    <2>2. <<"default", p>> \in DOMAIN heap /\ heap[<<"default", p>>] = Registered[p]
      BY <2>1 DEF ConfigInit
    <2> QED BY <2>1, <2>2, EntriesAssumption
  <1>2. DOMAIN config = {}
    BY DEF ConfigInit
  <1> QED BY <1>1, <1>2 DEF IInv, DefaultsInv, ConfigInv

\* What the entries in use are is kept with their cells.
LEMMA DefaultsKept ==
    ASSUME DefaultsInv, defaults' = defaults,
           \A p \in DOMAIN defaults : <<"default", p>> \in DOMAIN heap =>
               <<"default", p>> \in DOMAIN heap' /\ heap'[<<"default", p>>] = heap[<<"default", p>>]
    PROVE  DefaultsInv' /\ \A p \in DOMAIN defaults : OfLoader[p]' = OfLoader[p]
  BY DEF DefaultsInv, OfLoader

\* When one cell may have changed, a key reads what it did, or what is in that cell now.
LEMMA OneCellRead ==
    ASSUME ConfigInv, config' = config, NEW cell,
           \A c \in DOMAIN heap : c # cell => heap'[c] = heap[c],
           NEW key
    PROVE  \/ Read(key)' = Read(key)
           \/ heap'[cell] # heap[cell] /\ Read(key)' = heap'[cell].value
  <1> DEFINE met == {p \in DOMAIN config : IsEntry(config, p) /\ OnTheWay(key, p)}
             at == CHOOSE p \in met : TRUE
  <1>1. /\ Read(key) = IF met = {} THEN Nil ELSE heap[config[at]].value
        /\ Read(key)' = IF met = {} THEN Nil ELSE heap'[config[at]].value
    BY DEF Read, Lookup, IsEntry, OnTheWay
  <1>2. CASE met # {}
    <2>1. at \in met
      BY <1>2
    <2>2. config[at] \in DOMAIN heap
      BY <2>1 DEF ConfigInv, IsEntry
    <2> HIDE DEF met, at
    <2> QED BY <1>1, <1>2, <2>2
  <1> HIDE DEF met, at
  <1> QED BY <1>1, <1>2

\* Categories without entries add nothing to read.
LEMMA CategoriesRead ==
    ASSUME NEW key, config' = WithCategories(config, key), heap' = heap, NEW k
    PROVE  Read(k)' = Read(k)
  <1> DEFINE met == {p \in DOMAIN config : IsEntry(config, p) /\ OnTheWay(k, p)}
             after == {p \in DOMAIN config' : IsEntry(config', p) /\ OnTheWay(k, p)}
  <1>1. \A p \in DOMAIN config' : IsEntry(config', p) =>
            p \in DOMAIN config /\ IsEntry(config, p)
    BY DEF IsEntry, WithCategories
  <1>2. \A p \in DOMAIN config : p \in DOMAIN config' /\ config'[p] = config[p]
    BY DEF WithCategories
  <1>3. after = met
    BY <1>1, <1>2 DEF IsEntry
  <1>4. /\ Read(k) = IF met = {} THEN Nil ELSE heap[config[CHOOSE p \in met : TRUE]].value
        /\ Read(k)' = IF after = {} THEN Nil ELSE heap[config'[CHOOSE p \in after : TRUE]].value
    BY DEF Read, Lookup, IsEntry, OnTheWay
  <1>5. met # {} => (CHOOSE p \in met : TRUE) \in DOMAIN config
    OBVIOUS
  <1> HIDE DEF met, after
  <1> QED BY <1>2, <1>3, <1>4, <1>5

LEMMA RegisterStep ==
    ASSUME IInv, NEW key, NEW entry, Registrable(entry), Register(key, entry)
    PROVE  IInv' /\ NoTraceStep
  <1>1. CASE UNCHANGED <<heap, defaults, config>>
    BY <1>1 DEF IInv, DefaultsInv, ConfigInv, NoTraceStep, Keys, Read, OfLoader
  <1>2. CASE /\ key \notin DOMAIN defaults /\ gave' = "ok" /\ config' = config
             /\ heap' = Put(heap, <<"default", key>>, entry)
             /\ defaults' = With(defaults, key, <<"default", key>>)
    <2>1. /\ DOMAIN heap' = DOMAIN heap \cup {<<"default", key>>}
          /\ heap'[<<"default", key>>] = entry
          /\ \A c \in DOMAIN heap : c # <<"default", key>> => heap'[c] = heap[c]
      BY <1>2 DEF Put
    <2>2. /\ DOMAIN defaults \subseteq DOMAIN defaults'
          /\ defaults'[key] = <<"default", key>> /\ key \in DOMAIN defaults'
          /\ \A p \in DOMAIN defaults : defaults'[p] = defaults[p]
          /\ \A p \in DOMAIN defaults' : p \in DOMAIN defaults \/ p = key \/ defaults'[p] = Category
      BY <1>2 DEF With
    <2>3. ASSUME NEW p \in DOMAIN defaults, defaults[p] # Category
          PROVE  heap'[defaults[p]] = heap[defaults[p]]
      BY <1>2, <2>1, <2>3, CellsDiffer DEF IInv, DefaultsInv
    <2>4. DefaultsInv'
      <3> SUFFICES ASSUME NEW p \in DOMAIN defaults', defaults'[p] # Category
                   PROVE  /\ defaults'[p] = <<"default", p>> /\ defaults'[p] \in DOMAIN heap'
                          /\ Registrable(heap'[defaults'[p]])
        BY DEF DefaultsInv, Registrable
      <3>1. CASE p \in DOMAIN defaults
        BY <2>1, <2>2, <2>3, <3>1 DEF IInv, DefaultsInv
      <3>2. CASE p = key
        BY <2>1, <2>2, <3>2
      <3> QED BY <2>2, <3>1, <3>2
    <2>5. ConfigInv'
      <3> SUFFICES ASSUME NEW p \in DOMAIN config, config[p] # Category
                   PROVE  /\ config[p] = Cell(p) /\ config[p] \in DOMAIN heap'
                          /\ Registrable(heap'[config[p]]) /\ Typed(heap'[config[p]])
        BY <1>2 DEF ConfigInv, Registrable, Typed, Misfit, Cell
      <3> QED BY <2>1, CellsDiffer DEF IInv, ConfigInv
    <2>6. \A p \in DOMAIN defaults : OfLoader[p]' = OfLoader[p]
      BY <2>2, <2>3 DEF OfLoader
    <2> QED BY <1>2, <2>4, <2>5, <2>6 DEF IInv, NoTraceStep
  <1> QED BY <1>1, <1>2 DEF Register

LEMMA LoadStep ==
    ASSUME IInv, NEW file, Load(file)
    PROVE  IInv' /\ NoTraceStep
  <1> DEFINE paths == DOMAIN defaults \cup DOMAIN file
             isCategory(p) == IF p \in DOMAIN file THEN file[p] = Category ELSE defaults[p] = Category
             entries == {p \in paths : ~isCategory(p)}
             read(p) == IF p \notin DOMAIN defaults THEN MakeEntry(file[p])
                        ELSE [heap[defaults[p]] EXCEPT !.value = IF p \in DOMAIN file THEN file[p] ELSE @]
             checked == [p \in entries |-> Validate(read(p))]
             outcomes == {checked[p].is : p \in entries}
             cells == [p \in paths |-> IF isCategory(p) THEN Category ELSE Cell(p)]
             kept == {c \in DOMAIN heap : c[1] = "default"}
             made == {Cell(p) : p \in entries}
  <1>1. CASE UNCHANGED <<heap, defaults, config>>
    BY <1>1 DEF IInv, DefaultsInv, ConfigInv, NoTraceStep, Keys, Read, OfLoader
  <1>2. CASE /\ Conflicts(file) = {} /\ outcomes \subseteq {"ok"} /\ gave' = "ok"
             /\ defaults' = defaults /\ config' = cells
             /\ heap' = [c \in kept \cup made |->
                           IF c \in made THEN [read(c[2]) EXCEPT !.value = checked[c[2]].value]
                                         ELSE heap[c]]
    <2>1. \A p : <<"default", p>> \notin made
      BY CellsDiffer
    <2>2. \A p : <<"default", p>> \in DOMAIN heap =>
              <<"default", p>> \in DOMAIN heap' /\ heap'[<<"default", p>>] = heap[<<"default", p>>]
      <3> SUFFICES ASSUME NEW p, <<"default", p>> \in DOMAIN heap
                   PROVE  <<"default", p>> \in DOMAIN heap' /\ heap'[<<"default", p>>] = heap[<<"default", p>>]
        OBVIOUS
      <3>1. <<"default", p>> \in kept
        OBVIOUS
      <3> HIDE DEF kept, made, read, checked
      <3> QED BY <1>2, <2>1, <3>1
    <2>3. DefaultsInv' /\ \A p \in DOMAIN defaults : OfLoader[p]' = OfLoader[p]
      BY <1>2, <2>2, DefaultsKept DEF IInv
    <2>4. ASSUME NEW p \in entries
          PROVE  /\ Cell(p) \in DOMAIN heap'
                 /\ Registrable(heap'[Cell(p)]) /\ Typed(heap'[Cell(p)])
      <3>1. Registrable(read(p))
        <4>1. CASE p \notin DOMAIN defaults
          BY <4>1, MadeRegistrable
        <4>2. CASE p \in DOMAIN defaults
          <5>1. defaults[p] # Category
            BY <1>2, <4>2 DEF Conflicts
          <5>2. Registrable(heap[defaults[p]])
            BY <4>2, <5>1 DEF IInv, DefaultsInv
          <5> QED BY <4>2, <5>2, ValueRegistrable
        <4> QED BY <4>1, <4>2
      <3>2. checked[p].is = "ok" /\ checked[p] = Validate(read(p))
        BY <1>2
      <3>3. Cell(p) \in made /\ Cell(p)[2] = p
        BY DEF Cell
      <3>4. Cell(p) \in DOMAIN heap' /\ heap'[Cell(p)] = [read(p) EXCEPT !.value = Validate(read(p)).value]
        <4> HIDE DEF kept, made, read, checked
        <4> QED BY <1>2, <3>2, <3>3
      <3> HIDE DEF read, checked
      <3>5. Validate(read(p)).is # "error"
        BY <3>2
      <3>6. Typed([read(p) EXCEPT !.value = Validate(read(p)).value])
        BY <3>1, <3>5, ValidTyped
      <3>7. Registrable([read(p) EXCEPT !.value = Validate(read(p)).value])
        BY <3>1, ValueRegistrable
      <3> QED BY <3>4, <3>6, <3>7
    <2>5. ConfigInv'
      <3> SUFFICES ASSUME NEW p \in DOMAIN config', config'[p] # Category
                   PROVE  /\ config'[p] = Cell(p) /\ config'[p] \in DOMAIN heap'
                          /\ Registrable(heap'[config'[p]]) /\ Typed(heap'[config'[p]])
        BY DEF ConfigInv, Registrable, Typed, Misfit, Cell
      <3>1. p \in entries /\ config'[p] = Cell(p)
        BY <1>2
      <3> QED BY <2>4, <3>1
    <2> QED BY <1>2, <2>3, <2>5 DEF IInv, NoTraceStep
  <1> QED BY <1>1, <1>2 DEF Load

LEMMA SetStep ==
    ASSUME IInv, NEW key, NEW value, Set(key, value)
    PROVE  IInv' /\ NoTraceStep
  <1> DEFINE cell == config[key]
             checked == Validate([heap[cell] EXCEPT !.value = value])
  <1>1. CASE UNCHANGED <<heap, defaults, config>>
    BY <1>1 DEF IInv, DefaultsInv, ConfigInv, NoTraceStep, Keys, Read, OfLoader
  <1>2. CASE /\ ~Misplaced(config, key) /\ key \in DOMAIN config /\ checked.is # "error"
             /\ gave' = checked.is
             /\ heap' = [heap EXCEPT ![cell].value = checked.value]
             /\ UNCHANGED <<defaults, config>>
    <2>1. cell = Cell(key) /\ cell \in DOMAIN heap /\ Registrable(heap[cell])
      BY <1>2 DEF Misplaced, IInv, ConfigInv
    <2> DEFINE tried == [heap[cell] EXCEPT !.value = value]
    <2>2. Registrable(tried)
      BY <2>1, ValueRegistrable
    <2>3. Typed([tried EXCEPT !.value = Validate(tried).value])
      BY <1>2, <2>2, ValidTyped
    <2>4. [tried EXCEPT !.value = Validate(tried).value] = [heap[cell] EXCEPT !.value = checked.value]
      <3> DEFINE left == Validate(tried).value
      <3> HIDE DEF left
      <3> HIDE DEF cell
      <3>1. [tried EXCEPT !.value = left] = [heap[cell] EXCEPT !.value = left]
        BY <2>1, <2>2, ValueRegistrable
      <3> QED BY <3>1 DEF left
    <2>5. /\ DOMAIN heap' = DOMAIN heap
          /\ heap'[cell] = [heap[cell] EXCEPT !.value = checked.value]
          /\ \A c \in DOMAIN heap : c # cell => heap'[c] = heap[c]
      <3> HIDE DEF checked, cell
      <3> QED BY <1>2, <2>1
    <2>6. Registrable(heap'[cell]) /\ Typed(heap'[cell])
      <3> HIDE DEF checked, tried, cell
      <3>1. Registrable([heap[cell] EXCEPT !.value = checked.value])
        BY <2>1, ValueRegistrable
      <3> QED BY <2>3, <2>4, <2>5, <3>1
    <2> HIDE DEF checked, tried, cell
    <2>7. DefaultsInv' /\ \A p \in DOMAIN defaults : OfLoader[p]' = OfLoader[p]
      BY <1>2, <2>1, <2>5, DefaultsKept, CellsDiffer DEF IInv
    <2>8. ConfigInv'
      <3> SUFFICES ASSUME NEW p \in DOMAIN config, config[p] # Category
                   PROVE  /\ config[p] = Cell(p) /\ config[p] \in DOMAIN heap'
                          /\ Registrable(heap'[config[p]]) /\ Typed(heap'[config[p]])
        BY <1>2 DEF ConfigInv, Registrable, Typed, Misfit, Cell
      <3>1. CASE config[p] = cell
        BY <2>1, <2>5, <2>6, <3>1 DEF IInv, ConfigInv
      <3>2. CASE config[p] # cell
        BY <2>5, <3>2 DEF IInv, ConfigInv
      <3> QED BY <3>1, <3>2
    <2>9. ASSUME gave' # "ok"
          PROVE  Misfit(heap'[cell]) /\ heap'[cell].authorized # {} /\ gave' = "crash"
      <3>1. Validate(tried).is = "crash" /\ gave' = "crash"
        BY <1>2, <2>2, <2>9, ValidOutcomes DEF checked, tried
      <3>2. heap'[cell] = [tried EXCEPT !.value = Validate(tried).value]
        BY <2>4, <2>5
      <3> QED BY <2>2, <3>1, <3>2, CrashMisfit
    <2>10. \A k : \/ Read(k)' = Read(k)
                  \/ heap'[cell] # heap[cell] /\ Read(k)' = heap'[cell].value
      BY <1>2, <2>5, OneCellRead DEF IInv
    <2>11. ASSUME gave' # "ok"
           PROVE  \/ \A k \in Keys : Read(k)' = Read(k)
                  \/ \E c \in DOMAIN heap : /\ Unreverted(c)
                                           /\ \A k \in Keys : Read(k)' \in {Read(k), heap'[c].value}
      <3>1. CASE heap'[cell] = heap[cell]
        BY <2>10, <3>1
      <3>2. CASE heap'[cell] # heap[cell]
        <4>1. Unreverted(cell)
          BY <2>9, <2>11, <3>2 DEF Unreverted
        <4> QED BY <2>1, <2>10, <4>1
      <3> QED BY <3>1, <3>2
    <2> QED BY <2>7, <2>8, <2>11 DEF IInv, NoTraceStep
  <1>3. CASE /\ key \notin DOMAIN config /\ gave' = "crash" /\ config' = WithCategories(config, key)
             /\ UNCHANGED <<heap, defaults>>
    <2>1. ConfigInv'
      BY <1>3 DEF IInv, ConfigInv, WithCategories
    <2>2. \A k : Read(k)' = Read(k)
      BY <1>3, CategoriesRead
    <2> QED BY <1>3, <2>1, <2>2 DEF IInv, DefaultsInv, NoTraceStep, OfLoader
  <1>4. CASE /\ key \notin DOMAIN config /\ value # Nil /\ gave' = "ok"
             /\ heap' = Put(heap, Cell(key), MakeEntry(value))
             /\ config' = With(config, key, Cell(key)) /\ defaults' = defaults
    <2>1. /\ DOMAIN heap' = DOMAIN heap \cup {Cell(key)}
          /\ heap'[Cell(key)] = MakeEntry(value)
          /\ \A c \in DOMAIN heap : c # Cell(key) => heap'[c] = heap[c]
      BY <1>4 DEF Put
    <2>2. /\ \A p \in DOMAIN config : p # key /\ config'[p] = config[p]
          /\ config'[key] = Cell(key)
          /\ \A p \in DOMAIN config' : p \in DOMAIN config \/ p = key \/ config'[p] = Category
      BY <1>4 DEF With
    <2>3. DefaultsInv' /\ \A p \in DOMAIN defaults : OfLoader[p]' = OfLoader[p]
      BY <1>4, <2>1, DefaultsKept, CellsDiffer DEF IInv
    <2>4. ConfigInv'
      <3> SUFFICES ASSUME NEW p \in DOMAIN config', config'[p] # Category
                   PROVE  /\ config'[p] = Cell(p) /\ config'[p] \in DOMAIN heap'
                          /\ Registrable(heap'[config'[p]]) /\ Typed(heap'[config'[p]])
        BY DEF ConfigInv, Registrable, Typed, Misfit, Cell
      <3>1. CASE p \in DOMAIN config
        BY <2>1, <2>2, <3>1, CellsDiffer DEF IInv, ConfigInv
      <3>2. CASE p = key
        BY <1>4, <2>1, <2>2, <3>2, MadeRegistrable, MadeTyped
      <3> QED BY <2>2, <3>1, <3>2
    <2> QED BY <1>4, <2>3, <2>4 DEF IInv, NoTraceStep
  <1> QED BY <1>1, <1>2, <1>3, <1>4 DEF Set, Reverted

\* Every step keeps the invariant and leaves no trace of a failure.
LEMMA NextStep == IInv /\ [ConfigNext]_configVars => IInv' /\ NoTraceStep
  <1> SUFFICES ASSUME IInv, [ConfigNext]_configVars PROVE IInv' /\ NoTraceStep
    OBVIOUS
  <1>1. CASE \E r \in Registrations : Register(r.key, r.entry)
    BY <1>1, RegisterStep, EntriesAssumption
  <1>2. CASE \E file \in Files : Load(file)
    BY <1>2, LoadStep
  <1>3. CASE \E s \in Settings : Set(s.key, s.value)
    BY <1>3, SetStep
  <1>4. CASE UNCHANGED configVars
    BY <1>4 DEF configVars, IInv, DefaultsInv, ConfigInv, NoTraceStep, Keys, Read, OfLoader
  <1> QED BY <1>1, <1>2, <1>3, <1>4 DEF ConfigNext

-----------------------------------------------------------------------------
\* Whatever was registered, loaded and set, an entry in use is unset or has its type and
\* one of its values, those of Misfit excepted.
THEOREM ValuesTypedHold == ConfigSpec => []ValuesTyped
  <1>1. IInv => ValuesTyped
    BY DEF IInv, ConfigInv, ValuesTyped
  <1> QED BY <1>1, InitIInv, NextStep, PTL DEF ConfigSpec

\* A load or a Set that fails, whatever the failure is, changes nothing that can be read
\* but the slice entry that Set stored a scalar in and whose check crashed; and no
\* configuration changes what the loader has.
THEOREM FailuresLeaveNoTraceHolds == ConfigSpec => FailuresLeaveNoTrace
  <1>1. IInv /\ [ConfigNext]_configVars => [NoTraceStep]_configVars
    BY NextStep
  <1> QED BY <1>1, InitIInv, NextStep, PTL DEF ConfigSpec, FailuresLeaveNoTrace
=============================================================================

-------------------------------- MODULE Config --------------------------------
(***************************************************************************)
(* The configuration (package config): a tree of categories and entries,   *)
(* registered by packages, copied and overridden by a file at each load,   *)
(* and changed by Set.                                                     *)
(*                                                                         *)
(* Entries are shared by reference: a tree maps each path either to        *)
(* Category or to the cell of heap its entry is in, the registered entry   *)
(* <<"default", path>> or one of the loaded configuration. A value is its  *)
(* kind and content, floats in halves; <<"env", v>> is the string "${v}".  *)
(***************************************************************************)
EXTENDS Integers, Sequences, SequencesExt, FiniteSets

CONSTANTS
    Registered,         \* by path, the entries that packages register at start
    Registrations,      \* [key, entry]: what may be registered later
    Files,              \* by path, a value or Category: what may be loaded
    Settings,           \* [key, value]: what Set may be called with
    Environment         \* by variable, what its text is as each kind

\* An entry; its authorized values are of its type.
Registrable(e) ==
    /\ e = [value |-> e.value, type |-> e.type, slice |-> e.slice,
            authorized |-> e.authorized, required |-> e.required]
    /\ e.slice \in BOOLEAN
    /\ \A x \in e.authorized : x[1] = e.type

ASSUME EntriesAssumption ==
    /\ \A p \in DOMAIN Registered : Registrable(Registered[p])
    /\ \A r \in Registrations : Registrable(r.entry)

VARIABLES
    heap,               \* the entries
    defaults,           \* loader.defaults
    config,             \* Config.config, empty before it is loaded
    gave                \* outcome of the last call: ok, error, panic (one of goyave's)
                        \* or crash (a runtime error of Go)

configVars == <<heap, defaults, config, gave>>

Category == <<"category">>
Nil      == <<"nil">>

-----------------------------------------------------------------------------
(* One entry. *)

Entry(value, type) == [value |-> value, type |-> type, slice |-> FALSE,
                       authorized |-> {}, required |-> FALSE]

IsSlice(v) == v[1] = "slice"
Kind(v)    == IF v[1] = "env" THEN "string" ELSE v[1]

\* makeEntryFromValue crashes on nil.
MakeEntry(v) == IF IsSlice(v) THEN [Entry(v, v[2]) EXCEPT !.slice = TRUE] ELSE Entry(v, Kind(v))

\* tryEnvVarConversion: the values it may give, none when it fails.
FromEnv(e) ==
    LET var == e.value[2]
        as == IF e.type \in {"int", "float", "bool"} THEN e.type ELSE "string"
    IN  IF e.value[1] # "env" THEN {e.value}
        ELSE IF e.slice \/ var \notin DOMAIN Environment THEN {}
        ELSE IF as \in DOMAIN Environment[var] THEN {<<as, Environment[var][as]>>} ELSE {}

\* convertInt and what convertSlice accepts.
WholeFloat(v) == v[1] = "float" /\ v[2] % 2 = 0

\* Mutant: the converted value is not stored.
AsIntForgotten(v) == v

AsInt(v) == IF WholeFloat(v) THEN <<"int", v[2] \div 2>> ELSE v

\* tryConversion, for a value of another kind than the entry.
Conversions(e, v) ==
    IF ~e.slice THEN IF e.type = "int" /\ WholeFloat(v) THEN {AsInt(v)} ELSE {}
    ELSE IF ~IsSlice(v) \/ v[2] # "interface" THEN {}
    ELSE LET elements == IF e.type = "int" THEN [i \in DOMAIN v[3] |-> AsInt(v[3][i])] ELSE v[3]
         IN  IF e.type \in {"int", "float", "string", "bool"}
                /\ \A x \in ToSet(elements) : x[1] = e.type
             THEN {<<"slice", e.type, elements>>} ELSE {}

KindFor(e, v) == IF e.slice /\ IsSlice(v) THEN v[2] ELSE Kind(v)

\* The elements are those from before the conversion (entry.go:41); Len and Index are
\* applied to whatever a slice entry holds, also to a scalar of its type.
Authorized(e, before, after) ==
    CASE e.authorized = {} -> "ok"
      [] e.authorized # {} /\ ~e.slice -> IF after \in e.authorized THEN "ok" ELSE "error"
      [] e.authorized # {} /\ e.slice /\ IsSlice(before) ->
           IF ToSet(before[3]) \subseteq e.authorized THEN "ok" ELSE "error"
      [] e.authorized # {} /\ e.slice /\ ~IsSlice(before) ->
           IF Kind(before) # "string" THEN "crash" ELSE IF before[2] = "" THEN "ok" ELSE "error"

\* Entry.validate: the outcome, and the value it leaves in the entry.
Validate(e) ==
    LET found == FromEnv(e)
        v == CHOOSE x \in found : TRUE
        fits == IF KindFor(e, v) = e.type THEN {v} ELSE Conversions(e, v)
        w == CHOOSE x \in fits : TRUE
    IN  CASE found = {} -> [is |-> "error", value |-> e.value]
          [] found # {} /\ v = Nil -> [is |-> IF e.required THEN "error" ELSE "ok", value |-> v]
          [] found # {} /\ v # Nil /\ fits = {} -> [is |-> "error", value |-> v]
          [] found # {} /\ v # Nil /\ fits # {} -> [is |-> Authorized(e, v, w), value |-> w]

-----------------------------------------------------------------------------
(* Trees. *)

Above(key) == {SubSeq(key, 1, n) : n \in 1..(Len(key) - 1)}
IsEntry(tree, key) == key \in DOMAIN tree /\ tree[key] # Category

\* walk panics when the key is below an entry or names a category.
Misplaced(tree, key) ==
    \/ \E p \in Above(key) : IsEntry(tree, p)
    \/ key \in DOMAIN tree /\ tree[key] = Category

\* createMissingCategories, and the cell of an entry.
With(tree, key, cell) ==
    [p \in DOMAIN tree \cup Above(key) \cup {key} |->
        IF p = key THEN cell ELSE IF p \in DOMAIN tree THEN tree[p] ELSE Category]

WithCategories(tree, key) ==
    [p \in DOMAIN tree \cup Above(key) |-> IF p \in DOMAIN tree THEN tree[p] ELSE Category]

Put(cells, cell, entry) ==
    [c \in DOMAIN cells \cup {cell} |-> IF c = cell THEN entry ELSE cells[c]]

\* Mutant: the configuration has the entries of the loader.
CellShared(path) == <<"default", path>>

\* The copy of an entry that loadDefaults, override and Set make.
Cell(path) == <<"config", path>>

\* get: the entry on the way, whatever follows it in the key; of a category, what has
\* its name in it, and in that. Nothing is below an entry: there is at most one.
Repeated(key, n) == key \o [i \in 1..n |-> Last(key)]
OnTheWay(key, p) == p \in Above(key) \/ \E n \in 0..Len(p) : p = Repeated(key, n)

Lookup(tree, cells, key) ==
    LET met == {p \in DOMAIN tree : IsEntry(tree, p) /\ OnTheWay(key, p)}
    IN  IF met = {} THEN Nil ELSE cells[tree[CHOOSE p \in met : TRUE]].value

-----------------------------------------------------------------------------

ConfigInit ==
    /\ defaults = [p \in DOMAIN Registered \cup UNION {Above(k) : k \in DOMAIN Registered} |->
                     IF p \in DOMAIN Registered THEN <<"default", p>> ELSE Category]
    /\ heap = [c \in {<<"default", p>> : p \in DOMAIN Registered} |-> Registered[c[2]]]
    /\ config = <<>>
    /\ gave = "ok"

Register(key, entry) ==
    /\ UNCHANGED config
    /\ \/ Misplaced(defaults, key) /\ gave' = "panic" /\ UNCHANGED <<heap, defaults>>
       \/ /\ ~Misplaced(defaults, key) /\ key \in DOMAIN defaults
          /\ gave' = IF heap[defaults[key]] = entry THEN "ok" ELSE "panic"
          /\ UNCHANGED <<heap, defaults>>
       \/ /\ ~Misplaced(defaults, key) /\ key \notin DOMAIN defaults
          /\ gave' = "ok"
          /\ heap' = Put(heap, <<"default", key>>, entry)
          /\ defaults' = With(defaults, key, <<"default", key>>)

\* override: what a file cannot say of a tree, an error; what it cannot add, a crash. The
\* order of the keys decides which is met first, but nothing below a conflict is.
Conflicts(file) ==
    {p \in DOMAIN file \cap DOMAIN defaults : (file[p] = Category) # (defaults[p] = Category)}

UntypedEntries(file) ==
    {p \in DOMAIN file \ DOMAIN defaults : file[p] = Nil /\ Above(p) \cap Conflicts(file) = {}}

\* load: the entries of the loader are copied, overridden, validated.
Load(file) ==
    LET paths == DOMAIN defaults \cup DOMAIN file
        isCategory(p) == IF p \in DOMAIN file THEN file[p] = Category ELSE defaults[p] = Category
        entries == {p \in paths : ~isCategory(p)}
        read(p) == IF p \notin DOMAIN defaults THEN MakeEntry(file[p])
                   ELSE [heap[defaults[p]] EXCEPT !.value = IF p \in DOMAIN file THEN file[p] ELSE @]
        checked == [p \in entries |-> Validate(read(p))]
        outcomes == {checked[p].is : p \in entries}
        cells == [p \in paths |-> IF isCategory(p) THEN Category ELSE Cell(p)]
        kept == {c \in DOMAIN heap : c[1] = "default"}
        made == {Cell(p) : p \in entries}
    IN  /\ UNCHANGED defaults
        /\ \/ Conflicts(file) # {} /\ gave' = "error" /\ UNCHANGED <<heap, config>>
           \/ UntypedEntries(file) # {} /\ gave' = "crash" /\ UNCHANGED <<heap, config>>
           \/ /\ Conflicts(file) = {} /\ UntypedEntries(file) = {}
              /\ IF outcomes \subseteq {"ok"}
                 THEN /\ gave' = "ok"
                      /\ config' = cells
                      /\ heap' = [c \in kept \cup made |->
                            IF c \in made THEN [read(c[2]) EXCEPT !.value = checked[c[2]].value]
                                          ELSE heap[c]]
                 ELSE /\ gave' = IF "crash" \in outcomes THEN "crash" ELSE "error"
                      /\ UNCHANGED <<heap, config>>

\* Mutant: the entry keeps what was refused.
RevertedNever(checked) == FALSE

Reverted(checked) == checked.is = "error"

\* Set: the entry gets the value before it is validated, and its own back when that
\* fails, but not when it crashes. A new entry is not validated.
Set(key, value) ==
    LET cell == config[key]
        checked == Validate([heap[cell] EXCEPT !.value = value])
    IN  /\ config # <<>>
        /\ UNCHANGED defaults
        /\ \/ Misplaced(config, key) /\ gave' = "panic" /\ UNCHANGED <<heap, config>>
           \/ /\ ~Misplaced(config, key) /\ key \in DOMAIN config
              /\ gave' = IF checked.is = "error" THEN "panic" ELSE checked.is
              /\ heap' = IF Reverted(checked) THEN heap
                         ELSE [heap EXCEPT ![cell].value = checked.value]
              /\ UNCHANGED config
           \/ /\ ~Misplaced(config, key) /\ key \notin DOMAIN config /\ value = Nil
              /\ gave' = "crash"
              /\ config' = WithCategories(config, key)
              /\ UNCHANGED heap
           \/ /\ ~Misplaced(config, key) /\ key \notin DOMAIN config /\ value # Nil
              /\ gave' = "ok"
              /\ heap' = Put(heap, Cell(key), MakeEntry(value))
              /\ config' = With(config, key, Cell(key))

ConfigNext ==
    \/ \E r \in Registrations : Register(r.key, r.entry)
    \/ \E file \in Files : Load(file)
    \/ \E s \in Settings : Set(s.key, s.value)

ConfigSpec == ConfigInit /\ [][ConfigNext]_configVars

-----------------------------------------------------------------------------

\* A slice entry takes a scalar of its type (entry.go:54 compares the kind alone).
Misfit(e) == e.slice /\ ~IsSlice(e.value) /\ e.value # Nil

\* What an entry promises: that it is unset, or has its type and one of its values.
Typed(e) ==
    \/ e.value = Nil /\ ~e.required
    \/ Misfit(e)
    \/ /\ IF e.slice THEN IsSlice(e.value) /\ e.value[2] = e.type ELSE Kind(e.value) = e.type
       /\ e.authorized # {} =>
            (IF e.slice THEN ToSet(e.value[3]) ELSE {e.value}) \subseteq e.authorized

\* Whatever the file, the environment and the calls of Set were, an entry in use is
\* unset or has the type and the values it was registered with, so that GetInt and the
\* like do not panic on it; the entries of Misfit are the exception.
ValuesTyped == \A p \in DOMAIN config : config[p] # Category => Typed(heap[config[p]])

Keys == DOMAIN config \cup {s.key : s \in Settings}
Read(key) == Lookup(config, heap, key)
OfLoader == [p \in DOMAIN defaults |-> IF defaults[p] = Category THEN Category ELSE heap[defaults[p]]]

\* The failure that is not reverted, contrary to config.go:489: Set has stored a scalar
\* in a slice entry with authorized values (config.go:498), and asking for its length
\* panics (entry.go:69); config.go:500, which restores the previous value, is not reached.
Unreverted(c) ==
    gave' = "crash" /\ Misfit(heap'[c]) /\ heap'[c].authorized # {} /\ heap'[c] # heap[c]

\* A load or a Set that fails, with an error, a panic of goyave's or one of Go's, changes
\* nothing that can be read ("panics and revert changes in case of error", config.go:489),
\* but for the value of the one entry that Unreverted is about; and no configuration,
\* however it is loaded and set, changes what the next one is made from.
NoTraceStep ==
    /\ gave' # "ok" =>
         \/ \A k \in Keys : Read(k)' = Read(k)
         \/ \E c \in DOMAIN heap : /\ Unreverted(c)
                                  /\ \A k \in Keys : Read(k)' \in {Read(k), heap'[c].value}
    /\ \A p \in DOMAIN defaults : OfLoader[p]' = OfLoader[p]

FailuresLeaveNoTrace == [][NoTraceStep]_configVars
=============================================================================

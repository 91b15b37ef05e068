------------------------------ MODULE Validation ------------------------------
(***************************************************************************)
(* Validation of one request (validation/validator.go, ruleset.go,         *)
(* field.go): a rule set is turned into fields, then each field is walked  *)
(* in turn, its validators run on every element it leads to and the data   *)
(* is converted where it is. One step is one field; the order of the keys  *)
(* of a map is the choice of each step.                                    *)
(*                                                                         *)
(* A rule set is a sequence of [path, rules, set]: a path as text, the     *)
(* rules of a field or, when set is not empty, a rule set composed under   *)
(* the path.                                                               *)
(***************************************************************************)
EXTENDS Validators

CONSTANTS
    Scenarios           \* [set, inputs, convert, fails]: a rule set, the data it is given,
                        \* ConvertSingleValueArrays, whether the database may fail

VARIABLES
    scenario,
    input,              \* the data as received
    data,               \* options.Data
    dbFails,
    next,               \* the field to validate next, 0 after a panic
    bag,                \* validationErrors
    errors,             \* an operation failed
    failed              \* history: where which rule failed

vars == <<scenario, input, data, dbFails, next, bag, errors, failed>>

CurrentElement == <<>>
ArrayRule      == [name |-> "array"]
NoFields       == <<>>

-----------------------------------------------------------------------------
(* From rule sets to fields. *)

Uses(rules, names) == \E r \in DOMAIN rules : rules[r].name \in names

NewField(text, rules, depth) ==
    [text |-> text, path |-> Parse(text), rules |-> rules, depth |-> depth,
     array |-> Uses(rules, {"array"}), nullable |-> Uses(rules, {"nullable"}),
     elements |-> NoFields]

EndsInArray(text) == text # <<>> /\ Last(text) = "[]"

\* Arrays of elements that have rules but have none themselves, after the elements.
RECURSIVE MissingArrays(_, _)
MissingArrays(text, declared) ==
    IF ~EndsInArray(text) \/ Front(text) \in declared THEN <<>>
    ELSE <<[path |-> Front(text), rules |-> <<ArrayRule>>, set |-> <<>>]>>
         \o MissingArrays(Front(text), declared)

InjectArrayParents(set) ==
    LET declared == {set[i].path : i \in DOMAIN set}
    IN  FlattenSeq([i \in DOMAIN set |-> <<set[i]>> \o MissingArrays(set[i].path, declared)])

Prefixed(prefix, path) ==
    IF path = CurrentElement THEN prefix
    ELSE IF prefix = <<>> \/ path[1] = "[]" THEN prefix \o path ELSE prefix \o <<".">> \o path

PrefixDepth(prefix) ==
    IF prefix = <<>> THEN 0 ELSE 1 + Len(SelectSeq(prefix, LAMBDA t : t \in {".", "[]"}))

RECURSIVE ElementTexts(_, _), WithElements(_, _)
ElementTexts(text, elements) ==
    IF elements = NoFields THEN {}
    ELSE {text \o <<"[]">>} \cup ElementTexts(text \o <<"[]">>, elements[1].elements)

\* checkDuplicates panics: the same path twice, or a property after a wildcard beside it.
Rejected(rules) ==
    LET parent(f) == IF Depth(f.path) = 1 THEN Parse(CurrentElement)
                     ELSE Truncate(f.path, Depth(f.path) - 1)
    IN  \E i, j \in DOMAIN rules :
          /\ i < j
          /\ \/ rules[j].text \in {rules[i].text} \cup ElementTexts(rules[i].text, rules[i].elements)
             \/ /\ Last(rules[i].path).name = Wildcard /\ Last(rules[j].path).name # Wildcard
                /\ parent(rules[i]) = parent(rules[j])

IsElement(f, depth) ==
    EndsInArray(f.text) /\ Len(f.path) - (IF depth > 1 THEN depth - 1 ELSE 0) > 1

\* A field of array elements goes to the array that has its path without "[]".
WithElements(f, elements) ==
    LET own == SelectSeq(elements, LAMBDA e : e.text = f.text \o <<"[]">>)
    IN  IF ~f.array \/ own = <<>> THEN f
        ELSE [f EXCEPT !.elements = <<[WithElements(own[1], elements) EXCEPT !.path = Parse(<<"[]">>)]>>]

RECURSIVE AsRules(_, _), Panics(_, _)
Fields(set, prefix) ==
    LET all == InjectArrayParents(set)
        convert(e) == IF e.set # <<>> THEN AsRules(e.set, Prefixed(prefix, e.path))
                      ELSE <<NewField(Prefixed(prefix, e.path), e.rules, PrefixDepth(prefix))>>
    IN  FlattenSeq([i \in DOMAIN all |-> convert(all[i])])

\* What remains of the fields once array elements are with their arrays.
AsRules(set, prefix) ==
    LET fields == Fields(set, prefix)
        elements == SelectSeq(fields, LAMBDA f : IsElement(f, PrefixDepth(prefix)))
        others == SelectSeq(fields, LAMBDA f : ~IsElement(f, PrefixDepth(prefix)))
    IN  [i \in DOMAIN others |-> WithElements(others[i], elements)]

Panics(set, prefix) ==
    \/ Rejected(Fields(set, prefix))
    \/ \E i \in DOMAIN set : set[i].set # <<>> /\ Panics(set[i].set, Prefixed(prefix, set[i].path))

-----------------------------------------------------------------------------
(* One element. What changes while a field is validated is a record: roots,  *)
(* the data and after it the copies of arrays that elements are validated    *)
(* in; bag, errors and failed as above. base says which of the roots is      *)
(* walked, from where, and where that is in the data.                        *)

Replaced(st, base, at, value) ==
    [st EXCEPT !.roots[base.root] = Put(@, base.at \o at, value)]

\* Mutant: every nil property of the object goes.
RemovedNils(st, base, at) ==
    LET map == Get(st.roots[base.root], base.at \o Front(at))[2]
    IN  Replaced(st, base, Front(at),
                 <<"object", [n \in {k \in DOMAIN map : map[k] # Nil} |-> map[n]]>>)

Removed(st, base, at) ==
    LET map == Get(st.roots[base.root], base.at \o Front(at))[2]
    IN  Replaced(st, base, Front(at),
                 <<"object", [n \in DOMAIN map \ {Last(at)[2]} |-> map[n]]>>)

\* The path of an element of the array at parentPath; the paths of errors, of
\* deeper elements and of the relative root start with it (getErrorPath, appendPath).
Indexed(parentPath, index) ==
    SetLast(parentPath, [Last(parentPath) EXCEPT !.type = "array", !.index = index])

\* Mutant: the element's own path, which does not have its array's.
ErrorPathOwn(parentPath, c) == c.path

ErrorPath(parentPath, c) ==
    IF parentPath = <<>> THEN c.path ELSE Append(Indexed(parentPath, c.index), Step)

AppendPath(parentPath, c) ==
    IF parentPath = <<>> THEN c.path
    ELSE IF Len(parentPath) > 1 THEN Front(parentPath) \o c.path
    ELSE Indexed(parentPath, c.index) \o c.path

\* Mutant: always Options.Data.
RelativeDataWhole(field, parentPath, c, st, order) == st.roots[1]

\* Options.Data, or the part of it a composed rule set is about.
RelativeData(field, parentPath, c, st, order) ==
    IF field.depth = 0 THEN st.roots[1]
    ELSE First(Truncate(AppendPath(parentPath, c), field.depth), st.roots[1], order).value

InObject == [Step EXCEPT !.type = "object"]

AddAt(to, path, isRoot, message) ==
    Add(to, IF isRoot THEN path ELSE <<InObject>> \o path, message)

IsRootElement(top, field, path) ==
    \/ top /\ field.text = CurrentElement
    \/ path[1].type = "array" /\ path[1].name \in {NoName, ""}

\* Errors of elements of the array: the type, index and next of the first step change.
AddElementErrors(to, path, isRoot, indices, message) ==
    LET at(i) == <<[path[1] EXCEPT !.type = "array", !.index = i], Step>>
    IN  FoldLeft(LAMBDA b, i : AddAt(b, at(i), isRoot, message), to, SetToSortSeq(indices, <))

\* Errors a rule adds elsewhere, from the root.
MergeErrors(to, merge) ==
    IF merge = <<>> THEN to ELSE Merge(to, <<InObject>> \o Parse(merge[1]), merge[2])

ElementAt(text) == LET names == SelectSeq(text, LAMBDA t : t # ".")
                  IN  [i \in DOMAIN names |-> Key(names[i])]

\* One validator on one element, and its result. acc: the value so far, whether it is
\* valid so far, whether a nullable nil ended the list, and the record st.
Recorded(acc, rule, res, top, field, path, loc) ==
    LET isRoot == IsRootElement(top, field, path)
        elements == {<<Append(loc, Idx(i)), rule.name>> : i \in res.elements}
        merged == IF res.merge = <<>> THEN {}
                  ELSE {<<ElementAt(res.merge[1]) \o e[1], e[2]>> : e \in Flatten(res.merge[2])}
    IN  CASE res.failed -> [acc EXCEPT !.valid = FALSE, !.st.errors = TRUE]
          [] ~res.failed /\ ~res.ok ->
               [acc EXCEPT !.valid = FALSE, !.st.failed = @ \cup {<<loc, rule.name>>},
                           !.st.bag = AddAt(@, path, isRoot, rule.name)]
          [] ~res.failed /\ res.ok ->
               [acc EXCEPT !.value = res.value, !.st.failed = @ \cup elements \cup merged,
                           !.st.bag = AddElementErrors(MergeErrors(@, res.merge), path,
                                          top /\ field.text = CurrentElement, res.elements, rule.name)]

RunValidator(acc, rule, ctx, top, field, path, loc) ==
    CASE acc.stop -> acc
      [] ~acc.stop /\ rule.name = "nullable" -> [acc EXCEPT !.stop = acc.value = Nil]
      [] ~acc.stop /\ rule.name # "nullable" ->
           Recorded(acc, rule, Check(rule, [ctx EXCEPT !.value = acc.value, !.invalid = ~acc.valid]),
                    top, field, path, loc)

\* The last of the rules about presence decides: newField overwrites isRequired.
PresenceRules(rules) == SelectSeq(rules, LAMBDA r : r.name \in {"required", "required_if"})
Always(rules) == PresenceRules(rules) # <<>> /\ Last(PresenceRules(rules)).name = "required"

IsRequired(field, ctx) ==
    /\ PresenceRules(field.rules) # <<>>
    /\ Always(field.rules) \/ Holds(Last(PresenceRules(field.rules)), ctx)

Gone(c, field)  == c.inObject /\ ~field.nullable /\ c.value = Nil
Found(c, field) == c.found = "found" /\ ~Gone(c, field)

\* The field's own name decides, wherever it is: only the root has none, and only the
\* elements of an array are called by "[]".
IsSingle(c, field, top, options) ==
    /\ Found(c, field) /\ options.convert
    /\ top /\ field.text # CurrentElement
    /\ field.array /\ c.value # Nil
    /\ ~IsArray(c.value) /\ c.value[1] \notin {"files", "ip"}

\* The element is removed, or made an array of one.
Prepared(st, c, field, base, single) ==
    IF Gone(c, field) /\ c.found = "found" THEN Removed(st, base, c.at)
    ELSE IF single THEN Replaced(st, base, c.at, <<"array", <<c.value>>, TypeName(c.value)>>)
    ELSE st

\* All the validators of the field, and the value they leave.
RunValidators(st, generic, ctx, c, field, top, base, parentPath) ==
    LET relative == [ctx EXCEPT !.data = RelativeData(field, parentPath, c, st, ctx.order)]
        path == ErrorPath(parentPath, c)
        leave(ran) == IF Found(c, field) THEN Replaced(ran.st, base, c.at, ran.value) ELSE ran.st
    IN  leave(FoldLeft(LAMBDA acc, rule :
                           RunValidator(acc, rule, relative, top, field, path, base.loc \o c.at),
                       [value |-> generic, valid |-> TRUE, stop |-> FALSE, st |-> st], field.rules))

\* options: [convert, fails, order]. top: not an element of an array.
RECURSIVE ValidateField(_, _, _, _, _, _)

\* The elements first, in a copy when the array has a type.
ValidateElements(st, value, ctx, c, field, top, base, parentPath, options) ==
    LET typed == value[3] # "any"
        inner == IF typed THEN [root |-> Len(st.roots) + 1, at |-> <<>>, loc |-> base.loc \o c.at]
                 ELSE [root |-> base.root, at |-> base.at \o c.at, loc |-> base.loc \o c.at]
        copied == IF typed THEN [st EXCEPT !.roots = Append(@, <<"array", value[2], "any">>)] ELSE st
        below == IF parentPath = <<>> THEN c.path ELSE Indexed(parentPath, c.index) \o Tail(c.path)
        validators(s) == RunValidators(s, Get(s.roots[inner.root], inner.at), ctx,
                                       c, field, top, base, parentPath)
    IN  validators(ValidateField(copied, field.elements[1], FALSE, inner, below, options))

Present(st, value, c, field, top, base, parentPath, options) ==
    LET ctx == [value |-> value, data |-> st.roots[1], order |-> options.order, invalid |-> FALSE,
                nullable |-> field.nullable, dbFails |-> options.fails]
        absent == \/ c.found = "parent not found"
                  \/ ~Found(c, field) /\ ~IsRequired(field, ctx)
    IN  IF absent THEN st
        ELSE IF field.elements # NoFields /\ IsArray(value)
        THEN ValidateElements(st, value, ctx, c, field, top, base, parentPath, options)
        ELSE RunValidators(st, value, ctx, c, field, top, base, parentPath)

ValidateElement(st, c, field, top, base, parentPath, options) ==
    LET single == IsSingle(c, field, top, options)
        value == IF single THEN <<"array", <<c.value>>, TypeName(c.value)>> ELSE c.value
    IN  Present(Prepared(st, c, field, base, single), value, c, field, top, base, parentPath, options)

\* The root element is walked as the only property of a map of its own.
RootContext(v) ==
    [found |-> IF v = Nil THEN "element not found" ELSE "found", value |-> v, at |-> <<>>,
     inObject |-> TRUE, name |-> "", index |-> -1, path |-> Parse(CurrentElement)]

ValidateField(st, field, top, base, parentPath, options) ==
    LET walked == Get(st.roots[base.root], base.at)
        contexts == IF top /\ field.text = CurrentElement THEN <<RootContext(walked)>>
                    ELSE WalkPath(field.path, walked, options.order)
    IN  FoldLeft(LAMBDA s, c : ValidateElement(s, c, field, top, base, parentPath, options),
                 st, contexts)

-----------------------------------------------------------------------------
(* Validate. *)

Whole == [root |-> 1, at |-> <<>>, loc |-> <<>>]

Validated(st, field, options) == ValidateField(st, field, TRUE, Whole, <<>>, options)

Start(value) == [roots |-> <<value>>, bag |-> NoErrors, errors |-> FALSE, failed |-> {}]

RECURSIVE Names(_)
Names(v) == IF IsObject(v) THEN DOMAIN v[2] \cup UNION {Names(v[2][n]) : n \in DOMAIN v[2]}
            ELSE IF IsArray(v) THEN UNION {Names(x) : x \in ToSet(v[2])} ELSE {}

RulesOf == [s \in DOMAIN Scenarios |-> AsRules(Scenarios[s].set, <<>>)]
Rules   == RulesOf[scenario]
Options(order) == [convert |-> Scenarios[scenario].convert, fails |-> dbFails, order |-> order]

SomeOrder(v) == SetToSeq(Names(v))

\* A range over a map happens where a path has a wildcard only.
KeyOrders(v) ==
    IF \E f \in DOMAIN Rules : Wildcard \in ToSet(Rules[f].text) THEN SetToSeqs(Names(v))
                                                              ELSE {SomeOrder(v)}

Init ==
    /\ scenario \in DOMAIN Scenarios
    /\ input \in Scenarios[scenario].inputs
    /\ data = input
    /\ dbFails \in {FALSE, Scenarios[scenario].fails}
    /\ next = IF Panics(Scenarios[scenario].set, <<>>) THEN 0 ELSE 1
    /\ bag = NoErrors
    /\ errors = FALSE
    /\ failed = {}

ValidateNext ==
    /\ next \in DOMAIN Rules
    /\ \E order \in KeyOrders(data) :
         LET st == Validated([Start(data) EXCEPT !.bag = bag, !.errors = errors, !.failed = failed],
                             Rules[next], Options(order))
         IN  /\ data' = st.roots[1]
             /\ bag' = st.bag
             /\ errors' = st.errors
             /\ failed' = st.failed
    /\ next' = next + 1
    /\ UNCHANGED <<scenario, input, dbFails>>

Next == ValidateNext
Spec == Init /\ [][Next]_vars

Done == next = Len(Rules) + 1

-----------------------------------------------------------------------------
(* Properties. *)

\* The paths that have rules, as text.
RECURSIVE Declared(_, _)
Declared(set, prefix) ==
    LET all == InjectArrayParents(set)
    IN  UNION {IF all[i].set = <<>> THEN {Prefixed(prefix, all[i].path)}
               ELSE Declared(all[i].set, Prefixed(prefix, all[i].path)) : i \in DOMAIN all}

DeclaredIn    == [s \in DOMAIN Scenarios |-> Declared(Scenarios[s].set, <<>>)]
DeclaredPaths == DeclaredIn[scenario]

\* Read without parsing: each token but the dots is a key or an index.
Matches(text, at) ==
    LET tokens == SelectSeq(text, LAMBDA t : t # ".")
    IN  /\ Len(tokens) = Len(at)
        /\ \A i \in DOMAIN at : CASE tokens[i] = "[]" -> at[i][1] = "i"
                                  [] tokens[i] = Wildcard -> at[i][1] = "k"
                                  [] OTHER -> at[i] = Key(tokens[i])

Matching(text, v) == {at \in Locations(v) : Matches(text, at)}

\* A walk finds every element its path describes once and no other, and the exact
\* path it reports for an element leads back to it alone (walk.go: Walk, First;
\* validateField uses the path to report errors and to find the relative root).
WalkExact ==
    next # 0 => \A text \in DeclaredPaths \ {CurrentElement} :
        LET found == SelectSeq(WalkPath(Parse(text), data, SomeOrder(data)),
                               LAMBDA c : c.found = "found")
        IN  /\ {found[i].at : i \in DOMAIN found} = Matching(text, data)
            /\ Len(found) = Cardinality(Matching(text, data))
            /\ \A i \in DOMAIN found : First(found[i].path, data, SomeOrder(data)).at = found[i].at

\* The errors the client is shown are those of the rules that failed, each at the
\* element it failed on, however deep in arrays and composed rule sets
\* (getErrorPath, isRootElement, Errors.Add).
ErrorsAtElements == Flatten(bag) = failed

OfType(name, v) ==
    CASE name = "array" -> IsArray(v) [] name = "object" -> IsObject(v)
      [] name \notin {"array", "object"} -> v[1] = name

RECURSIVE FieldHolds(_, _)
FieldHolds(field, text) ==
    /\ \A at \in Matching(text, data), r \in DOMAIN field.rules :
         LET v == Get(data, at)
         IN  \/ v = Nil /\ field.nullable
             \/ /\ field.rules[r].name = "required" => v # Nil
                /\ field.rules[r].name \in TypeRules => OfType(field.rules[r].name, v)
    /\ field.elements # NoFields => FieldHolds(field.elements[1], text \o <<"[]">>)

\* When Validate returns no error, the data is as its rules say: every element has
\* its type and what is required is there, even after another field, an element or a
\* composed rule set has converted data around it; and at any time a typed slice
\* holds elements of its type only (Go would panic).
ValidMeansTyped ==
    /\ \A at \in Locations(data) :
         LET v == Get(data, at)
         IN  IsArray(v) /\ v[3] # "any" => \A x \in ToSet(v[2]) : TypeName(x) = v[3]
    /\ Done /\ bag = NoErrors /\ ~errors =>
         \A i \in DOMAIN Rules :
           /\ FieldHolds(Rules[i], Rules[i].text)
           /\ Always(Rules[i].rules) /\ ~Rules[i].nullable =>
                IF Rules[i].text = CurrentElement THEN data # Nil
                ELSE \A c \in ToSet(WalkPath(Rules[i].path, data, SomeOrder(data))) :
                       c.found # "element not found"

\* Validation changes nothing but the elements that have rules: what is beside or
\* below them stays, and nothing appears except where such an element was a scalar
\* (replaceValue, delete, the in-place conversion of arrays).
OnlyMatchedChanges ==
    LET ruled(v) == UNION {Matching(text, v) : text \in DeclaredPaths}
        arrays(v) == {at \in Locations(v) : IsArray(Get(v, at))}
        before == Locations(input)
        around == {at \in before : \E m \in ruled(input) : IsPrefix(at, m)}
    IN  /\ \A at \in before \ (around \cup arrays(input)) :
             at \in Locations(data) /\ Get(data, at) = Get(input, at)
        /\ \A at \in Locations(data) \ before :
             \E n \in 0..Len(at) :
               LET m == SubSeq(at, 1, n)
               IN  m \in before /\ m \in ruled(data) /\ Keys(Get(input, m)) = {}

Alone(set, value) ==
    LET rules == AsRules(set, <<>>)
    IN  FoldLeft(LAMBDA st, f : Validated(st, f, Options(SomeOrder(value))), Start(value), rules)

\* A rule set composed under a path means for each element there what it means for
\* that element alone: the same errors, and the same conversions, with and without
\* ConvertSingleValueArrays. Paths in its rules are relative to the element (prefixDepth,
\* appendPath, Truncate). Elements that are objects: a rule set whose own root is to be an
\* array has a single value converted where it is composed, and never alone.
CompositionModular ==
    Done /\ ~errors =>
      \A i \in DOMAIN Scenarios[scenario].set :
        LET entry == Scenarios[scenario].set[i]
        IN  entry.set # <<>> =>
              \A at \in Matching(entry.path, input) :
                IsObject(Get(input, at)) =>
                  LET alone == Alone(entry.set, Get(input, at))
                  IN  /\ at \in Locations(data) /\ Get(data, at) = alone.roots[1]
                      /\ {e \in Flatten(bag) : IsPrefix(at, e[1])}
                           = {<<at \o e[1], e[2]>> : e \in Flatten(alone.bag)}
=============================================================================

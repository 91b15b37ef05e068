--------------------------------- MODULE Walk ---------------------------------
(***************************************************************************)
(* Paths through untyped data (util/walk/walk.go) and the error bag that   *)
(* is addressed by them (validation/errors.go).                            *)
(*                                                                         *)
(* A value is a tuple of its type and its content: <<"object", function>>, *)
(* <<"array", sequence, element type>>, <<"nil">>, or a scalar. A location *)
(* is a sequence of keys <<"k", name>> and indices <<"i", number>>, where  *)
(* numbers start at 0 as in Go. The text of a path is a sequence of names, *)
(* "." and "[]"; escape sequences are not modelled.                        *)
(***************************************************************************)
EXTENDS Integers, Sequences, SequencesExt, FiniteSets

NoName   == "<nil>"
NoIndex  == -2           \* the nil index; -1 is the index of what does not exist
Wildcard == "*"
Nil      == <<"nil">>
Step     == [name |-> NoName, type |-> "element", index |-> NoIndex]

Key(name) == <<"k", name>>
Idx(i)    == <<"i", i>>

IsObject(v) == v[1] = "object"
IsArray(v)  == v[1] = "array"
Child(v, k) == IF k[1] = "k" THEN v[2][k[2]] ELSE v[2][k[2] + 1]
Has(v, k)   == IF k[1] = "k" THEN IsObject(v) /\ k[2] \in DOMAIN v[2]
                             ELSE IsArray(v) /\ k[2] + 1 \in DOMAIN v[2]

RECURSIVE Get(_, _), Put(_, _, _), Locations(_)
Get(v, at) == IF at = <<>> THEN v ELSE Get(Child(v, Head(at)), Tail(at))

With(v, k, x) == [v EXCEPT ![2] = IF k[1] = "i" THEN [@ EXCEPT ![k[2] + 1] = x]
                   ELSE [n \in DOMAIN @ \cup {k[2]} |-> IF n = k[2] THEN x ELSE @[n]]]
Put(v, at, x) ==
    IF at = <<>> THEN x
    ELSE With(v, Head(at), IF Len(at) = 1 THEN x ELSE Put(Child(v, Head(at)), Tail(at), x))

Keys(v) == IF IsObject(v) THEN {Key(n) : n \in DOMAIN v[2]}
           ELSE IF IsArray(v) THEN {Idx(i - 1) : i \in DOMAIN v[2]} ELSE {}
Locations(v) == {<<>>} \cup UNION {{<<k>> \o at : at \in Locations(Child(v, k))} : k \in Keys(v)}

-----------------------------------------------------------------------------
(* Paths. *)

SetLast(steps, s) == Front(steps) \o <<s>>
Depth(steps) == Len(steps)

\* Mutant: a second dimension is taken for the first.
ParseTokenFlat(steps, token) ==
    LET last == Last(steps)
        array == [Step EXCEPT !.type = "array"]
        object == [Step EXCEPT !.type = "object"]
    IN  CASE token = "[]" -> SetLast(steps, [last EXCEPT !.type = "array"])
          [] token = "."  -> IF last.type = "array" THEN steps \o <<object, Step>>
                             ELSE SetLast(steps, [last EXCEPT !.type = "object"]) \o <<Step>>
          [] OTHER        -> SetLast(steps, [last EXCEPT !.name = token])

\* Parse: what each token does to the steps so far.
ParseToken(steps, token) ==
    LET last == Last(steps)
        array == [Step EXCEPT !.type = "array"]
        object == [Step EXCEPT !.type = "object"]
    IN  CASE token = "[]" -> IF last.type = "array" THEN Append(steps, array)
                             ELSE SetLast(steps, [last EXCEPT !.type = "array"])
          [] token = "."  -> IF last.type = "array" THEN steps \o <<object, Step>>
                             ELSE SetLast(steps, [last EXCEPT !.type = "object"]) \o <<Step>>
          [] OTHER        -> SetLast(steps, [last EXCEPT !.name = token])

Parse(text) ==
    LET steps == FoldLeft(ParseToken, <<Step>>, text)
    IN  IF text = <<>> THEN <<[Step EXCEPT !.name = ""]>>
        ELSE IF Last(steps).type = "element" THEN steps ELSE Append(steps, Step)

\* The first n steps, as a path of its own.
Truncate(steps, n) ==
    IF n >= Len(steps) THEN steps
    ELSE SetLast(SubSeq(steps, 1, n), [steps[n] EXCEPT !.type = "element"])

\* LastParent: where the last step begins, 0 for a path of one step.
LastParentIndex(steps) == Len(steps) - 1

InArray(steps) == Len(steps) > 1 /\ steps[Len(steps) - 1].type = "array"

MissingIndexes(steps) ==
    [i \in DOMAIN steps |-> IF steps[i].type = "array" THEN [steps[i] EXCEPT !.index = -1]
                                                       ELSE steps[i]]

-----------------------------------------------------------------------------
(* Walking. A context says what the callback is told; at is the location of *)
(* the element, or where it would be.                                       *)

Bare(s) == [s EXCEPT !.index = NoIndex]

\* The steps that lead nowhere any more: completePath.
Complete(track, p) ==
    LET last == [Last(track) EXCEPT !.index = IF p[1].type = "array" THEN -1 ELSE @]
    IN  SetLast(track, last) \o MissingIndexes(Tail(p))

NotFoundContext(found, at, parent, track, name, index) ==
    [found |-> found, value |-> Nil, at |-> at, inObject |-> IsObject(parent),
     name |-> name, index |-> index, path |-> track]

\* order: the keys in the order in which a range over a map yields them this time.
RECURSIVE WalkFrom(_, _, _, _, _, _, _)
WalkFrom(p, current, at, parent, index, track, order) ==
    LET step == p[1]
        named == step.name # NoName
        key  == Key(step.name)
        any  == named /\ step.name = Wildcard /\ IsObject(current) /\ DOMAIN current[2] # {}
        ways == SelectSeq(order, LAMBDA k : k \in DOMAIN current[2])
        as(k) == WalkFrom(<<[step EXCEPT !.name = k]>> \o Tail(p), current, at, parent, -1,
                          SetLast(track, [Last(track) EXCEPT !.name = k]), order)
        element == IF named THEN Child(current, key) ELSE current
        here == IF named THEN Append(at, key) ELSE at
        holder == IF named THEN current ELSE parent
        pos == IF named THEN -1 ELSE index
        after(x, where, h, i, t) == WalkFrom(Tail(p), x, where, h, i, Append(t, Bare(p[2])), order)
        entered(i) == SetLast(track, [Last(track) EXCEPT !.index = i])
        item(i) == after(element[2][i + 1], Append(here, Idx(i)), element, i, entered(i))
        leaf == Append(track, [Bare(p[2]) EXCEPT !.type = "element"])
    IN  IF any THEN FlattenSeq([i \in DOMAIN ways |-> as(ways[i])])
        ELSE IF named /\ ~Has(current, key)
        THEN <<NotFoundContext(IF IsObject(current) /\ step.type = "element"
                               THEN "element not found" ELSE "parent not found",
                               Append(at, key), current, Complete(track, p), step.name,
                               IF IsObject(current) THEN -1 ELSE index)>>
        ELSE CASE step.type = "element" ->
                    <<[found |-> "found", value |-> element, at |-> here,
                       inObject |-> IsObject(holder), path |-> track, index |-> pos,
                       name |-> IF named THEN step.name ELSE ""]>>
               [] step.type = "object" -> after(element, here, holder, pos, track)
               [] step.type = "array" /\ ~IsArray(element) ->
                    <<NotFoundContext("parent not found", here, holder,
                                      SetLast(track, [Last(track) EXCEPT !.type = "element"]),
                                      IF named THEN step.name ELSE "", pos)>>
               [] step.type = "array" /\ IsArray(element) /\ step.index # NoIndex ->
                    IF step.index + 1 \in DOMAIN element[2] THEN item(step.index)
                    ELSE <<NotFoundContext("element not found", Append(here, Idx(step.index)),
                             element, Append(entered(step.index), Bare(p[2])), "", step.index)>>
               [] step.type = "array" /\ IsArray(element) /\ step.index = NoIndex ->
                    IF element[2] = <<>>
                    THEN <<NotFoundContext(IF p[2].type = "element" THEN "element not found"
                                           ELSE "parent not found",
                                           Append(here, Idx(-1)), element, leaf, "", -1)>>
                    ELSE FlattenSeq([i \in DOMAIN element[2] |-> item(i - 1)])

WalkPath(p, v, order) == WalkFrom(p, v, <<>>, Nil, -1, <<Bare(p[1])>>, order)
First(p, v, order) == WalkPath(p, v, order)[1]

-----------------------------------------------------------------------------
(* The bag of errors, without the order of messages at one place. *)

NoErrors == [errors |-> {}, fields |-> [n \in {} |-> {}], elements |-> [i \in {} |-> {}]]

Entry(f, k) == IF k \in DOMAIN f THEN f[k] ELSE NoErrors
Store(f, k, b) == [n \in DOMAIN f \cup {k} |-> IF n = k THEN b ELSE f[n]]

\* FieldsErrors is given the step of the field itself, ArrayErrors the next one.
RECURSIVE Merge(_, _, _), Flatten(_)
Merge(bag, path, other) ==
    LET step == Head(path)
        next == Tail(path)
        index == IF step.index = NoIndex THEN -1 ELSE step.index
        both(f, g) == [k \in DOMAIN f \cup DOMAIN g |->
                         IF k \notin DOMAIN g THEN f[k]
                         ELSE IF k \notin DOMAIN f THEN g[k] ELSE Merge(f[k], path, g[k])]
    IN  CASE step.type = "element" -> [errors |-> bag.errors \cup other.errors,
                                       fields |-> both(bag.fields, other.fields),
                                       elements |-> both(bag.elements, other.elements)]
          [] step.type = "array" -> [bag EXCEPT !.elements =
                                       Store(@, index, Merge(Entry(@, index), next, other))]
          [] step.type = "object" -> [bag EXCEPT !.fields =
                        Store(@, next[1].name, Merge(Entry(@, next[1].name), next, other))]

Add(bag, path, message) == Merge(bag, path, [NoErrors EXCEPT !.errors = {message}])

\* What a client sees: messages by location.
Flatten(bag) ==
    {<<<<>>, m>> : m \in bag.errors}
      \cup UNION {{<<<<Key(n)>> \o e[1], e[2]>> : e \in Flatten(bag.fields[n])} : n \in DOMAIN bag.fields}
      \cup UNION {{<<<<Idx(i)>> \o e[1], e[2]>> : e \in Flatten(bag.elements[i])} : i \in DOMAIN bag.elements}
=============================================================================

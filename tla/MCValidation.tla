----------------------------- MODULE MCValidation -----------------------------
(* Model checking of Validation: rule sets chosen for how their fields meet    *)
(* (arrays in arrays, wildcards, composition, the root, the database), each     *)
(* with every combination of a few values.                                      *)
EXTENDS Validation

CONSTANT Plain      \* whether to take the scenarios that keep the properties, or the others

MCParsed ==
    [int |-> [n \in {"1", "2"} |-> <<"int", IF n = "1" THEN 1 ELSE 2>>],
     date |-> [d \in {"may", "june"} |-> <<"date", IF d = "may" THEN 5 ELSE 6>>],
     object |-> [o \in {"{k:x}"} |-> <<"object", [k \in {"k"} |-> <<"string", "x">>]>>],
     url |-> [u \in {"/"} |-> <<"url", "/">>],
     timezone |-> [z \in {"UTC"} |-> <<"location", "UTC">>],
     uuid |-> [u \in {"u4", "u7"} |-> <<"uuid", u>>],
     ip |-> [a \in {"::1", "1.2.3.4"} |-> <<"ip", IF a = "::1" THEN "ipv6" ELSE "ipv4">>],
     email |-> [m \in {"me <a@b>"} |-> <<"string", "a@b">>]]
MCAccepted == [digits |-> {"1", "2"}, alpha |-> {"x", "may", "june"}, regex |-> {"/", "1.2.3.4"},
               slash |-> {"/"}]
MCTrimOf   == [n \in {" x"} |-> "x"]
MCLength   == [n \in {"1", "2", "x", " x", "may", "june", "{k:x}", "a@b", "/", "UTC", "u4", "u7", "::1",
                     "1.2.3.4", "me <a@b>"} |-> IF n = "june" THEN 4 ELSE 1]

S(text) == <<"string", text>>
I(n)    == <<"int", n>>
A(seq)  == <<"array", seq, "any">>
O(f)    == <<"object", f>>
Objects(names, values) == {O(f) : f \in UNION {[D -> values] : D \in SUBSET names}}
Arrays(n, values)      == {A(s) : s \in UNION {[1..k -> values] : k \in 0..n}}

MCStored == {S("x"), I(2)}

R(name) == [name |-> name]
Other(name, path) == [name |-> name, path |-> path]
F(path, rules) == [path |-> path, rules |-> rules, set |-> <<>>]
Under(path, set) == [path |-> path, rules |-> <<>>, set |-> set]
Scenario(set, inputs) == [set |-> set, inputs |-> inputs, convert |-> FALSE, fails |-> FALSE]

Scalars == {Nil, S("1"), S("x"), I(2)}
Small   == {S("1"), S("x"), I(1)}

Compared == Scenario(
    <<F(<<"a">>, <<R("required"), R("int"), [name |-> "min", n |-> 1]>>),
      F(<<"b">>, <<R("nullable"), R("int"), Other("same", <<"a">>),
                   [name |-> "only_if", path |-> <<"a">>, is |-> I(2),
                    then |-> [name |-> "max", n |-> 1]]>>),
      F(<<"c">>, <<R("required"), [name |-> "required_if", path |-> <<"b">>, is |-> I(1)],
                   Other("different", <<"a">>), R("bool")>>)>>,
    Objects({"a", "b", "c"}, Scalars))

Errs(names) == [NoErrors EXCEPT !.fields = [n \in names |-> [NoErrors EXCEPT !.errors = {"wrong"}]]]

Dates == Scenario(
    <<F(<<"from">>, <<R("required"), R("date"),
                      [name |-> "after_equal", date |-> <<"date", 6>>]>>),
      F(<<"to">>, <<R("date"),
                    [name |-> "after", path |-> <<"from">>]>>),
      F(<<"s">>, <<[name |-> "nested", path |-> <<"s">>, bag |-> Errs({"k", "l"})], R("trim"),
                   R("string"), [name |-> "in", of |-> "string", values |-> {S("y")}],
                   [name |-> "nested", path |-> <<"s">>, bag |-> Errs({"k"})]>>)>>,
    {O([k \in D \cup {"note"} |-> IF k = "s" THEN S(" x") ELSE IF k = "to" THEN to
                               ELSE IF k = "from" THEN from ELSE Nil]) :
        from \in {S("may"), S("june"), Nil}, to \in {S("may"), S("june"), S(" x"), Nil},
        D \in SUBSET {"from", "to", "s"}})

Listed == [Scenario(
    <<F(<<"items", "[]">>, <<R("int"), Other("lower_than_equal", <<"n">>)>>),
      F(<<"grid", "[]", "[]">>, <<R("required"), R("int")>>),
      F(<<"n">>, <<R("int")>>)>>,
    {O(f) : f \in UNION {[D -> Arrays(2, Small) \cup {S("1"), <<"array", <<S("2"), S("1")>>, "string">>}]
                           : D \in SUBSET {"items"}}}
     \cup {O([k \in {"grid"} |-> g]) : g \in Arrays(2, Arrays(1, Small) \cup {Nil})}
     \cup {O([k \in {"grid", "n", "items"} |-> IF k = "n" THEN n ELSE A(<<S("1")>>)]) : n \in Scalars})
    EXCEPT !.convert = TRUE]

Wild == Scenario(
    <<F(<<"o">>, <<R("required"), R("object"), [name |-> "keys_in", values |-> {"k"}]>>),
      F(<<"o", ".", "*">>, <<R("trim"), R("string")>>)>>,
    {O([k \in {"o", "z"} |-> IF k = "o" THEN v ELSE S(" x")]) :
        v \in Objects({"k", "l"}, {Nil, S(" x"), I(1), A(<<>>)}) \cup {Nil, S("{k:x}"), S("x")}})

Nested == [convert \in BOOLEAN |-> [Scenario(
    <<F(<<"list">>, <<R("array"), [name |-> "size", n |-> 2]>>),
      F(<<"list", "[]", ".", "x">>, <<R("required"), R("int")>>),
      F(<<"list", "[]", ".", "t", "[]">>, <<R("int")>>)>>,
    {O([k \in {"list"} |-> v]) :
        v \in Arrays(2, Objects({"x"}, Small) \cup Objects({"t", "x"}, {S("1"), A(<<S("1"), S("x")>>)}) \cup {Nil})})
    EXCEPT !.convert = convert]]

Part == <<F(<<"x">>, <<R("required"), R("int")>>),
          F(<<"y">>, <<R("int"), Other("same", <<"x">>)>>),
          F(<<"z", "[]">>, <<R("int"), Other("lower_than", <<"x">>)>>)>>

\* z is an array or a value alone.
Parts == {O([k \in D |-> IF k = "x" THEN v ELSE IF k = "y" THEN S("1") ELSE z]) :
            v \in Small \cup {S("2")}, z \in {A(<<S("1"), S("2")>>), S("1")}, D \in SUBSET {"x", "y", "z"}}

Composed == [Scenario(<<Under(<<"p">>, Part), Under(<<"q", "[]">>, Part)>>,
    {O([k \in {"p", "q"} |-> IF k = "p" THEN p ELSE A(<<q, p>>)]) : p \in Parts, q \in Parts}
    \cup {O([k \in {"p", "q"} |-> v]) : v \in Scalars})
    EXCEPT !.convert = TRUE]

SmallParts == {O([k \in {"x", "z"} |-> IF k = "x" THEN v ELSE S("1")]) : v \in Small} \cup {O([k \in {} |-> Nil])}

RootArray == Scenario(
    <<F(<<>>, <<R("required"), R("array")>>),
      F(<<"[]">>, <<R("int"), [name |-> "between", n |-> 1, m |-> 1]>>)>>,
    Arrays(2, Scalars) \cup {Nil, S("1")})

\* The elements of the root are Parts, with a rule of their own.
RootParts == [convert \in BOOLEAN |->
    [Scenario(<<Under(<<"[]">>, <<F(<<>>, <<R("required"), R("object")>>)>> \o Part)>>,
              Arrays(1, Parts \cup Scalars) \cup {A(<<p, q>>) : p \in SmallParts, q \in SmallParts})
     EXCEPT !.convert = convert]]

InDatabase == [Scenario(
    <<F(<<"a">>, <<R("required"), R("string"), R("unique")>>),
      F(<<"b">>, <<R("int"), R("exists"), [name |-> "not_in", of |-> "int", values |-> {I(2)}]>>),
      F(<<"d">>, <<R("int"), [name |-> "in_field", of |-> "int", path |-> <<"c">>],
                   [name |-> "not_in_field", of |-> "int", path |-> <<"c">>]>>),
      F(<<"c">>, <<R("array"), [name |-> "distinct", of |-> "int"], [name |-> "unique_array", of |-> "int"],
                   [name |-> "exists_array", of |-> "int"]>>),
      F(<<"c", "[]">>, <<R("int")>>)>>,
    {O([k \in D |-> IF k = "c" THEN A(<<v, S("2")>>) ELSE v]) : v \in Scalars, D \in SUBSET {"a", "b", "c", "d"}})
    EXCEPT !.fails = TRUE]

Files(n) == <<"files", [i \in 1..n |-> [size |-> i * 1024, extension |-> "png", mime |-> "image/png"]]>>

Formats == Scenario(
    <<F(<<"f">>, <<R("file"), [name |-> "min_file_count", n |-> 1], [name |-> "max", n |-> 1],
                   [name |-> "mime", values |-> {"image/png"}], [name |-> "extension", values |-> {"jpg"}]>>),
      F(<<"u">>, <<[name |-> "affix", affix |-> "slash", wanted |-> TRUE], R("url")>>),
      F(<<"z">>, <<R("alpha"), R("timezone")>>),
      F(<<"i">>, <<R("regex"), R("ipv4"), [name |-> "size", n |-> 16], Other("same", <<"m">>)>>),
      F(<<"m">>, <<R("email"), [name |-> "uuid", versions |-> {"u4"}]>>)>>,
    {O([k \in {"f"} |-> v]) : v \in {Files(0), Files(1), Files(2), S("x")}}
    \cup {O([k \in {"u", "z", "i", "m"} |-> S(v)]) :
             v \in {"/", "UTC", "u4", "u7", "::1", "1.2.3.4", "me <a@b>", "1"}})

Twice == Scenario(<<F(<<"a">>, <<R("int")>>), F(<<"a">>, <<R("string")>>)>>, {O([k \in {"a"} |-> S("1")])})

\* The array with elements to look up is a property of an object.
DeepDatabase == Scenario(
    <<F(<<"o", ".", "c">>, <<R("array"), [name |-> "unique_array", of |-> "int"]>>)>>,
    {O([k \in {"o"} |-> O([j \in {"c"} |-> A(s)])]) : s \in [1..2 -> {I(1), I(2)}]})

MCScenarios ==
    IF Plain THEN <<Compared, Dates, Listed, Wild, Nested[TRUE], Nested[FALSE], Composed,
                     RootArray, RootParts[TRUE], RootParts[FALSE], InDatabase, Formats, Twice>>
             ELSE <<DeepDatabase>>
=============================================================================

------------------------------ MODULE Validators ------------------------------
(***************************************************************************)
(* The rules a field can have (package validation): each looks at a value, *)
(* and type rules replace it. Check says what a rule makes of a context.   *)
(*                                                                         *)
(* Strings are model strings: what their text means to a parser or to a    *)
(* regular expression is given by the constants. Numbers are int, already  *)
(* converted: Numbers has the conversions.                                 *)
(***************************************************************************)
EXTENDS Walk

CONSTANTS
    Parsed,             \* by rule, the strings that parse, and as what value
    Accepted,           \* by rule, the strings that a regular expression or an affix accepts
    TrimOf,             \* strings with spaces around, and without them
    Length,             \* graphemes of a string
    Stored,             \* values the database has in the column of unique and exists
    Exact               \* beyond it a float64 does not represent every integer

IsString(v) == v[1] = "string"
IsInt(v)    == v[1] = "int"
IsDate(v)   == v[1] = "date"
IsFiles(v)  == v[1] = "files"     \* []fsutil.File: each [size, extension, mime]

Pass(ctx)       == [ok |-> TRUE, value |-> ctx.value, failed |-> FALSE, elements |-> {}, merge |-> <<>>]
Becomes(ctx, v) == [Pass(ctx) EXCEPT !.value = v]
Judge(ctx, b)   == [Pass(ctx) EXCEPT !.ok = b]
Reject(ctx)     == Judge(ctx, FALSE)
OperationError(ctx) == [Reject(ctx) EXCEPT !.failed = TRUE]

-----------------------------------------------------------------------------
(* Types. *)

\* The value has the type already, or is a string that parses.
Parses(rule, type, ctx) ==
    IF IsString(ctx.value) /\ type # "string"
    THEN IF ctx.value[2] \in DOMAIN Parsed[rule] THEN Becomes(ctx, Parsed[rule][ctx.value[2]])
                                                 ELSE Reject(ctx)
    ELSE Judge(ctx, ctx.value[1] = type)

String(ctx)   == Judge(ctx, IsString(ctx.value))
Integer(ctx)  == Parses("int", "int", ctx)
Date(ctx)     == Parses("date", "date", ctx)
URL(ctx)      == Parses("url", "url", ctx)
Timezone(ctx) == Parses("timezone", "location", ctx)

UUID(rule, ctx) ==
    LET res == Parses("uuid", "uuid", ctx)
    IN  IF res.ok /\ rule.versions # {} /\ res.value[2] \notin rule.versions THEN Reject(ctx) ELSE res

IP(rule, ctx) ==
    LET res == Parses("ip", "ip", ctx)
    IN  [res EXCEPT !.ok = @ /\ (rule.name = "ip" \/ res.value[2] = rule.name)]

\* The text of an address parses to the address alone, a string again.
Email(ctx) == IF IsString(ctx.value) /\ ctx.value[2] \in DOMAIN Parsed["email"]
              THEN Becomes(ctx, Parsed["email"][ctx.value[2]]) ELSE Reject(ctx)

Object(ctx) == Parses("object", "object", ctx)

TrueStrings  == {"1", "on", "true", "yes"}
FalseStrings == {"0", "off", "false", "no"}

Bool(ctx) ==
    LET v == ctx.value
    IN  CASE IsString(v) -> IF v[2] \in TrueStrings \cup FalseStrings
                            THEN Becomes(ctx, <<"bool", v[2] \in TrueStrings>>) ELSE Reject(ctx)
          [] IsInt(v) -> Becomes(ctx, <<"bool", v[2] # 0>>)
          [] ~IsString(v) /\ ~IsInt(v) -> Judge(ctx, v[1] = "bool")

TypeName(v) == IF IsArray(v) THEN "[]" \o v[3] ELSE v[1]

\* Mutant: the first element's type is enough.
ConvertArrayByFirst(v) ==
    IF v[3] = "any" /\ v[2] # <<>> /\ v[2][1] # Nil THEN <<"array", v[2], TypeName(v[2][1])>> ELSE v

\* A generic slice becomes one of its elements' type when they share one.
ConvertArray(v) ==
    LET types == {TypeName(x) : x \in ToSet(v[2])}
    IN  IF v[3] = "any" /\ Cardinality(types) = 1 /\ types # {"nil"}
        THEN <<"array", v[2], TypeName(v[2][1])>> ELSE v

Array(ctx) == IF IsArray(ctx.value) THEN Becomes(ctx, ConvertArray(ctx.value)) ELSE Reject(ctx)

-----------------------------------------------------------------------------
(* Text. *)

Regex(rule, ctx) == Judge(ctx, IsString(ctx.value) /\ ctx.value[2] \in Accepted[rule.name])

\* starts_with and ends_with accept, doesnt_start_with and doesnt_end_with refuse.
Affix(rule, ctx) ==
    Judge(ctx, IsString(ctx.value) /\ (ctx.value[2] \in Accepted[rule.affix]) = rule.wanted)

Trim(ctx) == IF IsString(ctx.value) /\ ctx.value[2] \in DOMAIN TrimOf
             THEN Becomes(ctx, <<"string", TrimOf[ctx.value[2]]>>) ELSE Pass(ctx)

-----------------------------------------------------------------------------
(* Sizes: a rule passes what has none, and must hold of each file.           *)

KiB(size) == (size + 1023) \div 1024
Sizes(v) ==
    CASE IsString(v) -> {Length[v[2]]}
      [] IsArray(v)  -> {Len(v[2])}
      [] IsObject(v) -> {Cardinality(DOMAIN v[2])}
      [] IsFiles(v)  -> {KiB(file.size) : file \in ToSet(v[2])}
      [] v[1] = "ip" -> {16}      \* net.IP is a slice of bytes
      [] v[1] \notin {"string", "array", "object", "files", "ip"} -> {}

\* numberAsFloat64 of an int: beyond Exact, odd numbers are taken for even ones.
Float(n) == IF n > Exact /\ n % 2 = 1 THEN n - 1 ELSE n
Measures(v) == IF IsInt(v) THEN {Float(v[2])} ELSE Sizes(v)

AtLeast(rule, ctx) == Judge(ctx, \A n \in Measures(ctx.value) : n >= rule.n)
AtMost(rule, ctx)  == Judge(ctx, \A n \in Measures(ctx.value) : n <= rule.n)
Between(rule, ctx) == Judge(ctx, \A n \in Measures(ctx.value) : rule.n <= n /\ n <= rule.m)
Size(rule, ctx)    == Judge(ctx, \A n \in Sizes(ctx.value) : n = rule.n)

-----------------------------------------------------------------------------
(* Files. *)

CountFits(rule, count) ==
    CASE rule.name = "file_count" -> count = rule.n
      [] rule.name = "min_file_count" -> count >= rule.n
      [] rule.name = "max_file_count" -> count <= rule.n
      [] rule.name = "file_count_between" -> rule.n <= count /\ count <= rule.m

File(rule, ctx) ==
    Judge(ctx, IsFiles(ctx.value) /\ (rule.name = "file" \/ CountFits(rule, Len(ctx.value[2]))))

MIME(rule, ctx) ==
    Judge(ctx, IsFiles(ctx.value) /\ \A file \in ToSet(ctx.value[2]) : file.mime \in rule.values)
Extension(rule, ctx) ==
    Judge(ctx, IsFiles(ctx.value) /\ \A file \in ToSet(ctx.value[2]) : file.extension \in rule.values)

-----------------------------------------------------------------------------
(* Comparisons with every element another path leads to. An empty array on   *)
(* the way is no reason to fail; anything else that is missing is.           *)

Missing == <<"missing">>

Others(rule, ctx) ==
    {IF c.found = "found" THEN c.value ELSE Missing :
        c \in {d \in ToSet(WalkPath(Parse(rule.path), ctx.data, ctx.order)) :
                 ~(InArray(d.path) /\ d.found = "element not found")}}

\* Equality never mixes types; files are looked up but not compared.
FieldType(v) ==
    CASE v[1] \in {"string", "int", "bool", "array", "object"} -> v[1]
      [] v[1] = "files" -> "file"
      [] v[1] = "ip" -> "array"
      [] v[1] \notin {"string", "int", "bool", "array", "object", "files", "ip"} -> "unsupported"

Same(rule, ctx) ==
    Judge(ctx, /\ FieldType(ctx.value) # "unsupported"
               /\ \A w \in Others(rule, ctx) :
                    w # Missing /\ (FieldType(ctx.value) = "file" \/ w = ctx.value))

Different(rule, ctx) ==
    Judge(ctx, \/ FieldType(ctx.value) = "unsupported"
               \/ \A w \in Others(rule, ctx) :
                    w # Missing /\ (FieldType(ctx.value) = "file" \/ w # ctx.value))

Ordered(op, x, y) ==
    CASE op = "greater_than" -> x > y
      [] op = "greater_than_equal" -> x >= y
      [] op = "lower_than" -> x < y
      [] op = "lower_than_equal" -> x <= y

Comparison(rule, ctx) ==
    Judge(ctx, \A w \in Others(rule, ctx) : w # Missing /\
        \A m \in Measures(ctx.value), n \in Measures(w) : Ordered(rule.name, m, n))

After(op, x, y)  == op \in {"after", "after_equal"} /\ (x > y \/ (op = "after_equal" /\ x = y))
Before(op, x, y) == op \in {"before", "before_equal"} /\ (x < y \/ (op = "before_equal" /\ x = y))
DateOrder(op, x, y) == After(op, x, y) \/ Before(op, x, y) \/ (op = "date_equals" /\ x = y)

\* With a date of the rule, or with all the dates at a path.
DateComparison(rule, ctx) ==
    LET dates == IF "path" \in DOMAIN rule THEN Others(rule, ctx) ELSE {rule.date}
    IN  Judge(ctx, IsDate(ctx.value) /\ \A w \in dates :
            IsDate(w) /\ DateOrder(rule.name, ctx.value[2], w[2]))

-----------------------------------------------------------------------------
(* Membership, among values of one type. A generic slice is of no type,      *)
(* except that an empty one has distinct elements.                           *)

InField(rule, ctx) ==
    \E c \in ToSet(WalkPath(Parse(rule.path), ctx.data, ctx.order)) :
        /\ c.found = "found" /\ IsArray(c.value) /\ c.value[3] = rule.of
        /\ ctx.value \in ToSet(c.value[2])

Member(rule, ctx) ==
    Judge(ctx, /\ ctx.value[1] = rule.of
               /\ CASE rule.name = "in" -> ctx.value \in rule.values
                    [] rule.name = "not_in" -> ctx.value \notin rule.values
                    [] rule.name = "in_field" -> InField(rule, ctx)
                    [] rule.name = "not_in_field" -> ~InField(rule, ctx))

Distinct(rule, ctx) ==
    LET v == ctx.value
    IN  Judge(ctx, IsArray(v) /\ \/ v[2] = <<>> /\ v[3] = "any"
                                 \/ v[3] = rule.of /\ IsInjective(v[2]))

KeysIn(rule, ctx) == Judge(ctx, IsObject(ctx.value) /\ DOMAIN ctx.value[2] \subseteq rule.values)

-----------------------------------------------------------------------------
(* The database rules; ctx.dbFails: the query returns an error. A rule before *)
(* that failed makes unique pass, and so exists, its negation, fail.          *)

Unique(ctx) ==
    IF ctx.invalid THEN Pass(ctx)
    ELSE IF ctx.dbFails THEN OperationError(ctx) ELSE Judge(ctx, ctx.value \notin Stored)

Exists(ctx) == [Unique(ctx) EXCEPT !.ok = ~@]

UniqueOrExistsArray(rule, ctx) ==
    LET looksUp == ~ctx.invalid /\ IsArray(ctx.value) /\ ctx.value[3] = rule.of
        wrong == {i \in DOMAIN ctx.value[2] : (ctx.value[2][i] \in Stored) = (rule.name = "unique_array")}
    IN  IF ~looksUp THEN Pass(ctx)
        ELSE IF ctx.dbFails THEN OperationError(ctx)
        ELSE [Pass(ctx) EXCEPT !.elements = {i - 1 : i \in wrong}]

-----------------------------------------------------------------------------
(* Presence, conditions and the rules that wrap others. The conditions used   *)
(* here are about the value at a path.                                        *)

Holds(rule, ctx) == First(Parse(rule.path), ctx.data, ctx.order).value = rule.is

Required(ctx) == Judge(ctx, ctx.nullable \/ ctx.value # Nil)
RequiredIf(rule, ctx) == IF Holds(rule, ctx) THEN Required(ctx) ELSE Pass(ctx)

\* A nested rule adds the errors of a validation of its own at a path.
RECURSIVE Check(_, _)
Check(rule, ctx) ==
    CASE rule.name = "required" -> Required(ctx)
      [] rule.name = "required_if" -> RequiredIf(rule, ctx)
      [] rule.name = "only_if" -> IF Holds(rule, ctx) THEN Check(rule.then, ctx) ELSE Pass(ctx)
      [] rule.name = "nested" -> [Pass(ctx) EXCEPT !.merge = <<rule.path, rule.bag>>]
      [] rule.name = "string" -> String(ctx)
      [] rule.name = "int" -> Integer(ctx)
      [] rule.name = "bool" -> Bool(ctx)
      [] rule.name = "array" -> Array(ctx)
      [] rule.name = "object" -> Object(ctx)
      [] rule.name = "date" -> Date(ctx)
      [] rule.name = "url" -> URL(ctx)
      [] rule.name = "timezone" -> Timezone(ctx)
      [] rule.name = "uuid" -> UUID(rule, ctx)
      [] rule.name \in {"ip", "ipv4", "ipv6"} -> IP(rule, ctx)
      [] rule.name = "email" -> Email(ctx)
      [] rule.name \in {"regex", "digits", "alpha"} -> Regex(rule, ctx)
      [] rule.name = "affix" -> Affix(rule, ctx)
      [] rule.name = "trim" -> Trim(ctx)
      [] rule.name = "min" -> AtLeast(rule, ctx)
      [] rule.name = "max" -> AtMost(rule, ctx)
      [] rule.name = "between" -> Between(rule, ctx)
      [] rule.name = "size" -> Size(rule, ctx)
      [] rule.name \in {"file", "file_count", "min_file_count", "max_file_count",
                        "file_count_between"} -> File(rule, ctx)
      [] rule.name = "mime" -> MIME(rule, ctx)
      [] rule.name = "extension" -> Extension(rule, ctx)
      [] rule.name = "same" -> Same(rule, ctx)
      [] rule.name = "different" -> Different(rule, ctx)
      [] rule.name \in {"greater_than", "greater_than_equal", "lower_than", "lower_than_equal"} ->
           Comparison(rule, ctx)
      [] rule.name \in {"after", "after_equal", "before", "before_equal", "date_equals"} ->
           DateComparison(rule, ctx)
      [] rule.name \in {"in", "not_in", "in_field", "not_in_field"} -> Member(rule, ctx)
      [] rule.name = "distinct" -> Distinct(rule, ctx)
      [] rule.name = "keys_in" -> KeysIn(rule, ctx)
      [] rule.name = "unique" -> Unique(ctx)
      [] rule.name = "exists" -> Exists(ctx)
      [] rule.name \in {"exists_array", "unique_array"} -> UniqueOrExistsArray(rule, ctx)

TypeRules == {"string", "int", "bool", "array", "object", "date"}
=============================================================================

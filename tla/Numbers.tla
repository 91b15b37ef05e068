------------------------------- MODULE Numbers -------------------------------
(***************************************************************************)
(* The numeric rules (validation/int.go, float.go): a list of them applied *)
(* to one value, each converting it when it fits the type of the rule.     *)
(*                                                                         *)
(* A value is [type, n], n in halves so that fractions exist. The widths   *)
(* are scaled: what matters is which bound is above which. A float is a    *)
(* multiple of a power of two of at most 2^Mantissa of them, up to its     *)
(* largest number. NaN and infinities are not JSON and not modelled.       *)
(***************************************************************************)
EXTENDS Integers

CONSTANTS
    Width,              \* bits of each integer type
    Unsigned,           \* the integer types without a sign
    IntSize,            \* strconv.IntSize
    Mantissa,           \* bits of each float type that are exact
    Largest,            \* the largest number of each float type, in halves
    Numerals            \* the numbers a request may hold, in halves

Ints   == DOMAIN Width
Floats == DOMAIN Mantissa

ASSUME WidthsAssumption ==
    /\ IntSize \in Nat \ {0}
    /\ Width \in [Ints -> 1..IntSize]
    /\ Unsigned \subseteq Ints
ASSUME TypesAssumption == Floats = {"float32", "float64"} /\ Ints \cap (Floats \cup {"string"}) = {}
ASSUME NumeralsAssumption == Numerals \subseteq Int

VARIABLES
    value,              \* ctx.Value
    rule,               \* the rule applied last, a type
    ok                  \* what it answered

numbersVars == <<value, rule, ok>>

Abs(n) == IF n < 0 THEN -n ELSE n
IsWhole(n) == n % 2 = 0

\* Of two.
Power[k \in Nat] == IF k = 0 THEN 1 ELSE 2 * Power[k - 1]

-----------------------------------------------------------------------------
(* Integers. *)

\* Mutant: the bit of the sign is forgotten.
MaxOfSigned(t) == ((Power[Width[t]] % Power[IntSize]) - 1) % Power[IntSize]

\* Go's unsigned words: 1<<64 is 0, and 0-1 the largest of them.
MaxOf(t) ==
    LET bitSize == IF t \in Unsigned THEN Width[t] ELSE Width[t] - 1
    IN  ((Power[bitSize] % Power[IntSize]) - 1) % Power[IntSize]

MinOf(t) == IF t \in Unsigned THEN 0 ELSE -(Power[Width[t] - 1])

Values(t) == (IF t \in Unsigned THEN 0 ELSE -(Power[Width[t] - 1]))
               ..(IF t \in Unsigned THEN Power[Width[t]] - 1 ELSE Power[Width[t] - 1] - 1)

\* T(val) for a float val: towards zero, or anything at all when that is no T.
Truncated(n) == IF n < 0 THEN -(Abs(n) \div 2) ELSE n \div 2
Converted(t, n) == IF Truncated(n) \in Values(t) THEN {Truncated(n)} ELSE Values(t)

\* checkFloat32Range and checkFloat64Range; at most one conversion is equal to n.
FromFloat(t, f, n) ==
    IF Abs(n) > 2 * Power[Mantissa[f]] THEN {}
    ELSE {i \in Converted(t, n) :
            /\ ~(t \in Unsigned /\ n < 0)
            /\ 2 * i = n
            /\ n < 0 => Truncated(n) >= MinOf(t)
            /\ n > 0 => Truncated(n) <= MaxOf(t)}

\* checkIntRange, checkUintRange.
FromInt(t, i) == IF MinOf(t) <= i /\ i <= MaxOf(t) THEN {i} ELSE {}

\* parseString: strconv refuses what is not an integer of that size.
FromText(t, n) == IF IsWhole(n) /\ n \div 2 \in Values(t) THEN {n \div 2} ELSE {}

IntRule(t, v) ==
    CASE v.type = t -> {v.n \div 2}
      [] v.type \in Floats -> FromFloat(t, v.type, v.n)
      [] v.type = "string" -> FromText(t, v.n)
      [] v.type \in Ints \ {t} -> FromInt(t, v.n \div 2)

-----------------------------------------------------------------------------
(* Floats. *)

\* The power of two of which a type has the multiples around a number.
Exponent(f, n) ==
    CHOOSE e \in 0..Abs(n) : /\ Abs(n) <= Power[Mantissa[f] + e]
                             /\ e = 0 \/ Abs(n) > Power[Mantissa[f] + e - 1]

\* The nearest number of the type, the even one of two.
Round(f, n) ==
    LET step == Power[Exponent(f, n)]
        q == Abs(n) \div step
        r == Abs(n) % step
        up == IF 2 * r > step \/ (2 * r = step /\ q % 2 = 1) THEN q + 1 ELSE q
    IN  IF n < 0 THEN -(up * step) ELSE up * step

\* The narrower type has no number that the wider one has not; both have every integer of
\* their mantissa, and their largest number is a number of theirs.
ASSUME FloatsAssumption ==
    /\ Mantissa \in [Floats -> Nat] /\ Mantissa["float32"] <= Mantissa["float64"]
    /\ Largest \in [Floats -> Nat] /\ Largest["float32"] <= Largest["float64"]
    /\ \A f \in Floats : 2 * Power[Mantissa[f]] <= Largest[f] /\ Round(f, Largest[f]) = Largest[f]

\* checkFloatRange.
FromFloat64(f, n) == IF Abs(n) <= Largest[f] THEN {Round(f, n)} ELSE {}

\* checkIntRange and checkUintRange of floatValidator.
FloatFromInt(f, i) == IF Abs(i) <= Power[Mantissa[f]] THEN {Round(f, 2 * i)} ELSE {}

FloatRule(f, v) ==
    CASE v.type = f \/ v.type = "float32" -> {v.n}
      [] v.type = "float64" /\ f = "float32" -> FromFloat64(f, v.n)
      [] v.type = "string" -> FromFloat64(f, Round(f, v.n))
      [] v.type \in Ints -> FloatFromInt(f, v.n \div 2)

-----------------------------------------------------------------------------

\* The numbers, as texts and in each type that has them.
Received ==
    LET floats(f) == {m \in Numerals : Abs(m) <= Largest[f] /\ Round(f, m) = m}
        ints(t)   == {m \in Numerals : IsWhole(m) /\ m \div 2 \in Values(t)}
    IN  {[type |-> "string", n |-> n] : n \in Numerals}
        \cup (UNION {{[type |-> f, n |-> n] : n \in floats(f)} : f \in Floats})
        \cup (UNION {{[type |-> t, n |-> n] : n \in ints(t)} : t \in Ints})

NumbersInit == /\ value \in Received
        /\ rule = ""
        /\ ok = TRUE

\* The validator of one type. A value that is refused stays what it was, and the
\* rules after it are applied to it all the same.
ValidateNumber(t) ==
    LET results == IF t \in Ints THEN {2 * i : i \in IntRule(t, value)} ELSE FloatRule(t, value)
    IN  /\ rule' = t
        /\ \/ results = {} /\ ok' = FALSE /\ UNCHANGED value
           \/ \E n \in results : ok' = TRUE /\ value' = [type |-> t, n |-> n]

NumbersNext == \E t \in Ints \cup Floats : ValidateNumber(t)
NumbersSpec == NumbersInit /\ [][NumbersNext]_numbersVars

-----------------------------------------------------------------------------

\* Whether a type can take a value, without any of Go's arithmetic: integers in range;
\* a float as an integer, and an integer as a float, only up to where every integer is
\* a float; a float as a narrower float up to the largest.
Takes(t, v) ==
    \/ v.type = t
    \/ /\ t \in Ints /\ IsWhole(v.n) /\ v.n \div 2 \in Values(t)
       /\ v.type \in Floats => Abs(v.n) <= 2 * Power[Mantissa[v.type]]
    \/ /\ t \in Floats
       /\ v.type \in Ints => Abs(v.n) <= 2 * Power[Mantissa[t]]
       /\ v.type \in Floats => Abs(v.n) <= Largest[t]
       /\ v.type = "string" => Abs(Round(t, v.n)) <= Largest[t]

\* However often a number is converted, by rules that accept and rules that refuse it:
\* a rule accepts what its type can take and nothing else, and no number changes but
\* for the rounding of a float64 or of a text to a float ("without loss or rounding",
\* float.go:178).
ExactStep ==
    /\ ok' <=> Takes(rule', value)
    /\ value'.n # value.n =>
         /\ rule' \in Floats /\ value.type \in {"float64", "string"}
         /\ value'.n = Round(rule', value.n)

NumberExact == [][ExactStep]_numbersVars
=============================================================================

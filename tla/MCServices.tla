------------------------------ MODULE MCServices ------------------------------
(***************************************************************************)
(* The services a handler uses, each model-checked by itself: they share   *)
(* no state, so that nothing is lost by taking them one at a time. part    *)
(* says which; the others stay as they start.                              *)
(***************************************************************************)
EXTENDS Config, Writers, Timeouts, Paginator, Numbers

VARIABLE part

-----------------------------------------------------------------------------
(* Numbers: int8 to int64 are scaled to 3, 5 and 8 bits, the mantissas to 3 and 6. *)

MCWidth    == [int8 |-> 3, int32 |-> 5, int |-> 8, uint8 |-> 3, uint32 |-> 5, uint |-> 8]
MCMantissa == [float32 |-> 3, float64 |-> 6]
MCLargest  == [float32 |-> 1024, float64 |-> 2048]
MCUnsigned == {"uint8", "uint32", "uint"}

\* The numbers next to a power of two, in halves.
MCNumerals == UNION {{s * (2 * 2^k) + d : d \in -2..2, s \in {-1, 1}} : k \in 0..9} \cup {0}

-----------------------------------------------------------------------------
(* Config: a required string, an int, an entry with authorized values and two slices. *)

Str(x) == <<"string", x>>
Whole(i) == <<"int", i>>
Float(halves) == <<"float", halves>>
Slice(kind, elements) == <<"slice", kind, elements>>
Simple(v, type) == [value |-> v, type |-> type, slice |-> FALSE, authorized |-> {}, required |-> FALSE]

MCRegistered ==
    [p \in {<<"app", "name">>, <<"app", "port">>, <<"app", "proto">>, <<"app", "list">>,
            <<"app", "rates">>} |->
        CASE p[2] = "name"  -> [Simple(Str("x"), "string") EXCEPT !.required = TRUE]
          [] p[2] = "port"  -> [Simple(Whole(1), "int") EXCEPT !.required = TRUE]
          [] p[2] = "proto" -> [Simple(Str("x"), "string") EXCEPT !.authorized = {Str("x"), Str("y")}]
          [] p[2] = "list"  -> [Simple(<<"nil">>, "int") EXCEPT !.slice = TRUE,
                                                               !.authorized = {Whole(1), Whole(2)}]
          [] p[2] = "rates" -> [Simple(Slice("float", <<>>), "float") EXCEPT !.slice = TRUE,
                                                               !.authorized = {Float(3)}]]

MCRegistrations ==
    {[key |-> <<"app", "name">>, entry |-> MCRegistered[<<"app", "name">>]],
     [key |-> <<"auth", "on">>, entry |-> Simple(<<"bool", TRUE>>, "bool")]}
    \cup {[key |-> k, entry |-> Simple(Str("y"), "string")] :
            k \in {<<"app">>, <<"app", "name">>, <<"app", "name", "x">>}}

File(leaf, v) == [p \in {<<"app">>, <<"app", leaf>>} |-> IF p = <<"app">> THEN <<"category">> ELSE v]
\* JSON has no integers.
MCFiles ==
    {<<>>, [p \in {<<"app">>, <<"new">>} |-> IF p = <<"app">> THEN Str("x") ELSE <<"nil">>], [p \in {<<"app">>} |-> Str("x")], [p \in {<<"auth">>} |-> <<"category">>]}
    \cup {File("name", v) : v \in {Str("y"), Float(2), <<"nil">>, <<"category">>, <<"env", "V">>}}
    \cup {File("port", v) : v \in {Float(4), Float(3), <<"env", "P">>, <<"env", "V">>}}
    \cup {File("proto", v) : v \in {Str("y"), Str("z")}}
    \cup {File("list", v) : v \in {Slice("interface", <<>>), Slice("interface", <<Float(2)>>), Float(2)}}
    \cup {File("rates", v) : v \in {Slice("interface", <<Float(3)>>), Float(3)}}
    \cup {File("new", v) : v \in {<<"nil">>, Float(3)}}

MCSettings ==
    {[key |-> <<"app", "port">>, value |-> v] : v \in {<<"nil">>, Whole(3), Float(2), Str("x"), <<"env", "P">>}}
    \cup {[key |-> <<"app", "list">>, value |-> v] :
            v \in {<<"nil">>, Whole(1), Slice("int", <<Whole(1)>>), Slice("int", <<Whole(3)>>)}}
    \cup {[key |-> <<"new", "deep">>, value |-> v] : v \in {<<"nil">>, Float(3), Str("x")}}
    \cup {[key |-> k, value |-> Whole(1)] : k \in {<<"app">>, <<"app", "name", "x">>}}

MCEnvironment == [v \in {"V", "P"} |-> IF v = "V" THEN [string |-> "x"]
                                     ELSE [string |-> "1", int |-> 1, float |-> 2, bool |-> TRUE]]

-----------------------------------------------------------------------------
(* Writers: gzip stands for the encoders that can be reset and can flush, lzw cannot. *)

Accept(v, q) == [value |-> v, q |-> q]
MCEncoders == <<"gzip", "lzw">>
MCChunks == <<"a", "b", "c", "d">>

MCRequests ==
    {[accept |-> a, upgrade |-> FALSE] :
        a \in {{}, {Accept("gzip", "")}, {Accept("lzw", "")}, {Accept("*", "q=0.5"), Accept("br", "")},
               {Accept("lzw", "q=0.5"), Accept("gzip", "q=1")}, {Accept("gzip", ""), Accept("lzw", "")}}}
    \cup {[accept |-> {Accept("gzip", "")}, upgrade |-> TRUE]}

MCOrders == {<<>>, <<"log">>, <<"compress">>, <<"log", "compress">>, <<"compress", "log">>,
           <<"log", "compress", "log">>, <<"compress", "compress">>}

-----------------------------------------------------------------------------
(* Paginator: pages before the first and after the last. *)

MCPages == -1..10

-----------------------------------------------------------------------------
(* One service at a time. *)

NumbersRest   == NumbersInit /\ value = [type |-> "string", n |-> 0]
WritersRest   == WritersInit /\ request.accept = {} /\ todo = <<>>
TimeoutsRest  == TimeoutsInit /\ enabled = {} /\ ~deadline
PaginatorRest == PaginatorInit /\ rows = <<>> /\ page = 1 /\ size = 1

Init ==
    /\ ConfigInit
    /\ \/ part = "numbers"   /\ NumbersInit /\ WritersRest /\ TimeoutsRest /\ PaginatorRest
       \/ part = "config"    /\ NumbersRest /\ WritersRest /\ TimeoutsRest /\ PaginatorRest
       \/ part = "writers"   /\ NumbersRest /\ WritersInit /\ TimeoutsRest /\ PaginatorRest
       \/ part = "timeouts"  /\ NumbersRest /\ WritersRest /\ TimeoutsInit /\ PaginatorRest
       \/ part = "paginator" /\ NumbersRest /\ WritersRest /\ TimeoutsRest /\ PaginatorInit

Next ==
    /\ UNCHANGED part
    /\ \/ /\ part = "numbers" /\ NumbersNext
          /\ UNCHANGED <<configVars, writersVars, timeoutsVars, paginatorVars>>
       \/ /\ part = "config" /\ ConfigNext
          /\ UNCHANGED <<numbersVars, writersVars, timeoutsVars, paginatorVars>>
       \/ /\ part = "writers" /\ WritersNext
          /\ UNCHANGED <<numbersVars, configVars, timeoutsVars, paginatorVars>>
       \/ /\ part = "timeouts" /\ TimeoutsNext
          /\ UNCHANGED <<numbersVars, configVars, writersVars, paginatorVars>>
       \/ /\ part = "paginator" /\ PaginatorNext
          /\ UNCHANGED <<numbersVars, configVars, writersVars, timeoutsVars>>

vars == <<part, numbersVars, configVars, writersVars, timeoutsVars, paginatorVars>>
Spec == Init /\ [][Next]_vars
=============================================================================

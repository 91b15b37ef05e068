------------------------------ MODULE MCRouting ------------------------------
(* Model checking of Routing: trees of a root and two subrouters with two     *)
(* routes, registrations in any order, one request to each tree.              *)
EXTENDS Routing

CONSTANT AllOptions     \* whether CORS options are set

MCPrefixes == {<<"/">>, <<"/", "a">>, <<"/", "{p}">>}
MCURIs     == {<<"/">>, <<"/", "x">>, <<"/", "{q}", "{f:.*}">>}

MCOptions ==
    IF ~AllOptions THEN {}
    ELSE {[origins |-> <<"app">>, headers |-> "", passthrough |-> FALSE],
          [origins |-> <<"*">>, headers |-> "listed", passthrough |-> TRUE]}

MCRequests ==
    [method : {"GET"}, origin : {"app"}, asks : {""},
     path : {<<"/">>, <<"/", "x">>, <<"/", "a", "/">>, <<"/", "a", "/", "x">>,
             <<"/", "b", "/", "x">>, <<"/", "a", "/", "a", "/", "x">>}]
    \cup IF AllOptions
         THEN [method : {"OPTIONS"}, path : {<<"/", "x">>}, origin : Origins, asks : {"", "PUT"}]
         ELSE {}
=============================================================================

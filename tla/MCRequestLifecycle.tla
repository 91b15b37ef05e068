------------------------- MODULE MCRequestLifecycle -------------------------
(* Model checking of RequestLifecycle: a request with a busy handler, and one *)
(* that takes the objects the first one used.                                 *)
EXTENDS RequestLifecycle, TLC

CONSTANTS r1, r2

Calls      == r1 :> 2 @@ r2 :> 0
CallsOfOne == r1 :> 2

Symmetry == Permutations(Objects)
=============================================================================

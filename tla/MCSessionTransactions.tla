------------------------ MODULE MCSessionTransactions ------------------------
(* Model checking of SessionTransactions: few database contents, functions   *)
(* and addresses.                                                            *)
EXTENDS SessionTransactions, TLC

Symmetry == Permutations(Funs) \cup Permutations(Values)
=============================================================================

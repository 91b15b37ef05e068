-------------------------- MODULE MCServerLifecycle --------------------------
(* Model checking of ServerLifecycle: finite sets of threads and requests.  *)
EXTENDS ServerLifecycle, TLC

\* Nothing distinguishes two Start() calls, two Stop() calls or two requests.
Symmetry == Permutations(Starters) \cup Permutations(Stoppers) \cup Permutations(Requests)
=============================================================================

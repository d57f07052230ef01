------------------------------ MODULE MCCalls ------------------------------
(* Calls with two coroutines and low limits. *)
EXTENDS Calls

CONSTANTS main, a, b

Symmetry == Permutations({a, b})

=============================================================================

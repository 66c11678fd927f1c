---------------------------- MODULE MCRequestQueue ----------------------------
(* Model values and symmetry for checking RequestQueue with TLC. *)
EXTENDS RequestQueue, TLC

CONSTANTS k1, k2

TwoKeys == {k1, k2}
OneKey == {k1}
Symmetry == Permutations(TwoKeys)
===============================================================================

---------------------------- MODULE MCEddsaOnline ----------------------------
(* Small instances of EddsaOnline for TLC.                                  *)
EXTENDS EddsaOnline, TLC

CONSTANTS p1, p2, m1, m2, w1, w2

Symmetry == Permutations(Players) \cup Permutations(Workers)
              \cup Permutations(Messages)
=============================================================================

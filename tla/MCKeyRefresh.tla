----------------------------- MODULE MCKeyRefresh -----------------------------
(* Small instances of KeyRefresh for TLC.                                   *)
EXTENDS KeyRefresh, TLC

CONSTANTS p1, p2, r1, r2, t1, t2, w1, w2

Symmetry == Permutations(Players) \cup Permutations(Requests)
              \cup Permutations(Txs) \cup Permutations(Workers)
=============================================================================

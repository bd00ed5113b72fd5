------------------------------ MODULE MCRefresh ------------------------------
(***************************************************************************)
(* A small instance of KeyRefresh whose host keeps refreshes and           *)
(* signatures apart and whose every handler may stop.  What goes wrong     *)
(* with one that signs whenever it likes is checked in MCKeyRefresh.       *)
(***************************************************************************)
EXTENDS KeyRefresh, TLC

CONSTANTS p1, p2, r1, r2, t1, t2, w1, w2

Symmetry == Permutations(Players) \cup Permutations(Requests)
              \cup Permutations(Txs) \cup Permutations(Workers)
=============================================================================

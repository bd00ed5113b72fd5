------------------------- MODULE MCOfflinePresigning -------------------------
(* Small instances of OfflinePresigning for TLC.                            *)
EXTENDS OfflinePresigning, TLC

CONSTANTS p1, p2, r1, r2, t1, t2, w1, w2

Symmetry == Permutations(Players) \cup Permutations(Workers)

AtZero == [r \in Requests |-> 0]
OneBlock == [r \in Requests |-> 1]
TwoBlocks == [r \in Requests |-> 2]
OneMessage == [t \in Txs |-> 1]
TwoThenOne == [t \in Txs |-> IF t = t1 THEN 2 ELSE 1]

\* At most one player has two threads in handlers.
OneThread(p) == \A v, w \in Workers :
  v = w \/ call[p][v].op = "idle" \/ call[p][w].op = "idle"
Threaded == \E p \in Players : \A q \in Players \ {p} : OneThread(q)
StoreSpec == Init /\ [][Next /\ ~AbandonedStore /\ Threaded']_vars
=============================================================================

-------------------------- MODULE PresignaturePool --------------------------
(***************************************************************************)
(* What the preprocessing_persistency promises its users about the         *)
(* presignatures of a key: each player holds a pool of them, storing may   *)
(* replace others, consuming takes one out, and one that was consumed is   *)
(* never in the pool again.                                                *)
(***************************************************************************)
CONSTANTS Players, Presigs

VARIABLES pool, spent   \* per player, sets of presignatures

vars == <<pool, spent>>

Init == /\ pool = [p \in Players |-> {}]
        /\ spent = [p \in Players |-> {}]

\* store_preprocessed_data: n enters, what its slot held is lost.
Publish(p, n) ==
  /\ n \notin spent[p]
  /\ \E lost \in SUBSET pool[p] :
       pool' = [pool EXCEPT ![p] = (@ \ lost) \cup {n}]
  /\ UNCHANGED spent

\* load_preprocessed_data: reading and deleting are one step.
Spend(p, n) ==
  /\ n \in pool[p]
  /\ pool' = [pool EXCEPT ![p] = @ \ {n}]
  /\ spent' = [spent EXCEPT ![p] = @ \cup {n}]

Next == \E p \in Players, n \in Presigs : Publish(p, n) \/ Spend(p, n)

Spec == Init /\ [][Next]_vars

\* Nothing spent is on offer.
SpentIsGone == \A p \in Players : pool[p] \cap spent[p] = {}
=============================================================================

---------------------------- MODULE AtomicRefresh ----------------------------
(***************************************************************************)
(* What a host that keeps refreshes and signatures apart sees of a key:    *)
(* a refresh of a player is one step, which changes its share and neither  *)
(* takes a presignature from the array nor brings one back; and what signs *)
(* is a presignature of the array, made for the share all players have.    *)
(***************************************************************************)
EXTENDS Sequences

CONSTANTS Players, Requests, Txs, Indices

VARIABLES
  share,    \* per player: the refreshes its share went through
  offered,  \* per player: the presignatures it may sign with
  uses      \* per player: what signed

vars == <<share, offered, uses>>

Signed(p) == {<<u.tx, u.index>> : u \in uses[p]}

Init == /\ share = [p \in Players |-> <<>>]
        /\ offered = [p \in Players |-> Indices]
        /\ uses = [p \in Players |-> {}]

\* refresh_key and refresh_key_fast_ack.  No player may be left with a
\* presignature that others have signed with.
Refresh(p, r) ==
  /\ \A q, s \in Players : Signed(q) = Signed(s)
  /\ share' = [share EXCEPT ![p] = Append(@, r)]
  /\ UNCHANGED <<offered, uses>>

\* ecdsa_sign, of one message.
Sign(p, tx, x) ==
  /\ \A q \in Players : share[q] = share[p]
  /\ x \in offered[p]
  /\ offered' = [offered EXCEPT ![p] = @ \ {x}]
  /\ uses' = [uses EXCEPT ![p] = @ \cup
       {[tx |-> tx, index |-> x, key |-> share[p],
         sig |-> [k |-> share[p], fits |-> share[p]]]}]
  /\ UNCHANGED share

Next ==
  \E p \in Players :
    \/ \E r \in Requests : Refresh(p, r)
    \/ \E tx \in Txs, x \in Indices : Sign(p, tx, x)

Spec == Init /\ [][Next]_vars
=============================================================================

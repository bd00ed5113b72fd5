------------------------ MODULE PoolRefinementProofs ------------------------
(***************************************************************************)
(* store_presigning_data and ecdsa_sign implement PresignaturePool, for    *)
(* every value of the constants of OfflinePresigning.  The pool of a       *)
(* player is the nonces in its slots, what is spent the nonces that signed;*)
(* SingleUseInv says that a stored nonce was never spent and that no nonce *)
(* is in two slots, so clearing one slot takes it out of the pool.         *)
(***************************************************************************)
EXTENDS OfflinePresigningProofs

\* The refinement mapping, named.
PoolOf(p) == {Nonce(s) : s \in SlotsOf(p)}
SpentOf(p) == {Nonce(s) : s \in UsedBy(p)}
pools == [p \in Players |-> PoolOf(p)]
spents == [p \in Players |-> SpentOf(p)]

LEMMA NonceInNonces ==
  ASSUME NEW r \in Requests, NEW i \in 1 .. Count[r], NEW k \in Generations
  PROVE  <<r, i, k>> \in Nonces
BY DEF Nonces

LEMMA PoolInit == Init => Pool!Init
<1> SUFFICES ASSUME Init PROVE Pool!Init
  OBVIOUS
<1>1. \A p \in Players : SlotsOf(p) = {} /\ UsedBy(p) = {}
  BY DEF Init, SlotsOf, UsedBy
<1> QED
  BY <1>1 DEF Pool!Init

\* Steps that leave slots and uses alone are stutters of the pool.
LEMMA PoolStutter ==
  ASSUME UNCHANGED <<slots, uses>>
  PROVE  UNCHANGED Pool!vars
BY DEF Pool!vars, SlotsOf, UsedBy, Nonce

\* One player's pool or spent presignatures change.
LEMMA PublishMaps ==
  ASSUME NEW p \in Players, NEW n \in Nonces, n \notin SpentOf(p),
         \A q \in Players : SpentOf(q)' = SpentOf(q),
         \A q \in Players : q # p => PoolOf(q)' = PoolOf(q),
         PoolOf(p)' \subseteq PoolOf(p) \cup {n}, n \in PoolOf(p)'
  PROVE  Pool!Next
<1> DEFINE lost == PoolOf(p) \ PoolOf(p)'
<1>1. lost \in SUBSET pools[p] /\ n \notin spents[p]
  BY DEF pools, spents
<1>2. PoolOf(p)' = (PoolOf(p) \ lost) \cup {n}
  OBVIOUS
<1>3. pools' = [pools EXCEPT ![p] = (@ \ lost) \cup {n}]
  BY <1>2 DEF pools
<1>4. UNCHANGED spents
  BY DEF spents
<1>5. Pool!Publish(p, n)
  BY <1>1, <1>3, <1>4 DEF Pool!Publish, pools, spents, PoolOf, SpentOf
<1> QED
  BY <1>5 DEF Pool!Next

LEMMA SpendMaps ==
  ASSUME NEW p \in Players, NEW n \in Nonces, n \in PoolOf(p),
         \A q \in Players : q # p => PoolOf(q)' = PoolOf(q) /\ SpentOf(q)' = SpentOf(q),
         PoolOf(p)' = PoolOf(p) \ {n}, SpentOf(p)' = SpentOf(p) \cup {n}
  PROVE  Pool!Next
<1>1. /\ n \in pools[p]
      /\ pools' = [pools EXCEPT ![p] = @ \ {n}]
      /\ spents' = [spents EXCEPT ![p] = @ \cup {n}]
  BY DEF pools, spents
<1>2. Pool!Spend(p, n)
  BY <1>1 DEF Pool!Spend, pools, spents, PoolOf, SpentOf
<1> QED
  BY <1>2 DEF Pool!Next

LEMMA PublishBlockMaps ==
  ASSUME TypeOK, SingleUseInv,
         NEW p \in Players, NEW w \in Workers, PublishBlock(p, w)
  PROVE  Pool!Next \/ UNCHANGED Pool!vars
<1> DEFINE c == call[p][w]
           b == c.block
           x == First[c.req] + c.i - 1
           theirs == [q \in Others(p) |-> c.dels[q].blocks[c.i]]
           R == [q \in Players |-> IF q = p THEN b.k ELSE theirs[q].k]
           sig == [req |-> c.req, block |-> c.i, k |-> b.k, R |-> R,
                   betas |-> b.betas, alphas |-> b.alphas]
           n == <<c.req, c.i, b.k>>
<1>1. /\ c.op = "publish" /\ b # Absent /\ UNCHANGED uses
      /\ \/ x \in Indices /\ slots' = [slots EXCEPT ![p][x] = sig]
         \/ UNCHANGED slots
  BY DEF PublishBlock
<1>2. CASE UNCHANGED slots
  BY <1>1, <1>2, PoolStutter
<1>3. CASE x \in Indices /\ slots' = [slots EXCEPT ![p][x] = sig]
  <2>1. LoopLocals(c) /\ c \in PublishCalls(p, c.req, c.i)
    BY <1>1, PublishLocals DEF TypeOK, CallsOK
  <2>2. /\ c.req \in Requests /\ c.i \in 1 .. Count[c.req]
        /\ b \in Blocks /\ Holds(p, w, c.req)
    BY <1>1, <2>1, LoadedInRange
    DEF LoopLocals, PublishCalls, OptionalBlocks, Holds, InRequest
  <2>3. n \in Nonces
    BY <2>2, NonceInNonces DEF Blocks
  <2>4. Nonce(sig) = n /\ sig \in Presignatures
    <3>1. c.dels \in [Others(p) -> MtaDeltas(c.req)]
      BY <2>1 DEF PublishCalls
    <3>2. \A q \in Others(p) : theirs[q] \in Blocks
      BY <2>2, <3>1 DEF MtaDeltas
    <3>3. R \in Views
      BY <2>2, <3>2 DEF Blocks, Views, Others
    <3>4. c.i \in Nat \ {0}
      BY <2>2, ConstantsAssumption
    <3> QED
      BY <2>2, <3>3, <3>4 DEF Presignatures, Blocks, Nonce
  <2>5. n \notin SpentOf(p)
    BY <2>2, HeldUnpublished DEF Unpublished, SpentOf, Nonce, Published
  <2> HIDE DEF sig, x
  <2>6. \A q \in Players : \A y \in Indices :
          slots'[q][y] = IF q = p /\ y = x THEN sig ELSE slots[q][y]
    BY <1>3 DEF TypeOK
  <2>7. sig # Absent
    BY <2>4, AbsentAssumption
  <2>8. /\ \A q \in Players : q # p => SlotsOf(q)' = SlotsOf(q)
        /\ SlotsOf(p)' \subseteq SlotsOf(p) \cup {sig}
        /\ sig \in SlotsOf(p)'
    BY <1>3, <2>6, <2>7 DEF SlotsOf
  <2>9. \A q \in Players : SpentOf(q)' = SpentOf(q)
    BY <1>1 DEF SpentOf, UsedBy, Nonce
  <2>10. \A q \in Players : q # p => PoolOf(q)' = PoolOf(q)
    BY <2>8 DEF PoolOf, Nonce
  <2>11. PoolOf(p)' \subseteq PoolOf(p) \cup {n} /\ n \in PoolOf(p)'
    BY <2>4, <2>8 DEF PoolOf, Nonce
  <2> QED
    BY <2>3, <2>5, <2>9, <2>10, <2>11, PublishMaps
<1> QED
  BY <1>1, <1>2, <1>3

LEMMA SignBlockMaps ==
  ASSUME TypeOK, SingleUseInv,
         NEW p \in Players, NEW w \in Workers, SignBlock(p, w)
  PROVE  Pool!Next \/ UNCHANGED Pool!vars
<1> DEFINE c == call[p][w]
           x == SlotOf(c)
           sig == slots[p][x]
           use == [tx |-> c.tx, i |-> c.i, sig |-> sig]
           n == Nonce(sig)
<1>1. \/ UNCHANGED <<slots, uses>>
      \/ /\ x \in Indices /\ sig # Absent
         /\ slots' = [slots EXCEPT ![p][x] = Absent]
         /\ uses' = [uses EXCEPT ![p] = @ \cup {use}]
  BY DEF SignBlock, Consume
<1>2. CASE UNCHANGED <<slots, uses>>
  BY <1>2, PoolStutter
<1>3. CASE /\ x \in Indices /\ sig # Absent
           /\ slots' = [slots EXCEPT ![p][x] = Absent]
           /\ uses' = [uses EXCEPT ![p] = @ \cup {use}]
  <2>1. sig \in SlotsOf(p) /\ sig \in Presignatures
    BY <1>3 DEF SlotsOf, TypeOK
  <2>2. n \in Nonces
    <3>1. sig.req \in Requests /\ sig.block \in 1 .. Count[sig.req]
          /\ sig.k \in Generations
      BY <2>1 DEF SingleUseInv, InItsSlot, Presignatures, Published
    <3> QED
      BY <3>1, NonceInNonces DEF Nonce
  <2>3. use.sig = sig
    OBVIOUS
  <2> HIDE DEF x, use
  <2>4. \A q \in Players : \A y \in Indices :
          slots'[q][y] = IF q = p /\ y = x THEN Absent ELSE slots[q][y]
    BY <1>3 DEF TypeOK
  <2>5. \A q \in Players :
          uses'[q] = IF q = p THEN uses[q] \cup {use} ELSE uses[q]
    BY <1>3 DEF TypeOK
  <2>6. /\ \A q \in Players : q # p => UsedBy(q)' = UsedBy(q)
        /\ UsedBy(p)' = UsedBy(p) \cup {sig}
    BY <2>3, <2>5 DEF UsedBy
  <2>7. \A q \in Players : q # p => SlotsOf(q)' = SlotsOf(q)
    BY <2>4 DEF SlotsOf
  <2>8. \A y \in Indices : y # x /\ slots[p][y] # Absent =>
          Nonce(slots[p][y]) # n
    <3> SUFFICES ASSUME NEW y \in Indices, y # x, slots[p][y] # Absent
                 PROVE  Nonce(slots[p][y]) # n
      OBVIOUS
    <3>1. /\ y = First[slots[p][y].req] + slots[p][y].block - 1
          /\ x = First[sig.req] + sig.block - 1
      BY <1>3 DEF SingleUseInv, InItsSlot
    <3> QED
      BY <3>1 DEF Nonce
  <2>9. \A s : s \in SlotsOf(p)' <=> s \in SlotsOf(p) /\ Nonce(s) # n
    BY <1>3, <2>4, <2>8 DEF SlotsOf
  <2>10. PoolOf(p)' = PoolOf(p) \ {n}
    BY <2>9 DEF PoolOf, Nonce
  <2>11. SpentOf(p)' = SpentOf(p) \cup {n}
    BY <2>6 DEF SpentOf, Nonce
  <2>12. \A q \in Players : q # p =>
           PoolOf(q)' = PoolOf(q) /\ SpentOf(q)' = SpentOf(q)
    BY <2>6, <2>7 DEF PoolOf, SpentOf, Nonce
  <2>13. n \in PoolOf(p)
    BY <2>1 DEF PoolOf
  <2> HIDE DEF n
  <2> QED
    BY <2>2, <2>10, <2>11, <2>12, <2>13, SpendMaps
<1> QED
  BY <1>1, <1>2, <1>3

\* Every other step stutters.
LEMMA NextMaps ==
  ASSUME TypeOK, SingleUseInv, Next
  PROVE  Pool!Next \/ UNCHANGED Pool!vars
<1>1. ASSUME NEW p \in Players, NEW w \in Workers, Begin(p, w)
      PROVE  UNCHANGED <<slots, uses>>
  BY <1>1 DEF Begin, StartPreprocessing, MtaResponse, OfflineMtaVerify,
     StorePresigningData, EcdsaSign, stored
<1>2. ASSUME NEW p \in Players, NEW w \in Workers, Continue(p, w)
      PROVE  \/ PublishBlock(p, w) \/ SignBlock(p, w)
             \/ UNCHANGED <<slots, uses>>
  BY <1>2 DEF Continue, CreateMtaRequest, StartReturn, LoadBlock, StoreAck,
     CreateMtaResponse, ResponseReturn, MtaVerify, OfflineMtaVerifyReturn,
     StorePresigningReturn, SignReturn, stored
<1>3. ASSUME NEW p \in Players, NEW w \in Workers, Interrupt(p, w)
      PROVE  UNCHANGED <<slots, uses>>
  BY <1>3 DEF Interrupt, stored
<1>4. ASSUME NEW p \in Players, NEW r \in Requests, CancelPreprocessing(p, r)
      PROVE  UNCHANGED <<slots, uses>>
  BY <1>4 DEF CancelPreprocessing
<1> QED
  BY <1>1, <1>2, <1>3, <1>4, PublishBlockMaps, SignBlockMaps, PoolStutter
  DEF Next

\* Storing and consuming presignatures implement a pool that never offers a
\* spent presignature again, under the assumptions of NoReuse.
THEOREM PoolRefinement ==
  ASSUME Serial
  PROVE  WholeSpec => ImplementsPool
<1>1. Init => TypeOK /\ SingleUseInv /\ Pool!Init
  BY InitType, InitSingleUse, PoolInit
<1>2. TypeOK /\ SingleUseInv /\ [Next /\ ~AbandonedStore]_vars
        => TypeOK' /\ SingleUseInv'
  BY NextType, StutterType, NextSingleUse, StutterSingleUse
<1>3. TypeOK /\ SingleUseInv /\ [Next /\ ~AbandonedStore]_vars
        => [Pool!Next]_Pool!vars
  BY NextMaps, PoolStutter DEF vars
<1> QED
  BY <1>1, <1>2, <1>3, PTL DEF WholeSpec, ImplementsPool, Pool!Spec

-----------------------------------------------------------------------------
(* What the pool promises                                                   *)

PoolInv ==
  /\ \A p \in Players : pools[p] \subseteq Nonces /\ spents[p] \subseteq Nonces
  /\ \A p \in Players : pools[p] \cap spents[p] = {}

\* The mapping, by the names it has here.
LEMMA Mapping ==
  /\ Pool!Init => pools = [p \in Players |-> {}] /\ spents = [p \in Players |-> {}]
  /\ \A p \in Players, n \in Nonces :
       /\ Pool!Publish(p, n) =>
            /\ n \notin spents[p] /\ spents' = spents
            /\ \E lost \in SUBSET pools[p] :
                 pools' = [pools EXCEPT ![p] = (@ \ lost) \cup {n}]
       /\ Pool!Spend(p, n) =>
            /\ n \in pools[p]
            /\ pools' = [pools EXCEPT ![p] = @ \ {n}]
            /\ spents' = [spents EXCEPT ![p] = @ \cup {n}]
  /\ UNCHANGED Pool!vars => pools' = pools /\ spents' = spents
  /\ (\A p \in Players : pools[p] \cap spents[p] = {}) => Pool!SpentIsGone
BY DEF pools, spents, PoolOf, SpentOf, Pool!Init, Pool!Publish, Pool!Spend,
   Pool!vars, Pool!SpentIsGone

\* A presignature that was consumed is never on offer again, whatever
\* store_preprocessed_data replaces: what the pool promises whoever keeps its
\* presignatures as it says.
THEOREM SpentStaysGone == ImplementsPool => []Pool!SpentIsGone
<1>1. Pool!Init => PoolInv
  BY Mapping DEF PoolInv
<1>2. PoolInv /\ [Pool!Next]_Pool!vars => PoolInv'
  <2> SUFFICES ASSUME PoolInv, [Pool!Next]_Pool!vars
               PROVE  PoolInv'
    OBVIOUS
  <2>1. DOMAIN pools = Players /\ DOMAIN spents = Players
    BY DEF pools, spents
  <2>2. ASSUME NEW p \in Players, NEW n \in Nonces, Pool!Publish(p, n)
        PROVE  PoolInv'
    <3>1. PICK lost \in SUBSET pools[p] :
            pools' = [pools EXCEPT ![p] = (@ \ lost) \cup {n}]
      BY <2>2, Mapping
    <3>2. n \notin spents[p] /\ spents' = spents
      BY <2>2, Mapping
    <3> QED
      BY <2>1, <3>1, <3>2 DEF PoolInv
  <2>3. ASSUME NEW p \in Players, NEW n \in Nonces, Pool!Spend(p, n)
        PROVE  PoolInv'
    <3>1. /\ pools' = [pools EXCEPT ![p] = @ \ {n}]
          /\ spents' = [spents EXCEPT ![p] = @ \cup {n}]
      BY <2>3, Mapping
    <3> QED
      BY <2>1, <3>1 DEF PoolInv
  <2>4. CASE UNCHANGED Pool!vars
    BY <2>4, Mapping DEF PoolInv
  <2> QED
    BY <2>2, <2>3, <2>4 DEF Pool!Next
<1>3. PoolInv => Pool!SpentIsGone
  BY Mapping DEF PoolInv
<1> QED
  BY <1>1, <1>2, <1>3, PTL DEF ImplementsPool, Pool!Spec
=============================================================================

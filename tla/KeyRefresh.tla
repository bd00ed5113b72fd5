------------------------------ MODULE KeyRefresh ------------------------------
(***************************************************************************)
(* cmp_offline_refresh_service: the players of a key replace their shares  *)
(* and their stored presignatures by new ones of the same key, while       *)
(* ecdsa_sign consumes presignatures.  The persistency is the one of       *)
(* test/cosigner/ecdsa_offline_test.cpp.                                   *)
(*                                                                         *)
(* Data: what a player adds in a refresh is the sum over the other players *)
(* of what the two derive from the seeds they exchanged, with opposite     *)
(* signs.  Seeds of a request are drawn once, so the sum is named by the   *)
(* request: a share is the sequence of requests it was refreshed by, and   *)
(* shares of all players that were refreshed by the same requests add up   *)
(* to the key.  The same holds for the k of a presignature.                *)
(* The presignatures were stored before, while no refresh had been made.   *)
(***************************************************************************)
EXTENDS Naturals, FiniteSets, Sequences

CONSTANTS
  Players,      \* the players of the key
  Requests,     \* refresh request ids
  Txs,          \* signing transactions, of one message
  Workers,      \* host threads of a player
  Indices,      \* the presignature array of the key
  MaxRefreshes, \* bound: refreshes a player starts from one share
  Serial,       \* the host runs one refresh handler at a time per player
  Quiet,        \* the host refreshes no key that is being signed with
  Interrupts,   \* the handlers that may stop halfway (exception or crash)
  Absent,       \* no record in the persistency
  Misfit        \* a chi that fits no share

ASSUME ConstantsAssumption ==
  /\ MaxRefreshes \in Nat
  /\ Serial \in BOOLEAN /\ Quiet \in BOOLEAN
  /\ Interrupts \subseteq {"request", "transform", "store", "sign"}

VARIABLES
  share,    \* per player: the private key share
  public,   \* per player: the public_share in the key metadata
  slots,    \* per player: the presignature array
  seeds,    \* per player: the requests it has stored seeds for
  sent,     \* the players and requests whose encrypted seeds the host has
  temp,     \* per player: the refreshed array that waits for the commit
  tempKey,  \* per player and request: the refreshed share that waits for it
  call,     \* per player and worker: the handler it runs and its locals
  uses      \* per player: the presignatures that signed, and with what share

vars == <<share, public, slots, seeds, sent, temp, tempKey, call, uses>>
stored == <<share, public, slots, seeds, sent, temp, tempKey>>

-----------------------------------------------------------------------------
Others(p) == Players \ {p}
Shares == Seq(Requests)

\* cmp_signature_preprocessed_data.  k: the refreshes in its k.  fits: the
\* share its chi fits: chi + k * share is right.
Presignatures == [k : Shares, fits : Shares \cup {Misfit}]
Arrays == [Indices -> Presignatures \cup {Absent}]

\* No record is neither an array, a presignature nor a share.
ASSUME AbsentAssumption ==
  Absent \notin Arrays /\ Absent \notin Presignatures /\ Absent \notin Shares

Idle == [op |-> "idle"]
Enter(p, w, c) == call' = [call EXCEPT ![p][w] = c]
Return(p, w) == Enter(p, w, Idle)

Refreshing(p) == \E v \in Workers : call[p][v].op \in {"transform", "store"}
MayRefresh(p) == Serial => ~Refreshing(p)

-----------------------------------------------------------------------------
\* What a Quiet host sees to: it signs when every player is done with the
\* same refreshes, and refreshes when every player has signed what one has,
\* with the same presignature.
Settled ==
  \A p \in Players :
    /\ ~Refreshing(p) /\ temp[p] = Absent
    /\ \A q \in Players : share[q] = share[p]

Signed(p) == {<<u.tx, u.index>> : u \in uses[p]}
NobodySigns ==
  \A p \in Players :
    /\ \A w \in Workers : call[p][w].op # "sign"
    /\ \A q \in Players : Signed(q) = Signed(p)

-----------------------------------------------------------------------------
Init ==
  /\ share = [p \in Players |-> <<>>]
  /\ public = [p \in Players |-> <<>>]
  /\ slots = [p \in Players |-> [x \in Indices |-> [k |-> <<>>, fits |-> <<>>]]]
  /\ seeds = [p \in Players |-> {}]
  /\ sent = {}
  /\ temp = [p \in Players |-> Absent]
  /\ tempKey = [p \in Players |-> [r \in Requests |-> Absent]]
  /\ call = [p \in Players |-> [w \in Workers |-> Idle]]
  /\ uses = [p \in Players |-> {}]

-----------------------------------------------------------------------------
(* refresh_key_request                                                      *)

\* Seeds are stored once for a request; the encrypted ones may be lost.
RefreshKeyRequest(p, r) ==
  /\ r \notin seeds[p]
  /\ seeds' = [seeds EXCEPT ![p] = @ \cup {r}]
  /\ \/ sent' = sent \cup {<<p, r>>}
     \/ "request" \in Interrupts /\ UNCHANGED sent
  /\ UNCHANGED <<share, public, slots, temp, tempKey, call, uses>>

-----------------------------------------------------------------------------
(* refresh_key                                                              *)

\* Loads the own seeds and the share, with the seeds of all others.
RefreshKey(p, w, r) ==
  /\ call[p][w].op = "idle" /\ MayRefresh(p)
  /\ Quiet => NobodySigns
  /\ Len(share[p]) < MaxRefreshes
  /\ r \in seeds[p]
  /\ \A q \in Others(p) : <<q, r>> \in sent
  /\ Enter(p, w, [op |-> "transform", req |-> r, key |-> share[p]])
  /\ UNCHANGED <<stored, uses>>

NewShare(c) == Append(c.key, c.req)

\* The lambda of refresh_key.  chi' = chi + k * key - k' * key' + masks fits
\* the new share if chi fitted the loaded one.  And one that forgets the k.
RefreshedKeepingK(d, c) ==
  [d EXCEPT !.fits = IF d.fits = c.key THEN NewShare(c) ELSE Misfit]
Refreshed(d, c) ==
  [k |-> Append(d.k, c.req),
   fits |-> IF d.fits = c.key THEN NewShare(c) ELSE Misfit]

\* One refreshed array at a time waits for the commit; and one that replaces
\* the array that waits.
ArrayMayOverwrite(p) == TRUE
ArrayMayWait(p) == temp[p] = Absent

\* transform_preprocessed_data_and_store_temporary: a snapshot under the
\* lock of the presignatures.
Transform(p, w) ==
  LET c == call[p][w] IN
  /\ c.op = "transform"
  /\ \/ /\ ArrayMayWait(p)
        /\ temp' = [temp EXCEPT ![p] =
             [x \in Indices |-> IF slots[p][x] = Absent THEN Absent
                                ELSE Refreshed(slots[p][x], c)]]
        /\ Enter(p, w, [c EXCEPT !.op = "store"])
     \/ /\ ~ArrayMayWait(p)
        /\ Return(p, w)
        /\ UNCHANGED temp
  /\ UNCHANGED <<share, public, slots, seeds, sent, tempKey, uses>>

\* delete_refresh_key_seeds.  It erases the entry of the request in the map
\* of refreshed arrays, whose only entry is that of the key: nothing.
DeleteRefreshKeySeeds == UNCHANGED <<seeds, temp>>

StoreTemporaryKey(p, w) ==
  LET c == call[p][w] IN
  /\ c.op = "store"
  /\ DeleteRefreshKeySeeds
  /\ IF tempKey[p][c.req] = Absent
       THEN tempKey' = [tempKey EXCEPT ![p][c.req] = NewShare(c)]
       ELSE UNCHANGED tempKey
  /\ Return(p, w)
  /\ UNCHANGED <<share, public, slots, sent, uses>>

-----------------------------------------------------------------------------
(* refresh_key_fast_ack and cancel_refresh_key                              *)

\* commit.  A backup that fails afterwards throws and undoes nothing.  And
\* commits that leave the presignatures, or the refreshed array, as they are.
CommitShare(p, r) ==
  /\ share' = [share EXCEPT ![p] = tempKey[p][r]]
  /\ temp' = [temp EXCEPT ![p] = Absent]
  /\ UNCHANGED slots
CommitCopy(p, r) ==
  /\ share' = [share EXCEPT ![p] = tempKey[p][r]]
  /\ slots' = [slots EXCEPT ![p] = temp[p]]
  /\ UNCHANGED temp
Commit(p, r) ==
  /\ share' = [share EXCEPT ![p] = tempKey[p][r]]
  /\ slots' = [slots EXCEPT ![p] =
       IF temp[p] = Absent THEN [x \in Indices |-> Absent] ELSE temp[p]]
  /\ temp' = [temp EXCEPT ![p] = Absent]

RefreshKeyFastAck(p, r) ==
  /\ MayRefresh(p)
  /\ tempKey[p][r] # Absent
  /\ Commit(p, r)
  /\ tempKey' = [tempKey EXCEPT ![p][r] = Absent]
  /\ UNCHANGED <<public, seeds, sent, call, uses>>

CancelRefreshKey(p, r) ==
  /\ DeleteRefreshKeySeeds
  /\ tempKey' = [tempKey EXCEPT ![p][r] = Absent]
  /\ UNCHANGED <<share, public, slots, sent, call, uses>>

-----------------------------------------------------------------------------
(* ecdsa_sign: loads the share, then consumes the presignature              *)

EcdsaSign(p, w, tx, x) ==
  /\ call[p][w].op = "idle"
  /\ Quiet => Settled
  /\ Enter(p, w, [op |-> "sign", tx |-> tx, index |-> x, key |-> share[p]])
  /\ UNCHANGED <<stored, uses>>

\* load_preprocessed_data throws on an empty slot, and empties the one it
\* reads; versions that do not.
AnySlot(p, x) == TRUE
HasPresignature(p, x) == slots[p][x] # Absent

ConsumeNothing(p, x) == UNCHANGED slots
Consume(p, x) == slots' = [slots EXCEPT ![p][x] = Absent]

SignBlock(p, w) ==
  LET c == call[p][w] IN
  /\ c.op = "sign"
  /\ \/ /\ HasPresignature(p, c.index)
        /\ Consume(p, c.index)
        /\ uses' = [uses EXCEPT ![p] =
             @ \cup {[tx |-> c.tx, index |-> c.index, key |-> c.key,
                      sig |-> slots[p][c.index]]}]
     \/ /\ ~HasPresignature(p, c.index)
        /\ UNCHANGED <<slots, uses>>
  /\ Return(p, w)
  /\ UNCHANGED <<share, public, seeds, sent, temp, tempKey>>

\* An exception out of a handler, or a crash of its process, between two
\* persistency calls.
Interrupt(p, w) ==
  /\ call[p][w].op \in Interrupts
  /\ Return(p, w)
  /\ UNCHANGED <<stored, uses>>

-----------------------------------------------------------------------------
Refresh(p) ==
  \/ \E r \in Requests : RefreshKeyRequest(p, r) \/ RefreshKeyFastAck(p, r)
  \/ \E w \in Workers, r \in Requests : RefreshKey(p, w, r)
  \/ \E w \in Workers : Transform(p, w) \/ StoreTemporaryKey(p, w)

Sign(p) ==
  \E w \in Workers :
    \/ \E tx \in Txs, x \in Indices : EcdsaSign(p, w, tx, x)
    \/ SignBlock(p, w)

Next ==
  \E p \in Players :
    \/ Refresh(p) \/ Sign(p)
    \/ \E r \in Requests : CancelRefreshKey(p, r)
    \/ \E w \in Workers : Interrupt(p, w)

Spec == Init /\ [][Next]_vars

-----------------------------------------------------------------------------
\* A host that keeps calling what has not succeeded, and cancels nothing.
Done(p, r) == tempKey[p][r] # Absent \/ r \in {share[p][i] : i \in DOMAIN share[p]}
Ask(p, r) == \E w \in Workers : ~Done(p, r) /\ RefreshKey(p, w, r)
Continue(p, w) == Transform(p, w) \/ StoreTemporaryKey(p, w) \/ SignBlock(p, w)

Calling ==
  \E p \in Players :
    \/ \E w \in Workers : Continue(p, w)
    \/ \E r \in Requests : \/ RefreshKeyRequest(p, r) \/ Ask(p, r)
                           \/ RefreshKeyFastAck(p, r)
    \/ \E w \in Workers, tx \in Txs, x \in Indices : EcdsaSign(p, w, tx, x)

Fairness ==
  \A p \in Players :
    /\ \A w \in Workers : WF_vars(Continue(p, w))
    /\ \A r \in Requests : SF_vars(Ask(p, r)) /\ SF_vars(RefreshKeyFastAck(p, r))

FairSpec == Init /\ [][Calling]_vars /\ Fairness

-----------------------------------------------------------------------------
(* Types                                                                    *)

Calls ==
  {Idle}
    \cup [op : {"transform", "store"}, req : Requests, key : Shares]
    \cup [op : {"sign"}, tx : Txs, index : Indices, key : Shares]

\* The type invariant.
TypeOK ==
  /\ share \in [Players -> Shares]
  /\ public \in [Players -> Shares]
  /\ slots \in [Players -> Arrays]
  /\ seeds \in [Players -> SUBSET Requests]
  /\ sent \subseteq Players \X Requests
  /\ temp \in [Players -> Arrays \cup {Absent}]
  /\ tempKey \in [Players -> [Requests -> Shares \cup {Absent}]]
  /\ call \in [Players -> [Workers -> Calls]]
  /\ uses \in [Players -> SUBSET [tx : Txs, index : Indices, key : Shares,
                                  sig : Presignatures]]

-----------------------------------------------------------------------------
(* Properties                                                               *)

\* Whatever is refreshed, cancelled, interrupted or repeated, in whatever
\* order: the presignatures a player offers went through the refreshes its
\* share went through, and their chi fits that share (commit replaces both).
FitsShare(array, s) ==
  \A x \in Indices : array[x] # Absent => array[x] = [k |-> s, fits |-> s]
SlotsFit == \A p \in Players : FitsShare(slots[p], share[p])

\* What keeps SlotsFit when refresh handlers run one at a time: a refreshed
\* share that may still be committed is one the waiting array fits.
WaitingFits ==
  \A p \in Players :
    /\ \A r \in Requests : tempKey[p][r] # Absent =>
         temp[p] # Absent /\ FitsShare(temp[p], tempKey[p][r])
    /\ \A w \in Workers : call[p][w].op = "store" =>
         temp[p] # Absent /\ FitsShare(temp[p], NewShare(call[p][w]))

\* Only one share waits, or is about to, at a time.
OneWaits ==
  \A p \in Players :
    /\ \A r, s \in Requests :
         (tempKey[p][r] # Absent /\ tempKey[p][s] # Absent) => r = s
    /\ \A w \in Workers : call[p][w].op = "store" =>
         \A r \in Requests : tempKey[p][r] = Absent

\* A worker refreshes the share the player has.
LoadedIsCurrent ==
  \A p \in Players, w \in Workers :
    call[p][w].op \in {"transform", "store"} => call[p][w].key = share[p]

OneRefresh ==
  \A p \in Players : \A v, w \in Workers :
    (/\ call[p][v].op \in {"transform", "store"}
     /\ call[p][w].op \in {"transform", "store"}) => v = w

SlotsFitInv ==
  /\ SlotsFit /\ WaitingFits /\ OneWaits
  /\ LoadedIsCurrent /\ OneRefresh

\* ecdsa_offline_signature compares the R of partial signatures and nothing
\* else, and a refresh keeps R: what the players sign with under one R must
\* be shares of one key and of one k, and fit.
SignaturesVerify ==
  \A p, q \in Players : \A u \in uses[p], v \in uses[q] :
    (u.tx = v.tx /\ u.index = v.index) =>
      /\ u.key = v.key /\ u.sig = v.sig
      /\ u.sig.fits = u.key /\ u.sig.k = u.key

\* load_preprocessed_data "MUST delete the preprocessed data": no R signs
\* twice.
SingleUse ==
  \A p \in Players : \A u, v \in uses[p] : u.index = v.index => u = v

\* What keeps these two when the host keeps refreshes and signatures apart: a
\* player signs with the share all players have; a spent presignature is
\* neither offered nor waits to be; what was signed with fitted the share; and
\* a player that has not signed what another has would with the same share.
SigningIsSettled ==
  \A p \in Players, w \in Workers : call[p][w].op = "sign" =>
    Settled /\ call[p][w].key = share[p]
SpentIsGone ==
  \A p \in Players : \A u \in uses[p] :
    /\ slots[p][u.index] = Absent
    /\ temp[p] # Absent => temp[p][u.index] = Absent
UsesFit ==
  \A p \in Players : \A u \in uses[p] : u.sig = [k |-> u.key, fits |-> u.key]
UsedByAll ==
  \A p, q \in Players : \A u \in uses[q] :
    <<u.tx, u.index>> \in Signed(p) \/ (Settled /\ u.key = share[p])

ApartInv ==
  /\ SigningIsSettled /\ SpentIsGone /\ UsesFit /\ UsedByAll
  /\ SignaturesVerify /\ SingleUse

\* Seen as AtomicRefresh: a player offers the presignatures in its slots.
Atomic == INSTANCE AtomicRefresh WITH
  offered <- [p \in Players |-> {x \in Indices : slots[p][x] # Absent}]

\* To such a host a refresh is one step, the commit, though the array and the
\* share it brings were read long before: it loses no presignature and brings
\* none back, and the players sign with one share.
RefreshIsAtomic == Atomic!Spec

\* What the steps of a refresh keep for that, since nobody signs before its
\* commit: the share that waits is the current one, refreshed, and the array
\* that waits has the presignatures of the current one.
WaitsForCurrent ==
  \A p \in Players, r \in Requests :
    tempKey[p][r] # Absent => tempKey[p][r] = Append(share[p], r)
WaitingOffersAll ==
  \A p \in Players : temp[p] # Absent =>
    \A x \in Indices : temp[p][x] = Absent <=> slots[p][x] = Absent

AtomicInv == WaitsForCurrent /\ WaitingOffersAll

\* Driven by such a host, every refresh all players sent seeds for is made
\* by each of them: requests that wait for each other's arrays go on.
EveryRefreshCompletes ==
  \A p \in Players, r \in Requests :
    (\A q \in Players : <<q, r>> \in sent)
      ~> (r \in {share[p][i] : i \in DOMAIN share[p]})

\* "all parties public metadata (public share, ...)": when all players have
\* made the same refreshes, the metadata holds the public keys of the shares.
PublicSharesCurrent == Settled => public = share
=============================================================================

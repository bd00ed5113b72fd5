--------------------------- MODULE KeyRefreshProofs ---------------------------
(* Type correctness of KeyRefresh, and that the presignatures of a player   *)
(* always fit its share when refresh handlers run one at a time.            *)
EXTENDS KeyRefresh, TLAPS

\* A refreshed share is a share.
LEMMA NewShareType ==
  ASSUME NEW c, c.key \in Shares, c.req \in Requests
  PROVE  NewShare(c) \in Shares
BY DEF NewShare, Shares

\* A refreshed presignature is a presignature.
LEMMA RefreshedType ==
  ASSUME NEW c, c.key \in Shares, c.req \in Requests,
         NEW d \in Presignatures
  PROVE  Refreshed(d, c) \in Presignatures
BY NewShareType DEF Refreshed, Presignatures, Shares

\* A refreshed array is an array.
LEMMA RefreshedArrayType ==
  ASSUME NEW c, c.key \in Shares, c.req \in Requests, NEW array \in Arrays
  PROVE  [x \in Indices |-> IF array[x] = Absent THEN Absent
                            ELSE Refreshed(array[x], c)] \in Arrays
BY RefreshedType DEF Arrays

LEMMA InitType == Init => TypeOK
BY DEF Init, TypeOK, Arrays, Presignatures, Shares, Calls, Idle

\* A worker's record in call, by what it runs.
LEMMA CallFields ==
  ASSUME TypeOK, NEW p \in Players, NEW w \in Workers
  PROVE  /\ call[p][w].op \in {"transform", "store"} =>
              call[p][w] \in [op : {"transform", "store"}, req : Requests,
                              key : Shares]
         /\ call[p][w].op = "sign" =>
              call[p][w] \in [op : {"sign"}, tx : Txs, index : Indices,
                              key : Shares]
BY DEF TypeOK, Calls, Idle

LEMMA EnterType ==
  ASSUME TypeOK, NEW p \in Players, NEW w \in Workers, NEW c \in Calls,
         Enter(p, w, c)
  PROVE  call' \in [Players -> [Workers -> Calls]]
BY DEF TypeOK, Enter

LEMMA RefreshKeyRequestType ==
  ASSUME TypeOK, NEW p \in Players, NEW r \in Requests, RefreshKeyRequest(p, r)
  PROVE  TypeOK'
BY DEF TypeOK, RefreshKeyRequest

LEMMA RefreshKeyType ==
  ASSUME TypeOK, NEW p \in Players, NEW w \in Workers, NEW r \in Requests,
         RefreshKey(p, w, r)
  PROVE  TypeOK'
<1> DEFINE c == [op |-> "transform", req |-> r, key |-> share[p]]
<1>1. c \in Calls
  BY DEF TypeOK, Calls
<1>2. call' \in [Players -> [Workers -> Calls]]
  BY <1>1, EnterType DEF RefreshKey
<1> QED
  BY <1>2 DEF TypeOK, RefreshKey, stored

LEMMA TransformType ==
  ASSUME TypeOK, NEW p \in Players, NEW w \in Workers, Transform(p, w)
  PROVE  TypeOK'
<1> DEFINE c == call[p][w]
<1>1. c \in [op : {"transform", "store"}, req : Requests, key : Shares]
  BY CallFields DEF Transform
<1>2. [c EXCEPT !.op = "store"] \in Calls /\ Idle \in Calls
  BY <1>1 DEF Calls, Idle
<1>3. call' \in [Players -> [Workers -> Calls]]
  BY <1>2, EnterType DEF Transform, Return
<1>4. [x \in Indices |-> IF slots[p][x] = Absent THEN Absent
                         ELSE Refreshed(slots[p][x], c)] \in Arrays
  <2>1. slots[p] \in Arrays
    BY DEF TypeOK
  <2> QED
    BY <1>1, <2>1, RefreshedArrayType
<1>5. temp' \in [Players -> Arrays \cup {Absent}]
  BY <1>4 DEF TypeOK, Transform
<1> QED
  BY <1>3, <1>5 DEF TypeOK, Transform

LEMMA StoreTemporaryKeyType ==
  ASSUME TypeOK, NEW p \in Players, NEW w \in Workers, StoreTemporaryKey(p, w)
  PROVE  TypeOK'
<1>1. call[p][w] \in [op : {"transform", "store"}, req : Requests, key : Shares]
  BY CallFields DEF StoreTemporaryKey
<1>2. call' \in [Players -> [Workers -> Calls]]
  BY EnterType DEF StoreTemporaryKey, Return, Calls
<1>3. NewShare(call[p][w]) \in Shares
  BY <1>1, NewShareType
<1>4. call[p][w].req \in Requests
  BY <1>1
<1>5. tempKey' = tempKey \/
      tempKey' = [tempKey EXCEPT ![p][call[p][w].req] = NewShare(call[p][w])]
  BY DEF StoreTemporaryKey
<1>6. tempKey' \in [Players -> [Requests -> Shares \cup {Absent}]]
  <2>1. tempKey \in [Players -> [Requests -> Shares \cup {Absent}]]
    BY DEF TypeOK
  <2> DEFINE r == call[p][w].req
             s == NewShare(call[p][w])
  <2>2. r \in Requests /\ s \in Shares
    BY <1>3, <1>4
  <2>3. tempKey' = tempKey \/ tempKey' = [tempKey EXCEPT ![p][r] = s]
    BY <1>5
  <2> HIDE DEF r, s
  <2> QED
    BY <2>1, <2>2, <2>3
<1> QED
  BY <1>2, <1>6 DEF TypeOK, StoreTemporaryKey, DeleteRefreshKeySeeds

LEMMA RefreshKeyFastAckType ==
  ASSUME TypeOK, NEW p \in Players, NEW r \in Requests, RefreshKeyFastAck(p, r)
  PROVE  TypeOK'
<1>1. tempKey[p][r] \in Shares
  BY DEF TypeOK, RefreshKeyFastAck
<1>2. [x \in Indices |-> Absent] \in Arrays
  BY DEF Arrays
<1>3. temp[p] # Absent => temp[p] \in Arrays
  BY DEF TypeOK
<1>4. slots' \in [Players -> Arrays]
  BY <1>2, <1>3 DEF TypeOK, RefreshKeyFastAck, Commit
<1>5. share' \in [Players -> Shares]
  BY <1>1 DEF TypeOK, RefreshKeyFastAck, Commit
<1>6. temp' \in [Players -> Arrays \cup {Absent}]
  BY DEF TypeOK, RefreshKeyFastAck, Commit
<1>7. tempKey' \in [Players -> [Requests -> Shares \cup {Absent}]]
  BY DEF TypeOK, RefreshKeyFastAck
<1> QED
  BY <1>4, <1>5, <1>6, <1>7 DEF TypeOK, RefreshKeyFastAck

LEMMA CancelRefreshKeyType ==
  ASSUME TypeOK, NEW p \in Players, NEW r \in Requests, CancelRefreshKey(p, r)
  PROVE  TypeOK'
BY DEF TypeOK, CancelRefreshKey, DeleteRefreshKeySeeds

LEMMA EcdsaSignType ==
  ASSUME TypeOK, NEW p \in Players, NEW w \in Workers, NEW tx \in Txs,
         NEW x \in Indices, EcdsaSign(p, w, tx, x)
  PROVE  TypeOK'
<1> DEFINE c == [op |-> "sign", tx |-> tx, index |-> x, key |-> share[p]]
<1>1. c \in Calls
  BY DEF TypeOK, Calls
<1>2. call' \in [Players -> [Workers -> Calls]]
  BY <1>1, EnterType DEF EcdsaSign
<1> QED
  BY <1>2 DEF TypeOK, EcdsaSign, stored

LEMMA SignBlockType ==
  ASSUME TypeOK, NEW p \in Players, NEW w \in Workers, SignBlock(p, w)
  PROVE  TypeOK'
<1> DEFINE c == call[p][w]
           Uses == [tx : Txs, index : Indices, key : Shares,
                    sig : Presignatures]
           u == [tx |-> c.tx, index |-> c.index, key |-> c.key,
                 sig |-> slots[p][c.index]]
<1>1. c \in [op : {"sign"}, tx : Txs, index : Indices, key : Shares]
  BY CallFields DEF SignBlock
<1>2. call' \in [Players -> [Workers -> Calls]]
  BY EnterType DEF SignBlock, Return, Calls
<1>3. slots' \in [Players -> Arrays]
  <2>1. slots \in [Players -> [Indices -> Presignatures \cup {Absent}]]
    BY DEF TypeOK, Arrays
  <2>2. slots' = slots \/ slots' = [slots EXCEPT ![p][c.index] = Absent]
    BY DEF SignBlock, Consume
  <2>3. c.index \in Indices
    BY <1>1
  <2> HIDE DEF c
  <2>4. slots' \in [Players -> [Indices -> Presignatures \cup {Absent}]]
    BY <2>1, <2>2, <2>3
  <2> QED
    BY <2>4 DEF Arrays
<1>4. slots[p][c.index] # Absent => u \in Uses
  <2>1. slots[p][c.index] \in Presignatures \cup {Absent}
    BY <1>1 DEF TypeOK, Arrays
  <2> QED
    BY <1>1, <2>1
<1>5. uses' = uses \/
      (u \in Uses /\ uses' = [uses EXCEPT ![p] = @ \cup {u}])
  BY <1>4 DEF SignBlock, HasPresignature
<1>6. uses \in [Players -> SUBSET Uses]
  BY DEF TypeOK
<1>7. uses' \in [Players -> SUBSET Uses]
  <2> HIDE DEF u, c, Uses
  <2> QED
    BY <1>5, <1>6
<1> QED
  BY <1>2, <1>3, <1>7 DEF TypeOK, SignBlock

LEMMA InterruptType ==
  ASSUME TypeOK, NEW p \in Players, NEW w \in Workers, Interrupt(p, w)
  PROVE  TypeOK'
<1>1. call' \in [Players -> [Workers -> Calls]]
  BY EnterType DEF Interrupt, Return, Calls
<1> QED
  BY <1>1 DEF TypeOK, Interrupt, stored

\* Every step keeps the types.
LEMMA NextType == TypeOK /\ [Next]_vars => TypeOK'
<1> SUFFICES ASSUME TypeOK, [Next]_vars
             PROVE  TypeOK'
  OBVIOUS
<1>1. CASE UNCHANGED vars
  BY <1>1 DEF TypeOK, vars
<1>2. CASE Next
  BY <1>2, RefreshKeyRequestType, RefreshKeyType, TransformType,
     StoreTemporaryKeyType, RefreshKeyFastAckType, CancelRefreshKeyType,
     EcdsaSignType, SignBlockType, InterruptType DEF Next, Refresh, Sign
<1> QED
  BY <1>1, <1>2

\* Every state reached has its type: no handler, cancelled, interrupted or
\* repeated, stores a share, array or presignature of another shape.
THEOREM TypeCorrect == Spec => []TypeOK
<1>1. Init => TypeOK
  BY InitType
<1>2. TypeOK /\ [Next]_vars => TypeOK'
  BY NextType
<1> QED
  BY <1>1, <1>2, PTL DEF Spec

-----------------------------------------------------------------------------
(* The presignatures fit the share                                          *)

LEMMA InitFit == Init => SlotsFitInv
BY DEF Init, SlotsFitInv, SlotsFit, FitsShare, WaitingFits, OneWaits,
       LoadedIsCurrent, OneRefresh, Idle

\* An array stays fit when a presignature is taken out.
LEMMA ConsumedFits ==
  ASSUME NEW array \in Arrays, NEW s, NEW x \in Indices, FitsShare(array, s)
  PROVE  FitsShare([array EXCEPT ![x] = Absent], s)
BY DEF FitsShare, Arrays

\* What refresh_key makes of an array that fits the share it loaded fits the
\* new share.
LEMMA RefreshedFits ==
  ASSUME NEW array \in Arrays, NEW c, FitsShare(array, c.key)
  PROVE  FitsShare([x \in Indices |-> IF array[x] = Absent THEN Absent
                                      ELSE Refreshed(array[x], c)],
                   NewShare(c))
<1> SUFFICES ASSUME NEW x \in Indices, array[x] # Absent
             PROVE  Refreshed(array[x], c) =
                      [k |-> NewShare(c), fits |-> NewShare(c)]
  BY DEF FitsShare
<1>1. array[x] = [k |-> c.key, fits |-> c.key]
  BY DEF FitsShare
<1> QED
  BY <1>1 DEF Refreshed, NewShare

\* The call table after a worker moved.
LEMMA CallOf ==
  ASSUME TypeOK, NEW p \in Players, NEW w \in Workers, NEW c, Enter(p, w, c)
  PROVE  \A q \in Players, v \in Workers :
           call'[q][v] = IF q = p /\ v = w THEN c ELSE call[q][v]
BY DEF TypeOK, Enter

\* A worker that leaves its handler, or signs, disturbs nothing.
LEMMA LeaveFits ==
  ASSUME TypeOK, SlotsFitInv, NEW p \in Players, NEW w \in Workers, NEW c,
         Enter(p, w, c), c.op \notin {"transform", "store"},
         UNCHANGED <<share, temp, tempKey>>
  PROVE  (WaitingFits /\ OneWaits /\ LoadedIsCurrent /\ OneRefresh)'
<1>1. \A q \in Players, v \in Workers :
        call'[q][v].op \in {"transform", "store"} => call'[q][v] = call[q][v]
  BY CallOf
<1>2. WaitingFits'
  BY <1>1 DEF SlotsFitInv, WaitingFits
<1>3. OneWaits'
  BY <1>1 DEF SlotsFitInv, OneWaits
<1>4. LoadedIsCurrent'
  BY <1>1 DEF SlotsFitInv, LoadedIsCurrent
<1>5. OneRefresh'
  BY <1>1 DEF SlotsFitInv, OneRefresh
<1> QED
  BY <1>2, <1>3, <1>4, <1>5

LEMMA RefreshKeyRequestFits ==
  ASSUME SlotsFitInv, NEW p \in Players, NEW r \in Requests,
         RefreshKeyRequest(p, r)
  PROVE  SlotsFitInv'
BY DEF RefreshKeyRequest, SlotsFitInv, SlotsFit, WaitingFits, OneWaits,
       LoadedIsCurrent, OneRefresh

LEMMA RefreshKeyFits ==
  ASSUME Serial, TypeOK, SlotsFitInv, NEW p \in Players, NEW w \in Workers,
         NEW r \in Requests, RefreshKey(p, w, r)
  PROVE  SlotsFitInv'
<1> DEFINE c == [op |-> "transform", req |-> r, key |-> share[p]]
<1>1. \A q \in Players, v \in Workers :
        call'[q][v] = IF q = p /\ v = w THEN c ELSE call[q][v]
  BY CallOf DEF RefreshKey
<1>2. UNCHANGED <<share, slots, temp, tempKey>>
  BY DEF RefreshKey, stored
<1>3. \A v \in Workers : call[p][v].op \notin {"transform", "store"}
  BY DEF RefreshKey, MayRefresh, Refreshing
<1>4. SlotsFit'
  BY <1>2 DEF SlotsFitInv, SlotsFit
<1>5. \A q \in Players, v \in Workers :
        call'[q][v].op = "store" => call'[q][v] = call[q][v]
  BY <1>1
<1>6. WaitingFits'
  BY <1>2, <1>5 DEF SlotsFitInv, WaitingFits
<1>7. OneWaits'
  BY <1>2, <1>5 DEF SlotsFitInv, OneWaits
<1>8. LoadedIsCurrent'
  BY <1>1, <1>2 DEF SlotsFitInv, LoadedIsCurrent
<1>9. OneRefresh'
  BY <1>1, <1>3 DEF SlotsFitInv, OneRefresh
<1> QED
  BY <1>4, <1>6, <1>7, <1>8, <1>9 DEF SlotsFitInv

LEMMA TransformFits ==
  ASSUME TypeOK, SlotsFitInv, NEW p \in Players, NEW w \in Workers,
         Transform(p, w)
  PROVE  SlotsFitInv'
<1>1. UNCHANGED <<share, slots, tempKey>>
  BY DEF Transform
<1>2. SlotsFit'
  BY <1>1 DEF SlotsFitInv, SlotsFit
<1>3. CASE ~ArrayMayWait(p)
  <2>1. Enter(p, w, Idle) /\ UNCHANGED temp
    BY <1>3 DEF Transform, Return
  <2>2. Idle.op \notin {"transform", "store"}
    BY DEF Idle
  <2> QED
    BY <1>1, <1>2, <2>1, <2>2, LeaveFits DEF SlotsFitInv
<1>4. ASSUME ArrayMayWait(p), NEW c, c = call[p][w]
      PROVE  SlotsFitInv'
  <2> DEFINE d == [c EXCEPT !.op = "store"]
             array == [x \in Indices |-> IF slots[p][x] = Absent THEN Absent
                                         ELSE Refreshed(slots[p][x], c)]
  <2>1. c \in [op : {"transform", "store"}, req : Requests, key : Shares]
        /\ c.op = "transform"
    BY <1>4, CallFields DEF Transform
  <2>2. Enter(p, w, d) /\ temp' = [temp EXCEPT ![p] = array]
    BY <1>4 DEF Transform
  <2>3. \A q \in Players, v \in Workers :
          call'[q][v] = IF q = p /\ v = w THEN d ELSE call[q][v]
    BY <2>2, CallOf
  <2>4. d.op = "store" /\ d.key = c.key /\ d.req = c.req
    BY <2>1
  <2>5. NewShare(d) = NewShare(c)
    BY <2>4 DEF NewShare
  <2>6. c.key = share[p]
    BY <1>4, <2>1 DEF SlotsFitInv, LoadedIsCurrent
  <2>7. FitsShare(array, NewShare(d))
    BY <2>5, <2>6, RefreshedFits DEF SlotsFitInv, SlotsFit, TypeOK
  <2>8. array # Absent
    <3>1. slots[p] \in Arrays
      BY DEF TypeOK
    <3> QED
      BY <2>1, <3>1, RefreshedArrayType, AbsentAssumption
  <2>9. temp[p] = Absent
    BY <1>4 DEF ArrayMayWait
  <2>10. \A q \in Players : temp'[q] = IF q = p THEN array ELSE temp[q]
    BY <2>2 DEF TypeOK
  <2>11. \A r \in Requests : tempKey[p][r] = Absent
    BY <2>9 DEF SlotsFitInv, WaitingFits
  <2>12. \A v \in Workers : v # w =>
           call[p][v].op \notin {"transform", "store"}
    BY <1>4, <2>1 DEF SlotsFitInv, OneRefresh
  <2> HIDE DEF d, array
  <2>13. WaitingFits'
    <3> SUFFICES ASSUME NEW q \in Players
                 PROVE  /\ \A r \in Requests : tempKey[q][r] # Absent =>
                             temp'[q] # Absent
                             /\ FitsShare(temp'[q], tempKey[q][r])
                        /\ \A v \in Workers : call'[q][v].op = "store" =>
                             temp'[q] # Absent
                             /\ FitsShare(temp'[q], NewShare(call'[q][v]))
      BY <1>1 DEF WaitingFits
    <3>1. CASE q = p
      BY <3>1, <2>3, <2>7, <2>8, <2>10, <2>11, <2>12
    <3>2. CASE q # p
      BY <3>2, <2>3, <2>10 DEF SlotsFitInv, WaitingFits
    <3> QED
      BY <3>1, <3>2
  <2>14. OneWaits'
    BY <1>1, <2>3, <2>11 DEF SlotsFitInv, OneWaits
  <2>15. LoadedIsCurrent'
    BY <1>1, <2>3, <2>4, <2>6 DEF SlotsFitInv, LoadedIsCurrent
  <2>16. OneRefresh'
    BY <2>3, <2>12 DEF SlotsFitInv, OneRefresh
  <2> QED
    BY <1>2, <2>13, <2>14, <2>15, <2>16 DEF SlotsFitInv
<1> QED
  BY <1>3, <1>4

LEMMA StoreTemporaryKeyFits ==
  ASSUME TypeOK, SlotsFitInv, NEW p \in Players, NEW w \in Workers,
         StoreTemporaryKey(p, w)
  PROVE  SlotsFitInv'
<1> SUFFICES ASSUME NEW c, c = call[p][w]
             PROVE  SlotsFitInv'
  OBVIOUS
<1>1. UNCHANGED <<share, slots, temp>> /\ c.op = "store"
  BY DEF StoreTemporaryKey, DeleteRefreshKeySeeds
<1>2. SlotsFit'
  BY <1>1 DEF SlotsFitInv, SlotsFit
<1>3. c.req \in Requests
  BY <1>1, CallFields
<1>4. \A r \in Requests : tempKey[p][r] = Absent
  BY <1>1 DEF SlotsFitInv, OneWaits
<1>5. \A q \in Players : \A r \in Requests :
        tempKey'[q][r] = IF q = p /\ r = c.req THEN NewShare(c)
                         ELSE tempKey[q][r]
  BY <1>3, <1>4 DEF StoreTemporaryKey, TypeOK
<1>6. \A q \in Players, v \in Workers :
        call'[q][v] = IF q = p /\ v = w THEN Idle ELSE call[q][v]
  BY CallOf DEF StoreTemporaryKey, Return
<1>7. \A v \in Workers : v # w => call[p][v].op \notin {"transform", "store"}
  BY <1>1 DEF SlotsFitInv, OneRefresh
<1>8. Idle.op = "idle"
  BY DEF Idle
<1>9. temp[p] # Absent /\ FitsShare(temp[p], NewShare(c))
  BY <1>1 DEF SlotsFitInv, WaitingFits
<1>10. WaitingFits'
  <2> SUFFICES ASSUME NEW q \in Players
               PROVE  /\ \A r \in Requests : tempKey'[q][r] # Absent =>
                           temp[q] # Absent
                           /\ FitsShare(temp[q], tempKey'[q][r])
                      /\ \A v \in Workers : call'[q][v].op = "store" =>
                           temp[q] # Absent
                           /\ FitsShare(temp[q], NewShare(call'[q][v]))
    BY <1>1 DEF WaitingFits
  <2>1. CASE q = p
    BY <2>1, <1>4, <1>5, <1>6, <1>7, <1>8, <1>9
  <2>2. CASE q # p
    BY <2>2, <1>5, <1>6 DEF SlotsFitInv, WaitingFits
  <2> QED
    BY <2>1, <2>2
<1>11. OneWaits'
  BY <1>4, <1>5, <1>6, <1>7, <1>8 DEF SlotsFitInv, OneWaits
<1>12. LoadedIsCurrent'
  BY <1>1, <1>6, <1>8 DEF SlotsFitInv, LoadedIsCurrent
<1>13. OneRefresh'
  BY <1>6, <1>7, <1>8 DEF SlotsFitInv, OneRefresh
<1> QED
  BY <1>2, <1>10, <1>11, <1>12, <1>13 DEF SlotsFitInv

LEMMA RefreshKeyFastAckFits ==
  ASSUME Serial, TypeOK, SlotsFitInv, NEW p \in Players, NEW r \in Requests,
         RefreshKeyFastAck(p, r)
  PROVE  SlotsFitInv'
<1>1. /\ temp[p] # Absent /\ FitsShare(temp[p], tempKey[p][r])
      /\ \A s \in Requests : s # r => tempKey[p][s] = Absent
  BY DEF RefreshKeyFastAck, SlotsFitInv, WaitingFits, OneWaits
<1>2. \A v \in Workers : call[p][v].op \notin {"transform", "store"}
  BY DEF RefreshKeyFastAck, MayRefresh, Refreshing
<1>3. UNCHANGED call
  BY DEF RefreshKeyFastAck
<1>4. \A q \in Players :
        /\ share'[q] = IF q = p THEN tempKey[p][r] ELSE share[q]
        /\ slots'[q] = IF q = p THEN temp[p] ELSE slots[q]
        /\ temp'[q] = IF q = p THEN Absent ELSE temp[q]
  BY <1>1 DEF RefreshKeyFastAck, Commit, TypeOK
<1>5. \A q \in Players, s \in Requests :
        tempKey'[q][s] = IF q = p /\ s = r THEN Absent ELSE tempKey[q][s]
  BY DEF RefreshKeyFastAck, TypeOK
<1>6. \A s \in Requests : tempKey'[p][s] = Absent
  BY <1>1, <1>5
<1>7. SlotsFit'
  BY <1>1, <1>4 DEF SlotsFitInv, SlotsFit
<1>8. WaitingFits'
  <2> SUFFICES ASSUME NEW q \in Players
               PROVE  /\ \A s \in Requests : tempKey'[q][s] # Absent =>
                           temp'[q] # Absent
                           /\ FitsShare(temp'[q], tempKey'[q][s])
                      /\ \A v \in Workers : call[q][v].op = "store" =>
                           temp'[q] # Absent
                           /\ FitsShare(temp'[q], NewShare(call[q][v]))
    BY <1>3 DEF WaitingFits
  <2>1. CASE q = p
    BY <2>1, <1>2, <1>6
  <2>2. CASE q # p
    BY <2>2, <1>4, <1>5 DEF SlotsFitInv, WaitingFits
  <2> QED
    BY <2>1, <2>2
<1>9. OneWaits'
  BY <1>3, <1>5 DEF SlotsFitInv, OneWaits
<1>10. LoadedIsCurrent'
  BY <1>2, <1>3, <1>4 DEF SlotsFitInv, LoadedIsCurrent
<1>11. OneRefresh'
  BY <1>3 DEF SlotsFitInv, OneRefresh
<1> QED
  BY <1>7, <1>8, <1>9, <1>10, <1>11 DEF SlotsFitInv

LEMMA CancelRefreshKeyFits ==
  ASSUME TypeOK, SlotsFitInv, NEW p \in Players, NEW r \in Requests,
         CancelRefreshKey(p, r)
  PROVE  SlotsFitInv'
<1>1. UNCHANGED <<share, slots, temp, call>>
  BY DEF CancelRefreshKey, DeleteRefreshKeySeeds
<1>2. \A q \in Players, s \in Requests :
        tempKey'[q][s] = Absent \/ tempKey'[q][s] = tempKey[q][s]
  BY DEF CancelRefreshKey, TypeOK
<1>3. WaitingFits' /\ OneWaits'
  BY <1>1, <1>2 DEF SlotsFitInv, WaitingFits, OneWaits
<1> QED
  BY <1>1, <1>3 DEF SlotsFitInv, SlotsFit, LoadedIsCurrent, OneRefresh

LEMMA EcdsaSignFits ==
  ASSUME TypeOK, SlotsFitInv, NEW p \in Players, NEW w \in Workers,
         NEW tx \in Txs, NEW x \in Indices, EcdsaSign(p, w, tx, x)
  PROVE  SlotsFitInv'
<1>1. UNCHANGED <<share, slots, temp, tempKey>>
  BY DEF EcdsaSign, stored
<1>2. PICK c : Enter(p, w, c) /\ c.op = "sign"
  BY DEF EcdsaSign
<1> QED
  BY <1>1, <1>2, LeaveFits DEF SlotsFitInv, SlotsFit

LEMMA SignBlockFits ==
  ASSUME TypeOK, SlotsFitInv, NEW p \in Players, NEW w \in Workers,
         SignBlock(p, w)
  PROVE  SlotsFitInv'
<1>1. UNCHANGED <<share, temp, tempKey>> /\ Enter(p, w, Idle)
  BY DEF SignBlock, Return
<1>2. Idle.op \notin {"transform", "store"}
  BY DEF Idle
<1>3. call[p][w].index \in Indices
  BY CallFields DEF SignBlock
<1>4. slots' = slots \/
      slots' = [slots EXCEPT ![p] = [slots[p] EXCEPT ![call[p][w].index] = Absent]]
  BY DEF SignBlock, Consume, TypeOK
<1>5. FitsShare([slots[p] EXCEPT ![call[p][w].index] = Absent], share[p])
  BY <1>3, ConsumedFits DEF SlotsFitInv, SlotsFit, TypeOK
<1>6. SlotsFit'
  BY <1>1, <1>4, <1>5 DEF SlotsFitInv, SlotsFit, TypeOK
<1> QED
  BY <1>1, <1>2, <1>6, LeaveFits DEF SlotsFitInv

LEMMA InterruptFits ==
  ASSUME TypeOK, SlotsFitInv, NEW p \in Players, NEW w \in Workers,
         Interrupt(p, w)
  PROVE  SlotsFitInv'
<1>1. UNCHANGED <<share, slots, temp, tempKey>> /\ Enter(p, w, Idle)
  BY DEF Interrupt, Return, stored
<1>2. Idle.op \notin {"transform", "store"}
  BY DEF Idle
<1> QED
  BY <1>1, <1>2, LeaveFits DEF SlotsFitInv, SlotsFit

\* Every step keeps the invariant.
LEMMA NextFits ==
  ASSUME Serial
  PROVE  TypeOK /\ SlotsFitInv /\ [Next]_vars => SlotsFitInv'
<1> SUFFICES ASSUME TypeOK, SlotsFitInv, [Next]_vars
             PROVE  SlotsFitInv'
  OBVIOUS
<1>1. CASE UNCHANGED vars
  BY <1>1 DEF vars, SlotsFitInv, SlotsFit, WaitingFits, OneWaits,
     LoadedIsCurrent, OneRefresh
<1>2. CASE Next
  BY <1>2, RefreshKeyRequestFits, RefreshKeyFits, TransformFits,
     StoreTemporaryKeyFits, RefreshKeyFastAckFits, CancelRefreshKeyFits,
     EcdsaSignFits, SignBlockFits, InterruptFits DEF Next, Refresh, Sign
<1> QED
  BY <1>1, <1>2

\* When a host runs one refresh handler of a player at a time, the stored
\* presignatures fit the share after any number of refreshes, cancelled,
\* interrupted and repeated in any order, while others are consumed.
THEOREM PresignaturesFit ==
  ASSUME Serial
  PROVE  Spec => []SlotsFit
<1>1. Init => TypeOK /\ SlotsFitInv
  BY InitType, InitFit
<1>2. TypeOK /\ SlotsFitInv /\ [Next]_vars => TypeOK' /\ SlotsFitInv'
  BY NextType, NextFits
<1>3. SlotsFitInv => SlotsFit
  BY DEF SlotsFitInv
<1> QED
  BY <1>1, <1>2, <1>3, PTL DEF Spec
-----------------------------------------------------------------------------
(* What is signed when the host keeps refreshes and signatures apart        *)

LEMMA InitApart == Init => ApartInv
BY DEF Init, ApartInv, SigningIsSettled, SpentIsGone, UsesFit, UsedByAll,
       SignaturesVerify, SingleUse, Idle

\* What depends on nothing but what was signed.
LEMMA UsesApart ==
  ASSUME ApartInv, UNCHANGED uses
  PROVE  UsesFit' /\ SignaturesVerify' /\ SingleUse' /\ \A p \in Players : Signed(p)' = Signed(p)
BY DEF ApartInv, UsesFit, SignaturesVerify, SingleUse, Signed

\* Players that are settled stay so while no refresh handler starts.
LEMMA SettledStays ==
  ASSUME TypeOK, Settled, NEW p \in Players, NEW w \in Workers, NEW c,
         Enter(p, w, c), c.op \notin {"transform", "store"},
         UNCHANGED <<share, temp>>
  PROVE  Settled'
<1>1. \A q \in Players, v \in Workers :
        call'[q][v] = IF q = p /\ v = w THEN c ELSE call[q][v]
  BY CallOf
<1>2. \A q \in Players, v \in Workers :
        call'[q][v].op \notin {"transform", "store"}
  BY <1>1 DEF Settled, Refreshing
<1> QED
  BY <1>2 DEF Settled, Refreshing

\* A worker that leaves its handler, or begins to sign where it may.
LEMMA LeaveApart ==
  ASSUME TypeOK, ApartInv, NEW p \in Players, NEW w \in Workers, NEW c,
         Enter(p, w, c), c.op \notin {"transform", "store"},
         c.op = "sign" => Settled /\ c.key = share[p],
         UNCHANGED <<share, temp, slots, uses>>
  PROVE  ApartInv'
<1>1. \A q \in Players, v \in Workers :
        call'[q][v] = IF q = p /\ v = w THEN c ELSE call[q][v]
  BY CallOf
<1>2. Settled => Settled'
  BY SettledStays
<1>3. SigningIsSettled'
  BY <1>1, <1>2 DEF ApartInv, SigningIsSettled
<1>4. SpentIsGone'
  BY DEF ApartInv, SpentIsGone
<1>5. UsedByAll'
  BY <1>2, UsesApart DEF ApartInv, UsedByAll
<1> QED
  BY <1>3, <1>4, <1>5, UsesApart DEF ApartInv

\* A step of a refresh: nobody signs, and every player signed what one did.
LEMMA RefreshApart ==
  ASSUME ApartInv, UNCHANGED uses, SpentIsGone',
         \A q \in Players, v \in Workers : call'[q][v].op # "sign",
         \A q, o \in Players : Signed(q) \subseteq Signed(o)
  PROVE  ApartInv'
<1>1. SigningIsSettled'
  BY DEF SigningIsSettled
<1>2. UsedByAll'
  <2>0. \A q \in Players : Signed(q)' = Signed(q)
    BY UsesApart
  <2> SUFFICES ASSUME NEW q \in Players, NEW o \in Players, NEW u \in uses[o]
               PROVE  <<u.tx, u.index>> \in Signed(q)
    BY <2>0 DEF UsedByAll
  <2>1. <<u.tx, u.index>> \in Signed(o)
    BY DEF Signed
  <2> QED
    BY <2>1
<1> QED
  BY <1>1, <1>2, UsesApart DEF ApartInv

\* While players are not settled nobody signs, and all signed the same.
LEMMA UnsettledApart ==
  ASSUME ApartInv, ~Settled
  PROVE  /\ \A q \in Players, v \in Workers : call[q][v].op # "sign"
         /\ \A q, o \in Players : Signed(q) \subseteq Signed(o)
<1>1. \A q \in Players, v \in Workers : call[q][v].op # "sign"
  BY DEF ApartInv, SigningIsSettled
<1>2. ASSUME NEW q \in Players, NEW o \in Players, NEW s \in Signed(q)
      PROVE  s \in Signed(o)
  <2>1. PICK u \in uses[q] : s = <<u.tx, u.index>>
    BY DEF Signed
  <2> QED
    BY <2>1 DEF ApartInv, UsedByAll
<1> QED
  BY <1>1, <1>2

LEMMA RefreshKeyApart ==
  ASSUME Quiet, TypeOK, ApartInv, NEW p \in Players, NEW w \in Workers,
         NEW r \in Requests, RefreshKey(p, w, r)
  PROVE  ApartInv'
<1> DEFINE c == [op |-> "transform", req |-> r, key |-> share[p]]
<1>1. NobodySigns /\ UNCHANGED <<slots, temp, uses>> /\ Enter(p, w, c)
  BY DEF RefreshKey, stored
<1>2. \A q \in Players, v \in Workers :
        call'[q][v] = IF q = p /\ v = w THEN c ELSE call[q][v]
  BY <1>1, CallOf
<1>3. \A q \in Players, v \in Workers : call'[q][v].op # "sign"
  BY <1>1, <1>2 DEF NobodySigns
<1>4. \A q, o \in Players : Signed(q) \subseteq Signed(o)
  BY <1>1 DEF NobodySigns
<1>5. SpentIsGone'
  BY <1>1 DEF ApartInv, SpentIsGone
<1> QED
  BY <1>1, <1>3, <1>4, <1>5, RefreshApart

LEMMA TransformApart ==
  ASSUME TypeOK, ApartInv, NEW p \in Players, NEW w \in Workers,
         Transform(p, w)
  PROVE  ApartInv'
<1> SUFFICES ASSUME NEW c, c = call[p][w]
             PROVE  ApartInv'
  OBVIOUS
<1>1. c.op = "transform" /\ UNCHANGED <<slots, uses>>
  BY DEF Transform
<1>2. c \in [op : {"transform", "store"}, req : Requests, key : Shares]
  BY <1>1, CallFields
<1>3. ~Settled
  BY <1>1 DEF Settled, Refreshing
<1>4. PICK d : Enter(p, w, d) /\ d.op # "sign"
  <2>1. [c EXCEPT !.op = "store"].op # "sign" /\ Idle.op # "sign"
    BY <1>2 DEF Idle
  <2> QED
    BY <2>1 DEF Transform, Return
<1>5. \A q \in Players, v \in Workers :
        call'[q][v] = IF q = p /\ v = w THEN d ELSE call[q][v]
  BY <1>4, CallOf
<1>6. \A q \in Players, v \in Workers : call'[q][v].op # "sign"
  BY <1>3, <1>4, <1>5, UnsettledApart
<1>7. \A q \in Players : temp'[q] = temp[q]
        \/ \A x \in Indices : slots[q][x] = Absent => temp'[q][x] = Absent
  BY DEF Transform, TypeOK
<1>8. \A q \in Players : \A u \in uses[q] : u.index \in Indices
  BY DEF TypeOK
<1>9. SpentIsGone'
  BY <1>1, <1>7, <1>8 DEF ApartInv, SpentIsGone
<1> QED
  BY <1>1, <1>3, <1>6, <1>9, UnsettledApart, RefreshApart

LEMMA StoreTemporaryKeyApart ==
  ASSUME TypeOK, ApartInv, NEW p \in Players, NEW w \in Workers,
         StoreTemporaryKey(p, w)
  PROVE  ApartInv'
<1>1. Enter(p, w, Idle) /\ UNCHANGED <<share, temp, slots, uses>>
  BY DEF StoreTemporaryKey, DeleteRefreshKeySeeds, Return
<1>2. Idle.op = "idle"
  BY DEF Idle
<1> QED
  BY <1>1, <1>2, LeaveApart

LEMMA RefreshKeyFastAckApart ==
  ASSUME TypeOK, SlotsFitInv, ApartInv, NEW p \in Players, NEW r \in Requests,
         RefreshKeyFastAck(p, r)
  PROVE  ApartInv'
<1>1. temp[p] # Absent /\ UNCHANGED <<call, uses>>
  BY DEF RefreshKeyFastAck, SlotsFitInv, WaitingFits
<1>2. ~Settled
  BY <1>1 DEF Settled
<1>3. \A q \in Players :
        /\ slots'[q] = IF q = p THEN temp[p] ELSE slots[q]
        /\ temp'[q] = IF q = p THEN Absent ELSE temp[q]
  BY <1>1 DEF RefreshKeyFastAck, Commit, TypeOK
<1>4. SpentIsGone'
  BY <1>1, <1>3 DEF ApartInv, SpentIsGone
<1> QED
  BY <1>1, <1>2, <1>4, UnsettledApart, RefreshApart

\* Seeds and refreshed shares say nothing about what is signed.
LEMMA ElsewhereApart ==
  ASSUME ApartInv, UNCHANGED <<share, slots, temp, call, uses>>
  PROVE  ApartInv'
<1>1. Settled' = Settled /\ \A p \in Players : Signed(p)' = Signed(p)
  BY DEF Settled, Refreshing, Signed
<1> QED
  BY <1>1 DEF ApartInv, SigningIsSettled, SpentIsGone, UsesFit, UsedByAll,
              SignaturesVerify, SingleUse

LEMMA EcdsaSignApart ==
  ASSUME Quiet, TypeOK, ApartInv, NEW p \in Players, NEW w \in Workers,
         NEW tx \in Txs, NEW x \in Indices, EcdsaSign(p, w, tx, x)
  PROVE  ApartInv'
<1>1. PICK c : Enter(p, w, c) /\ c.op = "sign" /\ c.key = share[p]
  BY DEF EcdsaSign
<1>2. Settled /\ UNCHANGED <<share, temp, slots, uses>>
  BY DEF EcdsaSign, stored
<1> QED
  BY <1>1, <1>2, LeaveApart

LEMMA InterruptApart ==
  ASSUME TypeOK, ApartInv, NEW p \in Players, NEW w \in Workers,
         Interrupt(p, w)
  PROVE  ApartInv'
<1>1. Enter(p, w, Idle) /\ UNCHANGED <<share, temp, slots, uses>>
  BY DEF Interrupt, Return, stored
<1>2. Idle.op = "idle"
  BY DEF Idle
<1> QED
  BY <1>1, <1>2, LeaveApart

\* A presignature is consumed and signs.
LEMMA SignBlockApart ==
  ASSUME TypeOK, SlotsFitInv, ApartInv, NEW p \in Players, NEW w \in Workers,
         SignBlock(p, w)
  PROVE  ApartInv'
<1> SUFFICES ASSUME NEW c, c = call[p][w]
             PROVE  ApartInv'
  OBVIOUS
<1>1. c.op = "sign" /\ Enter(p, w, Idle) /\ UNCHANGED <<share, temp>>
  BY DEF SignBlock, Return
<1>2. c \in [op : {"sign"}, tx : Txs, index : Indices, key : Shares]
  BY <1>1, CallFields
<1>3. Settled /\ c.key = share[p]
  BY <1>1 DEF ApartInv, SigningIsSettled
<1>4. Idle.op = "idle"
  BY DEF Idle
<1>5. CASE ~HasPresignature(p, c.index)
  BY <1>1, <1>4, <1>5, LeaveApart DEF SignBlock
<1>6. ASSUME HasPresignature(p, c.index), NEW u,
             u = [tx |-> c.tx, index |-> c.index, key |-> c.key,
                  sig |-> slots[p][c.index]]
      PROVE  ApartInv'
  <2>1. \A q \in Players, x \in Indices :
          slots'[q][x] = IF q = p /\ x = c.index THEN Absent ELSE slots[q][x]
    <3>1. slots' = [slots EXCEPT ![p][c.index] = Absent]
      BY <1>6 DEF SignBlock, Consume
    <3>2. slots \in [Players -> [Indices -> Presignatures \cup {Absent}]]
      BY DEF TypeOK, Arrays
    <3> QED
      BY <3>1, <3>2
  <2>2. \A q \in Players :
          uses'[q] = IF q = p THEN uses[p] \cup {u} ELSE uses[q]
    <3>1. uses' = [uses EXCEPT ![p] = @ \cup {u}]
      BY <1>6 DEF SignBlock
    <3>2. DOMAIN uses = Players
      BY DEF TypeOK
    <3> QED
      BY <3>1, <3>2
  <2>3. \A q \in Players, v \in Workers :
          call'[q][v] = IF q = p /\ v = w THEN Idle ELSE call[q][v]
    BY <1>1, CallOf
  <2>4. Settled'
    BY <1>1, <1>3, <1>4, SettledStays
  <2>5. /\ u.tx = c.tx /\ u.index = c.index /\ u.key = share[p]
        /\ u.sig = [k |-> u.key, fits |-> u.key]
    <3>1. slots[p][c.index] = [k |-> share[p], fits |-> share[p]]
      BY <1>2, <1>6 DEF HasPresignature, SlotsFitInv, SlotsFit, FitsShare
    <3> QED
      BY <1>3, <1>6, <3>1
  <2>6. \A v \in uses[p] : v.index # u.index
    BY <1>6, <2>5 DEF HasPresignature, ApartInv, SpentIsGone
  <2>7. \A q \in Players : \A v \in uses[q] :
          v.tx = u.tx /\ v.index = u.index => v.key = u.key
    <3> SUFFICES ASSUME NEW q \in Players, NEW v \in uses[q],
                        v.tx = u.tx, v.index = u.index
                 PROVE  v.key = u.key
      OBVIOUS
    <3>1. <<u.tx, u.index>> \notin Signed(p)
      BY <2>6 DEF Signed
    <3> QED
      BY <2>5, <3>1 DEF ApartInv, UsedByAll
  <2>8. \A q \in Players : \A v \in uses[q] : v.index \in Indices
    BY DEF TypeOK
  <2>9. \A q \in Players : share[q] = share[p] /\ temp[q] = Absent
    BY <1>3 DEF Settled
  <2>10. SigningIsSettled'
    BY <1>1, <1>4, <2>3, <2>4 DEF ApartInv, SigningIsSettled
  <2>11. SpentIsGone'
    <3>1. ASSUME NEW q \in Players, NEW v \in uses'[q]
          PROVE  slots'[q][v.index] = Absent
      BY <1>2, <2>1, <2>2, <2>5, <2>8, <3>1 DEF ApartInv, SpentIsGone
    <3> QED
      BY <1>1, <2>9, <3>1 DEF SpentIsGone
  <2>12. UsesFit'
    BY <2>2, <2>5 DEF ApartInv, UsesFit
  <2>13. UsedByAll'
    <3>1. ASSUME NEW q \in Players, NEW o \in Players, NEW v \in uses'[o]
          PROVE  <<v.tx, v.index>> \in Signed(q)' \/ v.key = share'[q]
      <4>1. Signed(q) \subseteq Signed(q)'
        BY <2>2 DEF Signed
      <4>2. CASE v = u
        BY <4>2, <1>1, <2>5, <2>9
      <4>3. CASE v # u
        <5>1. v \in uses[o]
          BY <4>3, <2>2
        <5> QED
          BY <5>1, <4>1, <1>1 DEF ApartInv, UsedByAll
      <4> QED
        BY <4>2, <4>3
    <3> QED
      BY <2>4, <3>1 DEF UsedByAll
  <2>14. \A q, o \in Players : \A v \in uses'[q], z \in uses'[o] :
           (v.tx = z.tx /\ v.index = z.index) => v.key = z.key
    <3> SUFFICES ASSUME NEW q \in Players, NEW o \in Players,
                        NEW v \in uses'[q], NEW z \in uses'[o],
                        v.tx = z.tx, v.index = z.index
                 PROVE  v.key = z.key
      OBVIOUS
    <3>1. (v = u \/ v \in uses[q]) /\ (z = u \/ z \in uses[o])
      BY <2>2
    <3> QED
      BY <3>1, <2>7 DEF ApartInv, SignaturesVerify
  <2>15. SignaturesVerify'
    <3> SUFFICES ASSUME NEW q \in Players, NEW o \in Players,
                        NEW v \in uses'[q], NEW z \in uses'[o],
                        v.tx = z.tx, v.index = z.index
                 PROVE  /\ v.key = z.key /\ v.sig = z.sig
                        /\ v.sig.fits = v.key /\ v.sig.k = v.key
      BY DEF SignaturesVerify
    <3>1. v.key = z.key
      BY <2>14
    <3>2. /\ v.sig = [k |-> v.key, fits |-> v.key]
          /\ z.sig = [k |-> z.key, fits |-> z.key]
      BY <2>12 DEF UsesFit
    <3> QED
      BY <3>1, <3>2
  <2>16. SingleUse'
    BY <2>2, <2>6 DEF ApartInv, SingleUse
  <2> QED
    BY <2>10, <2>11, <2>12, <2>13, <2>15, <2>16 DEF ApartInv
<1> QED
  BY <1>5, <1>6

\* Every step keeps the invariant.
LEMMA NextApart ==
  ASSUME Quiet
  PROVE  TypeOK /\ SlotsFitInv /\ ApartInv /\ [Next]_vars => ApartInv'
<1> SUFFICES ASSUME TypeOK, SlotsFitInv, ApartInv, [Next]_vars
             PROVE  ApartInv'
  OBVIOUS
<1>1. CASE UNCHANGED vars
  BY <1>1, ElsewhereApart DEF vars
<1>2. ASSUME NEW p \in Players, NEW r \in Requests,
             RefreshKeyRequest(p, r) \/ CancelRefreshKey(p, r)
      PROVE  ApartInv'
  BY <1>2, ElsewhereApart
     DEF RefreshKeyRequest, CancelRefreshKey, DeleteRefreshKeySeeds
<1>3. CASE Next
  BY <1>2, <1>3, RefreshKeyApart, TransformApart, StoreTemporaryKeyApart,
     RefreshKeyFastAckApart, EcdsaSignApart, SignBlockApart, InterruptApart
     DEF Next, Refresh, Sign
<1> QED
  BY <1>1, <1>3

\* The strengthened invariant of a host that runs one refresh handler of a
\* player at a time and keeps refreshes and signatures apart.
LEMMA ApartInvariant ==
  ASSUME Serial, Quiet
  PROVE  Spec => []ApartInv
<1>1. Init => TypeOK /\ SlotsFitInv /\ ApartInv
  BY InitType, InitFit, InitApart
<1>2. TypeOK /\ SlotsFitInv /\ ApartInv /\ [Next]_vars
        => TypeOK' /\ SlotsFitInv' /\ ApartInv'
  BY NextType, NextFits, NextApart
<1> QED
  BY <1>1, <1>2, PTL DEF Spec

\* For such a host no R signs twice, whatever is refreshed, cancelled or
\* interrupted in between: no presignature that was consumed comes back with
\* a refreshed array.
THEOREM SpentOnce ==
  ASSUME Serial, Quiet
  PROVE  Spec => []SingleUse
<1>1. ApartInv => SingleUse
  BY DEF ApartInv
<1> QED
  BY <1>1, ApartInvariant, PTL

\* For such a host the partial signatures of one R, which are added up if
\* their R is the same, are made with shares of one key and of one k.
THEOREM PartialSignaturesFit ==
  ASSUME Serial, Quiet
  PROVE  Spec => []SignaturesVerify
<1>1. ApartInv => SignaturesVerify
  BY DEF ApartInv
<1> QED
  BY <1>1, ApartInvariant, PTL
-----------------------------------------------------------------------------
(* A refresh is one step                                                    *)

LEMMA InitAtomic == Init => AtomicInv
BY DEF Init, AtomicInv, WaitsForCurrent, WaitingOffersAll

\* Steps that touch neither shares nor arrays.
LEMMA ElsewhereAtomic ==
  ASSUME AtomicInv, UNCHANGED <<share, slots, temp, tempKey>>
  PROVE  AtomicInv'
BY DEF AtomicInv, WaitsForCurrent, WaitingOffersAll

\* What refresh_key makes of an array has presignatures where that has.
LEMMA RefreshedOffers ==
  ASSUME NEW array \in Arrays, NEW c, c.key \in Shares, c.req \in Requests,
         NEW x \in Indices
  PROVE  [y \in Indices |-> IF array[y] = Absent THEN Absent
                            ELSE Refreshed(array[y], c)][x] = Absent
           <=> array[x] = Absent
<1>1. array[x] # Absent => Refreshed(array[x], c) \in Presignatures
  BY RefreshedType DEF Arrays
<1> QED
  BY <1>1, AbsentAssumption

LEMMA TransformAtomic ==
  ASSUME TypeOK, AtomicInv, NEW p \in Players, NEW w \in Workers,
         Transform(p, w)
  PROVE  AtomicInv'
<1> SUFFICES ASSUME NEW c, c = call[p][w]
             PROVE  AtomicInv'
  OBVIOUS
<1>1. c \in [op : {"transform", "store"}, req : Requests, key : Shares]
  BY CallFields DEF Transform
<1>2. UNCHANGED <<share, slots, tempKey>>
  BY DEF Transform
<1>3. WaitsForCurrent'
  BY <1>2 DEF AtomicInv, WaitsForCurrent
<1> DEFINE array == [x \in Indices |-> IF slots[p][x] = Absent THEN Absent
                                       ELSE Refreshed(slots[p][x], c)]
<1>4. \A x \in Indices : array[x] = Absent <=> slots[p][x] = Absent
  <2>1. slots[p] \in Arrays
    BY DEF TypeOK
  <2> QED
    BY <1>1, <2>1, RefreshedOffers
<1>5. temp' = temp \/ temp' = [temp EXCEPT ![p] = array]
  BY DEF Transform
<1> HIDE DEF array
<1>6. WaitingOffersAll'
  BY <1>2, <1>4, <1>5 DEF AtomicInv, WaitingOffersAll, TypeOK
<1> QED
  BY <1>3, <1>6 DEF AtomicInv

LEMMA StoreTemporaryKeyAtomic ==
  ASSUME TypeOK, SlotsFitInv, AtomicInv, NEW p \in Players, NEW w \in Workers,
         StoreTemporaryKey(p, w)
  PROVE  AtomicInv'
<1> SUFFICES ASSUME NEW c, c = call[p][w]
             PROVE  AtomicInv'
  OBVIOUS
<1>1. c.op = "store" /\ UNCHANGED <<share, slots, temp>>
  BY DEF StoreTemporaryKey, DeleteRefreshKeySeeds
<1>2. c.req \in Requests
  BY <1>1, CallFields
<1>3. NewShare(c) = Append(share[p], c.req)
  BY <1>1 DEF SlotsFitInv, LoadedIsCurrent, NewShare
<1>4. \A q \in Players, r \in Requests :
        \/ tempKey'[q][r] = tempKey[q][r]
        \/ q = p /\ r = c.req /\ tempKey'[q][r] = NewShare(c)
  BY <1>2 DEF StoreTemporaryKey, TypeOK
<1>5. WaitsForCurrent'
  BY <1>1, <1>3, <1>4 DEF AtomicInv, WaitsForCurrent
<1> QED
  BY <1>1, <1>5 DEF AtomicInv, WaitingOffersAll

\* What a commit does: only one share waits, and its array is there.
LEMMA CommitOf ==
  ASSUME TypeOK, SlotsFitInv, AtomicInv, NEW p \in Players, NEW r \in Requests,
         RefreshKeyFastAck(p, r)
  PROVE  /\ temp[p] # Absent
         /\ share' = [share EXCEPT ![p] = Append(@, r)]
         /\ slots' = [slots EXCEPT ![p] = temp[p]]
         /\ temp' = [temp EXCEPT ![p] = Absent]
         /\ \A q \in Players, s \in Requests :
              tempKey'[q][s] = IF q = p THEN Absent ELSE tempKey[q][s]
<1>1. temp[p] # Absent /\ \A s \in Requests : s # r => tempKey[p][s] = Absent
  BY DEF RefreshKeyFastAck, SlotsFitInv, WaitingFits, OneWaits
<1>2. tempKey[p][r] = Append(share[p], r)
  BY DEF RefreshKeyFastAck, AtomicInv, WaitsForCurrent
<1>3. \A q \in Players, s \in Requests :
        tempKey'[q][s] = IF q = p THEN Absent ELSE tempKey[q][s]
  BY <1>1 DEF RefreshKeyFastAck, TypeOK
<1> QED
  BY <1>1, <1>2, <1>3 DEF RefreshKeyFastAck, Commit, TypeOK

LEMMA RefreshKeyFastAckAtomic ==
  ASSUME TypeOK, SlotsFitInv, AtomicInv, NEW p \in Players, NEW r \in Requests,
         RefreshKeyFastAck(p, r)
  PROVE  AtomicInv'
<1>1. \A q \in Players :
        /\ share'[q] = IF q = p THEN Append(share[p], r) ELSE share[q]
        /\ slots'[q] = IF q = p THEN temp[p] ELSE slots[q]
        /\ temp'[q] = IF q = p THEN Absent ELSE temp[q]
  <2>1. DOMAIN share = Players /\ DOMAIN slots = Players /\ DOMAIN temp = Players
    BY DEF TypeOK
  <2>2. /\ share' = [share EXCEPT ![p] = Append(share[p], r)]
        /\ slots' = [slots EXCEPT ![p] = temp[p]]
        /\ temp' = [temp EXCEPT ![p] = Absent]
    BY CommitOf
  <2> QED
    BY <2>1, <2>2
<1>2. WaitsForCurrent'
  BY <1>1, CommitOf DEF AtomicInv, WaitsForCurrent
<1>3. WaitingOffersAll'
  BY <1>1 DEF AtomicInv, WaitingOffersAll
<1> QED
  BY <1>2, <1>3 DEF AtomicInv

LEMMA CancelRefreshKeyAtomic ==
  ASSUME TypeOK, AtomicInv, NEW p \in Players, NEW r \in Requests,
         CancelRefreshKey(p, r)
  PROVE  AtomicInv'
<1>1. UNCHANGED <<share, slots, temp>>
  BY DEF CancelRefreshKey, DeleteRefreshKeySeeds
<1>2. \A q \in Players, s \in Requests :
        tempKey'[q][s] = Absent \/ tempKey'[q][s] = tempKey[q][s]
  BY DEF CancelRefreshKey, TypeOK
<1> QED
  BY <1>1, <1>2 DEF AtomicInv, WaitsForCurrent, WaitingOffersAll

\* A presignature is consumed while no array waits.
LEMMA SignBlockAtomic ==
  ASSUME TypeOK, ApartInv, AtomicInv, NEW p \in Players, NEW w \in Workers,
         SignBlock(p, w)
  PROVE  AtomicInv'
<1>1. \A q \in Players : temp[q] = Absent
  BY DEF SignBlock, ApartInv, SigningIsSettled, Settled
<1>2. UNCHANGED <<share, temp, tempKey>>
  BY DEF SignBlock
<1> QED
  BY <1>1, <1>2 DEF AtomicInv, WaitsForCurrent, WaitingOffersAll

\* Every step keeps the invariant.
LEMMA NextAtomic ==
  TypeOK /\ SlotsFitInv /\ ApartInv /\ AtomicInv /\ [Next]_vars => AtomicInv'
<1> SUFFICES ASSUME TypeOK, SlotsFitInv, ApartInv, AtomicInv, [Next]_vars
             PROVE  AtomicInv'
  OBVIOUS
<1>1. CASE UNCHANGED vars
  BY <1>1, ElsewhereAtomic DEF vars
<1>2. ASSUME NEW p \in Players, NEW w \in Workers,
             \/ Interrupt(p, w)
             \/ \E r \in Requests : RefreshKeyRequest(p, r) \/ RefreshKey(p, w, r)
             \/ \E tx \in Txs, x \in Indices : EcdsaSign(p, w, tx, x)
      PROVE  AtomicInv'
  BY <1>2, ElsewhereAtomic
     DEF Interrupt, RefreshKeyRequest, RefreshKey, EcdsaSign, stored
<1>3. ASSUME NEW p \in Players, NEW r \in Requests, RefreshKeyRequest(p, r)
      PROVE  AtomicInv'
  BY <1>3, ElsewhereAtomic DEF RefreshKeyRequest
<1>4. CASE Next
  BY <1>2, <1>3, <1>4, TransformAtomic, StoreTemporaryKeyAtomic,
     RefreshKeyFastAckAtomic, CancelRefreshKeyAtomic, SignBlockAtomic
     DEF Next, Refresh, Sign
<1> QED
  BY <1>1, <1>4

-----------------------------------------------------------------------------
\* The refinement mapping, named.
OfferedBy(p) == {x \in Indices : slots[p][x] # Absent}
offers == [p \in Players |-> OfferedBy(p)]

LEMMA AtomicInit == Init => Atomic!Init
<1> SUFFICES ASSUME Init PROVE Atomic!Init
  OBVIOUS
<1>1. \A p \in Players, x \in Indices : slots[p][x] # Absent
  <2>1. [k |-> <<>>, fits |-> <<>>] \in Presignatures
    BY DEF Presignatures, Shares
  <2> QED
    BY <2>1, AbsentAssumption DEF Init
<1> QED
  BY <1>1 DEF Init, Atomic!Init

\* Steps that leave shares, slots and what signed alone are stutters.
LEMMA AtomicStutter ==
  ASSUME UNCHANGED <<share, slots, uses>>
  PROVE  UNCHANGED Atomic!vars
BY DEF Atomic!vars

\* The commit is the abstract refresh: nobody signs with only some of the
\* presignatures, and the array it brings offers what the old one did.
LEMMA CommitMaps ==
  ASSUME TypeOK, SlotsFitInv, ApartInv, AtomicInv, NEW p \in Players,
         NEW r \in Requests, RefreshKeyFastAck(p, r)
  PROVE  Atomic!Refresh(p, r)
<1>1. /\ temp[p] # Absent
      /\ share' = [share EXCEPT ![p] = Append(@, r)]
      /\ slots' = [slots EXCEPT ![p] = temp[p]]
  BY CommitOf
<1>2. ~Settled
  BY <1>1 DEF Settled
<1>3. \A q, s \in Players : Signed(q) = Signed(s)
  <2>1. \A q, o \in Players : Signed(q) \subseteq Signed(o)
    BY <1>2, UnsettledApart
  <2> QED
    BY ONLY <2>1
<1>4. \A q \in Players : OfferedBy(q)' = OfferedBy(q)
  <2>1. ASSUME NEW q \in Players PROVE slots'[q] = IF q = p THEN temp[p] ELSE slots[q]
    BY <1>1 DEF TypeOK
  <2>2. \A x \in Indices : temp[p][x] = Absent <=> slots[p][x] = Absent
    BY <1>1 DEF AtomicInv, WaitingOffersAll
  <2> QED
    BY <2>1, <2>2 DEF OfferedBy
<1>5. UNCHANGED offers
  BY <1>4 DEF offers
<1>6. UNCHANGED uses
  BY DEF RefreshKeyFastAck
<1> QED
  BY <1>1, <1>3, <1>5, <1>6
     DEF Atomic!Refresh, Atomic!Signed, Signed, offers, OfferedBy

\* A presignature that is consumed signs with the share all players have.
LEMMA SignBlockMaps ==
  ASSUME TypeOK, SlotsFitInv, ApartInv, NEW p \in Players, NEW w \in Workers,
         SignBlock(p, w), HasPresignature(p, call[p][w].index)
  PROVE  Atomic!Next
<1> SUFFICES ASSUME NEW c, c = call[p][w]
             PROVE  Atomic!Next
  OBVIOUS
<1>1. c.op = "sign" /\ HasPresignature(p, c.index)
  BY DEF SignBlock
<1>2. c \in [op : {"sign"}, tx : Txs, index : Indices, key : Shares]
  BY <1>1, CallFields
<1>3. c.key = share[p] /\ \A q \in Players : share[q] = share[p]
  BY <1>1 DEF ApartInv, SigningIsSettled, Settled
<1>4. slots[p][c.index] = [k |-> share[p], fits |-> share[p]]
  BY <1>1, <1>2 DEF HasPresignature, SlotsFitInv, SlotsFit, FitsShare
<1>5. \A q \in Players, x \in Indices :
        slots'[q][x] = IF q = p /\ x = c.index THEN Absent ELSE slots[q][x]
  <2>1. slots' = [slots EXCEPT ![p][c.index] = Absent]
    BY <1>1 DEF SignBlock, Consume
  <2>2. slots \in [Players -> [Indices -> Presignatures \cup {Absent}]]
    BY DEF TypeOK, Arrays
  <2> QED
    BY <2>1, <2>2
<1>6. \A q \in Players :
        OfferedBy(q)' = IF q = p THEN OfferedBy(p) \ {c.index} ELSE OfferedBy(q)
  BY <1>5 DEF OfferedBy
<1>7. offers' = [offers EXCEPT ![p] = @ \ {c.index}]
  BY <1>6 DEF offers
<1>8. uses' = [uses EXCEPT ![p] = @ \cup
        {[tx |-> c.tx, index |-> c.index, key |-> share[p],
          sig |-> [k |-> share[p], fits |-> share[p]]]}]
  BY <1>1, <1>3, <1>4 DEF SignBlock
<1>9. UNCHANGED share
  BY DEF SignBlock
<1>10. c.index \in offers[p]
  BY <1>1, <1>2 DEF HasPresignature, offers, OfferedBy
<1>11. Atomic!Sign(p, c.tx, c.index)
  BY <1>3, <1>7, <1>8, <1>9, <1>10 DEF Atomic!Sign, offers, OfferedBy
<1> QED
  BY <1>2, <1>11 DEF Atomic!Next

\* Every step is a step of AtomicRefresh or a stutter.
LEMMA AtomicNext ==
  TypeOK /\ SlotsFitInv /\ ApartInv /\ AtomicInv /\ [Next]_vars
    => [Atomic!Next]_(Atomic!vars)
<1> SUFFICES ASSUME TypeOK, SlotsFitInv, ApartInv, AtomicInv, [Next]_vars
             PROVE  Atomic!Next \/ UNCHANGED Atomic!vars
  OBVIOUS
<1>1. CASE UNCHANGED vars
  BY <1>1, AtomicStutter DEF vars
<1>2. ASSUME NEW p \in Players, NEW r \in Requests, RefreshKeyFastAck(p, r)
      PROVE  Atomic!Next
  BY <1>2, CommitMaps DEF Atomic!Next
<1>3. ASSUME NEW p \in Players, NEW w \in Workers, SignBlock(p, w)
      PROVE  Atomic!Next \/ UNCHANGED Atomic!vars
  <2>1. CASE HasPresignature(p, call[p][w].index)
    BY <1>3, <2>1, SignBlockMaps
  <2>2. CASE ~HasPresignature(p, call[p][w].index)
    BY <1>3, <2>2, AtomicStutter DEF SignBlock
  <2> QED
    BY <2>1, <2>2
<1>4. ASSUME NEW p \in Players, NEW r \in Requests,
             RefreshKeyRequest(p, r) \/ CancelRefreshKey(p, r)
      PROVE  UNCHANGED Atomic!vars
  BY <1>4, AtomicStutter DEF RefreshKeyRequest, CancelRefreshKey
<1>5. ASSUME NEW p \in Players, NEW w \in Workers,
             \/ Transform(p, w) \/ StoreTemporaryKey(p, w) \/ Interrupt(p, w)
             \/ \E r \in Requests : RefreshKey(p, w, r)
             \/ \E tx \in Txs, x \in Indices : EcdsaSign(p, w, tx, x)
      PROVE  UNCHANGED Atomic!vars
  BY <1>5, AtomicStutter
     DEF Transform, StoreTemporaryKey, Interrupt, RefreshKey, EcdsaSign, stored
<1>6. CASE Next
  BY <1>2, <1>3, <1>4, <1>5, <1>6 DEF Next, Refresh, Sign
<1> QED
  BY <1>1, <1>6

\* For a host that runs one refresh handler of a player at a time and keeps
\* refreshes and signatures apart, a refresh is one step: it changes the share
\* and keeps the presignatures, however many handlers were cancelled or stopped.
THEOREM RefreshRefinement ==
  ASSUME Serial, Quiet
  PROVE  Spec => RefreshIsAtomic
<1>1. Init => TypeOK /\ SlotsFitInv /\ ApartInv /\ AtomicInv /\ Atomic!Init
  BY InitType, InitFit, InitApart, InitAtomic, AtomicInit
<1>2. TypeOK /\ SlotsFitInv /\ ApartInv /\ AtomicInv /\ [Next]_vars
        => /\ TypeOK' /\ SlotsFitInv' /\ ApartInv' /\ AtomicInv'
           /\ [Atomic!Next]_(Atomic!vars)
  BY NextType, NextFits, NextApart, NextAtomic, AtomicNext
<1> QED
  BY <1>1, <1>2, PTL DEF Spec, RefreshIsAtomic, Atomic!Spec
=============================================================================

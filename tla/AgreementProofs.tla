--------------------------- MODULE AgreementProofs ---------------------------
(***************************************************************************)
(* What presigning keeps for every value of the constants of               *)
(* OfflinePresigning, whatever is interrupted or cancelled, on a host that *)
(* runs one handler at a time per request: the ack of a request never      *)
(* changes, and presignatures published under one R fit together.          *)
(***************************************************************************)
EXTENDS OfflinePresigningProofs

-----------------------------------------------------------------------------
(* Acks.  offline_mta_response checks that there is no ack and stores it in *)
(* two persistency calls: no other handler stores one in between.           *)

\* Between the check and the store there is no ack.
AckPending ==
  \A p \in Players, w \in Workers :
    call[p][w].op = "ack" => metadata[p][call[p][w].req] \in {Absent, Zero}

AckInv == OnePerRequest /\ AckPending

LEMMA InitAck == Init => AckInv
BY DEF Init, AckInv, OnePerRequest, AckPending, InRequest, Idle

\* Steps of a worker that do not write metadata.
LEMMA EnterAck ==
  ASSUME Serial, TypeOK, AckInv, UNCHANGED metadata,
         NEW p \in Players, NEW w \in Workers, NEW c, Enter(p, w, c),
         c.op \notin {"idle", "sign"} =>
           InRequest(p, w, c.req) \/ ~Busy(p, c.req),
         c.op = "ack" => metadata[p][c.req] \in {Absent, Zero}
  PROVE  AckInv'
<1>1. OnePerRequest'
  BY EnterOne DEF TypeOK, AckInv
<1>2. \A q \in Players : \A v \in Workers :
        call'[q][v] = IF q = p /\ v = w THEN c ELSE call[q][v]
  BY DEF TypeOK, CallsOK, Enter
<1>3. AckPending'
  BY <1>2 DEF AckInv, AckPending
<1> QED
  BY <1>1, <1>3 DEF AckInv

\* Leaving a handler, whether or not the request is deleted.
LEMMA ReturnAck ==
  ASSUME Serial, TypeOK, AckInv,
         NEW p \in Players, NEW w \in Workers, Return(p, w),
         \/ UNCHANGED metadata
         \/ \E r \in Requests : metadata' = [metadata EXCEPT ![p][r] = Absent]
  PROVE  AckInv'
<1>1. Enter(p, w, Idle) /\ Idle.op = "idle"
  BY DEF Return, Idle
<1>2. OnePerRequest'
  BY <1>1, EnterOne DEF TypeOK, AckInv
<1>3. \A q \in Players : \A v \in Workers :
        call'[q][v] = IF q = p /\ v = w THEN Idle ELSE call[q][v]
  BY <1>1 DEF TypeOK, CallsOK, Enter
<1>4. \A q \in Players : \A r \in Requests :
        metadata'[q][r] \in {metadata[q][r], Absent}
  <2>1. CASE UNCHANGED metadata
    BY <2>1
  <2>2. ASSUME NEW x \in Requests,
               metadata' = [metadata EXCEPT ![p][x] = Absent]
        PROVE  \A q \in Players : \A r \in Requests :
                 metadata'[q][r] \in {metadata[q][r], Absent}
    BY <2>2 DEF TypeOK
  <2> QED
    BY <2>1, <2>2
<1>5. \A q \in Players : \A v \in Workers :
        call[q][v].op = "ack" => call[q][v].req \in Requests
  BY AckLocals DEF TypeOK, CallsOK
<1>6. AckPending'
  BY <1>1, <1>3, <1>4, <1>5 DEF AckInv, AckPending
<1> QED
  BY <1>2, <1>6 DEF AckInv

LEMMA StartPreprocessingAck ==
  ASSUME Serial, TypeOK, AckInv, NEW p \in Players, NEW w \in Workers,
         NEW r \in Requests, StartPreprocessing(p, w, r)
  PROVE  AckInv'
<1> DEFINE c == [op |-> "start", req |-> r, k |-> starts[p][r] + 1, i |-> 1]
<1>1. /\ Enter(p, w, c) /\ ~Busy(p, r)
      /\ metadata' = [metadata EXCEPT ![p][r] = Zero]
  BY DEF StartPreprocessing, Free
<1>2. OnePerRequest'
  BY <1>1, EnterOne DEF TypeOK, AckInv
<1>3. \A q \in Players : \A v \in Workers :
        call'[q][v] = IF q = p /\ v = w THEN c ELSE call[q][v]
  BY <1>1 DEF TypeOK, CallsOK, Enter
<1>4. \A q \in Players : \A x \in Requests :
        metadata'[q][x] \in {metadata[q][x], Zero}
  BY <1>1 DEF TypeOK
<1>5. \A q \in Players : \A v \in Workers :
        call[q][v].op = "ack" => call[q][v].req \in Requests
  BY AckLocals DEF TypeOK, CallsOK
<1>6. AckPending'
  BY <1>3, <1>4, <1>5 DEF AckInv, AckPending
<1> QED
  BY <1>2, <1>6 DEF AckInv

\* The only other worker that could be between check and store would be in
\* the same request.
LEMMA StoreAckAck ==
  ASSUME Serial, TypeOK, AckInv, NEW p \in Players, NEW w \in Workers,
         StoreAck(p, w)
  PROVE  AckInv'
<1> DEFINE c == call[p][w]
           next == [op |-> "respond", req |-> c.req, i |-> 1, block |-> Absent,
                    answer |-> [by |-> p, n |-> answered[p][c.req] + 1,
                                to |-> c.to], out |-> <<>>]
<1>1. /\ c.op = "ack" /\ Enter(p, w, next)
      /\ metadata' = [metadata EXCEPT ![p][c.req] = c.to]
  BY DEF StoreAck
<1>2. next.op = "respond" /\ next.req = c.req /\ InRequest(p, w, c.req)
  BY <1>1 DEF InRequest
<1> HIDE DEF next
<1>3. OnePerRequest'
  BY <1>1, <1>2, EnterOne DEF TypeOK, AckInv
<1>4. \A q \in Players : \A v \in Workers :
        call'[q][v] = IF q = p /\ v = w THEN next ELSE call[q][v]
  BY <1>1 DEF TypeOK, CallsOK, Enter
<1>5. \A q \in Players : \A x \in Requests :
        (q # p \/ x # c.req) => metadata'[q][x] = metadata[q][x]
  BY <1>1 DEF TypeOK
<1>6. c.req \in Requests
  BY <1>1, AckLocals DEF TypeOK, CallsOK
<1>7. ASSUME NEW q \in Players, NEW v \in Workers, call'[q][v].op = "ack"
      PROVE  metadata'[q][call'[q][v].req] \in {Absent, Zero}
  <2>1. call'[q][v] = call[q][v] /\ ~(q = p /\ v = w)
    BY <1>2, <1>4, <1>7
  <2>2. call[q][v].req \in Requests
    BY <1>7, <2>1, AckLocals DEF TypeOK, CallsOK
  <2>3. q # p \/ call[q][v].req # c.req
    BY <1>2, <1>6, <1>7, <2>1 DEF AckInv, OnePerRequest, InRequest
  <2> QED
    BY <1>5, <1>7, <2>1, <2>2, <2>3 DEF AckInv, AckPending
<1> QED
  BY <1>3, <1>7 DEF AckInv, AckPending

\* A loop that goes on: the handler and its request stay.
LEMMA LoopAck ==
  ASSUME Serial, TypeOK, AckInv, UNCHANGED metadata,
         NEW p \in Players, NEW w \in Workers, NEW c, Enter(p, w, c),
         c.op = call[p][w].op, c.op # "ack",
         c.op # "sign" => c.req = call[p][w].req
  PROVE  AckInv'
<1>1. c.op \notin {"idle", "sign"} => InRequest(p, w, c.req)
  BY DEF InRequest
<1> QED
  BY <1>1, EnterAck

\* Loading a block changes no other local of the loop.
LEMMA LoadedFields ==
  ASSUME NEW p, NEW c, CallOK(p, c), c.op \in {"respond", "verify", "publish"},
         NEW b, NEW e, e = [c EXCEPT !.block = b]
  PROVE  /\ e.op = c.op /\ e.req = c.req /\ e.i = c.i /\ e.block = b
         /\ c.op = "verify" => e.out = c.out
<1>1. CASE c.op = "respond"
  BY <1>1, RespondLocals DEF RespondCalls
<1>2. CASE c.op = "verify"
  BY <1>2, VerifyLocals DEF VerifyCalls
<1>3. CASE c.op = "publish"
  BY <1>3, PublishLocals DEF PublishCalls
<1> QED
  BY <1>1, <1>2, <1>3

LEMMA ContinueAck ==
  ASSUME Serial, TypeOK, AckInv, NEW p \in Players, NEW w \in Workers,
         Continue(p, w)
  PROVE  AckInv'
<1> DEFINE c == call[p][w]
<1>1. CallOK(p, c)
  BY DEF TypeOK, CallsOK
<1>2. CASE CreateMtaRequest(p, w)
  <2>1. c \in StartCalls(c.req)
    BY <1>1, <1>2, StartLocals DEF CreateMtaRequest
  <2>2. PICK next : Enter(p, w, next) /\ next = [c EXCEPT !.i = @ + 1]
    BY <1>2 DEF CreateMtaRequest
  <2>3. next.op = c.op /\ next.req = c.req /\ c.op = "start"
    BY <2>1, <2>2 DEF StartCalls
  <2> QED
    BY <1>2, <2>2, <2>3, LoopAck DEF CreateMtaRequest
<1>3. CASE LoadBlock(p, w)
  <2>1. UNCHANGED metadata /\ c.op \in {"respond", "verify", "publish"}
    BY <1>3 DEF LoadBlock, stored
  <2>2. CASE Return(p, w)
    BY <2>1, <2>2, ReturnAck
  <2>3. CASE ~Return(p, w)
    <3>1. PICK next : /\ Enter(p, w, next)
                      /\ next = [c EXCEPT !.block = data[p][c.req][c.i]]
      BY <1>3, <2>3 DEF LoadBlock
    <3>2. next.op = c.op /\ next.req = c.req
      BY <1>1, <2>1, <3>1, LoadedFields
    <3> QED
      BY <2>1, <3>1, <3>2, LoopAck
  <2> QED
    BY <2>2, <2>3
<1>4. CASE CreateMtaResponse(p, w)
  <2>1. c \in RespondCalls(c.req, c.i)
    BY <1>1, <1>4, RespondLocals DEF CreateMtaResponse
  <2>2. PICK next : /\ Enter(p, w, next)
                    /\ next = [c EXCEPT !.i = @ + 1, !.block = Absent,
                                 !.out = Append(@, [k |-> c.block.k,
                                                    gproofs |-> c.block.gproofs])]
    BY <1>4 DEF CreateMtaResponse
  <2>3. next.op = c.op /\ next.req = c.req /\ c.op = "respond"
    BY <2>1, <2>2 DEF RespondCalls
  <2> QED
    BY <1>4, <2>2, <2>3, LoopAck DEF CreateMtaResponse
<1>5. CASE MtaVerify(p, w)
  <2>1. c \in VerifyCalls(c.req, c.i) /\ UNCHANGED metadata
    BY <1>1, <1>5, VerifyLocals DEF MtaVerify
  <2>2. CASE Return(p, w)
    BY <2>1, <2>2, ReturnAck
  <2>3. CASE ~Return(p, w)
    <3> DEFINE b == c.block
               ranges == \A q \in Others(p) : AnswersMe(p, b, c.resps[q])
               new == [b EXCEPT !.gcom = FALSE,
                        !.alphas = Append(@, [q \in Players |-> c.resps[q].answer])]
               next == [c EXCEPT !.i = @ + 1, !.block = Absent,
                                 !.ok = @ /\ ranges, !.out = Append(@, new)]
    <3>1. Enter(p, w, next)
      BY <1>5, <2>3 DEF MtaVerify
    <3>2. next.op = c.op /\ next.req = c.req /\ c.op = "verify"
      BY <2>1 DEF VerifyCalls
    <3> HIDE DEF next
    <3> QED
      BY <2>1, <3>1, <3>2, LoopAck
  <2> QED
    BY <2>2, <2>3
<1>6. CASE PublishBlock(p, w)
  <2>1. c \in PublishCalls(p, c.req, c.i) /\ UNCHANGED metadata
    BY <1>1, <1>6, PublishLocals DEF PublishBlock
  <2>2. CASE Return(p, w)
    BY <2>1, <2>2, ReturnAck
  <2>3. CASE ~Return(p, w)
    <3>1. PICK next : /\ Enter(p, w, next)
                      /\ next = [c EXCEPT !.i = @ + 1, !.block = Absent]
      BY <1>6, <2>3 DEF PublishBlock
    <3>2. next.op = c.op /\ next.req = c.req /\ c.op = "publish"
      BY <2>1, <3>1 DEF PublishCalls
    <3> QED
      BY <2>1, <3>1, <3>2, LoopAck
  <2> QED
    BY <2>2, <2>3
<1>7. CASE SignBlock(p, w)
  <2>1. c \in SignCalls /\ c.op = "sign" /\ UNCHANGED metadata
    BY <1>1, <1>7, SignLocals DEF SignBlock
  <2>2. CASE Return(p, w)
    BY <2>1, <2>2, ReturnAck
  <2>3. CASE ~Return(p, w)
    <3>1. PICK next : Enter(p, w, next) /\ next = [c EXCEPT !.i = @ + 1]
      BY <1>7, <2>3 DEF SignBlock
    <3>2. next.op = "sign"
      BY <2>1, <3>1 DEF SignCalls
    <3> QED
      BY <2>1, <3>1, <3>2, LoopAck
  <2> QED
    BY <2>2, <2>3
<1>8. CASE StorePresigningReturn(p, w)
  <2>1. c.req \in Requests
    BY <1>1, <1>8, PublishLocals DEF StorePresigningReturn, LoopLocals
  <2> QED
    BY <1>8, <2>1, ReturnAck DEF StorePresigningReturn, Forget
<1>9. CASE \/ StartReturn(p, w) \/ ResponseReturn(p, w)
           \/ OfflineMtaVerifyReturn(p, w) \/ SignReturn(p, w)
  BY <1>9, ReturnAck DEF StartReturn, ResponseReturn, OfflineMtaVerifyReturn,
     SignReturn, stored
<1> QED
  BY <1>2, <1>3, <1>4, <1>5, <1>6, <1>7, <1>8, <1>9, StoreAckAck DEF Continue

LEMMA BeginAck ==
  ASSUME Serial, TypeOK, AckInv, NEW p \in Players, NEW w \in Workers,
         Begin(p, w)
  PROVE  AckInv'
<1>1. ASSUME NEW r \in Requests, MtaResponse(p, w, r)
      PROVE  AckInv'
  <2>1. PICK view \in Views : Enter(p, w, [op |-> "ack", req |-> r, to |-> view])
    BY <1>1 DEF MtaResponse
  <2>2. UNCHANGED metadata /\ ~Busy(p, r) /\ metadata[p][r] = Zero
    BY <1>1 DEF MtaResponse, Free, NoAckYet, stored
  <2> QED
    BY <2>1, <2>2, EnterAck
<1>2. ASSUME NEW r \in Requests, OfflineMtaVerify(p, w, r)
      PROVE  AckInv'
  BY <1>2, EnterAck DEF OfflineMtaVerify, Free, stored
<1>3. ASSUME NEW r \in Requests, StorePresigningData(p, w, r)
      PROVE  AckInv'
  BY <1>3, EnterAck DEF StorePresigningData, Free, stored
<1>4. ASSUME NEW tx \in Txs, EcdsaSign(p, w, tx)
      PROVE  AckInv'
  BY <1>4, EnterAck DEF EcdsaSign, stored
<1> QED
  BY <1>1, <1>2, <1>3, <1>4, StartPreprocessingAck DEF Begin

LEMMA NextAck ==
  ASSUME Serial, TypeOK, AckInv, Next
  PROVE  AckInv'
<1>1. ASSUME NEW p \in Players, NEW w \in Workers, Interrupt(p, w)
      PROVE  AckInv'
  BY <1>1, ReturnAck DEF Interrupt, stored
<1>2. ASSUME NEW p \in Players, NEW r \in Requests, CancelPreprocessing(p, r)
      PROVE  AckInv'
  <2>1. UNCHANGED call /\ metadata' = [metadata EXCEPT ![p][r] = Absent]
    BY <1>2 DEF CancelPreprocessing, Forget
  <2>2. \A q \in Players : \A x \in Requests :
          metadata'[q][x] \in {metadata[q][x], Absent}
    BY <2>1 DEF TypeOK
  <2>3. \A q \in Players : \A v \in Workers :
          call[q][v].op = "ack" => call[q][v].req \in Requests
    BY AckLocals DEF TypeOK, CallsOK
  <2> QED
    BY <2>1, <2>2, <2>3 DEF AckInv, AckPending, OnePerRequest, InRequest
<1> QED
  BY <1>1, <1>2, BeginAck, ContinueAck DEF Next

\* From such a state no step replaces an ack.
LEMMA NoChange ==
  ASSUME TypeOK, AckPending, Next, NEW p \in Players, NEW r \in Requests,
         metadata[p][r] \notin {Absent, Zero}
  PROVE  metadata'[p][r] \in {metadata[p][r], Absent}
<1>1. ASSUME NEW q \in Players, NEW w \in Workers, Begin(q, w)
      PROVE  metadata'[p][r] \in {metadata[p][r], Absent}
  <2>1. ASSUME NEW x \in Requests, StartPreprocessing(q, w, x)
        PROVE  metadata'[p][r] = metadata[p][r]
    <3>1. metadata[q][x] = Absent /\ metadata' = [metadata EXCEPT ![q][x] = Zero]
      BY <2>1 DEF StartPreprocessing
    <3> QED
      BY <3>1 DEF TypeOK
  <2> QED
    BY <1>1, <2>1 DEF Begin, MtaResponse, OfflineMtaVerify,
       StorePresigningData, EcdsaSign, stored
<1>2. ASSUME NEW q \in Players, NEW w \in Workers, StoreAck(q, w)
      PROVE  metadata'[p][r] \in {metadata[p][r], Absent}
  BY <1>2 DEF StoreAck, AckPending, TypeOK
<1>3. ASSUME NEW q \in Players, NEW w \in Workers, StorePresigningReturn(q, w)
      PROVE  metadata'[p][r] \in {metadata[p][r], Absent}
  BY <1>3 DEF StorePresigningReturn, Forget, TypeOK
<1>4. ASSUME NEW q \in Players, NEW w \in Workers,
             Continue(q, w) \/ Interrupt(q, w)
      PROVE  metadata'[p][r] \in {metadata[p][r], Absent}
  BY <1>2, <1>3, <1>4
  DEF Continue, CreateMtaRequest, StartReturn, LoadBlock, CreateMtaResponse,
      ResponseReturn, MtaVerify, OfflineMtaVerifyReturn, PublishBlock,
      SignBlock, SignReturn, Interrupt, stored
<1>5. ASSUME NEW q \in Players, NEW x \in Requests, CancelPreprocessing(q, x)
      PROVE  metadata'[p][r] \in {metadata[p][r], Absent}
  BY <1>5 DEF CancelPreprocessing, Forget, TypeOK
<1> QED
  BY <1>1, <1>4, <1>5 DEF Next

\* offline_mta_response never replaces the ack of a request, whatever was
\* interrupted, cancelled or started again.
THEOREM AckIsFixed ==
  ASSUME Serial
  PROVE  Spec => AckFixed
<1>1. Init => TypeOK /\ AckInv
  BY InitType, InitAck
<1>2. TypeOK /\ AckInv /\ [Next]_vars => TypeOK' /\ AckInv'
  <2>1. TypeOK /\ AckInv /\ UNCHANGED vars => AckInv'
    BY DEF AckInv, OnePerRequest, AckPending, InRequest, vars
  <2> QED
    BY <2>1, NextType, StutterType, NextAck
<1>3. TypeOK /\ AckInv /\ [Next]_vars =>
        [\A p \in Players, r \in Requests :
           metadata[p][r] \notin {Absent, Zero} =>
             metadata'[p][r] \in {metadata[p][r], Absent}]_vars
  BY NoChange DEF AckInv
<1> QED
  BY <1>1, <1>2, <1>3, PTL DEF Spec, AckFixed

-----------------------------------------------------------------------------
(* Presignatures.  A block only gains answers from the moment its k is      *)
(* drawn, so that of two versions that left the player, in a delta or a     *)
(* presignature, one has the answers of the other; and calc_R lets only     *)
(* versions with a single answer through.  GrowInv is about the versions of *)
(* a block, FitInv about presignatures and the deltas they were made with.  *)

\* A version of a block is its k and the answers subtracted in it.
Version(b) == [k |-> b.k, betas |-> b.betas]

\* The versions of block i a player sent a delta of, or has made of it, a
\* delta or a presignature; and those it still works on.
Sent(p, r, i) ==
  {Version(m.blocks[i]) : m \in {m \in deltas : m.from = p /\ m.req = r}}
Verified(p, w, r, i) ==
  InRequest(p, w, r) /\ call[p][w].op = "verify" /\ i < call[p][w].i
Made(p, r, i) ==
  Sent(p, r, i)
    \cup {Version(call[p][w].out[i]) : w \in {w \in Workers : Verified(p, w, r, i)}}
    \cup {Version(s) : s \in {s \in Published(p) : s.req = r /\ s.block = i}}
Present(p, r, i) ==
  {Version(b) : b \in {data[p][r][i]} \ {Absent}}
    \cup {Version(call[p][w].block) :
           w \in {w \in Workers : Holds(p, w, r) /\ call[p][w].i = i}}

\* What a worker holds is what is stored, unless the request was cancelled.
HeldIsStored ==
  \A p \in Players, w \in Workers, r \in Requests : Holds(p, w, r) =>
    data[p][r][call[p][w].i] \in {Absent, call[p][w].block}

\* Answers are only added to a block, and nothing was made of one that is
\* yet to be drawn.
DrawnIsKnown ==
  \A p \in Players, r \in Requests :
    /\ \A w \in Workers : Draws(p, w, r) => call[p][w].k <= starts[p][r]
    /\ \A i \in 1 .. Count[r] : \A b \in Made(p, r, i) \cup Present(p, r, i) :
         b.k <= starts[p][r]
DrawsAnew ==
  \A p \in Players, w \in Workers, r \in Requests : Draws(p, w, r) =>
    \A i \in 1 .. Count[r] : call[p][w].i <= i =>
      \A b \in Made(p, r, i) : b.k # call[p][w].k
BetasGrow ==
  \A p \in Players, r \in Requests : \A i \in 1 .. Count[r] :
    \A b \in Made(p, r, i) :
      /\ \A c \in Present(p, r, i) : c.k = b.k => b.betas \subseteq c.betas
      /\ \A c \in Made(p, r, i) : c.k = b.k =>
           b.betas \subseteq c.betas \/ c.betas \subseteq b.betas

\* Deltas that are used were sent; and each presignature was made from one
\* answer of every player, to the k of the others in its R.
DeltasWereSent ==
  \A p \in Players, w \in Workers : call[p][w].op = "publish" =>
    \A q \in Others(p) :
      /\ call[p][w].dels[q] \in deltas
      /\ call[p][w].dels[q].from = q
AnswersR(s, x, a) == \A z \in Others(x) : a.to[z] = s.R[z]
FitsR(p, s) ==
  /\ s.block \in 1 .. Count[s.req] /\ s.k = s.R[p]
  /\ \A q \in Others(p) :
       /\ Len(s.alphas) = 1 /\ AnswersR(s, q, s.alphas[1][q])
       /\ [k |-> s.R[q], betas |-> {s.alphas[1][q]}] \in Sent(q, s.req, s.block)
       /\ \E a \in s.betas : s.betas = {a} /\ AnswersR(s, p, a)
PublishedFits == \A p \in Players : \A s \in Published(p) : FitsR(p, s)

GrowInv == HeldIsStored /\ DrawnIsKnown /\ DrawsAnew /\ BetasGrow
FitInv == DeltasWereSent /\ PublishedFits
AgreementInv == OnePerRequest /\ GrowInv /\ FitInv

LEMMA HeldType ==
  ASSUME TypeOK, NEW p \in Players, NEW w \in Workers, NEW r, Holds(p, w, r)
  PROVE  /\ r \in Requests /\ call[p][w].i \in 1 .. Count[r]
         /\ call[p][w].block \in Blocks
<1> DEFINE c == call[p][w]
<1>1. CallOK(p, c) /\ c.op \in {"respond", "verify", "publish"}
      /\ c.req = r /\ c.block # Absent
  BY DEF TypeOK, CallsOK, Holds, InRequest
<1>2. LoopLocals(c) /\ c.block \in OptionalBlocks
  BY <1>1, RespondLocals, VerifyLocals, PublishLocals
  DEF RespondCalls, VerifyCalls, PublishCalls
<1> QED
  BY <1>1, <1>2, LoadedInRange DEF LoopLocals, OptionalBlocks

LEMMA DrawType ==
  ASSUME TypeOK, NEW p \in Players, NEW w \in Workers, NEW r, Draws(p, w, r)
  PROVE  /\ r \in Requests /\ call[p][w].k \in Nat
         /\ call[p][w].i \in 1 .. Count[r] + 1
BY StartLocals DEF TypeOK, CallsOK, Draws, InRequest, StartCalls, Generations

LEMMA VerifiedType ==
  ASSUME TypeOK, NEW p \in Players, NEW w \in Workers, NEW r,
         NEW i \in 1 .. Count[r], Verified(p, w, r, i)
  PROVE  r \in Requests /\ call[p][w].out[i] \in Blocks
<1> DEFINE c == call[p][w]
<1>1. CallOK(p, c) /\ c.op = "verify" /\ c.req = r /\ i < c.i
  BY DEF TypeOK, CallsOK, Verified, InRequest
<1>2. LoopLocals(c) /\ c.out \in [1 .. c.i - 1 -> Blocks]
  BY <1>1, VerifyLocals DEF VerifyCalls
<1>3. i \in 1 .. c.i - 1
  BY <1>1, <1>2, ConstantsAssumption DEF LoopLocals
<1> QED
  BY <1>1, <1>2, <1>3 DEF LoopLocals

LEMMA SentType ==
  ASSUME TypeOK, NEW p \in Players, NEW r \in Requests,
         NEW i \in 1 .. Count[r], NEW m \in deltas, m.req = r
  PROVE  m.blocks[i] \in Blocks
<1>1. PICK x \in Requests : m \in MtaDeltas(x)
  BY DEF TypeOK
<1> QED
  BY <1>1 DEF MtaDeltas

LEMMA VersionType ==
  ASSUME TypeOK, NEW p \in Players, NEW r \in Requests,
         NEW i \in 1 .. Count[r], NEW b \in Made(p, r, i) \cup Present(p, r, i)
  PROVE  b.k \in Nat
<1>1. \A a \in Blocks : Version(a).k \in Nat
  BY DEF Version, Blocks, Generations
<1>2. \A s \in Published(p) : Version(s).k \in Nat
  BY PublishedType DEF Version, Presignatures, Generations
<1>3. b \in Sent(p, r, i) => b.k \in Nat
  BY <1>1, SentType DEF Sent
<1>4. b \in Made(p, r, i) => b.k \in Nat
  BY <1>1, <1>2, <1>3, VerifiedType DEF Made
<1>5. b \in Present(p, r, i) => b.k \in Nat
  BY <1>1, HeldType, BlockType DEF Present
<1> QED
  BY <1>4, <1>5

\* A step that makes nothing of a block but what is there alone, and adds
\* answers to what is there, or draws anew.
LEMMA GrowStep ==
  ASSUME TypeOK, TypeOK', GrowInv,
         \A q \in Players, r \in Requests : starts[q][r] <= starts'[q][r],
         \A q \in Players, r \in Requests : \A i \in 1 .. Count[r] :
           \A b \in Made(q, r, i)' :
             \/ b \in Made(q, r, i)
             \/ /\ Present(q, r, i) = {b} /\ Present(q, r, i)' \subseteq {b}
                /\ \A v \in Workers : ~Draws(q, v, r)',
         \A q \in Players, r \in Requests : \A i \in 1 .. Count[r] :
           \A c \in Present(q, r, i)' :
             \/ \E d \in Present(q, r, i) : d.k = c.k /\ d.betas \subseteq c.betas
             \/ /\ c.k <= starts'[q][r]
                /\ \A b \in Made(q, r, i) : b.k # c.k,
         \A q \in Players, v \in Workers, r \in Requests : Draws(q, v, r)' =>
           /\ call'[q][v].k <= starts'[q][r]
           /\ \A i \in 1 .. Count[r] : call'[q][v].i <= i =>
                \A b \in Made(q, r, i) : b.k # call'[q][v].k
  PROVE  DrawnIsKnown' /\ DrawsAnew' /\ BetasGrow'
<1>1. DrawnIsKnown'
  <2> SUFFICES ASSUME NEW q \in Players, NEW r \in Requests,
                      NEW i \in 1 .. Count[r],
                      NEW b \in Made(q, r, i)' \cup Present(q, r, i)'
               PROVE  b.k <= starts'[q][r]
    BY DEF DrawnIsKnown
  <2>1. starts[q][r] \in Nat /\ starts'[q][r] \in Nat
    BY DEF TypeOK
  <2>2. \A a \in Made(q, r, i) \cup Present(q, r, i) :
          a.k \in Nat /\ a.k <= starts'[q][r]
    BY <2>1, VersionType DEF GrowInv, DrawnIsKnown
  <2>3. CASE b \in Made(q, r, i)'
    BY <2>2, <2>3
  <2>4. CASE b \in Present(q, r, i)'
    BY <2>2, <2>4
  <2> QED
    BY <2>3, <2>4
<1>2. DrawsAnew'
  BY DEF DrawsAnew
<1>3. BetasGrow'
  <2> SUFFICES ASSUME NEW q \in Players, NEW r \in Requests,
                      NEW i \in 1 .. Count[r], NEW b \in Made(q, r, i)'
               PROVE  /\ \A c \in Present(q, r, i)' :
                           c.k = b.k => b.betas \subseteq c.betas
                      /\ \A c \in Made(q, r, i)' : c.k = b.k =>
                           b.betas \subseteq c.betas \/ c.betas \subseteq b.betas
    BY DEF BetasGrow
  <2>1. /\ \A a \in Made(q, r, i) : \A c \in Present(q, r, i) :
             c.k = a.k => a.betas \subseteq c.betas
        /\ \A a \in Made(q, r, i) : \A c \in Made(q, r, i) : c.k = a.k =>
             a.betas \subseteq c.betas \/ c.betas \subseteq a.betas
    BY DEF GrowInv, BetasGrow
  <2>2. ASSUME NEW c \in Present(q, r, i)', c.k = b.k
        PROVE  b.betas \subseteq c.betas
    <3>1. CASE b \in Made(q, r, i)
      BY <2>1, <2>2, <3>1
    <3>2. CASE b \notin Made(q, r, i)
      BY <2>2, <3>2
    <3> QED
      BY <3>1, <3>2
  <2>3. ASSUME NEW c \in Made(q, r, i)', c.k = b.k
        PROVE  b.betas \subseteq c.betas \/ c.betas \subseteq b.betas
    <3>1. CASE b \in Made(q, r, i) /\ c \in Made(q, r, i)
      BY <2>1, <2>3, <3>1
    <3>2. CASE b \in Made(q, r, i) /\ c \notin Made(q, r, i)
      BY <2>1, <2>3, <3>2
    <3>3. CASE b \notin Made(q, r, i) /\ c \in Made(q, r, i)
      BY <2>1, <2>3, <3>3
    <3>4. CASE b \notin Made(q, r, i) /\ c \notin Made(q, r, i)
      BY <3>4
    <3> QED
      BY <3>1, <3>2, <3>3, <3>4
  <2> QED
    BY <2>2, <2>3
<1> QED
  BY <1>1, <1>2, <1>3

\* Locals that hold, draw and made nothing.
Calm(c) ==
  \/ c.op \in {"idle", "ack", "sign"}
  \/ /\ c.op \in {"respond", "verify", "publish"} /\ c.block = Absent
     /\ c.op = "verify" => c.i = 1

\* A step after which nothing is stored, held or made that was not before,
\* and nothing drawn but what no start has drawn.
DrawsNext(q, c) ==
  c.op = "start" /\ starts[q][c.req] < c.k /\ c.k <= starts'[q][c.req]

LEMMA CalmStep ==
  ASSUME TypeOK, TypeOK', GrowInv,
         \A q \in Players, r \in Requests : starts[q][r] <= starts'[q][r],
         \A q \in Players, v \in Workers :
           \/ call'[q][v] = call[q][v]
           \/ Calm(call'[q][v])
           \/ DrawsNext(q, call'[q][v]),
         \A q \in Players, r \in Requests : \A i \in 1 .. Count[r] :
           data'[q][r][i] \in {data[q][r][i], Absent},
         \A q \in Players : Published(q)' \subseteq Published(q),
         \A q \in Players, r \in Requests : \A i \in 1 .. Count[r] :
           Sent(q, r, i)' \subseteq Made(q, r, i)
  PROVE  GrowInv'
<1>1. \A q \in Players, v \in Workers, r \in Requests :
        /\ Holds(q, v, r)' => Holds(q, v, r) /\ call'[q][v] = call[q][v]
        /\ Draws(q, v, r)' =>
             \/ Draws(q, v, r) /\ call'[q][v] = call[q][v]
             \/ DrawsNext(q, call'[q][v]) /\ call'[q][v].req = r
  BY DEF Holds, Draws, InRequest, Calm, DrawsNext
<1>2. \A q \in Players, v \in Workers, r \in Requests :
        \A i \in 1 .. Count[r] : Verified(q, v, r, i)' =>
          Verified(q, v, r, i) /\ call'[q][v] = call[q][v]
  <2> SUFFICES ASSUME NEW q \in Players, NEW v \in Workers, NEW r \in Requests,
                      NEW i \in 1 .. Count[r], Verified(q, v, r, i)'
               PROVE  call'[q][v] = call[q][v]
    BY DEF Verified, InRequest
  <2>1. i >= 1 /\ i \in Nat
    BY ConstantsAssumption
  <2> QED
    BY <2>1 DEF Verified, InRequest, Calm, DrawsNext
<1>3. \A q \in Players, r \in Requests : \A i \in 1 .. Count[r] :
        Made(q, r, i)' \subseteq Made(q, r, i)
  <2> SUFFICES ASSUME NEW q \in Players, NEW r \in Requests,
                      NEW i \in 1 .. Count[r], NEW b \in Made(q, r, i)'
               PROVE  b \in Made(q, r, i)
    OBVIOUS
  <2>1. CASE b \in Sent(q, r, i)'
    BY <2>1
  <2>2. ASSUME NEW v \in Workers, Verified(q, v, r, i)',
               b = Version(call[q][v].out[i])'
        PROVE  b \in Made(q, r, i)
    <3>1. Verified(q, v, r, i) /\ b = Version(call[q][v].out[i])
      BY <1>2, <2>2 DEF Version
    <3> QED
      BY <3>1 DEF Made
  <2>3. ASSUME NEW s \in Published(q)', s.req = r, s.block = i, b = Version(s)
        PROVE  b \in Made(q, r, i)
    BY <2>3 DEF Made
  <2> QED
    BY <2>1, <2>2, <2>3 DEF Made, Version
<1>4. \A q \in Players, r \in Requests : \A i \in 1 .. Count[r] :
        Present(q, r, i)' \subseteq Present(q, r, i)
  <2> SUFFICES ASSUME NEW q \in Players, NEW r \in Requests,
                      NEW i \in 1 .. Count[r], NEW b \in Present(q, r, i)'
               PROVE  b \in Present(q, r, i)
    OBVIOUS
  <2>1. CASE data'[q][r][i] # Absent /\ b = Version(data'[q][r][i])
    BY <2>1 DEF Present
  <2>2. ASSUME NEW v \in Workers, Holds(q, v, r)', call'[q][v].i = i,
               b = Version(call'[q][v].block)
        PROVE  b \in Present(q, r, i)
    BY <1>1, <2>2 DEF Present
  <2> QED
    BY <2>1, <2>2 DEF Present, Version
<1>5. HeldIsStored'
  <2> SUFFICES ASSUME NEW q \in Players, NEW v \in Workers, NEW r \in Requests,
                      Holds(q, v, r)'
               PROVE  data'[q][r][call'[q][v].i] \in {Absent, call'[q][v].block}
    BY DEF HeldIsStored
  <2>1. Holds(q, v, r) /\ call'[q][v] = call[q][v]
    BY <1>1
  <2>2. call[q][v].i \in 1 .. Count[r]
    BY <2>1, HeldType
  <2>3. data[q][r][call[q][v].i] \in {Absent, call[q][v].block}
    BY <2>1 DEF GrowInv, HeldIsStored
  <2> QED
    BY <2>1, <2>2, <2>3
<1>6. ASSUME NEW q \in Players, NEW v \in Workers, NEW r \in Requests,
             Draws(q, v, r)'
      PROVE  /\ call'[q][v].k <= starts'[q][r]
             /\ \A i \in 1 .. Count[r] : call'[q][v].i <= i =>
                  \A b \in Made(q, r, i) : b.k # call'[q][v].k
  <2>1. CASE Draws(q, v, r) /\ call'[q][v] = call[q][v]
    <3>1. call[q][v].k \in Nat /\ starts[q][r] \in Nat /\ starts'[q][r] \in Nat
      BY <2>1, DrawType DEF TypeOK
    <3>2. call[q][v].k <= starts[q][r] /\ starts[q][r] <= starts'[q][r]
      BY <2>1 DEF GrowInv, DrawnIsKnown
    <3>3. call'[q][v].k <= starts'[q][r]
      BY <2>1, <3>1, <3>2
    <3> QED
      BY <2>1, <3>3 DEF GrowInv, DrawsAnew
  <2>2. CASE DrawsNext(q, call'[q][v]) /\ call'[q][v].req = r
    <3>1. starts[q][r] \in Nat /\ starts[q][r] < call'[q][v].k
      BY <2>2 DEF TypeOK, DrawsNext
    <3>2. ASSUME NEW i \in 1 .. Count[r], NEW b \in Made(q, r, i)
          PROVE  b.k # call'[q][v].k
      BY <3>1, VersionType DEF GrowInv, DrawnIsKnown
    <3> QED
      BY <2>2, <3>2 DEF DrawsNext
  <2> QED
    BY <1>1, <1>6, <2>1, <2>2
<1>7. \A q \in Players, r \in Requests : \A i \in 1 .. Count[r] :
        \A c \in Present(q, r, i)' :
          \E d \in Present(q, r, i) : d.k = c.k /\ d.betas \subseteq c.betas
  BY <1>4
<1>8. DrawnIsKnown' /\ DrawsAnew' /\ BetasGrow'
  BY <1>3, <1>6, <1>7, GrowStep
<1> QED
  BY <1>5, <1>8 DEF GrowInv

LEMMA EnterCalm ==
  ASSUME CallsOK, NEW p \in Players, NEW w \in Workers, NEW c,
         Enter(p, w, c), Calm(c)
  PROVE  \A q \in Players, v \in Workers :
           call'[q][v] = call[q][v] \/ Calm(call'[q][v])
BY DEF CallsOK, Enter

LEMMA StartsKept ==
  ASSUME TypeOK, UNCHANGED starts
  PROVE  \A q \in Players, r \in Requests : starts[q][r] <= starts'[q][r]
BY DEF TypeOK

LEMMA EnterGrow ==
  ASSUME TypeOK, TypeOK', GrowInv, NEW p \in Players, NEW w \in Workers,
         NEW c, Enter(p, w, c), Calm(c),
         UNCHANGED <<data, slots, starts, deltas, uses>>
  PROVE  GrowInv'
<1>1. \A q \in Players, v \in Workers :
        call'[q][v] = call[q][v] \/ Calm(call'[q][v])
  BY EnterCalm DEF TypeOK
<1>2. \A q \in Players : Published(q)' = Published(q)
  BY DEF Published, SlotsOf, UsedBy
<1>3. \A q \in Players, r \in Requests : \A i \in 1 .. Count[r] :
        Sent(q, r, i)' \subseteq Made(q, r, i)
  BY DEF Sent, Made, Version
<1> QED
  BY <1>1, <1>2, <1>3, CalmStep, StartsKept

LEMMA ReturnGrow ==
  ASSUME TypeOK, TypeOK', GrowInv, NEW p \in Players, NEW w \in Workers,
         Return(p, w), UNCHANGED <<data, slots, starts, deltas, uses>>
  PROVE  GrowInv'
<1>1. Enter(p, w, Idle) /\ Calm(Idle)
  BY DEF Return, Calm, Idle
<1> QED
  BY <1>1, EnterGrow

LEMMA OfflineMtaVerifyReturnGrow ==
  ASSUME TypeOK, TypeOK', GrowInv, NEW p \in Players, NEW w \in Workers,
         OfflineMtaVerifyReturn(p, w)
  PROVE  GrowInv'
<1> DEFINE c == call[p][w]
           m == [from |-> p, req |-> c.req, blocks |-> c.out]
<1>1. /\ c.op = "verify" /\ ~More(c) /\ Enter(p, w, Idle)
      /\ deltas' \subseteq deltas \cup {m}
      /\ UNCHANGED <<data, slots, starts, uses>>
  BY DEF OfflineMtaVerifyReturn, Return, stored, counted
<1>2. c.req \in Requests /\ c.i \in 1 .. Count[c.req] + 1
  BY <1>1, VerifyLocals DEF TypeOK, CallsOK, LoopLocals
<1>3. \A i \in 1 .. Count[c.req] : Verified(p, w, c.req, i)
  BY <1>1, <1>2, ConstantsAssumption DEF Verified, InRequest, More
<1>4. \A q \in Players, v \in Workers :
        call'[q][v] = call[q][v] \/ Calm(call'[q][v])
  BY <1>1 DEF TypeOK, CallsOK, Enter, Calm, Idle
<1>5. \A q \in Players : Published(q)' = Published(q)
  BY <1>1 DEF Published, SlotsOf, UsedBy
<1>6. ASSUME NEW q \in Players, NEW r \in Requests, NEW i \in 1 .. Count[r],
             NEW b \in Sent(q, r, i)'
      PROVE  b \in Made(q, r, i)
  <2>1. PICK d \in deltas' : d.from = q /\ d.req = r /\ b = Version(d.blocks[i])
    BY DEF Sent, Version
  <2>2. CASE d \in deltas
    BY <2>1, <2>2 DEF Made, Sent
  <2>3. CASE d = m
    <3>1. q = p /\ r = c.req /\ b = Version(c.out[i])
      BY <2>1, <2>3
    <3> QED
      BY <1>3, <3>1 DEF Made
  <2> QED
    BY <1>1, <2>2, <2>3
<1> QED
  BY <1>1, <1>4, <1>5, <1>6, CalmStep, StartsKept

LEMMA StorePresigningReturnGrow ==
  ASSUME TypeOK, TypeOK', GrowInv, NEW p \in Players, NEW w \in Workers,
         StorePresigningReturn(p, w)
  PROVE  GrowInv'
<1> DEFINE c == call[p][w]
<1>1. /\ c.op = "publish" /\ Enter(p, w, Idle)
      /\ data' = [data EXCEPT ![p][c.req] = NoData(c.req)]
      /\ UNCHANGED <<slots, starts, deltas, uses>>
  BY DEF StorePresigningReturn, Forget, Return, counted, sent
<1>2. c.req \in Requests
  BY <1>1, PublishLocals DEF TypeOK, CallsOK, LoopLocals
<1>3. \A q \in Players, v \in Workers :
        call'[q][v] = call[q][v] \/ Calm(call'[q][v])
  BY <1>1 DEF TypeOK, CallsOK, Enter, Calm, Idle
<1>4. \A q \in Players : Published(q)' = Published(q)
  BY <1>1 DEF Published, SlotsOf, UsedBy
<1>5. \A q \in Players, r \in Requests : \A i \in 1 .. Count[r] :
        data'[q][r][i] \in {data[q][r][i], Absent}
  BY <1>1, <1>2 DEF TypeOK, DataOK, NoData
<1>6. \A q \in Players, r \in Requests : \A i \in 1 .. Count[r] :
        Sent(q, r, i)' \subseteq Made(q, r, i)
  BY <1>1 DEF Sent, Made, Version
<1> QED
  BY <1>1, <1>3, <1>4, <1>5, <1>6, CalmStep, StartsKept

LEMMA CancelPreprocessingGrow ==
  ASSUME TypeOK, TypeOK', GrowInv, NEW p \in Players, NEW x \in Requests,
         CancelPreprocessing(p, x)
  PROVE  GrowInv'
<1>1. /\ data' = [data EXCEPT ![p][x] = NoData(x)]
      /\ UNCHANGED <<slots, call, starts, deltas, uses>>
  BY DEF CancelPreprocessing, Forget, counted, sent
<1>2. \A q \in Players : Published(q)' = Published(q)
  BY <1>1 DEF Published, SlotsOf, UsedBy
<1>3. \A q \in Players, r \in Requests : \A i \in 1 .. Count[r] :
        data'[q][r][i] \in {data[q][r][i], Absent}
  BY <1>1 DEF TypeOK, DataOK, NoData
<1>4. \A q \in Players, r \in Requests : \A i \in 1 .. Count[r] :
        Sent(q, r, i)' \subseteq Made(q, r, i)
  BY <1>1 DEF Sent, Made, Version
<1> QED
  BY <1>1, <1>2, <1>3, <1>4, CalmStep, StartsKept

\* What ecdsa_sign takes out of its slot has signed.
LEMMA SignBlockPublished ==
  ASSUME TypeOK, NEW p \in Players, NEW w \in Workers, SignBlock(p, w)
  PROVE  \A q \in Players : Published(q)' \subseteq Published(q)
<1> DEFINE c == call[p][w]
           x == SlotOf(c)
           u == [tx |-> c.tx, i |-> c.i, sig |-> slots[p][x]]
<1>1. \/ UNCHANGED <<slots, uses>>
      \/ /\ x \in Indices /\ slots[p][x] # Absent
         /\ slots' = [slots EXCEPT ![p][x] = Absent]
         /\ uses' = [uses EXCEPT ![p] = @ \cup {u}]
  BY DEF SignBlock, Consume
<1>2. CASE UNCHANGED <<slots, uses>>
  BY <1>2 DEF Published, SlotsOf, UsedBy
<1>3. CASE /\ x \in Indices /\ slots[p][x] # Absent
           /\ slots' = [slots EXCEPT ![p][x] = Absent]
           /\ uses' = [uses EXCEPT ![p] = @ \cup {u}]
  <2>1. /\ \A q \in Players : \A y \in Indices :
             slots'[q][y] \in {slots[q][y], Absent}
        /\ \A q \in Players : q # p => uses'[q] = uses[q]
        /\ uses'[p] = uses[p] \cup {u}
    BY <1>3 DEF TypeOK
  <2>2. \A q \in Players : SlotsOf(q)' \subseteq SlotsOf(q)
    BY <2>1 DEF SlotsOf
  <2>3. slots[p][x] \in SlotsOf(p) /\ u.sig = slots[p][x]
    BY <1>3 DEF SlotsOf
  <2>4. \A q \in Players : UsedBy(q)' \subseteq UsedBy(q) \cup SlotsOf(q)
    BY <2>1, <2>3 DEF UsedBy
  <2> QED
    BY <2>2, <2>4 DEF Published
<1> QED
  BY <1>1, <1>2, <1>3

LEMMA SignBlockGrow ==
  ASSUME TypeOK, TypeOK', GrowInv, NEW p \in Players, NEW w \in Workers,
         SignBlock(p, w)
  PROVE  GrowInv'
<1> DEFINE c == call[p][w]
           e == [c EXCEPT !.i = @ + 1]
<1>1. c \in SignCalls
  BY SignLocals DEF TypeOK, CallsOK, SignBlock
<1>2. /\ Enter(p, w, e) \/ Enter(p, w, Idle)
      /\ UNCHANGED <<data, starts, deltas>>
  BY DEF SignBlock, Return, counted, sent
<1>3. Calm(e) /\ Calm(Idle)
  BY <1>1 DEF SignCalls, Calm, Idle
<1> HIDE DEF e
<1>4. \A q \in Players, v \in Workers :
        call'[q][v] = call[q][v] \/ Calm(call'[q][v])
  BY <1>2, <1>3, EnterCalm DEF TypeOK
<1>5. \A q \in Players, r \in Requests : \A i \in 1 .. Count[r] :
        Sent(q, r, i)' \subseteq Made(q, r, i)
  BY <1>2 DEF Sent, Made, Version
<1> QED
  BY <1>2, <1>4, <1>5, SignBlockPublished, CalmStep, StartsKept

LEMMA StartPreprocessingGrow ==
  ASSUME TypeOK, TypeOK', GrowInv, NEW p \in Players, NEW w \in Workers,
         NEW r \in Requests, StartPreprocessing(p, w, r)
  PROVE  GrowInv'
<1> DEFINE n == starts[p][r] + 1
           c == [op |-> "start", req |-> r, k |-> n, i |-> 1]
<1>1. /\ Enter(p, w, c) /\ starts' = [starts EXCEPT ![p][r] = @ + 1]
      /\ UNCHANGED <<data, slots, deltas, uses>>
  BY DEF StartPreprocessing, sent
<1>2. /\ \A q \in Players, x \in Requests : starts[q][x] <= starts'[q][x]
      /\ starts[p][r] < n /\ n <= starts'[p][r]
  BY <1>1 DEF TypeOK
<1>3. DrawsNext(p, c)
  BY <1>2 DEF DrawsNext
<1> HIDE DEF c
<1>4. \A q \in Players, v \in Workers :
        \/ call'[q][v] = call[q][v]
        \/ DrawsNext(q, call'[q][v])
  BY <1>1, <1>3 DEF TypeOK, CallsOK, Enter
<1>5. \A q \in Players : Published(q)' = Published(q)
  BY <1>1 DEF Published, SlotsOf, UsedBy
<1>6. \A q \in Players, x \in Requests : \A i \in 1 .. Count[x] :
        Sent(q, x, i)' \subseteq Made(q, x, i)
  BY <1>1 DEF Sent, Made, Version
<1> QED
  BY <1>1, <1>2, <1>4, <1>5, <1>6, CalmStep

\* A step of worker w of p at block i of request x leaves the other blocks be.
LEMMA Elsewhere ==
  ASSUME TypeOK, TypeOK', NEW p \in Players, NEW w \in Workers,
         NEW x \in Requests, NEW i \in 1 .. Count[x], NEW c, Enter(p, w, c),
         InRequest(p, w, x), c.req = x,
         \A r \in Requests : \A j \in 1 .. Count[r] : j # i =>
           /\ Verified(p, w, r, j)' =>
                Verified(p, w, r, j) /\ c.out[j] = call[p][w].out[j]
           /\ Holds(p, w, r)' => c.i # j,
         \A q \in Players, r \in Requests : \A j \in 1 .. Count[r] :
           (q # p \/ r # x \/ j # i) => data'[q][r][j] = data[q][r][j],
         UNCHANGED deltas,
         \A q \in Players : \A s \in Published(q)' :
           s \in Published(q) \/ (q = p /\ s.req = x /\ s.block = i)
  PROVE  \A q \in Players, r \in Requests : \A j \in 1 .. Count[r] :
           (q # p \/ r # x \/ j # i) =>
             /\ Made(q, r, j)' \subseteq Made(q, r, j)
             /\ Present(q, r, j)' \subseteq Present(q, r, j)
<1> SUFFICES ASSUME NEW q \in Players, NEW r \in Requests,
                    NEW j \in 1 .. Count[r], q # p \/ r # x \/ j # i
             PROVE  /\ Made(q, r, j)' \subseteq Made(q, r, j)
                    /\ Present(q, r, j)' \subseteq Present(q, r, j)
  OBVIOUS
<1>1. \A v \in Workers : call'[q][v] = IF q = p /\ v = w THEN c ELSE call[q][v]
  BY DEF TypeOK, CallsOK, Enter
<1>2. \A v \in Workers : Verified(q, v, r, j)' =>
        Verified(q, v, r, j) /\ call'[q][v].out[j] = call[q][v].out[j]
  <2> SUFFICES ASSUME NEW v \in Workers, Verified(q, v, r, j)'
               PROVE  Verified(q, v, r, j) /\ call'[q][v].out[j] = call[q][v].out[j]
    OBVIOUS
  <2>1. CASE q = p /\ v = w
    <3>1. r = x /\ j # i
      BY <1>1, <2>1 DEF Verified, InRequest
    <3> QED
      BY <1>1, <2>1, <3>1
  <2>2. CASE ~(q = p /\ v = w)
    BY <1>1, <2>2 DEF Verified, InRequest
  <2> QED
    BY <2>1, <2>2
<1>3. \A v \in Workers : (Holds(q, v, r)' /\ call'[q][v].i = j) =>
        Holds(q, v, r) /\ call'[q][v] = call[q][v]
  <2> SUFFICES ASSUME NEW v \in Workers, Holds(q, v, r)', call'[q][v].i = j
               PROVE  Holds(q, v, r) /\ call'[q][v] = call[q][v]
    OBVIOUS
  <2>1. CASE q = p /\ v = w
    <3>1. r = x /\ j # i
      BY <1>1, <2>1 DEF Holds, InRequest
    <3> QED
      BY <1>1, <2>1, <3>1
  <2>2. CASE ~(q = p /\ v = w)
    BY <1>1, <2>2 DEF Holds, InRequest
  <2> QED
    BY <2>1, <2>2
<1>4. ASSUME NEW b \in Made(q, r, j)'
      PROVE  b \in Made(q, r, j)
  <2>1. CASE b \in Sent(q, r, j)'
    BY <2>1 DEF Sent, Made, Version
  <2>2. ASSUME NEW v \in Workers, Verified(q, v, r, j)',
               b = Version(call'[q][v].out[j])
        PROVE  b \in Made(q, r, j)
    BY <1>2, <2>2 DEF Made
  <2>3. ASSUME NEW s \in Published(q)', s.req = r, s.block = j, b = Version(s)
        PROVE  b \in Made(q, r, j)
    BY <2>3 DEF Made
  <2> QED
    BY <2>1, <2>2, <2>3 DEF Made, Version
<1>5. ASSUME NEW b \in Present(q, r, j)'
      PROVE  b \in Present(q, r, j)
  <2>1. CASE data'[q][r][j] # Absent /\ b = Version(data'[q][r][j])
    BY <2>1 DEF Present
  <2>2. ASSUME NEW v \in Workers, Holds(q, v, r)', call'[q][v].i = j,
               b = Version(call'[q][v].block)
        PROVE  b \in Present(q, r, j)
    BY <1>3, <2>2 DEF Present
  <2> QED
    BY <2>1, <2>2 DEF Present, Version
<1> QED
  BY <1>4, <1>5

\* The worker in a request is alone: the versions of a block there.
LEMMA Alone ==
  ASSUME OnePerRequest, NEW p \in Players, NEW w \in Workers,
         NEW x \in Requests, InRequest(p, w, x), NEW i
  PROVE  /\ \A b \in Made(p, x, i) :
              \/ b \in Sent(p, x, i)
              \/ Verified(p, w, x, i) /\ b = Version(call[p][w].out[i])
              \/ \E s \in Published(p) :
                   s.req = x /\ s.block = i /\ b = Version(s)
         /\ \A b \in Present(p, x, i) :
              \/ data[p][x][i] # Absent /\ b = Version(data[p][x][i])
              \/ Holds(p, w, x) /\ call[p][w].i = i /\ b = Version(call[p][w].block)
<1>1. \A v \in Workers : InRequest(p, v, x) => v = w
  BY DEF OnePerRequest
<1> QED
  BY <1>1 DEF Made, Present, Verified, Holds

\* The same after a step.
LEMMA AloneAfter ==
  ASSUME OnePerRequest', NEW p \in Players, NEW w \in Workers,
         NEW x \in Requests, InRequest(p, w, x)', NEW i
  PROVE  /\ \A b \in Made(p, x, i)' :
              \/ b \in Sent(p, x, i)'
              \/ Verified(p, w, x, i)' /\ b = Version(call'[p][w].out[i])
              \/ \E s \in Published(p)' :
                   s.req = x /\ s.block = i /\ b = Version(s)
         /\ \A b \in Present(p, x, i)' :
              \/ data'[p][x][i] # Absent /\ b = Version(data'[p][x][i])
              \/ /\ Holds(p, w, x)' /\ call'[p][w].i = i
                 /\ b = Version(call'[p][w].block)
         /\ \A v \in Workers : Draws(p, v, x)' => v = w
<1>1. \A v \in Workers : InRequest(p, v, x)' => v = w
  BY DEF OnePerRequest
<1> QED
  BY <1>1 DEF Made, Present, Verified, Holds, Draws, Version

LEMMA HeldKept ==
  ASSUME TypeOK, GrowInv, OnePerRequest', NEW p \in Players, NEW w \in Workers,
         NEW x \in Requests, NEW c, Enter(p, w, c), InRequest(p, w, x)',
         \A q \in Players, r \in Requests : \A j \in 1 .. Count[r] :
           (q # p \/ r # x) => data'[q][r][j] = data[q][r][j],
         Holds(p, w, x)' => data'[p][x][c.i] \in {Absent, c.block}
  PROVE  HeldIsStored'
<1> SUFFICES ASSUME NEW q \in Players, NEW v \in Workers, NEW r \in Requests,
                    Holds(q, v, r)'
             PROVE  data'[q][r][call'[q][v].i] \in {Absent, call'[q][v].block}
  BY DEF HeldIsStored
<1>1. call'[q][v] = IF q = p /\ v = w THEN c ELSE call[q][v]
  BY DEF TypeOK, CallsOK, Enter
<1>2. CASE q = p /\ r = x
  <2>1. v = w
    BY <1>2 DEF OnePerRequest, Holds
  <2> QED
    BY <1>1, <1>2, <2>1
<1>3. CASE q # p \/ r # x
  <2>1. ~(q = p /\ v = w)
    BY <1>3 DEF Holds, InRequest
  <2>2. call'[q][v] = call[q][v] /\ Holds(q, v, r)
    BY <1>1, <2>1 DEF Holds, InRequest
  <2>3. call[q][v].i \in 1 .. Count[r]
    BY <2>2, HeldType
  <2> QED
    BY <1>3, <2>2, <2>3 DEF GrowInv, HeldIsStored
<1> QED
  BY <1>2, <1>3

LEMMA DrawsKept ==
  ASSUME TypeOK, GrowInv, UNCHANGED starts, NEW p \in Players, NEW w \in Workers,
         NEW c, Enter(p, w, c), c.op # "start"
  PROVE  \A q \in Players, v \in Workers, r \in Requests : Draws(q, v, r)' =>
           /\ call'[q][v].k <= starts'[q][r]
           /\ \A i \in 1 .. Count[r] : call'[q][v].i <= i =>
                \A b \in Made(q, r, i) : b.k # call'[q][v].k
<1> SUFFICES ASSUME NEW q \in Players, NEW v \in Workers, NEW r \in Requests,
                    Draws(q, v, r)'
             PROVE  Draws(q, v, r) /\ call'[q][v] = call[q][v]
  BY DEF GrowInv, DrawnIsKnown, DrawsAnew
<1>1. call'[q][v] = IF q = p /\ v = w THEN c ELSE call[q][v]
  BY DEF TypeOK, CallsOK, Enter
<1> QED
  BY <1>1 DEF Draws, InRequest

LEMMA LoadBlockGrow ==
  ASSUME TypeOK, TypeOK', OnePerRequest', GrowInv, NEW p \in Players,
         NEW w \in Workers, LoadBlock(p, w)
  PROVE  GrowInv'
<1>0. PICK c : c = call[p][w]
  OBVIOUS
<1> DEFINE x == c.req
           i == c.i
           e == [c EXCEPT !.block = data[p][x][i]]
<1>1. /\ c.op \in {"respond", "verify", "publish"}
      /\ UNCHANGED <<data, slots, starts, deltas, uses>>
      /\ \/ Enter(p, w, e) /\ data[p][x][i] # Absent
         \/ Return(p, w)
      /\ More(c)
  BY <1>0 DEF LoadBlock, stored, counted, sent
<1>2. CASE Return(p, w)
  BY <1>1, <1>2, ReturnGrow
<1>3. CASE Enter(p, w, e) /\ data[p][x][i] # Absent
  <2>1. LoopLocals(c)
    BY <1>0, <1>1, RespondLocals, VerifyLocals, PublishLocals DEF TypeOK, CallsOK
  <2>2. x \in Requests /\ i \in 1 .. Count[x]
    BY <1>1, <2>1, InRange DEF LoopLocals
  <2>3. /\ e.op = c.op /\ e.req = x /\ e.i = i /\ e.block = data[p][x][i]
        /\ c.op = "verify" => e.out = c.out
    BY <1>0, <1>1, LoadedFields DEF TypeOK, CallsOK
  <2> HIDE DEF e
  <2>4. call'[p][w] = e /\ InRequest(p, w, x) /\ InRequest(p, w, x)'
    BY <1>0, <1>1, <1>3, <2>3 DEF TypeOK, CallsOK, Enter, InRequest
  <2>5. \A q \in Players : Published(q)' = Published(q)
    BY <1>1 DEF Published, SlotsOf, UsedBy
  <2>6. \A r \in Requests : \A j \in 1 .. Count[r] :
          /\ Verified(p, w, r, j)' =>
               Verified(p, w, r, j) /\ e.out[j] = c.out[j]
          /\ j # i => (Holds(p, w, r)' => e.i # j)
    BY <1>0, <2>3, <2>4 DEF Verified, Holds, InRequest
  <2>7. \A q \in Players, r \in Requests : \A j \in 1 .. Count[r] :
          (q # p \/ r # x \/ j # i) =>
            /\ Made(q, r, j)' \subseteq Made(q, r, j)
            /\ Present(q, r, j)' \subseteq Present(q, r, j)
    <3>1. Enter(p, w, e) /\ InRequest(p, w, x) /\ e.req = x /\ UNCHANGED <<data, deltas>>
      BY <1>1, <1>3, <2>3, <2>4
    <3>2. \A r \in Requests : \A j \in 1 .. Count[r] : j # i =>
            /\ Verified(p, w, r, j)' =>
                 Verified(p, w, r, j) /\ e.out[j] = call[p][w].out[j]
            /\ Holds(p, w, r)' => e.i # j
      BY <1>0, <2>6
    <3>3. \A q \in Players, r \in Requests : \A j \in 1 .. Count[r] :
            (q # p \/ r # x \/ j # i) => data'[q][r][j] = data[q][r][j]
      BY <3>1
    <3>4. \A q \in Players : \A s \in Published(q)' :
            s \in Published(q) \/ (q = p /\ s.req = x /\ s.block = i)
      BY <2>5
    <3> QED
      BY ONLY TypeOK, TypeOK', p \in Players, w \in Workers, <2>2, <3>1, <3>2,
         <3>3, <3>4, Elsewhere
  <2>8. ASSUME NEW b \in Made(p, x, i)'
        PROVE  b \in Made(p, x, i)
    <3>1. ~Verified(p, w, x, i)'
      BY <2>2, <2>3, <2>4, ConstantsAssumption DEF Verified
    <3>2. \/ b \in Sent(p, x, i)'
          \/ \E s \in Published(p)' : s.req = x /\ s.block = i /\ b = Version(s)
      BY <2>2, <2>4, <3>1, AloneAfter
    <3>3. Sent(p, x, i)' = Sent(p, x, i)
      BY <1>1 DEF Sent
    <3>4. b \in Sent(p, x, i)
          \/ \E s \in Published(p) : s.req = x /\ s.block = i /\ b = Version(s)
      BY <2>5, <3>2, <3>3
    <3> QED
      BY <3>4 DEF Made
  <2>9. ASSUME NEW b \in Present(p, x, i)'
        PROVE  b \in Present(p, x, i)
    <3>1. b = Version(data[p][x][i])
      BY <1>1, <2>2, <2>3, <2>4, AloneAfter
    <3> QED
      BY <1>3, <3>1 DEF Present
  <2>10. HeldIsStored'
    BY <1>1, <1>3, <2>2, <2>3, <2>4, HeldKept
  <2>11. /\ \A q \in Players, r \in Requests : \A j \in 1 .. Count[r] :
             \A b \in Made(q, r, j)' : b \in Made(q, r, j)
         /\ \A q \in Players, r \in Requests : \A j \in 1 .. Count[r] :
             \A b \in Present(q, r, j)' : b \in Present(q, r, j)
    BY <2>7, <2>8, <2>9
  <2>12. DrawnIsKnown' /\ DrawsAnew' /\ BetasGrow'
    <3>1. \A q \in Players, r \in Requests : \A j \in 1 .. Count[r] :
            \A b \in Present(q, r, j)' :
              \E d \in Present(q, r, j) : d.k = b.k /\ d.betas \subseteq b.betas
      BY <2>11
    <3>2. e.op # "start"
      BY <1>1, <2>3
    <3> QED
      BY <1>1, <1>3, <2>11, <3>1, <3>2, DrawsKept, StartsKept, GrowStep
  <2> QED
    BY <2>10, <2>12 DEF GrowInv
<1> QED
  BY <1>1, <1>2, <1>3

\* A handler stores d as its block, and goes on to the next.
LEMMA StoreGrow ==
  ASSUME TypeOK, TypeOK', OnePerRequest', GrowInv, NEW p \in Players,
         NEW w \in Workers, NEW c, NEW d, NEW e, c = call[p][w],
         c.req \in Requests, c.i \in 1 .. Count[c.req], InRequest(p, w, c.req),
         StoreBlock(p, c, d), Enter(p, w, e),
         e.req = c.req, e.op \in {"start", "respond", "verify"},
         e.op # "start" => e.block = Absent,
         UNCHANGED <<slots, starts, deltas, uses>>,
         \A j \in 1 .. Count[c.req] : j # c.i =>
           (Verified(p, w, c.req, j)' =>
              Verified(p, w, c.req, j) /\ e.out[j] = c.out[j])
  PROVE  /\ HeldIsStored'
         /\ \A q \in Players, r \in Requests : \A j \in 1 .. Count[r] :
              (q # p \/ r # c.req \/ j # c.i) =>
                /\ Made(q, r, j)' \subseteq Made(q, r, j)
                /\ Present(q, r, j)' \subseteq Present(q, r, j)
         /\ \A a \in Present(p, c.req, c.i)' : a = Version(d)
         /\ \A a \in Made(p, c.req, c.i)' :
              \/ a \in Made(p, c.req, c.i)
              \/ Verified(p, w, c.req, c.i)' /\ a = Version(e.out[c.i])
<1>0. PICK x, i : x = c.req /\ i = c.i
  OBVIOUS
<1>1. /\ \A q \in Players, r \in Requests : \A j \in 1 .. Count[r] :
           (q # p \/ r # x \/ j # i) => data'[q][r][j] = data[q][r][j]
      /\ data'[p][x][i] = d
  <2>1. DataOK /\ x \in Requests /\ i \in 1 .. Count[x]
        /\ data' = [data EXCEPT ![p][x][i] = d]
    BY <1>0 DEF TypeOK, StoreBlock
  <2> QED
    BY ONLY <2>1, p \in Players DEF DataOK
<1>2. call'[p][w] = e /\ InRequest(p, w, x)'
  BY <1>0 DEF TypeOK, CallsOK, Enter, InRequest
<1>3. \A q \in Players : Published(q)' = Published(q)
  BY DEF Published, SlotsOf, UsedBy
<1>4. \A r \in Requests : ~Holds(p, w, r)'
  BY <1>2 DEF Holds
<1>5. \A r \in Requests : \A j \in 1 .. Count[r] : j # i =>
        /\ Verified(p, w, r, j)' =>
             Verified(p, w, r, j) /\ e.out[j] = call[p][w].out[j]
        /\ Holds(p, w, r)' => e.i # j
  BY <1>0, <1>2, <1>4 DEF Verified, InRequest
<1>6. \A q \in Players, r \in Requests : \A j \in 1 .. Count[r] :
        (q # p \/ r # x \/ j # i) =>
          /\ Made(q, r, j)' \subseteq Made(q, r, j)
          /\ Present(q, r, j)' \subseteq Present(q, r, j)
  <2>1. \A q \in Players : \A s \in Published(q)' :
          s \in Published(q) \/ (q = p /\ s.req = x /\ s.block = i)
    BY <1>3
  <2>2. /\ UNCHANGED deltas /\ x \in Requests /\ i \in 1 .. Count[x]
        /\ InRequest(p, w, x) /\ e.req = x
    BY <1>0
  <2> QED
    BY ONLY TypeOK, TypeOK', p \in Players, w \in Workers, Enter(p, w, e),
       <1>1, <1>5, <2>1, <2>2, Elsewhere
<1>7. \A a \in Present(p, x, i)' : a = Version(d)
  BY <1>0, <1>1, <1>2, <1>4, AloneAfter
<1>8. ASSUME NEW a \in Made(p, x, i)'
      PROVE  a \in Made(p, x, i) \/ (Verified(p, w, x, i)' /\ a = Version(e.out[i]))
  <2>1. CASE a \in Sent(p, x, i)'
    BY <2>1 DEF Made, Sent, Version
  <2>2. CASE Verified(p, w, x, i)' /\ a = Version(call'[p][w].out[i])
    BY <1>2, <2>2
  <2>3. CASE \E s \in Published(p)' : s.req = x /\ s.block = i /\ a = Version(s)
    BY <1>3, <2>3 DEF Made
  <2> QED
    BY <1>0, <1>2, <2>1, <2>2, <2>3, AloneAfter
<1>9. HeldIsStored'
  BY <1>0, <1>1, <1>2, <1>4, HeldKept
<1> QED
  BY <1>0, <1>6, <1>7, <1>8, <1>9

LEMMA CreateMtaRequestGrow ==
  ASSUME TypeOK, TypeOK', OnePerRequest', GrowInv, NEW p \in Players,
         NEW w \in Workers, CreateMtaRequest(p, w)
  PROVE  GrowInv'
<1>0. PICK c : c = call[p][w]
  OBVIOUS
<1> DEFINE x == c.req
           i == c.i
           e == [c EXCEPT !.i = @ + 1]
           d == NewBlock(c.k)
<1>1. /\ c.op = "start" /\ More(c) /\ Enter(p, w, e)
      /\ StoreBlock(p, c, d)
      /\ UNCHANGED <<slots, starts, deltas, uses>>
  BY <1>0 DEF CreateMtaRequest, counted, sent
<1>2. c.req \in Requests /\ c \in StartCalls(c.req)
  BY <1>0, <1>1, StartLocals DEF TypeOK, CallsOK
<1>3. x \in Requests /\ i \in 1 .. Count[x]
  BY <1>1, <1>2, ConstantsAssumption DEF StartCalls, More
<1>4. e.op = "start" /\ e.req = x /\ e.i = i + 1 /\ e.k = c.k
  BY <1>1, <1>2 DEF StartCalls
<1>5. d.k = c.k
  BY DEF NewBlock
<1> HIDE DEF e, d
<1>6. /\ call'[p][w] = e /\ Draws(p, w, x) /\ InRequest(p, w, x)
      /\ \A j : ~Verified(p, w, x, j)'
  BY <1>0, <1>1, <1>4 DEF TypeOK, CallsOK, Enter, InRequest, Draws, Verified
<1>7. /\ HeldIsStored'
      /\ \A q \in Players, r \in Requests : \A j \in 1 .. Count[r] :
           (q # p \/ r # x \/ j # i) =>
             /\ Made(q, r, j)' \subseteq Made(q, r, j)
             /\ Present(q, r, j)' \subseteq Present(q, r, j)
      /\ \A a \in Present(p, x, i)' : a = Version(d)
      /\ \A a \in Made(p, x, i)' : a \in Made(p, x, i)
  BY <1>0, <1>1, <1>3, <1>4, <1>6, StoreGrow
<1>8. c.k <= starts'[p][x] /\ \A b \in Made(p, x, i) : b.k # c.k
  <2>1. c.i <= i
    BY <1>3, ConstantsAssumption
  <2> QED
    BY <1>0, <1>1, <1>3, <1>6, <2>1 DEF GrowInv, DrawnIsKnown, DrawsAnew
<1>9. \A q \in Players, r \in Requests : \A j \in 1 .. Count[r] :
        \A b \in Made(q, r, j)' : b \in Made(q, r, j)
  BY <1>7
<1>10. \A q \in Players, r \in Requests : \A j \in 1 .. Count[r] :
         \A b \in Present(q, r, j)' :
           \/ \E f \in Present(q, r, j) : f.k = b.k /\ f.betas \subseteq b.betas
           \/ /\ b.k <= starts'[q][r]
              /\ \A f \in Made(q, r, j) : f.k # b.k
  <2>1. Version(d).k = c.k
    BY <1>5 DEF Version
  <2> QED
    BY <1>7, <1>8, <2>1
<1>11. ASSUME NEW q \in Players, NEW v \in Workers, NEW r \in Requests,
              Draws(q, v, r)'
       PROVE  /\ call'[q][v].k <= starts'[q][r]
              /\ \A j \in 1 .. Count[r] : call'[q][v].i <= j =>
                   \A b \in Made(q, r, j) : b.k # call'[q][v].k
  <2>1. call'[q][v] = IF q = p /\ v = w THEN e ELSE call[q][v]
    BY <1>1 DEF TypeOK, CallsOK, Enter
  <2>2. Draws(q, v, r)
    BY <1>0, <1>1, <1>4, <1>11, <2>1 DEF Draws, InRequest
  <2>3. /\ call[q][v].k <= starts[q][r] /\ starts'[q][r] = starts[q][r]
        /\ \A j \in 1 .. Count[r] : call[q][v].i <= j =>
             \A b \in Made(q, r, j) : b.k # call[q][v].k
    BY <1>1, <2>2 DEF GrowInv, DrawnIsKnown, DrawsAnew
  <2>4. CASE q = p /\ v = w
    <3>1. \A j \in 1 .. Count[r] : i + 1 <= j => i <= j
      BY <1>3, <2>2, DrawType, ConstantsAssumption
    <3> QED
      BY <1>0, <1>4, <2>1, <2>3, <2>4, <3>1
  <2> QED
    BY <2>1, <2>3, <2>4
<1>12. DrawnIsKnown' /\ DrawsAnew' /\ BetasGrow'
  BY <1>1, <1>9, <1>10, <1>11, StartsKept, GrowStep
<1> QED
  BY <1>7, <1>12 DEF GrowInv

\* The version that a worker holds is the only one there is of its block.
LEMMA HeldAlone ==
  ASSUME OnePerRequest, GrowInv, NEW p \in Players, NEW w \in Workers,
         NEW x \in Requests, Holds(p, w, x)
  PROVE  Present(p, x, call[p][w].i) = {Version(call[p][w].block)}
<1> DEFINE i == call[p][w].i
<1>1. InRequest(p, w, x) /\ data[p][x][i] \in {Absent, call[p][w].block}
  BY DEF Holds, GrowInv, HeldIsStored
<1>2. \A b \in Present(p, x, i) : b = Version(call[p][w].block)
  BY <1>1, Alone
<1>3. Version(call[p][w].block) \in Present(p, x, i)
  BY DEF Present
<1> QED
  BY <1>2, <1>3

LEMMA CreateMtaResponseGrow ==
  ASSUME TypeOK, TypeOK', OnePerRequest, OnePerRequest', GrowInv,
         NEW p \in Players, NEW w \in Workers, CreateMtaResponse(p, w)
  PROVE  GrowInv'
<1>0. PICK c : c = call[p][w]
  OBVIOUS
<1> DEFINE x == c.req
           i == c.i
           b == c.block
           d == Answered(b, c.answer)
           e == [c EXCEPT !.i = @ + 1, !.block = Absent,
                          !.out = Append(@, [k |-> b.k, gproofs |-> b.gproofs])]
<1>1. /\ c.op = "respond" /\ b # Absent /\ Enter(p, w, e)
      /\ StoreBlock(p, c, d)
      /\ UNCHANGED <<slots, starts, deltas, uses>>
  BY <1>0 DEF CreateMtaResponse, counted, sent
<1>2. LoopLocals(c) /\ c \in RespondCalls(c.req, c.i)
  BY <1>0, <1>1, RespondLocals DEF TypeOK, CallsOK
<1>3. x \in Requests /\ i \in 1 .. Count[x]
  BY <1>1, <1>2, LoadedInRange DEF LoopLocals
<1>4. e.op = "respond" /\ e.req = x /\ e.block = Absent
  BY <1>1, <1>2 DEF RespondCalls
<1>5. Version(d).k = Version(b).k /\ Version(b).betas \subseteq Version(d).betas
  <2>1. b \in Blocks
    BY <1>1, <1>2 DEF RespondCalls, OptionalBlocks
  <2> QED
    BY <2>1 DEF Version, Answered, Blocks
<1> HIDE DEF e, d
<1>6. /\ call'[p][w] = e /\ Holds(p, w, x) /\ InRequest(p, w, x)
      /\ \A j : ~Verified(p, w, x, j)'
  BY <1>0, <1>1, <1>4 DEF TypeOK, CallsOK, Enter, InRequest, Holds, Verified
<1>7. /\ HeldIsStored'
      /\ \A q \in Players, r \in Requests : \A j \in 1 .. Count[r] :
           (q # p \/ r # x \/ j # i) =>
             /\ Made(q, r, j)' \subseteq Made(q, r, j)
             /\ Present(q, r, j)' \subseteq Present(q, r, j)
      /\ \A a \in Present(p, x, i)' : a = Version(d)
      /\ \A a \in Made(p, x, i)' : a \in Made(p, x, i)
  BY <1>0, <1>1, <1>3, <1>4, <1>6, StoreGrow
<1>8. Version(b) \in Present(p, x, i)
  BY <1>0, <1>3, <1>6 DEF Present
<1>9. \A q \in Players, r \in Requests : \A j \in 1 .. Count[r] :
        \A a \in Made(q, r, j)' : a \in Made(q, r, j)
  BY <1>7
<1>10. \A q \in Players, r \in Requests : \A j \in 1 .. Count[r] :
         \A a \in Present(q, r, j)' :
           \E f \in Present(q, r, j) : f.k = a.k /\ f.betas \subseteq a.betas
  BY <1>5, <1>7, <1>8
<1>11. e.op # "start"
  BY <1>4
<1>12. DrawnIsKnown' /\ DrawsAnew' /\ BetasGrow'
  BY <1>1, <1>9, <1>10, <1>11, DrawsKept, StartsKept, GrowStep
<1> QED
  BY <1>7, <1>12 DEF GrowInv

LEMMA MtaVerifyGrow ==
  ASSUME TypeOK, TypeOK', OnePerRequest, OnePerRequest', GrowInv,
         NEW p \in Players, NEW w \in Workers, MtaVerify(p, w)
  PROVE  GrowInv'
<1>0. PICK c : c = call[p][w]
  OBVIOUS
<1> DEFINE x == c.req
           i == c.i
           b == c.block
           ranges == \A q \in Others(p) : AnswersMe(p, b, c.resps[q])
           d == [b EXCEPT !.gcom = FALSE,
                   !.alphas = Append(@, [q \in Players |-> c.resps[q].answer])]
           e == [c EXCEPT !.i = @ + 1, !.block = Absent,
                          !.ok = @ /\ ranges, !.out = Append(@, d)]
<1>1. /\ c.op = "verify" /\ b # Absent
      /\ \/ Enter(p, w, e) /\ StoreBlock(p, c, d)
         \/ Return(p, w) /\ UNCHANGED data
      /\ UNCHANGED <<slots, starts, deltas, uses>>
  BY <1>0 DEF MtaVerify, counted, sent
<1>2. CASE Return(p, w) /\ UNCHANGED data
  BY <1>1, <1>2, ReturnGrow
<1>3. CASE Enter(p, w, e) /\ StoreBlock(p, c, d)
  <2>1. LoopLocals(c) /\ c \in VerifyCalls(c.req, c.i)
    BY <1>0, <1>1, VerifyLocals DEF TypeOK, CallsOK
  <2>2. x \in Requests /\ i \in 1 .. Count[x]
    BY <1>1, <2>1, LoadedInRange DEF LoopLocals
  <2>3. /\ e.op = "verify" /\ e.req = x /\ e.block = Absent
        /\ e.i = i + 1 /\ e.out = Append(c.out, d)
    BY <1>1, <2>1 DEF VerifyCalls
  <2>4. Version(d) = Version(b)
    <3>1. b \in Blocks
      BY <1>1, <2>1 DEF VerifyCalls, OptionalBlocks
    <3> QED
      BY <3>1 DEF Version, Blocks
  <2> HIDE DEF e, d
  <2>5. e.out[i] = d /\ \A j \in 1 .. i - 1 : e.out[j] = c.out[j]
    <3>1. c.out \in [1 .. i - 1 -> Blocks] /\ i - 1 \in Nat
      BY <2>1, <2>2, ConstantsAssumption DEF VerifyCalls
    <3>2. c.out \in Seq(Blocks)
      BY <3>1, SeqDef
    <3>3. Len(c.out) \in Nat /\ 1 .. i - 1 = 1 .. Len(c.out)
      BY <3>1, <3>2, LenProperties
    <3>4. Len(c.out) = i - 1
      BY <3>1, <3>3
    <3>5. /\ Append(c.out, d)[i - 1 + 1] = d
          /\ \A j \in 1 .. i - 1 : Append(c.out, d)[j] = c.out[j]
      BY <3>2, <3>4
    <3>6. i - 1 + 1 = i
      BY <2>2, ConstantsAssumption
    <3> QED
      BY <2>3, <3>5, <3>6
  <2>6. /\ call'[p][w] = e /\ Holds(p, w, x) /\ InRequest(p, w, x)
    BY <1>0, <1>1, <1>3, <2>3 DEF TypeOK, CallsOK, Enter, InRequest, Holds
  <2>7. \A j \in 1 .. Count[x] : j # i =>
          (Verified(p, w, x, j)' =>
             Verified(p, w, x, j) /\ e.out[j] = c.out[j])
    <3>1. \A j \in 1 .. Count[x] : j < i + 1 /\ j # i => j < i /\ j \in 1 .. i - 1
      BY <2>2, ConstantsAssumption
    <3> QED
      BY <1>0, <1>1, <2>3, <2>5, <2>6, <3>1 DEF Verified
  <2>8. /\ HeldIsStored'
        /\ \A q \in Players, r \in Requests : \A j \in 1 .. Count[r] :
             (q # p \/ r # x \/ j # i) =>
               /\ Made(q, r, j)' \subseteq Made(q, r, j)
               /\ Present(q, r, j)' \subseteq Present(q, r, j)
        /\ \A a \in Present(p, x, i)' : a = Version(d)
        /\ \A a \in Made(p, x, i)' :
             \/ a \in Made(p, x, i)
             \/ Verified(p, w, x, i)' /\ a = Version(e.out[i])
    <3>1. /\ UNCHANGED <<slots, starts, deltas, uses>>
          /\ e.op \in {"start", "respond", "verify"}
          /\ e.req = c.req /\ e.block = Absent
          /\ c = call[p][w] /\ InRequest(p, w, c.req)
      BY <1>0, <1>1, <2>3, <2>6
    <3> QED
      BY ONLY TypeOK, TypeOK', OnePerRequest', GrowInv, p \in Players,
         w \in Workers, <1>3, <2>2, <2>7, <3>1, StoreGrow
  <2>9. Present(p, x, i) = {Version(b)}
    BY <1>0, <2>2, <2>6, HeldAlone
  <2>10. \A v \in Workers : ~Draws(p, v, x)'
    <3>1. InRequest(p, w, x)'
      BY <2>3, <2>6 DEF InRequest
    <3> QED
      BY <2>2, <2>3, <2>6, <3>1 DEF OnePerRequest, Draws
  <2>11. \A q \in Players, r \in Requests : \A j \in 1 .. Count[r] :
          \A a \in Made(q, r, j)' :
            \/ a \in Made(q, r, j)
            \/ /\ Present(q, r, j) = {a} /\ Present(q, r, j)' \subseteq {a}
               /\ \A v \in Workers : ~Draws(q, v, r)'
    BY <2>4, <2>5, <2>8, <2>9, <2>10
  <2>12. \A q \in Players, r \in Requests : \A j \in 1 .. Count[r] :
           \A a \in Present(q, r, j)' :
             \E f \in Present(q, r, j) : f.k = a.k /\ f.betas \subseteq a.betas
    BY <2>4, <2>8, <2>9
  <2>13. e.op # "start"
    BY <2>3
  <2>14. DrawnIsKnown' /\ DrawsAnew' /\ BetasGrow'
    BY <1>1, <1>3, <2>11, <2>12, <2>13, DrawsKept, StartsKept, GrowStep
  <2> QED
    BY <2>8, <2>14 DEF GrowInv
<1> QED
  BY <1>1, <1>2, <1>3

\* What store_presigning_data adds to the presignatures.
LEMMA SlotFilled ==
  ASSUME TypeOK, NEW p \in Players, NEW y \in Indices, NEW sig,
         slots' = [slots EXCEPT ![p][y] = sig], UNCHANGED uses
  PROVE  \A q \in Players : \A s \in Published(q)' :
           s \in Published(q) \/ (q = p /\ s = sig)
<1>1. \A q \in Players : \A z \in Indices :
        slots'[q][z] = IF q = p /\ z = y THEN sig ELSE slots[q][z]
  BY DEF TypeOK
<1>2. /\ \A q \in Players : UsedBy(q)' = UsedBy(q)
      /\ \A q \in Players : \A s \in SlotsOf(q)' :
           s \in SlotsOf(q) \/ (q = p /\ s = sig)
  BY <1>1 DEF UsedBy, SlotsOf
<1> QED
  BY <1>2 DEF Published

\* The presignature a worker of p with locals c makes.
Theirs(p, c) == [q \in Others(p) |-> c.dels[q].blocks[c.i]]
Presignature(p, c) ==
  [req |-> c.req, block |-> c.i, k |-> c.block.k,
   R |-> [q \in Players |-> IF q = p THEN c.block.k ELSE Theirs(p, c)[q].k],
   betas |-> c.block.betas, alphas |-> c.block.alphas]

LEMMA PublishBlockCases ==
  ASSUME NEW p, NEW w, NEW c, c = call[p][w], PublishBlock(p, w)
  PROVE  /\ c.op = "publish" /\ c.block # Absent
         /\ UNCHANGED <<data, starts, deltas, uses>>
         /\ \/ /\ CalcR(p, c.block, Theirs(p, c))
               /\ First[c.req] + c.i - 1 \in Indices
               /\ slots' = [slots EXCEPT
                              ![p][First[c.req] + c.i - 1] = Presignature(p, c)]
               /\ Enter(p, w, [c EXCEPT !.i = @ + 1, !.block = Absent])
            \/ Return(p, w) /\ UNCHANGED slots
<1> DEFINE d == call[p][w]
<1>1. /\ d.op = "publish" /\ d.block # Absent
      /\ UNCHANGED <<data, starts, deltas, uses>>
      /\ \/ /\ CalcR(p, d.block, Theirs(p, d))
            /\ First[d.req] + d.i - 1 \in Indices
            /\ slots' = [slots EXCEPT
                           ![p][First[d.req] + d.i - 1] = Presignature(p, d)]
            /\ Enter(p, w, [d EXCEPT !.i = @ + 1, !.block = Absent])
         \/ Return(p, w) /\ UNCHANGED slots
  BY DEF PublishBlock, Presignature, Theirs, counted, sent
<1> QED
  BY <1>1

LEMMA PublishBlockGrow ==
  ASSUME TypeOK, TypeOK', OnePerRequest, OnePerRequest', GrowInv,
         NEW p \in Players, NEW w \in Workers, PublishBlock(p, w)
  PROVE  GrowInv'
<1>0. PICK c : c = call[p][w]
  OBVIOUS
<1> DEFINE x == c.req
           i == c.i
           b == c.block
           y == First[c.req] + c.i - 1
           sig == Presignature(p, c)
           e == [c EXCEPT !.i = @ + 1, !.block = Absent]
<1>1. /\ c.op = "publish" /\ b # Absent
      /\ UNCHANGED <<data, starts, deltas, uses>>
      /\ \/ /\ y \in Indices /\ slots' = [slots EXCEPT ![p][y] = sig]
            /\ Enter(p, w, e)
         \/ Return(p, w) /\ UNCHANGED slots
  BY <1>0, PublishBlockCases
<1>2. CASE Return(p, w) /\ UNCHANGED slots
  BY <1>1, <1>2, ReturnGrow
<1>3. CASE /\ y \in Indices /\ slots' = [slots EXCEPT ![p][y] = sig]
           /\ Enter(p, w, e)
  <2>1. LoopLocals(c) /\ c \in PublishCalls(p, c.req, c.i)
    BY <1>0, <1>1, PublishLocals DEF TypeOK, CallsOK
  <2>2. x \in Requests /\ i \in 1 .. Count[x]
    BY <1>1, <2>1, LoadedInRange DEF LoopLocals
  <2>3. e.op = "publish" /\ e.req = x /\ e.block = Absent
    BY <1>1, <2>1 DEF PublishCalls
  <2>4. sig.req = x /\ sig.block = i /\ Version(sig) = Version(b)
    BY DEF Version, Presignature
  <2> HIDE DEF y, sig, e
  <2>5. \A q \in Players : \A s \in Published(q)' :
          s \in Published(q) \/ (q = p /\ s = sig)
    BY <1>1, <1>3, SlotFilled
  <2>6. /\ call'[p][w] = e /\ Holds(p, w, x) /\ InRequest(p, w, x)
        /\ InRequest(p, w, x)'
    BY <1>0, <1>1, <1>3, <2>3 DEF TypeOK, CallsOK, Enter, InRequest, Holds
  <2>7. \A r \in Requests : \A j : ~Verified(p, w, r, j)' /\ ~Holds(p, w, r)'
    BY <2>3, <2>6 DEF Verified, Holds
  <2>8. \A q \in Players, r \in Requests : \A j \in 1 .. Count[r] :
          (q # p \/ r # x \/ j # i) =>
            /\ Made(q, r, j)' \subseteq Made(q, r, j)
            /\ Present(q, r, j)' \subseteq Present(q, r, j)
    <3>1. \A q \in Players : \A s \in Published(q)' :
            s \in Published(q) \/ (q = p /\ s.req = x /\ s.block = i)
      BY <2>4, <2>5
    <3>2. /\ UNCHANGED deltas /\ e.req = x
          /\ \A q \in Players, r \in Requests : \A j \in 1 .. Count[r] :
               (q # p \/ r # x \/ j # i) => data'[q][r][j] = data[q][r][j]
          /\ Enter(p, w, e) /\ InRequest(p, w, x)
      BY <1>1, <1>3, <2>3, <2>6
    <3>3. \A r \in Requests : \A j \in 1 .. Count[r] : j # i =>
            /\ Verified(p, w, r, j)' =>
                 Verified(p, w, r, j) /\ e.out[j] = call[p][w].out[j]
            /\ Holds(p, w, r)' => e.i # j
      BY <2>7
    <3> QED
      BY ONLY TypeOK, TypeOK', p \in Players, w \in Workers, <2>2, <3>1, <3>2,
         <3>3, Elsewhere
  <2>9. Present(p, x, i) = {Version(b)}
    BY <1>0, <2>2, <2>6, HeldAlone
  <2>10. ASSUME NEW a \in Present(p, x, i)'
         PROVE  a = Version(b)
    <3>1. data[p][x][i] \in {Absent, b}
      BY <1>0, <2>2, <2>6 DEF GrowInv, HeldIsStored
    <3> QED
      BY <1>1, <2>2, <2>6, <2>7, <3>1, AloneAfter
  <2>11. ASSUME NEW a \in Made(p, x, i)'
         PROVE  a \in Made(p, x, i) \/ a = Version(b)
    <3>1. CASE a \in Sent(p, x, i)'
      BY <1>1, <3>1 DEF Made, Sent, Version
    <3>2. ASSUME NEW s \in Published(p)', s.req = x, s.block = i, a = Version(s)
          PROVE  a \in Made(p, x, i) \/ a = Version(b)
      BY <2>4, <2>5, <3>2 DEF Made
    <3> QED
      BY <2>2, <2>6, <2>7, <3>1, <3>2, AloneAfter
  <2>12. \A v \in Workers : ~Draws(p, v, x)'
    BY <2>2, <2>3, <2>6 DEF OnePerRequest, Draws
  <2>13. \A q \in Players, r \in Requests : \A j \in 1 .. Count[r] :
          \A a \in Made(q, r, j)' :
            \/ a \in Made(q, r, j)
            \/ /\ Present(q, r, j) = {a} /\ Present(q, r, j)' \subseteq {a}
               /\ \A v \in Workers : ~Draws(q, v, r)'
    BY <2>8, <2>9, <2>10, <2>11, <2>12
  <2>14. \A q \in Players, r \in Requests : \A j \in 1 .. Count[r] :
           \A a \in Present(q, r, j)' :
             \E f \in Present(q, r, j) : f.k = a.k /\ f.betas \subseteq a.betas
    BY <2>8, <2>9, <2>10
  <2>15. HeldIsStored'
    BY <1>1, <1>3, <2>2, <2>6, <2>7, HeldKept
  <2>16. e.op # "start"
    BY <2>3
  <2>17. DrawnIsKnown' /\ DrawsAnew' /\ BetasGrow'
    BY <1>1, <1>3, <2>13, <2>14, <2>16, DrawsKept, StartsKept, GrowStep
  <2> QED
    BY <2>15, <2>17 DEF GrowInv
<1> QED
  BY <1>1, <1>2, <1>3

\* The handlers that begin, and those that return, without a block.
LEMMA BeginGrow ==
  ASSUME TypeOK, TypeOK', GrowInv, NEW p \in Players, NEW w \in Workers,
         Begin(p, w)
  PROVE  GrowInv'
<1>1. ASSUME NEW r \in Requests, StartPreprocessing(p, w, r)
      PROVE  GrowInv'
  BY <1>1, StartPreprocessingGrow
<1>2. ASSUME NEW r \in Requests, MtaResponse(p, w, r)
      PROVE  GrowInv'
  <2>1. PICK view \in Views :
          Enter(p, w, [op |-> "ack", req |-> r, to |-> view])
    BY <1>2 DEF MtaResponse
  <2>2. Calm([op |-> "ack", req |-> r, to |-> view])
    BY DEF Calm
  <2> QED
    BY <1>2, <2>1, <2>2, EnterGrow DEF MtaResponse, stored, counted, sent
<1>3. ASSUME NEW r \in Requests, OfflineMtaVerify(p, w, r)
      PROVE  GrowInv'
  <2>1. PICK resps \in [Players -> {m \in responses : m.req = r}] :
          Enter(p, w, [op |-> "verify", req |-> r, i |-> 1, block |-> Absent,
                       resps |-> resps, ok |-> TRUE, out |-> <<>>])
    BY <1>3 DEF OfflineMtaVerify
  <2>2. Calm([op |-> "verify", req |-> r, i |-> 1, block |-> Absent,
              resps |-> resps, ok |-> TRUE, out |-> <<>>])
    BY DEF Calm
  <2> QED
    BY <1>3, <2>1, <2>2, EnterGrow DEF OfflineMtaVerify, stored, counted, sent
<1>4. ASSUME NEW r \in Requests, StorePresigningData(p, w, r)
      PROVE  GrowInv'
  <2>1. PICK dels \in [Others(p) -> {m \in deltas : m.req = r}] :
          Enter(p, w, [op |-> "publish", req |-> r, i |-> 1, block |-> Absent,
                       dels |-> dels])
    BY <1>4 DEF StorePresigningData
  <2>2. Calm([op |-> "publish", req |-> r, i |-> 1, block |-> Absent,
              dels |-> dels])
    BY DEF Calm
  <2> QED
    BY <1>4, <2>1, <2>2, EnterGrow DEF StorePresigningData, stored, counted, sent
<1>5. ASSUME NEW tx \in Txs, EcdsaSign(p, w, tx)
      PROVE  GrowInv'
  <2>1. PICK first \in Indices :
          Enter(p, w, [op |-> "sign", tx |-> tx, first |-> first, i |-> 1])
    BY <1>5 DEF EcdsaSign
  <2>2. Calm([op |-> "sign", tx |-> tx, first |-> first, i |-> 1])
    BY DEF Calm
  <2> QED
    BY <1>5, <2>1, <2>2, EnterGrow DEF EcdsaSign, stored, counted, sent
<1> QED
  BY <1>1, <1>2, <1>3, <1>4, <1>5 DEF Begin

LEMMA StoreAckGrow ==
  ASSUME TypeOK, TypeOK', GrowInv, NEW p \in Players, NEW w \in Workers,
         StoreAck(p, w)
  PROVE  GrowInv'
<1> DEFINE c == call[p][w]
           n == answered[p][c.req] + 1
           e == [op |-> "respond", req |-> c.req, i |-> 1, block |-> Absent,
                 answer |-> [by |-> p, n |-> n, to |-> c.to], out |-> <<>>]
<1>1. Enter(p, w, e) /\ UNCHANGED <<data, slots, starts, deltas, uses>>
  BY DEF StoreAck, sent
<1>2. Calm(e)
  BY DEF Calm
<1> HIDE DEF e
<1> QED
  BY <1>1, <1>2, EnterGrow

LEMMA PlainReturnGrow ==
  ASSUME TypeOK, TypeOK', GrowInv, NEW p \in Players, NEW w \in Workers,
         \/ StartReturn(p, w) \/ ResponseReturn(p, w)
         \/ SignReturn(p, w)  \/ Interrupt(p, w)
  PROVE  GrowInv'
<1>1. Return(p, w) /\ UNCHANGED <<data, slots, starts, deltas, uses>>
  BY DEF StartReturn, ResponseReturn, SignReturn, Interrupt,
         stored, counted, sent
<1> QED
  BY <1>1, ReturnGrow

LEMMA NextGrow ==
  ASSUME TypeOK, TypeOK', OnePerRequest, OnePerRequest', GrowInv, Next
  PROVE  GrowInv'
<1> USE DEF Continue
<1>1. ASSUME NEW p \in Players, NEW w \in Workers, Continue(p, w)
      PROVE  GrowInv'
  BY <1>1, CreateMtaRequestGrow, LoadBlockGrow, StoreAckGrow,
     CreateMtaResponseGrow, MtaVerifyGrow, OfflineMtaVerifyReturnGrow,
     PublishBlockGrow, StorePresigningReturnGrow, SignBlockGrow, PlainReturnGrow
<1> QED
  BY <1>1, BeginGrow, PlainReturnGrow, CancelPreprocessingGrow DEF Next

-----------------------------------------------------------------------------
(* FitInv: deltas are never taken back, and what store_presigning_data      *)
(* checks is what a presignature has to fit.                                *)

LEMMA FitStep ==
  ASSUME FitInv, deltas \subseteq deltas',
         \A q \in Players : \A s \in Published(q)' :
           s \in Published(q) \/ FitsR(q, s)',
         \A q \in Players, v \in Workers : call'[q][v].op = "publish" =>
           \/ call[q][v].op = "publish" /\ call'[q][v].dels = call[q][v].dels
           \/ \A z \in Others(q) : /\ call'[q][v].dels[z] \in deltas
                                   /\ call'[q][v].dels[z].from = z
  PROVE  FitInv'
<1>1. DeltasWereSent'
  BY DEF FitInv, DeltasWereSent
<1>2. \A q \in Players : \A r, i : Sent(q, r, i) \subseteq Sent(q, r, i)'
  BY DEF Sent, Version
<1>3. \A q \in Players : \A s : FitsR(q, s) => FitsR(q, s)'
  BY <1>2 DEF FitsR, AnswersR, Others
<1>4. PublishedFits'
  BY <1>3 DEF FitInv, PublishedFits
<1> QED
  BY <1>1, <1>4 DEF FitInv

\* Steps that publish nothing.
LEMMA EnterFit ==
  ASSUME CallsOK, FitInv, deltas \subseteq deltas',
         NEW p \in Players, NEW w \in Workers, NEW c, Enter(p, w, c),
         \A q \in Players : Published(q)' \subseteq Published(q),
         c.op = "publish" =>
           \/ call[p][w].op = "publish" /\ c.dels = call[p][w].dels
           \/ \A z \in Others(p) : c.dels[z] \in deltas /\ c.dels[z].from = z
  PROVE  FitInv'
<1>1. \A q \in Players, v \in Workers :
        call'[q][v] = IF q = p /\ v = w THEN c ELSE call[q][v]
  BY DEF CallsOK, Enter
<1>2. \A q \in Players, v \in Workers : call'[q][v].op = "publish" =>
        \/ call[q][v].op = "publish" /\ call'[q][v].dels = call[q][v].dels
        \/ \A z \in Others(q) : /\ call'[q][v].dels[z] \in deltas
                                /\ call'[q][v].dels[z].from = z
  BY <1>1
<1> QED
  BY <1>2, FitStep

LEMMA UnpublishedFit ==
  ASSUME CallsOK, FitInv, deltas \subseteq deltas', UNCHANGED <<slots, uses>>,
         NEW p \in Players, NEW w \in Workers, NEW c, Enter(p, w, c),
         c.op # "publish"
  PROVE  FitInv'
<1>1. \A q \in Players : Published(q)' = Published(q)
  BY DEF Published, SlotsOf, UsedBy
<1> QED
  BY <1>1, EnterFit

\* What calc_R verifies makes the presignature fit.
LEMMA VerifiedFits ==
  ASSUME TypeOK, FitInv, NEW p \in Players, NEW w \in Workers, NEW c,
         c = call[p][w], c.op = "publish", c.block # Absent,
         CalcR(p, c.block, Theirs(p, c))
  PROVE  FitsR(p, Presignature(p, c))
<1> DEFINE b == c.block
           theirs == Theirs(p, c)
           sig == Presignature(p, c)
           blk == [q \in Players |-> IF q = p THEN b ELSE theirs[q]]
<1>1. LoopLocals(c) /\ c \in PublishCalls(p, c.req, c.i)
  BY PublishLocals DEF TypeOK, CallsOK
<1>2. c.req \in Requests /\ c.i \in 1 .. Count[c.req]
  BY <1>1, LoadedInRange DEF LoopLocals
<1>3. SharesCancel(blk)
  BY DEF CalcR
<1>4. /\ sig.req = c.req /\ sig.block = c.i /\ sig.k = b.k
      /\ sig.betas = b.betas /\ sig.alphas = b.alphas
      /\ \A q \in Players : sig.R[q] = blk[q].k
  BY DEF Presignature
<1>5. /\ blk[p] = b
      /\ \A q \in Others(p) : blk[q] = c.dels[q].blocks[c.i]
  BY DEF Others, Theirs
<1> HIDE DEF sig, blk, theirs
<1>6. \A a \in Players : \A q \in Others(a) :
        /\ Len(blk[a].alphas) = 1
        /\ blk[q].betas = {blk[a].alphas[1][q]}
        /\ blk[a].alphas[1][q].to[a] = blk[a].k
  BY <1>3 DEF SharesCancel
<1>7. \A a, q \in Players : q \in Others(a) <=> a \in Others(q)
  BY DEF Others
<1>8. ASSUME NEW q \in Others(p)
      PROVE  /\ Len(sig.alphas) = 1 /\ AnswersR(sig, q, sig.alphas[1][q])
             /\ [k |-> sig.R[q], betas |-> {sig.alphas[1][q]}]
                  \in Sent(q, sig.req, sig.block)
             /\ \E a \in sig.betas : sig.betas = {a} /\ AnswersR(sig, p, a)
  <2>1. q \in Players /\ p \in Others(q)
    BY DEF Others
  <2>2. Len(sig.alphas) = 1 /\ blk[q].betas = {sig.alphas[1][q]}
    <3>1. Len(blk[p].alphas) = 1 /\ blk[q].betas = {blk[p].alphas[1][q]}
      BY <1>6
    <3>2. blk[p].alphas = sig.alphas
      BY <1>4, <1>5
    <3> QED
      BY <3>1, <3>2
  <2>3. ASSUME NEW z \in Others(q)
        PROVE  sig.alphas[1][q].to[z] = sig.R[z]
    <3>1. z \in Players /\ q \in Others(z)
      BY DEF Others
    <3>2. {sig.alphas[1][q]} = {blk[z].alphas[1][q]}
      BY <1>6, <2>2, <3>1
    <3>3. sig.alphas[1][q] = blk[z].alphas[1][q]
      BY ONLY <3>2
    <3>4. blk[z].alphas[1][q].to[z] = blk[z].k
      BY <1>6, <3>1
    <3> QED
      BY <1>4, <3>1, <3>3, <3>4
  <2>4. [k |-> sig.R[q], betas |-> {sig.alphas[1][q]}]
          \in Sent(q, sig.req, sig.block)
    <3>1. c.dels[q] \in deltas /\ c.dels[q].from = q
      BY DEF FitInv, DeltasWereSent
    <3>2. c.dels[q].req = c.req
      BY <1>1 DEF PublishCalls, MtaDeltas
    <3>3. Version(c.dels[q].blocks[c.i])
            = [k |-> sig.R[q], betas |-> {sig.alphas[1][q]}]
      BY <1>4, <1>5, <2>1, <2>2 DEF Version
    <3> QED
      BY <1>4, <3>1, <3>2, <3>3 DEF Sent
  <2>5. \E a \in sig.betas : sig.betas = {a} /\ AnswersR(sig, p, a)
    <3>1. sig.betas = {blk[q].alphas[1][p]}
      BY <1>4, <1>5, <1>6, <2>1
    <3>2. ASSUME NEW z \in Others(p)
          PROVE  blk[q].alphas[1][p].to[z] = sig.R[z]
      <4>1. z \in Players /\ p \in Others(z)
        BY DEF Others
      <4>2. {blk[q].alphas[1][p]} = {blk[z].alphas[1][p]}
        BY <1>4, <1>5, <1>6, <3>1, <4>1
      <4>3. blk[q].alphas[1][p] = blk[z].alphas[1][p]
        BY ONLY <4>2
      <4>4. blk[z].alphas[1][p].to[z] = blk[z].k
        BY <1>6, <4>1
      <4> QED
        BY <1>4, <4>1, <4>3, <4>4
    <3> QED
      BY <3>1, <3>2 DEF AnswersR
  <2> QED
    BY <2>2, <2>3, <2>4, <2>5 DEF AnswersR
<1>9. sig.block \in 1 .. Count[sig.req] /\ sig.k = sig.R[p]
  BY <1>2, <1>4, <1>5
<1>10. FitsR(p, sig)
  BY <1>8, <1>9 DEF FitsR
<1> QED
  BY <1>10 DEF sig

LEMMA PublishBlockFit ==
  ASSUME TypeOK, FitInv, NEW p \in Players, NEW w \in Workers,
         PublishBlock(p, w)
  PROVE  FitInv'
<1>0. PICK c : c = call[p][w]
  OBVIOUS
<1> DEFINE y == First[c.req] + c.i - 1
           sig == Presignature(p, c)
           e == [c EXCEPT !.i = @ + 1, !.block = Absent]
<1>1. /\ c.op = "publish" /\ c.block # Absent
      /\ UNCHANGED <<data, starts, deltas, uses>>
      /\ \/ /\ CalcR(p, c.block, Theirs(p, c)) /\ y \in Indices
            /\ slots' = [slots EXCEPT ![p][y] = sig]
            /\ Enter(p, w, e)
         \/ Return(p, w) /\ UNCHANGED slots
  BY <1>0, PublishBlockCases
<1>2. CASE Return(p, w) /\ UNCHANGED slots
  <2>1. Enter(p, w, Idle) /\ Idle.op # "publish"
    BY <1>2 DEF Return, Idle
  <2> QED
    BY <1>1, <1>2, <2>1, UnpublishedFit DEF TypeOK
<1>3. CASE /\ CalcR(p, c.block, Theirs(p, c)) /\ y \in Indices
           /\ slots' = [slots EXCEPT ![p][y] = sig]
           /\ Enter(p, w, e)
  <2>1. c \in PublishCalls(p, c.req, c.i)
    BY <1>0, <1>1, PublishLocals DEF TypeOK, CallsOK
  <2>2. e.dels = c.dels
    BY <2>1 DEF PublishCalls
  <2>3. FitsR(p, sig)
    BY <1>0, <1>1, <1>3, VerifiedFits
  <2> HIDE DEF y, sig, e
  <2>4. \A q \in Players : \A s \in Published(q)' :
          s \in Published(q) \/ (q = p /\ s = sig)
    BY <1>1, <1>3, SlotFilled
  <2>5. FitsR(p, sig)'
    BY <1>1, <2>3 DEF FitsR, AnswersR, Sent, Version
  <2>6. \A q \in Players, v \in Workers :
          call'[q][v] = IF q = p /\ v = w THEN e ELSE call[q][v]
    BY <1>3 DEF TypeOK, CallsOK, Enter
  <2> QED
    BY <1>0, <1>1, <2>2, <2>4, <2>5, <2>6, FitStep
<1> HIDE DEF y, sig, e
<1> QED
  BY <1>1, <1>2, <1>3

LEMMA StorePresigningDataFit ==
  ASSUME TypeOK, FitInv, NEW p \in Players, NEW w \in Workers,
         NEW r \in Requests, StorePresigningData(p, w, r)
  PROVE  FitInv'
<1>1. PICK dels \in [Others(p) -> {m \in deltas : m.req = r}] :
        /\ \A q \in Others(p) : dels[q].from = q
        /\ Enter(p, w, [op |-> "publish", req |-> r, i |-> 1, block |-> Absent,
                        dels |-> dels])
  BY DEF StorePresigningData
<1> DEFINE c == [op |-> "publish", req |-> r, i |-> 1, block |-> Absent,
                 dels |-> dels]
<1>2. \A z \in Others(p) : c.dels[z] \in deltas /\ c.dels[z].from = z
  BY <1>1
<1>3. /\ Enter(p, w, c) /\ UNCHANGED deltas
      /\ \A q \in Players : Published(q)' = Published(q)
  BY <1>1 DEF StorePresigningData, Published, SlotsOf, UsedBy, stored, sent
<1> HIDE DEF c
<1> QED
  BY <1>2, <1>3, EnterFit DEF TypeOK

LEMMA LoadBlockFit ==
  ASSUME TypeOK, FitInv, NEW p \in Players, NEW w \in Workers, LoadBlock(p, w)
  PROVE  FitInv'
<1> DEFINE c == call[p][w]
           e == [c EXCEPT !.block = data[p][c.req][c.i]]
<1>1. /\ c.op \in {"respond", "verify", "publish"}
      /\ Enter(p, w, e) \/ Enter(p, w, Idle)
      /\ UNCHANGED <<slots, deltas, uses>>
  BY DEF LoadBlock, Return, stored, sent
<1>2. /\ e.op = c.op
      /\ c.op = "publish" => e.dels = c.dels
      /\ Idle.op # "publish"
  BY <1>1, RespondLocals, VerifyLocals, PublishLocals
  DEF TypeOK, CallsOK, RespondCalls, VerifyCalls, PublishCalls, Idle
<1> HIDE DEF e
<1>3. \A q \in Players : Published(q)' = Published(q)
  BY <1>1 DEF Published, SlotsOf, UsedBy
<1> QED
  BY <1>1, <1>2, <1>3, EnterFit DEF TypeOK

LEMMA BeginFit ==
  ASSUME TypeOK, FitInv, NEW p \in Players, NEW w \in Workers, Begin(p, w)
  PROVE  FitInv'
<1>1. ASSUME NEW r \in Requests, StartPreprocessing(p, w, r)
      PROVE  FitInv'
  BY <1>1, UnpublishedFit DEF StartPreprocessing, TypeOK, sent
<1>2. ASSUME NEW r \in Requests, MtaResponse(p, w, r)
      PROVE  FitInv'
  <2>1. PICK view \in Views :
          Enter(p, w, [op |-> "ack", req |-> r, to |-> view])
    BY <1>2 DEF MtaResponse
  <2> QED
    BY <1>2, <2>1, UnpublishedFit DEF MtaResponse, TypeOK, stored, sent
<1>3. ASSUME NEW r \in Requests, OfflineMtaVerify(p, w, r)
      PROVE  FitInv'
  <2>1. PICK resps \in [Players -> {m \in responses : m.req = r}] :
          Enter(p, w, [op |-> "verify", req |-> r, i |-> 1, block |-> Absent,
                       resps |-> resps, ok |-> TRUE, out |-> <<>>])
    BY <1>3 DEF OfflineMtaVerify
  <2> QED
    BY <1>3, <2>1, UnpublishedFit DEF OfflineMtaVerify, TypeOK, stored, sent
<1>4. ASSUME NEW tx \in Txs, EcdsaSign(p, w, tx)
      PROVE  FitInv'
  <2>1. PICK first \in Indices :
          Enter(p, w, [op |-> "sign", tx |-> tx, first |-> first, i |-> 1])
    BY <1>4 DEF EcdsaSign
  <2> QED
    BY <1>4, <2>1, UnpublishedFit DEF EcdsaSign, TypeOK, stored, sent
<1> QED
  BY <1>1, <1>2, <1>3, <1>4, StorePresigningDataFit DEF Begin

LEMMA ReturnFit ==
  ASSUME TypeOK, FitInv, NEW p \in Players, NEW w \in Workers,
         \/ StartReturn(p, w) \/ ResponseReturn(p, w)
         \/ OfflineMtaVerifyReturn(p, w) \/ StorePresigningReturn(p, w)
         \/ SignReturn(p, w) \/ Interrupt(p, w)
  PROVE  FitInv'
<1>1. Enter(p, w, Idle) /\ UNCHANGED <<slots, uses>> /\ deltas \subseteq deltas'
  BY DEF StartReturn, ResponseReturn, OfflineMtaVerifyReturn,
         StorePresigningReturn, SignReturn, Interrupt, Return, stored, sent
<1>2. Idle.op # "publish"
  BY DEF Idle
<1> QED
  BY <1>1, <1>2, UnpublishedFit DEF TypeOK

LEMMA CreateMtaRequestFit ==
  ASSUME TypeOK, FitInv, NEW p \in Players, NEW w \in Workers,
         CreateMtaRequest(p, w)
  PROVE  FitInv'
<1> DEFINE c == call[p][w]
           e == [c EXCEPT !.i = @ + 1]
<1>1. /\ c.op = "start" /\ Enter(p, w, e)
      /\ UNCHANGED <<slots, deltas, uses>>
  BY DEF CreateMtaRequest, sent
<1>2. e.op # "publish"
  BY <1>1, StartLocals DEF TypeOK, CallsOK, StartCalls
<1> HIDE DEF e
<1> QED
  BY <1>1, <1>2, UnpublishedFit DEF TypeOK

LEMMA StoreAckFit ==
  ASSUME TypeOK, FitInv, NEW p \in Players, NEW w \in Workers, StoreAck(p, w)
  PROVE  FitInv'
<1> DEFINE c == call[p][w]
           e == [op |-> "respond", req |-> c.req, i |-> 1, block |-> Absent,
                 answer |-> [by |-> p, n |-> answered[p][c.req] + 1,
                             to |-> c.to], out |-> <<>>]
<1>1. Enter(p, w, e) /\ UNCHANGED <<slots, deltas, uses>>
  BY DEF StoreAck, sent
<1>2. e.op # "publish"
  OBVIOUS
<1> HIDE DEF e
<1> QED
  BY <1>1, <1>2, UnpublishedFit DEF TypeOK

LEMMA CreateMtaResponseFit ==
  ASSUME TypeOK, FitInv, NEW p \in Players, NEW w \in Workers,
         CreateMtaResponse(p, w)
  PROVE  FitInv'
<1> DEFINE c == call[p][w]
           b == c.block
           e == [c EXCEPT !.i = @ + 1, !.block = Absent,
                          !.out = Append(@, [k |-> b.k, gproofs |-> b.gproofs])]
<1>1. /\ c.op = "respond" /\ Enter(p, w, e)
      /\ UNCHANGED <<slots, deltas, uses>>
  BY DEF CreateMtaResponse, sent
<1>2. e.op # "publish"
  BY <1>1, RespondLocals DEF TypeOK, CallsOK, RespondCalls
<1> HIDE DEF e
<1> QED
  BY <1>1, <1>2, UnpublishedFit DEF TypeOK

LEMMA MtaVerifyFit ==
  ASSUME TypeOK, FitInv, NEW p \in Players, NEW w \in Workers, MtaVerify(p, w)
  PROVE  FitInv'
<1> DEFINE c == call[p][w]
           b == c.block
           ranges == \A q \in Others(p) : AnswersMe(p, b, c.resps[q])
           d == [b EXCEPT !.gcom = FALSE,
                   !.alphas = Append(@, [q \in Players |-> c.resps[q].answer])]
           e == [c EXCEPT !.i = @ + 1, !.block = Absent,
                          !.ok = @ /\ ranges, !.out = Append(@, d)]
<1>1. /\ Enter(p, w, e) \/ Enter(p, w, Idle)
      /\ UNCHANGED <<slots, deltas, uses>>
  BY DEF MtaVerify, Return, sent
<1>2. c.op = "verify"
  BY DEF MtaVerify
<1>3. e.op # "publish" /\ Idle.op # "publish"
  BY <1>2, VerifyLocals DEF TypeOK, CallsOK, VerifyCalls, Idle
<1> HIDE DEF e
<1> QED
  BY <1>1, <1>3, UnpublishedFit DEF TypeOK

LEMMA SignBlockFit ==
  ASSUME TypeOK, FitInv, NEW p \in Players, NEW w \in Workers, SignBlock(p, w)
  PROVE  FitInv'
<1> DEFINE c == call[p][w]
           e == [c EXCEPT !.i = @ + 1]
<1>1. /\ Enter(p, w, e) \/ Enter(p, w, Idle)
      /\ UNCHANGED deltas
  BY DEF SignBlock, Return, sent
<1>2. e.op # "publish" /\ Idle.op # "publish"
  BY SignLocals DEF TypeOK, CallsOK, SignCalls, SignBlock, Idle
<1> HIDE DEF e
<1> QED
  BY <1>1, <1>2, SignBlockPublished, EnterFit DEF TypeOK

LEMMA CancelPreprocessingFit ==
  ASSUME FitInv, NEW p \in Players, NEW r \in Requests,
         CancelPreprocessing(p, r)
  PROVE  FitInv'
<1>1. UNCHANGED <<slots, call, deltas, uses>>
  BY DEF CancelPreprocessing, sent
<1>2. \A q \in Players : Published(q)' = Published(q)
  BY <1>1 DEF Published, SlotsOf, UsedBy
<1> QED
  BY <1>1, <1>2, FitStep

LEMMA NextFit ==
  ASSUME TypeOK, FitInv, Next
  PROVE  FitInv'
<1>1. ASSUME NEW p \in Players, NEW w \in Workers, Continue(p, w)
      PROVE  FitInv'
  BY <1>1, CreateMtaRequestFit, LoadBlockFit, StoreAckFit,
     CreateMtaResponseFit, MtaVerifyFit, PublishBlockFit, SignBlockFit,
     ReturnFit DEF Continue
<1> QED
  BY <1>1, BeginFit, ReturnFit, CancelPreprocessingFit DEF Next

-----------------------------------------------------------------------------
(* The two theorems.                                                        *)

LEMMA InitAgreement == Init => AgreementInv
<1> SUFFICES ASSUME Init PROVE AgreementInv
  OBVIOUS
<1>1. \A p \in Players, w \in Workers : call[p][w].op = "idle"
  BY DEF Init, Idle
<1>2. \A p \in Players, w \in Workers, r \in Requests :
        ~InRequest(p, w, r) /\ ~Draws(p, w, r) /\ ~Holds(p, w, r)
  BY <1>1 DEF InRequest, Draws, Holds
<1>3. \A p \in Players : Published(p) = {}
  BY DEF Init, Published, SlotsOf, UsedBy
<1>4. \A p \in Players, r \in Requests : \A i \in 1 .. Count[r] :
        Made(p, r, i) = {} /\ Present(p, r, i) = {}
  <2>1. \A p \in Players, r \in Requests : \A i \in 1 .. Count[r] :
          Sent(p, r, i) = {} /\ data[p][r][i] = Absent
    BY DEF Init, Sent, NoData
  <2> QED
    BY <1>2, <1>3, <2>1 DEF Made, Present, Verified
<1>5. GrowInv
  BY <1>2, <1>4 DEF GrowInv, HeldIsStored, DrawnIsKnown, DrawsAnew, BetasGrow
<1>6. FitInv
  BY <1>1, <1>3 DEF FitInv, DeltasWereSent, PublishedFits
<1> QED
  BY <1>2, <1>5, <1>6 DEF AgreementInv, OnePerRequest

LEMMA StutterAgreement ==
  ASSUME TypeOK, TypeOK', AgreementInv, UNCHANGED vars
  PROVE  AgreementInv'
<1>1. /\ \A q \in Players : Published(q)' = Published(q)
      /\ \A q \in Players, r \in Requests : \A i \in 1 .. Count[r] :
           Sent(q, r, i)' \subseteq Made(q, r, i)
  BY DEF Published, SlotsOf, UsedBy, Made, Sent, Version, vars
<1>2. GrowInv'
  BY <1>1, CalmStep, StartsKept DEF AgreementInv, vars
<1>3. FitInv'
  BY <1>1, FitStep DEF AgreementInv, vars
<1> QED
  BY <1>2, <1>3 DEF AgreementInv, OnePerRequest, InRequest, vars

LEMMA NextAgreement ==
  ASSUME Serial, TypeOK, TypeOK', AckInv, AckInv', AgreementInv, Next
  PROVE  AgreementInv'
BY NextGrow, NextFit DEF AgreementInv, AckInv

\* Each player of a presignature of p made it of one answer, to the k of the
\* others in its R.
LEMMA OneAnswer ==
  ASSUME TypeOK, FitInv, NEW p \in Players, NEW s \in Published(p),
         NEW x \in Players, Others(p) # {}
  PROVE  \E a : /\ [k |-> s.R[x], betas |-> {a}] \in Made(x, s.req, s.block)
                /\ AnswersR(s, x, a)
<1>1. FitsR(p, s)
  BY DEF FitInv, PublishedFits
<1>2. CASE x = p
  <2>1. PICK a : s.betas = {a} /\ AnswersR(s, p, a)
    BY <1>1 DEF FitsR
  <2>2. Version(s) = [k |-> s.R[p], betas |-> {a}]
    BY <1>1, <2>1 DEF FitsR, Version
  <2>3. Version(s) \in Made(p, s.req, s.block)
    BY DEF Made
  <2> QED
    BY <1>2, <2>1, <2>2, <2>3
<1>3. CASE x # p
  <2>1. x \in Others(p)
    BY <1>3 DEF Others
  <2> QED
    BY <1>1, <2>1 DEF FitsR, Made
<1> QED
  BY <1>2, <1>3

\* Two such versions of one block of x, with the same k, are the same.
LEMMA SameAnswer ==
  ASSUME BetasGrow, NEW x \in Players, NEW r \in Requests,
         NEW i \in 1 .. Count[r], NEW k, NEW a, NEW b,
         [k |-> k, betas |-> {a}] \in Made(x, r, i),
         [k |-> k, betas |-> {b}] \in Made(x, r, i)
  PROVE  a = b
<1> DEFINE f == [k |-> k, betas |-> {a}]
           g == [k |-> k, betas |-> {b}]
<1>1. f.k = g.k /\ f.betas = {a} /\ g.betas = {b}
  OBVIOUS
<1> HIDE DEF f, g
<1>2. f \in Made(x, r, i) /\ g \in Made(x, r, i)
  BY DEF f, g
<1>3. {a} \subseteq {b} \/ {b} \subseteq {a}
  BY <1>1, <1>2 DEF BetasGrow
<1> QED
  BY <1>3

LEMMA AgreementGivesOneR == TypeOK /\ AgreementInv => NonceInOneR
<1> SUFFICES ASSUME TypeOK, AgreementInv, NEW p \in Players, NEW q \in Players,
                    NEW u \in Published(p), NEW v \in Published(q),
                    u.req = v.req, u.block = v.block,
                    NEW x \in Players, u.R[x] = v.R[x]
             PROVE  u.R = v.R
  BY DEF NonceInOneR
<1>1. /\ u \in Presignatures /\ v \in Presignatures
      /\ u.req \in Requests /\ u.block \in 1 .. Count[u.req]
  BY PublishedType DEF AgreementInv, FitInv, PublishedFits, FitsR, Presignatures
<1>2. u.R \in Views /\ v.R \in Views
  BY <1>1 DEF Presignatures
<1>3. ASSUME NEW z \in Players
      PROVE  u.R[z] = v.R[z]
  <2>1. CASE z = x
    BY <2>1
  <2>2. CASE z # x
    <3>1. z \in Others(x) /\ Others(p) # {} /\ Others(q) # {}
      BY <2>2 DEF Others
    <3>2. PICK a : /\ [k |-> u.R[x], betas |-> {a}] \in Made(x, u.req, u.block)
                   /\ AnswersR(u, x, a)
      BY <3>1, OneAnswer DEF AgreementInv
    <3>3. PICK b : /\ [k |-> v.R[x], betas |-> {b}] \in Made(x, v.req, v.block)
                   /\ AnswersR(v, x, b)
      BY <3>1, OneAnswer DEF AgreementInv
    <3>4. a = b
      BY <1>1, <3>2, <3>3, SameAnswer DEF AgreementInv, GrowInv
    <3> QED
      BY <3>1, <3>2, <3>3, <3>4 DEF AnswersR
  <2> QED
    BY <2>1, <2>2
<1> QED
  BY <1>2, <1>3 DEF Views

LEMMA AgreementVerifies == TypeOK /\ AgreementInv => EqualRSignaturesVerify
<1> SUFFICES ASSUME TypeOK, AgreementInv, NEW p \in Players, NEW q \in Players,
                    p # q, NEW u \in Published(p), NEW v \in Published(q),
                    u.req = v.req, u.block = v.block, u.R = v.R
             PROVE  /\ u.k = v.R[p]
                    /\ Len(u.alphas) = 1
                    /\ v.betas = {u.alphas[1][q]}
  BY DEF EqualRSignaturesVerify
<1>1. /\ FitsR(p, u) /\ FitsR(q, v)
      /\ q \in Others(p) /\ p \in Others(q)
  BY DEF AgreementInv, FitInv, PublishedFits, Others
<1>2. u.req \in Requests /\ u.block \in 1 .. Count[u.req]
  BY <1>1, PublishedType DEF FitsR, Presignatures
<1>3. [k |-> u.R[q], betas |-> {u.alphas[1][q]}] \in Made(q, u.req, u.block)
  BY <1>1 DEF FitsR, Made
<1>4. PICK a : v.betas = {a}
  BY <1>1 DEF FitsR
<1>5. [k |-> u.R[q], betas |-> {a}] \in Made(q, u.req, u.block)
  <2>1. Version(v) = [k |-> u.R[q], betas |-> {a}]
    BY <1>1, <1>4 DEF FitsR, Version
  <2> QED
    BY <2>1 DEF Made
<1>6. a = u.alphas[1][q]
  BY <1>2, <1>3, <1>5, SameAnswer DEF AgreementInv, GrowInv
<1> QED
  BY <1>1, <1>4, <1>6 DEF FitsR

LEMMA AgreementHolds ==
  ASSUME Serial
  PROVE  Spec => [](TypeOK /\ AgreementInv)
<1>1. Init => TypeOK /\ AckInv /\ AgreementInv
  BY InitType, InitAck, InitAgreement
<1>2. TypeOK /\ AckInv /\ AgreementInv /\ [Next]_vars
        => TypeOK' /\ AckInv' /\ AgreementInv'
  <2>1. TypeOK /\ AckInv /\ UNCHANGED vars => AckInv'
    BY DEF AckInv, OnePerRequest, AckPending, InRequest, vars
  <2> QED
    BY <2>1, NextType, StutterType, NextAck, NextAgreement, StutterAgreement
<1> QED
  BY <1>1, <1>2, PTL DEF Spec

\* Players that publish presignatures sharing one player's k agree on
\* everybody's k, for every number of players, blocks, requests, workers and
\* restarts, whatever is interrupted or cancelled.
THEOREM OneR ==
  ASSUME Serial
  PROVE  Spec => []NonceInOneR
BY AgreementHolds, AgreementGivesOneR, PTL

\* Presignatures of two players with one R are made of each other's answers:
\* the partial signatures made from them add up, and need no verification.
THEOREM EqualRVerifies ==
  ASSUME Serial
  PROVE  Spec => []EqualRSignaturesVerify
BY AgreementHolds, AgreementVerifies, PTL
=============================================================================

-------------------------- MODULE OfflinePresigning --------------------------
(***************************************************************************)
(* ECDSA presigning and signing of cmp_ecdsa_offline_signing_service, for  *)
(* one key, with the persistency the host provides (as the one of          *)
(* test/cosigner/ecdsa_offline_test.cpp).                                  *)
(*                                                                         *)
(* A presigning request runs four handlers on every player                 *)
(*   start -> offline_mta_response -> offline_mta_verify                   *)
(*         -> store_presigning_data                                        *)
(* whose outputs the host carries between the players; ecdsa_sign then     *)
(* consumes one stored presignature per message.  Every persistency call   *)
(* is atomic and nothing else is, so each is a step of its own, and the    *)
(* worker running a handler keeps the handler's locals in call.            *)
(*                                                                         *)
(* Data: the secrets k, a, b, gamma of a block are drawn together, so one  *)
(* generation number k stands for them; a ciphertext, commitment or proof  *)
(* is what it is about; a sum of MtA terms is the set of its terms.        *)
(***************************************************************************)
EXTENDS Naturals, FiniteSets, Sequences

CONSTANTS
  Players,      \* the players of the key
  Requests,     \* presigning request ids
  Txs,          \* signing transactions, one message each block
  Workers,      \* host threads of a player
  First,        \* start_index of a request
  Count,        \* number of blocks of a request
  TxBlocks,     \* number of messages in a transaction
  Total,        \* total_count: size of the presignature array of the key
  MinBatch,     \* requests of at least this many blocks use the batch verifier
  MaxStarts,    \* bound: times a player may start the same request id
  MaxResponses, \* bound: offline_mta_response runs of a player and request
  Serial,       \* the host runs one handler at a time per player and request
  Interrupts,   \* the handlers that may stop halfway (exception or crash)
  Absent,       \* no record in the persistency
  Zero          \* the ack of a request no offline_mta_response has run for

Handlers == {"start", "ack", "respond", "verify", "publish", "sign"}

ASSUME ConstantsAssumption ==
  /\ IsFiniteSet(Players)
  /\ First \in [Requests -> Nat]
  /\ Count \in [Requests -> Nat \ {0}]
  /\ TxBlocks \in [Txs -> Nat \ {0}]
  /\ Total \in Nat /\ MinBatch \in Nat
  /\ MaxStarts \in Nat /\ MaxResponses \in Nat
  /\ Serial \in BOOLEAN
  /\ Interrupts \subseteq Handlers

VARIABLES
  metadata,   \* per player and request: Absent, Zero or the ack
  data,       \* per player, request and block: the ecdsa_signing_data
  slots,      \* per player: the presignature array of the key
  call,       \* per player and worker: the handler it runs and its locals
  starts,     \* per player and request: generations drawn so far
  answered,   \* per player and request: offline_mta_response runs so far
  requests,   \* mta requests returned by start_ecdsa_signature_preprocessing
  responses,  \* cmp_mta_responses returned by offline_mta_response
  deltas,     \* cmp_mta_deltas returned by offline_mta_verify
  uses        \* per player: the presignatures that signed, and what

vars == <<metadata, data, slots, call, starts, answered, requests, responses,
          deltas, uses>>
stored == <<metadata, data, slots>>
sent == <<requests, responses, deltas>>
counted == <<starts, answered>>

-----------------------------------------------------------------------------
Others(p) == Players \ {p}
Generations == 1 .. MaxStarts
Indices == 0 .. Total - 1

\* The MtA requests of all players as one player was given them: their
\* generations.  ack_mta_request hashes exactly this.
Views == [Players -> Generations]

\* One run of offline_mta_response: who ran it, its randomness (the betas)
\* and the requests it answers.
Answers == [by : Players, n : 1 .. MaxResponses, to : Views]

\* ecdsa_signing_data.  gproofs: G_proofs not moved out yet.  heard: the A,
\* B, Z of public_data.  gcom: its gamma_commitment is not cleared.  betas:
\* the own answers subtracted from delta and chi.  alphas: the answers of the
\* others decrypted and added to delta, chi and GAMMA, one entry each run of
\* mta_verify; the first run clears mta_request.
AnswerMaps == [Players -> Answers]
Blocks == [k : Generations, gproofs : BOOLEAN, heard : Views \cup {Absent},
           gcom : BOOLEAN, betas : SUBSET Answers, alphas : Seq(AnswerMaps)]

NewBlock(k) == [k |-> k, gproofs |-> TRUE, heard |-> Absent, gcom |-> FALSE,
                betas |-> {}, alphas |-> <<>>]

\* cmp_signature_preprocessed_data.  R = g^(1/k) is the sum of all players'
\* k, hence the generations in heard; chi is the MtA terms.
Presignatures == [req : Requests, block : Nat \ {0}, k : Generations, R : Views,
                  betas : SUBSET Answers, alphas : Seq(AnswerMaps)]

\* An empty slot is not a presignature.
ASSUME AbsentAssumption == Absent \notin Presignatures

Idle == [op |-> "idle"]
NoData(r) == [i \in 1 .. Count[r] |-> Absent]

\* Worker w of p, or some worker, runs a handler of request r.
InRequest(p, w, r) ==
  call[p][w].op \notin {"idle", "sign"} /\ call[p][w].req = r
Busy(p, r) == \E v \in Workers : InRequest(p, v, r)

\* Worker w of p may enter a handler of request r.
Free(p, w, r) == call[p][w].op = "idle" /\ (Serial => ~Busy(p, r))

Enter(p, w, c) == call' = [call EXCEPT ![p][w] = c]
Return(p, w) == Enter(p, w, Idle)

\* for (i = 0; i < count; i++); and a loop that runs once too often.
MoreByOne(c) == c.i <= Count[c.req] + 1
More(c) == c.i <= Count[c.req]

\* store_preprocessing_data at the worker's block.
StoreBlock(p, c, b) == data' = [data EXCEPT ![p][c.req][c.i] = b]

-----------------------------------------------------------------------------
Init ==
  /\ metadata = [p \in Players |-> [r \in Requests |-> Absent]]
  /\ data = [p \in Players |-> [r \in Requests |-> NoData(r)]]
  /\ slots = [p \in Players |-> [x \in Indices |-> Absent]]
  /\ call = [p \in Players |-> [w \in Workers |-> Idle]]
  /\ starts = [p \in Players |-> [r \in Requests |-> 0]]
  /\ answered = [p \in Players |-> [r \in Requests |-> 0]]
  /\ requests = {} /\ responses = {} /\ deltas = {}
  /\ uses = [p \in Players |-> {}]

-----------------------------------------------------------------------------
(* start_ecdsa_signature_preprocessing                                      *)

\* A known request id is refused by store_preprocessing_metadata.
StartPreprocessing(p, w, r) ==
  /\ Free(p, w, r)
  /\ metadata[p][r] = Absent
  /\ starts[p][r] < MaxStarts
  /\ metadata' = [metadata EXCEPT ![p][r] = Zero]
  /\ starts' = [starts EXCEPT ![p][r] = @ + 1]
  /\ Enter(p, w, [op |-> "start", req |-> r, k |-> starts[p][r] + 1, i |-> 1])
  /\ UNCHANGED <<data, slots, answered, sent, uses>>

CreateMtaRequest(p, w) ==
  LET c == call[p][w] IN
  /\ c.op = "start" /\ More(c)
  /\ StoreBlock(p, c, NewBlock(c.k))
  /\ Enter(p, w, [c EXCEPT !.i = @ + 1])
  /\ UNCHANGED <<metadata, slots, counted, sent, uses>>

StartReturn(p, w) ==
  LET c == call[p][w] IN
  /\ c.op = "start" /\ ~More(c)
  /\ requests' = requests \cup {[from |-> p, req |-> c.req, k |-> c.k]}
  /\ Return(p, w)
  /\ UNCHANGED <<stored, counted, responses, deltas, uses>>

-----------------------------------------------------------------------------
(* The per-block loops of the other three handlers begin by loading the     *)
(* block; load_preprocessing_data throws when there is none.                *)

LoadBlock(p, w) ==
  LET c == call[p][w] IN
  /\ c.op \in {"respond", "verify", "publish"}
  /\ More(c) /\ c.block = Absent
  /\ \/ /\ data[p][c.req][c.i] # Absent
        /\ Enter(p, w, [c EXCEPT !.block = data[p][c.req][c.i]])
     \/ /\ data[p][c.req][c.i] = Absent
        /\ Return(p, w)
  /\ UNCHANGED <<stored, counted, sent, uses>>

-----------------------------------------------------------------------------
(* offline_mta_response                                                     *)

\* Refused once the request has an ack; a check for the request only.
IsKnown(p, r) == metadata[p][r] # Absent
NoAckYet(p, r) == metadata[p][r] = Zero

MtaResponse(p, w, r) ==
  /\ Free(p, w, r)
  /\ NoAckYet(p, r)
  /\ \E view \in Views :
       /\ \A q \in Players : [from |-> q, req |-> r, k |-> view[q]] \in requests
       /\ Enter(p, w, [op |-> "ack", req |-> r, to |-> view])
  /\ UNCHANGED <<stored, counted, sent, uses>>

\* Stores the ack, overriding whatever is there, before any proof of the
\* requests is verified.
StoreAck(p, w) ==
  LET c == call[p][w]
      n == answered[p][c.req] + 1 IN
  /\ c.op = "ack"
  /\ n <= MaxResponses
  /\ metadata' = [metadata EXCEPT ![p][c.req] = c.to]
  /\ answered' = [answered EXCEPT ![p][c.req] = n]
  /\ Enter(p, w, [op |-> "respond", req |-> c.req, i |-> 1, block |-> Absent,
                  answer |-> [by |-> p, n |-> n, to |-> c.to], out |-> <<>>])
  /\ UNCHANGED <<data, slots, starts, sent, uses>>

\* create_mta_response on a block; and one that drops the commitments.
AnsweredUncommitted(b, answer) ==
  [b EXCEPT !.gproofs = FALSE, !.heard = answer.to, !.betas = @ \cup {answer}]
Answered(b, answer) ==
  [b EXCEPT !.gproofs = FALSE, !.heard = answer.to, !.gcom = TRUE,
            !.betas = @ \cup {answer}]

CreateMtaResponse(p, w) ==
  LET c == call[p][w]
      b == c.block IN
  /\ c.op = "respond" /\ b # Absent
  /\ StoreBlock(p, c, Answered(b, c.answer))
  /\ Enter(p, w, [c EXCEPT !.i = @ + 1, !.block = Absent,
                           !.out = Append(@, [k |-> b.k, gproofs |-> b.gproofs])])
  /\ UNCHANGED <<metadata, slots, counted, sent, uses>>

ResponseReturn(p, w) ==
  LET c == call[p][w] IN
  /\ c.op = "respond" /\ ~More(c)
  /\ responses' = responses \cup
       {[from |-> p, req |-> c.req, answer |-> c.answer, blocks |-> c.out]}
  /\ Return(p, w)
  /\ UNCHANGED <<stored, counted, requests, deltas, uses>>

-----------------------------------------------------------------------------
(* offline_mta_verify                                                       *)

\* Loads the metadata; every ack must equal the own one.
OfflineMtaVerify(p, w, r) ==
  /\ Free(p, w, r)
  /\ metadata[p][r] # Absent
  /\ \E resps \in [Players -> {m \in responses : m.req = r}] :
       /\ \A q \in Players : /\ resps[q].from = q
                             /\ resps[q].answer.to = metadata[p][r]
       /\ Enter(p, w, [op |-> "verify", req |-> r, i |-> 1, block |-> Absent,
                       resps |-> resps, ok |-> TRUE, out |-> <<>>])
  /\ UNCHANGED <<stored, counted, sent, uses>>

\* The gamma proof of q: it was sent, its commitment is still there, and
\* q's GAMMA is the one committed to in the request this player answered.
GammaProven(b, m, q, i) ==
  /\ b.heard # Absent /\ b.gcom
  /\ m.blocks[i].gproofs /\ m.blocks[i].k = b.heard[q]

\* The two MtA range proofs of q: what q answered is this block's mta_request.
AnswersMe(p, b, m) == b.alphas = <<>> /\ m.answer.to[p] = b.k

Batched(r) == Count[r] >= MinBatch

\* mta_verify: single_response_verifier checks the range proofs block by
\* block, batch_response_verifier only in OfflineMtaVerifyReturn.
MtaVerify(p, w) ==
  LET c == call[p][w]
      b == c.block
      gammas == \A q \in Others(p) : GammaProven(b, c.resps[q], q, c.i)
      ranges == \A q \in Others(p) : AnswersMe(p, b, c.resps[q])
      new == [b EXCEPT !.gcom = FALSE,
                       !.alphas = Append(@, [q \in Players |-> c.resps[q].answer])]
  IN
  /\ c.op = "verify" /\ b # Absent
  /\ \/ /\ gammas /\ (ranges \/ Batched(c.req))
        /\ StoreBlock(p, c, new)
        /\ Enter(p, w, [c EXCEPT !.i = @ + 1, !.block = Absent,
                                 !.ok = @ /\ ranges, !.out = Append(@, new)])
     \/ /\ ~(gammas /\ (ranges \/ Batched(c.req)))
        /\ Return(p, w)
        /\ UNCHANGED data
  /\ UNCHANGED <<metadata, slots, counted, sent, uses>>

\* The batch verifiers run last, after every block was stored.
BatchVerifies(c) == c.ok

OfflineMtaVerifyReturn(p, w) ==
  LET c == call[p][w] IN
  /\ c.op = "verify" /\ ~More(c)
  /\ deltas' = IF BatchVerifies(c)
                 THEN deltas \cup {[from |-> p, req |-> c.req, blocks |-> c.out]}
                 ELSE deltas
  /\ Return(p, w)
  /\ UNCHANGED <<stored, counted, requests, responses, uses>>

-----------------------------------------------------------------------------
(* store_presigning_data                                                    *)

StorePresigningData(p, w, r) ==
  /\ Free(p, w, r)
  /\ metadata[p][r] # Absent
  /\ \E dels \in [Others(p) -> {m \in deltas : m.req = r}] :
       /\ \A q \in Others(p) : dels[q].from = q
       /\ Enter(p, w, [op |-> "publish", req |-> r, i |-> 1, block |-> Absent,
                       dels |-> dels])
  /\ UNCHANGED <<stored, counted, sent, uses>>

\* The players whose gamma is summed in the GAMMA of q's block, with it.
Gamma(q, b) ==
  [x \in Players |-> IF x = q THEN b.k
                     ELSE IF b.heard = Absent \/ b.alphas = <<>> THEN 0
                     ELSE b.heard[x]]

\* g^(sum of delta) = product of the DELTAs: every alpha one player added
\* is the beta the other subtracted, and answers the k that is multiplied.
SharesCancel(blk) ==
  \A a \in Players : \A b \in Others(a) :
    /\ Len(blk[a].alphas) = 1
    /\ blk[b].betas = {blk[a].alphas[1][b]}
    /\ blk[a].alphas[1][b].to[a] = blk[a].k

\* calc_R: the Diffie-Hellman proofs, then the check of the sums; and one
\* that leaves out the second, or both.
CalcRUnsummed(p, b, theirs) ==
  /\ b.heard # Absent
  /\ \A q \in Others(p) : /\ theirs[q].k = b.heard[q]
                          /\ Gamma(q, theirs[q]) = Gamma(p, b)
CalcRUnchecked(p, b, theirs) == b.heard # Absent
CalcR(p, b, theirs) ==
  /\ b.heard # Absent
  /\ \A q \in Others(p) : /\ theirs[q].k = b.heard[q]
                          /\ Gamma(q, theirs[q]) = Gamma(p, b)
  /\ SharesCancel([q \in Players |-> IF q = p THEN b ELSE theirs[q]])

\* store_preprocessed_data throws beyond the end of the array.
PublishBlock(p, w) ==
  LET c == call[p][w]
      b == c.block
      x == First[c.req] + c.i - 1
      theirs == [q \in Others(p) |-> c.dels[q].blocks[c.i]]
      R == [q \in Players |-> IF q = p THEN b.k ELSE theirs[q].k]
      sig == [req |-> c.req, block |-> c.i, k |-> b.k, R |-> R,
              betas |-> b.betas, alphas |-> b.alphas]
  IN
  /\ c.op = "publish" /\ b # Absent
  /\ \/ /\ CalcR(p, b, theirs) /\ x \in Indices
        /\ slots' = [slots EXCEPT ![p][x] = sig]
        /\ Enter(p, w, [c EXCEPT !.i = @ + 1, !.block = Absent])
     \/ /\ ~(CalcR(p, b, theirs) /\ x \in Indices)
        /\ Return(p, w)
        /\ UNCHANGED slots
  /\ UNCHANGED <<metadata, data, counted, sent, uses>>

\* delete_preprocessing_data.
Forget(p, r) ==
  /\ metadata' = [metadata EXCEPT ![p][r] = Absent]
  /\ data' = [data EXCEPT ![p][r] = NoData(r)]

StorePresigningReturn(p, w) ==
  LET c == call[p][w] IN
  /\ c.op = "publish" /\ ~More(c)
  /\ Forget(p, c.req)
  /\ Return(p, w)
  /\ UNCHANGED <<slots, counted, sent, uses>>

-----------------------------------------------------------------------------
(* ecdsa_sign and cancel_preprocessing                                      *)

EcdsaSign(p, w, tx) ==
  /\ call[p][w].op = "idle"
  /\ \E first \in Indices :
       Enter(p, w, [op |-> "sign", tx |-> tx, first |-> first, i |-> 1])
  /\ UNCHANGED <<stored, counted, sent, uses>>

\* The slot of the worker's message, cleared by load_preprocessed_data; and a
\* load that clears nothing, or always the first slot.
SlotOf(c) == c.first + c.i - 1
ConsumeNothing(p, c) == UNCHANGED slots
ConsumeFirst(p, c) == slots' = [slots EXCEPT ![p][c.first] = Absent]
Consume(p, c) == slots' = [slots EXCEPT ![p][SlotOf(c)] = Absent]

\* load_preprocessed_data reads and clears in one step; it throws on an empty
\* slot or one beyond the array.
SignBlock(p, w) ==
  LET c == call[p][w]
      x == SlotOf(c) IN
  /\ c.op = "sign" /\ c.i <= TxBlocks[c.tx]
  /\ \/ /\ x \in Indices /\ slots[p][x] # Absent
        /\ Consume(p, c)
        /\ uses' = [uses EXCEPT ![p] =
                      @ \cup {[tx |-> c.tx, i |-> c.i, sig |-> slots[p][x]]}]
        /\ Enter(p, w, [c EXCEPT !.i = @ + 1])
     \/ /\ ~(x \in Indices /\ slots[p][x] # Absent)
        /\ Return(p, w)
        /\ UNCHANGED <<slots, uses>>
  /\ UNCHANGED <<metadata, data, counted, sent>>

SignReturn(p, w) ==
  LET c == call[p][w] IN
  /\ c.op = "sign" /\ c.i > TxBlocks[c.tx]
  /\ Return(p, w)
  /\ UNCHANGED <<stored, counted, sent, uses>>

CancelPreprocessing(p, r) ==
  /\ Forget(p, r)
  /\ UNCHANGED <<slots, call, counted, sent, uses>>

\* An exception out of a handler, or a crash of its process, between two
\* persistency calls: what was stored stays, the result is lost.
Interrupt(p, w) ==
  /\ call[p][w].op \in Interrupts
  /\ Return(p, w)
  /\ UNCHANGED <<stored, counted, sent, uses>>

-----------------------------------------------------------------------------
Begin(p, w) ==
  \/ \E r \in Requests : \/ StartPreprocessing(p, w, r)
                         \/ MtaResponse(p, w, r)
                         \/ OfflineMtaVerify(p, w, r)
                         \/ StorePresigningData(p, w, r)
  \/ \E tx \in Txs : EcdsaSign(p, w, tx)

Continue(p, w) ==
  \/ CreateMtaRequest(p, w)  \/ StartReturn(p, w)
  \/ LoadBlock(p, w)
  \/ StoreAck(p, w)          \/ CreateMtaResponse(p, w) \/ ResponseReturn(p, w)
  \/ MtaVerify(p, w)         \/ OfflineMtaVerifyReturn(p, w)
  \/ PublishBlock(p, w)      \/ StorePresigningReturn(p, w)
  \/ SignBlock(p, w)         \/ SignReturn(p, w)

Next ==
  \E p \in Players :
    \/ \E w \in Workers : Begin(p, w) \/ Continue(p, w) \/ Interrupt(p, w)
    \/ \E r \in Requests : CancelPreprocessing(p, r)

Spec == Init /\ [][Next]_vars

-----------------------------------------------------------------------------
\* A worker leaves store_presigning_data after its first store, and the
\* blocks of the request stay behind.
AbandonedStore ==
  \E p \in Players, w \in Workers :
    LET c == call[p][w] IN
    /\ c.op = "publish" /\ c.i > 1
    /\ call'[p][w].op = "idle"
    /\ data'[p][c.req] # NoData(c.req)

\* Behaviours in which no store_presigning_data is abandoned that way.
WholeSpec == Init /\ [][Next /\ ~AbandonedStore]_vars

\* A host that keeps calling: every handler that can be called again and
\* again is called, calls return, nothing is cancelled or interrupted.
Calls == \E p \in Players, w \in Workers : Begin(p, w) \/ Continue(p, w)

Fairness ==
  \A p \in Players :
    /\ \A w \in Workers : WF_vars(Continue(p, w))
    /\ \A r \in Requests :
         /\ SF_vars(\E w \in Workers : StartPreprocessing(p, w, r))
         /\ SF_vars(\E w \in Workers : MtaResponse(p, w, r))
         /\ SF_vars(\E w \in Workers : OfflineMtaVerify(p, w, r))
         /\ SF_vars(\E w \in Workers : StorePresigningData(p, w, r))

FairSpec == Init /\ [][Calls]_vars /\ Fairness

-----------------------------------------------------------------------------
(* Types                                                                    *)

MtaRequests == [from : Players, req : Requests, k : Generations]

ResponseBlocks == [k : Generations, gproofs : BOOLEAN]

MtaResponses(r) == [from : Players, req : {r}, answer : Answers,
                    blocks : [1 .. Count[r] -> ResponseBlocks]]

MtaDeltas(r) == [from : Players, req : {r}, blocks : [1 .. Count[r] -> Blocks]]

OptionalBlocks == Blocks \cup {Absent}

\* What the handlers keep while they run: loops are at block i.
StartCalls(r) == [op : {"start"}, req : {r}, k : Generations,
                  i : 1 .. Count[r] + 1]
AckCalls(r) == [op : {"ack"}, req : {r}, to : Views]
RespondCalls(r, i) ==
  [op : {"respond"}, req : {r}, i : {i}, block : OptionalBlocks,
   answer : Answers, out : [1 .. i - 1 -> ResponseBlocks]]
VerifyCalls(r, i) ==
  [op : {"verify"}, req : {r}, i : {i}, block : OptionalBlocks,
   resps : [Players -> MtaResponses(r)], ok : BOOLEAN,
   out : [1 .. i - 1 -> Blocks]]
PublishCalls(p, r, i) ==
  [op : {"publish"}, req : {r}, i : {i}, block : OptionalBlocks,
   dels : [Others(p) -> MtaDeltas(r)]]
SignCalls == [op : {"sign"}, tx : Txs, first : Indices, i : Nat]

CallOK(p, c) ==
  \/ c = Idle
  \/ c \in SignCalls
  \/ \E r \in Requests :
       \/ c \in StartCalls(r)
       \/ c \in AckCalls(r)
       \/ \E i \in 1 .. Count[r] + 1 :
            /\ \/ c \in RespondCalls(r, i)
               \/ c \in VerifyCalls(r, i)
               \/ c \in PublishCalls(p, r, i)
            /\ i > Count[r] => c.block = Absent

DataOK ==
  /\ DOMAIN data = Players
  /\ \A p \in Players :
       /\ DOMAIN data[p] = Requests
       /\ \A r \in Requests : data[p][r] \in [1 .. Count[r] -> OptionalBlocks]

CallsOK ==
  /\ DOMAIN call = Players
  /\ \A p \in Players :
       /\ DOMAIN call[p] = Workers
       /\ \A w \in Workers : CallOK(p, call[p][w])

\* The type invariant.
TypeOK ==
  /\ metadata \in [Players -> [Requests -> Views \cup {Absent, Zero}]]
  /\ DataOK
  /\ slots \in [Players -> [Indices -> Presignatures \cup {Absent}]]
  /\ CallsOK
  /\ starts \in [Players -> [Requests -> 0 .. MaxStarts]]
  /\ answered \in [Players -> [Requests -> 0 .. MaxResponses]]
  /\ requests \subseteq MtaRequests
  /\ \A m \in responses : \E r \in Requests : m \in MtaResponses(r)
  /\ \A m \in deltas : \E r \in Requests : m \in MtaDeltas(r)
  /\ uses \in [Players -> SUBSET [tx : Txs, i : Nat, sig : Presignatures]]

-----------------------------------------------------------------------------
(* Properties                                                               *)

\* A presignature is named by the secret k it was made from.
Nonce(sig) == <<sig.req, sig.block, sig.k>>
Nonces == UNION {{r} \X (1 .. Count[r]) \X Generations : r \in Requests}
SlotsOf(p) == {slots[p][x] : x \in Indices} \ {Absent}
UsedBy(p) == {u.sig : u \in uses[p]}
Published(p) == SlotsOf(p) \cup UsedBy(p)

\* Worker w draws generations for request r, or holds a loaded block of it.
Draws(p, w, r) == InRequest(p, w, r) /\ call[p][w].op = "start"
Holds(p, w, r) ==
  /\ InRequest(p, w, r) /\ call[p][w].op \in {"respond", "verify", "publish"}
  /\ call[p][w].block # Absent

\* No k signs two messages (load_preprocessed_data, "MUST delete").
SingleUse ==
  \A p \in Players : \A u, v \in uses[p] : Nonce(u.sig) = Nonce(v.sig) => u = v

\* What keeps SingleUse, part by part; Serial and no AbandonedStore assumed.
\* One worker at a time is in a request.
OnePerRequest ==
  \A p \in Players, r \in Requests : \A v, w \in Workers :
    (InRequest(p, v, r) /\ InRequest(p, w, r)) => v = w

\* Nothing carries a generation that was not drawn yet.
KnownGenerations ==
  \A p \in Players, r \in Requests :
    /\ \A i \in 1 .. Count[r] :
         data[p][r][i] # Absent => data[p][r][i].k <= starts[p][r]
    /\ \A w \in Workers :
         /\ Draws(p, w, r) => call[p][w].k <= starts[p][r]
         /\ Holds(p, w, r) => call[p][w].block.k <= starts[p][r]
    /\ \A s \in Published(p) : s.req = r => s.k <= starts[p][r]

\* A presignature is in the slot of its block, and only there.
InItsSlot ==
  \A p \in Players :
    /\ \A s \in Published(p) : s.block \in 1 .. Count[s.req]
    /\ \A x \in Indices :
         slots[p][x] # Absent => x = First[slots[p][x].req] + slots[p][x].block - 1

\* What signed is not offered again.
UsedIsGone ==
  \A p \in Players : \A s \in SlotsOf(p), u \in UsedBy(p) : Nonce(s) # Nonce(u)

\* The data a presignature was made from is gone, or the worker that made it
\* is still past it in store_presigning_data; no worker holds it.
MakerPast(p, s) ==
  \E w \in Workers :
    InRequest(p, w, s.req) /\ call[p][w].op = "publish" /\ call[p][w].i > s.block

Retired(p, s) ==
  /\ \/ MakerPast(p, s)
     \/ data[p][s.req][s.block] = Absent
     \/ data[p][s.req][s.block].k # s.k
  /\ \A w \in Workers :
       /\ Draws(p, w, s.req) => call[p][w].k # s.k
       /\ (Holds(p, w, s.req) /\ call[p][w].i = s.block) =>
            call[p][w].block.k # s.k

AllRetired == \A p \in Players : \A s \in Published(p) : Retired(p, s)

SingleUseInv ==
  /\ OnePerRequest /\ KnownGenerations /\ InItsSlot
  /\ UsedIsGone /\ AllRetired /\ SingleUse

\* When all partial signatures of a message carry the same R,
\* ecdsa_offline_signature adds them without verifying the result: the MtA
\* terms of their chi must cancel and their k must be the ones in R.
EqualRSignaturesVerify ==
  \A p, q \in Players : p # q =>
    \A u \in Published(p), v \in Published(q) :
      (u.req = v.req /\ u.block = v.block /\ u.R = v.R) =>
        /\ u.k = v.R[p]
        /\ Len(u.alphas) = 1
        /\ v.betas = {u.alphas[1][q]}

\* A share of k is never part of two different R: players that publish
\* presignatures sharing one player's k agree on everybody's k.
NonceInOneR ==
  \A p, q \in Players : \A u \in Published(p), v \in Published(q) :
    (/\ u.req = v.req /\ u.block = v.block
     /\ \E x \in Players : u.R[x] = v.R[x]) => u.R = v.R

\* "Can't change mta message ack": the ack of a request is replaced only by
\* deleting the request.
AckFixed ==
  [][\A p \in Players, r \in Requests :
       metadata[p][r] \notin {Absent, Zero} =>
         metadata'[p][r] \in {metadata[p][r], Absent}]_vars

\* Everything a player started is stored for signing in the end.
RequestCompletes(p, r) ==
  /\ metadata[p][r] = Absent
  /\ \A i \in 1 .. Count[r] :
       \E s \in Published(p) : s.req = r /\ s.block = i

\* Driven by such a host, every request a player knows is completed: no
\* guard of the four handlers blocks or poisons it.
EveryRequestCompletes ==
  \A p \in Players, r \in Requests :
    metadata[p][r] # Absent ~> RequestCompletes(p, r)

-----------------------------------------------------------------------------
(* The presignatures of a player, seen as PresignaturePool.                 *)
Pool == INSTANCE PresignaturePool WITH
          Presigs <- Nonces,
          pool <- [p \in Players |-> {Nonce(s) : s \in SlotsOf(p)}],
          spent <- [p \in Players |-> {Nonce(s) : s \in UsedBy(p)}]

\* Storing and consuming implement a pool in which no spent presignature is
\* ever offered again.
ImplementsPool == Pool!Spec
=============================================================================

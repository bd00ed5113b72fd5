---------------------- MODULE OfflinePresigningProofs ----------------------
(***************************************************************************)
(* Proofs about OfflinePresigning, for every value of its constants.       *)
(***************************************************************************)
EXTENDS OfflinePresigning, SequenceTheorems, TLAPS

-----------------------------------------------------------------------------
(* What the locals of a worker are, by the handler it runs.                 *)

LEMMA StartLocals ==
  ASSUME NEW p, NEW c, CallOK(p, c), c.op = "start"
  PROVE  c.req \in Requests /\ c \in StartCalls(c.req)
BY DEF CallOK, Idle, SignCalls, StartCalls, AckCalls, RespondCalls,
       VerifyCalls, PublishCalls

LEMMA AckLocals ==
  ASSUME NEW p, NEW c, CallOK(p, c), c.op = "ack"
  PROVE  c.req \in Requests /\ c \in AckCalls(c.req)
BY DEF CallOK, Idle, SignCalls, StartCalls, AckCalls, RespondCalls,
       VerifyCalls, PublishCalls

LEMMA SignLocals ==
  ASSUME NEW p, NEW c, CallOK(p, c), c.op = "sign"
  PROVE  c \in SignCalls
BY DEF CallOK, Idle, SignCalls, StartCalls, AckCalls, RespondCalls,
       VerifyCalls, PublishCalls

\* The loops of the other three handlers are at a block of their request.
LoopLocals(c) ==
  /\ c.req \in Requests
  /\ c.i \in 1 .. Count[c.req] + 1
  /\ ~More(c) => c.block = Absent

LEMMA RespondLocals ==
  ASSUME NEW p, NEW c, CallOK(p, c), c.op = "respond"
  PROVE  LoopLocals(c) /\ c \in RespondCalls(c.req, c.i)
<1>1. PICK r \in Requests : \E i \in 1 .. Count[r] + 1 :
        c \in RespondCalls(r, i) /\ (i > Count[r] => c.block = Absent)
  BY DEF CallOK, Idle, SignCalls, StartCalls, AckCalls, VerifyCalls, PublishCalls
<1>2. PICK i \in 1 .. Count[r] + 1 :
        c \in RespondCalls(r, i) /\ (i > Count[r] => c.block = Absent)
  BY <1>1
<1>3. c.req = r /\ c.i = i
  BY <1>2 DEF RespondCalls
<1> QED
  BY <1>2, <1>3, ConstantsAssumption DEF LoopLocals, More

LEMMA VerifyLocals ==
  ASSUME NEW p, NEW c, CallOK(p, c), c.op = "verify"
  PROVE  LoopLocals(c) /\ c \in VerifyCalls(c.req, c.i)
<1>1. PICK r \in Requests : \E i \in 1 .. Count[r] + 1 :
        c \in VerifyCalls(r, i) /\ (i > Count[r] => c.block = Absent)
  BY DEF CallOK, Idle, SignCalls, StartCalls, AckCalls, RespondCalls, PublishCalls
<1>2. PICK i \in 1 .. Count[r] + 1 :
        c \in VerifyCalls(r, i) /\ (i > Count[r] => c.block = Absent)
  BY <1>1
<1>3. c.req = r /\ c.i = i
  BY <1>2 DEF VerifyCalls
<1> QED
  BY <1>2, <1>3, ConstantsAssumption DEF LoopLocals, More

LEMMA PublishLocals ==
  ASSUME NEW p, NEW c, CallOK(p, c), c.op = "publish"
  PROVE  LoopLocals(c) /\ c \in PublishCalls(p, c.req, c.i)
<1>1. PICK r \in Requests : \E i \in 1 .. Count[r] + 1 :
        c \in PublishCalls(p, r, i) /\ (i > Count[r] => c.block = Absent)
  BY DEF CallOK, Idle, SignCalls, StartCalls, AckCalls, RespondCalls, VerifyCalls
<1>2. PICK i \in 1 .. Count[r] + 1 :
        c \in PublishCalls(p, r, i) /\ (i > Count[r] => c.block = Absent)
  BY <1>1
<1>3. c.req = r /\ c.i = i
  BY <1>2 DEF PublishCalls
<1> QED
  BY <1>2, <1>3, ConstantsAssumption DEF LoopLocals, More

\* Entering or leaving a handler touches one worker.
LEMMA EnterOK ==
  ASSUME CallsOK, NEW p \in Players, NEW w \in Workers, NEW c, CallOK(p, c),
         Enter(p, w, c)
  PROVE  CallsOK'
BY DEF CallsOK, Enter, CallOK

LEMMA ReturnOK ==
  ASSUME CallsOK, NEW p \in Players, NEW w \in Workers, Return(p, w)
  PROVE  CallsOK'
BY EnterOK DEF Return, CallOK

\* Appending extends the domain by one.
LEMMA AppendFn ==
  ASSUME NEW S, NEW n \in Nat, NEW f \in [1 .. n -> S], NEW e \in S
  PROVE  Append(f, e) \in [1 .. n + 1 -> S]
<1>1. f \in Seq(S)
  BY SeqDef
<1>2. /\ Len(f) \in Nat
      /\ 1 .. n = 1 .. Len(f)
  BY <1>1, LenProperties
<1>3. Len(f) = n
  BY <1>2
<1>4. /\ Append(f, e) \in Seq(S)
      /\ Len(Append(f, e)) = n + 1
  BY <1>1, <1>3, AppendProperties
<1> QED
  BY <1>4, LenProperties

\* A block that is stored is the only one that changes.
LEMMA StoredAt ==
  ASSUME TypeOK, NEW p, NEW c, NEW b, StoreBlock(p, c, b)
  PROVE  \A q \in Players, r \in Requests : \A i \in 1 .. Count[r] :
           \/ data'[q][r][i] = data[q][r][i]
           \/ q = p /\ r = c.req /\ i = c.i /\ data'[q][r][i] = b
<1> SUFFICES ASSUME NEW q \in Players, NEW r \in Requests, NEW i \in 1 .. Count[r]
             PROVE  \/ data'[q][r][i] = data[q][r][i]
                    \/ q = p /\ r = c.req /\ i = c.i /\ data'[q][r][i] = b
  OBVIOUS
<1>1. /\ q \in DOMAIN data /\ r \in DOMAIN data[q] /\ i \in DOMAIN data[q][r]
  BY DEF TypeOK, DataOK
<1> QED
  BY <1>1 DEF StoreBlock

LEMMA StoreBlockOK ==
  ASSUME DataOK, NEW p \in Players, NEW c, NEW b \in Blocks,
         c.req \in Requests, c.i \in 1 .. Count[c.req], StoreBlock(p, c, b)
  PROVE  DataOK'
BY DEF DataOK, StoreBlock, OptionalBlocks

LEMMA ForgetOK ==
  ASSUME DataOK, NEW p \in Players, NEW r \in Requests, Forget(p, r)
  PROVE  DataOK'
BY DEF DataOK, Forget, NoData, OptionalBlocks

\* A loop that goes on is at a block of its request.
LEMMA InRange ==
  ASSUME NEW c, LoopLocals(c), More(c)
  PROVE  c.i \in 1 .. Count[c.req] /\ c.i + 1 \in 1 .. Count[c.req] + 1
BY ConstantsAssumption DEF LoopLocals, More

\* A worker that loaded a block is inside its loop.
LEMMA LoadedInRange ==
  ASSUME NEW c, LoopLocals(c), c.block # Absent
  PROVE  c.i \in 1 .. Count[c.req] /\ c.i + 1 \in 1 .. Count[c.req] + 1
BY InRange DEF LoopLocals

-----------------------------------------------------------------------------
(* Type correctness: one lemma per action.                                  *)

LEMMA InitType == Init => TypeOK
<1> SUFFICES ASSUME Init PROVE TypeOK
  OBVIOUS
<1>1. DataOK
  BY DEF Init, DataOK, NoData, OptionalBlocks
<1>2. CallsOK
  BY DEF Init, CallsOK, CallOK
<1> QED
  BY <1>1, <1>2, ConstantsAssumption DEF Init, TypeOK, Indices

LEMMA StartPreprocessingType ==
  ASSUME TypeOK, NEW p \in Players, NEW w \in Workers, NEW r \in Requests,
         StartPreprocessing(p, w, r)
  PROVE  TypeOK'
<1>1. starts[p][r] + 1 \in Generations /\ starts[p][r] + 1 \in 0 .. MaxStarts
  BY ConstantsAssumption DEF TypeOK, StartPreprocessing, Generations
<1>2. CallOK(p, [op |-> "start", req |-> r, k |-> starts[p][r] + 1, i |-> 1])
  BY <1>1, ConstantsAssumption DEF CallOK, StartCalls
<1>3. CallsOK'
  BY <1>2, EnterOK DEF TypeOK, StartPreprocessing
<1>4. starts' \in [Players -> [Requests -> 0 .. MaxStarts]]
  BY <1>1 DEF TypeOK, StartPreprocessing
<1>5. metadata' \in [Players -> [Requests -> Views \cup {Absent, Zero}]]
  BY DEF TypeOK, StartPreprocessing
<1> QED
  BY <1>3, <1>4, <1>5 DEF TypeOK, StartPreprocessing, DataOK, sent

LEMMA CreateMtaRequestType ==
  ASSUME TypeOK, NEW p \in Players, NEW w \in Workers, CreateMtaRequest(p, w)
  PROVE  TypeOK'
<1> DEFINE c == call[p][w]
<1>1. CallOK(p, c) /\ c.op = "start"
  BY DEF TypeOK, CallsOK, CreateMtaRequest
<1>2. c.req \in Requests /\ c \in StartCalls(c.req)
  BY <1>1, StartLocals
<1>3. c.i \in 1 .. Count[c.req] /\ c.i + 1 \in 1 .. Count[c.req] + 1
  BY <1>2, ConstantsAssumption DEF StartCalls, CreateMtaRequest, More
<1>4. NewBlock(c.k) \in Blocks
  BY <1>2 DEF StartCalls, NewBlock, Blocks
<1>5. DataOK'
  BY <1>2, <1>3, <1>4, StoreBlockOK DEF TypeOK, CreateMtaRequest
<1>6. CallOK(p, [c EXCEPT !.i = @ + 1])
  BY <1>2, <1>3 DEF CallOK, StartCalls
<1>7. CallsOK'
  BY <1>6, EnterOK DEF TypeOK, CreateMtaRequest
<1> QED
  BY <1>5, <1>7 DEF TypeOK, CreateMtaRequest, counted, sent

LEMMA StartReturnType ==
  ASSUME TypeOK, NEW p \in Players, NEW w \in Workers, StartReturn(p, w)
  PROVE  TypeOK'
<1> DEFINE c == call[p][w]
<1>1. c.req \in Requests /\ c \in StartCalls(c.req)
  BY StartLocals DEF TypeOK, CallsOK, StartReturn
<1>2. requests' \subseteq MtaRequests
  BY <1>1 DEF TypeOK, StartReturn, StartCalls, MtaRequests
<1>3. CallsOK'
  BY ReturnOK DEF TypeOK, StartReturn
<1> QED
  BY <1>2, <1>3 DEF TypeOK, StartReturn, DataOK, stored, counted

LEMMA LoadBlockType ==
  ASSUME TypeOK, NEW p \in Players, NEW w \in Workers, LoadBlock(p, w)
  PROVE  TypeOK'
<1> DEFINE c == call[p][w]
           b == data[p][c.req][c.i]
<1>1. CallOK(p, c) /\ c.op \in {"respond", "verify", "publish"} /\ More(c)
  BY DEF TypeOK, CallsOK, LoadBlock
<1>2. LoopLocals(c)
  BY <1>1, RespondLocals, VerifyLocals, PublishLocals
<1>3. c.req \in Requests /\ c.i \in 1 .. Count[c.req]
  BY <1>1, <1>2, InRange DEF LoopLocals
<1>4. b \in OptionalBlocks
  BY <1>3 DEF TypeOK, DataOK
<1>5. CallOK(p, [c EXCEPT !.block = b])
  <2>1. Count[c.req] \in Nat
    BY <1>3, ConstantsAssumption
  <2>2. c.i \in 1 .. Count[c.req] + 1 /\ ~(c.i > Count[c.req])
    BY <1>3, <2>1
  <2>3. CASE c.op = "respond"
    <3>1. [c EXCEPT !.block = b] \in RespondCalls(c.req, c.i)
      BY <1>1, <1>4, <2>3, RespondLocals DEF RespondCalls
    <3> QED
      BY <1>3, <2>2, <3>1 DEF CallOK
  <2>4. CASE c.op = "verify"
    <3>1. [c EXCEPT !.block = b] \in VerifyCalls(c.req, c.i)
      BY <1>1, <1>4, <2>4, VerifyLocals DEF VerifyCalls
    <3> QED
      BY <1>3, <2>2, <3>1 DEF CallOK
  <2>5. CASE c.op = "publish"
    <3>1. [c EXCEPT !.block = b] \in PublishCalls(p, c.req, c.i)
      BY <1>1, <1>4, <2>5, PublishLocals DEF PublishCalls
    <3> QED
      BY <1>3, <2>2, <3>1 DEF CallOK
  <2> QED
    BY <1>1, <2>3, <2>4, <2>5
<1>6. CallsOK'
  BY <1>5, EnterOK, ReturnOK DEF TypeOK, LoadBlock
<1> QED
  BY <1>6 DEF TypeOK, LoadBlock, DataOK, stored, counted, sent

LEMMA MtaResponseType ==
  ASSUME TypeOK, NEW p \in Players, NEW w \in Workers, NEW r \in Requests,
         MtaResponse(p, w, r)
  PROVE  TypeOK'
<1>1. PICK view \in Views : Enter(p, w, [op |-> "ack", req |-> r, to |-> view])
  BY DEF MtaResponse
<1>2. CallOK(p, [op |-> "ack", req |-> r, to |-> view])
  BY DEF CallOK, AckCalls
<1>3. CallsOK'
  BY <1>1, <1>2, EnterOK DEF TypeOK
<1> QED
  BY <1>3 DEF TypeOK, MtaResponse, DataOK, stored, counted, sent

LEMMA StoreAckType ==
  ASSUME TypeOK, NEW p \in Players, NEW w \in Workers, StoreAck(p, w)
  PROVE  TypeOK'
<1> DEFINE c == call[p][w]
           n == answered[p][c.req] + 1
           answer == [by |-> p, n |-> n, to |-> c.to]
           new == [op |-> "respond", req |-> c.req, i |-> 1, block |-> Absent,
                   answer |-> answer, out |-> <<>>]
<1>1. c.req \in Requests /\ c \in AckCalls(c.req)
  BY AckLocals DEF TypeOK, CallsOK, StoreAck
<1>2. n \in 1 .. MaxResponses /\ n \in 0 .. MaxResponses
  BY <1>1, ConstantsAssumption DEF TypeOK, StoreAck
<1>3. answer \in Answers
  BY <1>1, <1>2 DEF AckCalls, Answers
<1>4. new \in RespondCalls(c.req, 1)
  BY <1>3 DEF RespondCalls, OptionalBlocks
<1>5. 1 \in 1 .. Count[c.req] + 1 /\ ~(1 > Count[c.req])
  BY <1>1, ConstantsAssumption
<1>6. CallOK(p, new)
  BY <1>1, <1>4, <1>5 DEF CallOK
<1>7. CallsOK'
  BY <1>6, EnterOK DEF TypeOK, StoreAck
<1>8. metadata' \in [Players -> [Requests -> Views \cup {Absent, Zero}]]
  BY <1>1 DEF TypeOK, StoreAck, AckCalls
<1>9. answered' \in [Players -> [Requests -> 0 .. MaxResponses]]
  BY <1>2 DEF TypeOK, StoreAck
<1> QED
  BY <1>7, <1>8, <1>9 DEF TypeOK, StoreAck, DataOK, sent

LEMMA CreateMtaResponseType ==
  ASSUME TypeOK, NEW p \in Players, NEW w \in Workers, CreateMtaResponse(p, w)
  PROVE  TypeOK'
<1> DEFINE c == call[p][w]
           b == c.block
           e == [k |-> b.k, gproofs |-> b.gproofs]
           new == [c EXCEPT !.i = @ + 1, !.block = Absent, !.out = Append(@, e)]
<1>1. LoopLocals(c) /\ c \in RespondCalls(c.req, c.i)
  BY RespondLocals DEF TypeOK, CallsOK, CreateMtaResponse
<1>2. c.req \in Requests /\ c.i \in 1 .. Count[c.req]
      /\ c.i + 1 \in 1 .. Count[c.req] + 1
  BY <1>1, LoadedInRange DEF LoopLocals, CreateMtaResponse
<1>3. b \in Blocks /\ c.answer \in Answers
  BY <1>1 DEF RespondCalls, OptionalBlocks, CreateMtaResponse
<1>4. Answered(b, c.answer) \in Blocks
  BY <1>3 DEF Answered, Blocks, Answers
<1>5. DataOK'
  BY <1>2, <1>4, StoreBlockOK DEF TypeOK, CreateMtaResponse
<1>6. e \in ResponseBlocks
  BY <1>3 DEF Blocks, ResponseBlocks
<1>7. /\ c.i - 1 \in Nat
      /\ (c.i - 1) + 1 = (c.i + 1) - 1
      /\ c.out \in [1 .. c.i - 1 -> ResponseBlocks]
  BY <1>1, <1>2, ConstantsAssumption DEF RespondCalls
<1>8. Append(c.out, e) \in [1 .. (c.i + 1) - 1 -> ResponseBlocks]
  BY <1>6, <1>7, AppendFn
<1>9. new \in RespondCalls(c.req, c.i + 1)
  BY <1>1, <1>8 DEF RespondCalls, OptionalBlocks
<1>10. CallOK(p, new)
  BY <1>2, <1>9 DEF CallOK
<1>11. CallsOK'
  BY <1>10, EnterOK DEF TypeOK, CreateMtaResponse
<1> QED
  BY <1>5, <1>11 DEF TypeOK, CreateMtaResponse, counted, sent

LEMMA ResponseReturnType ==
  ASSUME TypeOK, NEW p \in Players, NEW w \in Workers, ResponseReturn(p, w)
  PROVE  TypeOK'
<1> DEFINE c == call[p][w]
           m == [from |-> p, req |-> c.req, answer |-> c.answer, blocks |-> c.out]
<1>1. LoopLocals(c) /\ c \in RespondCalls(c.req, c.i)
  BY RespondLocals DEF TypeOK, CallsOK, ResponseReturn
<1>2. c.req \in Requests /\ c.i - 1 = Count[c.req]
  BY <1>1, ConstantsAssumption DEF LoopLocals, More, ResponseReturn
<1>3. m \in MtaResponses(c.req)
  BY <1>1, <1>2 DEF RespondCalls, MtaResponses
<1>4. \A x \in responses' : \E r \in Requests : x \in MtaResponses(r)
  BY <1>2, <1>3 DEF TypeOK, ResponseReturn
<1>5. CallsOK'
  BY ReturnOK DEF TypeOK, ResponseReturn
<1> QED
  BY <1>4, <1>5 DEF TypeOK, ResponseReturn, DataOK, stored, counted

LEMMA OfflineMtaVerifyType ==
  ASSUME TypeOK, NEW p \in Players, NEW w \in Workers, NEW r \in Requests,
         OfflineMtaVerify(p, w, r)
  PROVE  TypeOK'
<1>1. PICK resps \in [Players -> {m \in responses : m.req = r}] :
        Enter(p, w, [op |-> "verify", req |-> r, i |-> 1, block |-> Absent,
                     resps |-> resps, ok |-> TRUE, out |-> <<>>])
  BY DEF OfflineMtaVerify
<1> DEFINE new == [op |-> "verify", req |-> r, i |-> 1, block |-> Absent,
                   resps |-> resps, ok |-> TRUE, out |-> <<>>]
<1>2. {m \in responses : m.req = r} \subseteq MtaResponses(r)
  BY DEF TypeOK, MtaResponses
<1>3. resps \in [Players -> MtaResponses(r)]
  BY <1>2
<1>4. new \in VerifyCalls(r, 1)
  BY <1>3 DEF VerifyCalls, OptionalBlocks
<1>5. 1 \in 1 .. Count[r] + 1 /\ ~(1 > Count[r])
  BY ConstantsAssumption
<1>6. CallOK(p, new)
  BY <1>4, <1>5 DEF CallOK
<1>7. CallsOK'
  BY <1>1, <1>6, EnterOK DEF TypeOK
<1> QED
  BY <1>7 DEF TypeOK, OfflineMtaVerify, DataOK, stored, counted, sent

LEMMA MtaVerifyType ==
  ASSUME TypeOK, NEW p \in Players, NEW w \in Workers, MtaVerify(p, w)
  PROVE  TypeOK'
<1> DEFINE c == call[p][w]
           b == c.block
           ranges == \A q \in Others(p) : AnswersMe(p, b, c.resps[q])
           answers == [q \in Players |-> c.resps[q].answer]
           new == [b EXCEPT !.gcom = FALSE, !.alphas = Append(@, answers)]
           next == [c EXCEPT !.i = @ + 1, !.block = Absent,
                             !.ok = @ /\ ranges, !.out = Append(@, new)]
<1>1. LoopLocals(c) /\ c \in VerifyCalls(c.req, c.i)
  BY VerifyLocals DEF TypeOK, CallsOK, MtaVerify
<1>2. c.req \in Requests /\ c.i \in 1 .. Count[c.req]
      /\ c.i + 1 \in 1 .. Count[c.req] + 1
  BY <1>1, LoadedInRange DEF LoopLocals, MtaVerify
<1>3. b \in Blocks /\ c.resps \in [Players -> MtaResponses(c.req)]
  BY <1>1 DEF VerifyCalls, OptionalBlocks, MtaVerify
<1>4. answers \in AnswerMaps
  BY <1>3 DEF AnswerMaps, MtaResponses
<1>5. Append(b.alphas, answers) \in Seq(AnswerMaps)
  BY <1>3, <1>4, AppendProperties DEF Blocks
<1>6. new \in Blocks
  BY <1>3, <1>5 DEF Blocks
<1>7. CASE StoreBlock(p, c, new) /\ Enter(p, w, next)
  <2>1. DataOK'
    BY <1>2, <1>6, <1>7, StoreBlockOK DEF TypeOK
  <2>2. /\ c.i - 1 \in Nat
        /\ (c.i - 1) + 1 = (c.i + 1) - 1
        /\ c.out \in [1 .. c.i - 1 -> Blocks]
    BY <1>1, <1>2, ConstantsAssumption DEF VerifyCalls
  <2>3. Append(c.out, new) \in [1 .. (c.i + 1) - 1 -> Blocks]
    BY <1>6, <2>2, AppendFn
  <2>4. (c.ok /\ ranges) \in BOOLEAN
    OBVIOUS
  <2>5. next \in VerifyCalls(c.req, c.i + 1)
    BY <1>1, <2>3, <2>4 DEF VerifyCalls, OptionalBlocks
  <2>6. next.block = Absent
    BY <1>1 DEF VerifyCalls
  <2> HIDE DEF next
  <2>7. CallOK(p, next)
    BY <1>2, <2>5, <2>6 DEF CallOK
  <2>8. CallsOK'
    BY <1>7, <2>7, EnterOK DEF TypeOK
  <2> QED
    BY <2>1, <2>8 DEF TypeOK, MtaVerify, counted, sent
<1>8. CASE Return(p, w) /\ UNCHANGED data
  <2>1. CallsOK'
    BY <1>8, ReturnOK DEF TypeOK
  <2> QED
    BY <1>8, <2>1 DEF TypeOK, MtaVerify, DataOK, counted, sent
<1> QED
  BY <1>7, <1>8 DEF MtaVerify

LEMMA OfflineMtaVerifyReturnType ==
  ASSUME TypeOK, NEW p \in Players, NEW w \in Workers,
         OfflineMtaVerifyReturn(p, w)
  PROVE  TypeOK'
<1> DEFINE c == call[p][w]
           m == [from |-> p, req |-> c.req, blocks |-> c.out]
<1>1. LoopLocals(c) /\ c \in VerifyCalls(c.req, c.i)
  BY VerifyLocals DEF TypeOK, CallsOK, OfflineMtaVerifyReturn
<1>2. c.req \in Requests /\ c.i - 1 = Count[c.req]
  BY <1>1, ConstantsAssumption DEF LoopLocals, More, OfflineMtaVerifyReturn
<1>3. m \in MtaDeltas(c.req)
  BY <1>1, <1>2 DEF VerifyCalls, MtaDeltas
<1>4. \A x \in deltas' : \E r \in Requests : x \in MtaDeltas(r)
  BY <1>2, <1>3 DEF TypeOK, OfflineMtaVerifyReturn
<1>5. CallsOK'
  BY ReturnOK DEF TypeOK, OfflineMtaVerifyReturn
<1> QED
  BY <1>4, <1>5 DEF TypeOK, OfflineMtaVerifyReturn, DataOK, stored, counted

LEMMA StorePresigningDataType ==
  ASSUME TypeOK, NEW p \in Players, NEW w \in Workers, NEW r \in Requests,
         StorePresigningData(p, w, r)
  PROVE  TypeOK'
<1>1. PICK dels \in [Others(p) -> {m \in deltas : m.req = r}] :
        Enter(p, w, [op |-> "publish", req |-> r, i |-> 1, block |-> Absent,
                     dels |-> dels])
  BY DEF StorePresigningData
<1> DEFINE new == [op |-> "publish", req |-> r, i |-> 1, block |-> Absent,
                   dels |-> dels]
<1>2. {m \in deltas : m.req = r} \subseteq MtaDeltas(r)
  BY DEF TypeOK, MtaDeltas
<1>3. dels \in [Others(p) -> MtaDeltas(r)]
  BY <1>2
<1>4. new \in PublishCalls(p, r, 1)
  BY <1>3 DEF PublishCalls, OptionalBlocks
<1>5. 1 \in 1 .. Count[r] + 1 /\ ~(1 > Count[r])
  BY ConstantsAssumption
<1>6. CallOK(p, new)
  BY <1>4, <1>5 DEF CallOK
<1>7. CallsOK'
  BY <1>1, <1>6, EnterOK DEF TypeOK
<1> QED
  BY <1>7 DEF TypeOK, StorePresigningData, DataOK, stored, counted, sent

LEMMA PublishBlockType ==
  ASSUME TypeOK, NEW p \in Players, NEW w \in Workers, PublishBlock(p, w)
  PROVE  TypeOK'
<1> DEFINE c == call[p][w]
           b == c.block
           x == First[c.req] + c.i - 1
           theirs == [q \in Others(p) |-> c.dels[q].blocks[c.i]]
           R == [q \in Players |-> IF q = p THEN b.k ELSE theirs[q].k]
           sig == [req |-> c.req, block |-> c.i, k |-> b.k, R |-> R,
                   betas |-> b.betas, alphas |-> b.alphas]
           next == [c EXCEPT !.i = @ + 1, !.block = Absent]
<1>1. LoopLocals(c) /\ c \in PublishCalls(p, c.req, c.i)
  BY PublishLocals DEF TypeOK, CallsOK, PublishBlock
<1>2. c.req \in Requests /\ c.i \in 1 .. Count[c.req]
      /\ c.i + 1 \in 1 .. Count[c.req] + 1
  BY <1>1, LoadedInRange DEF LoopLocals, PublishBlock
<1>3. b \in Blocks /\ c.dels \in [Others(p) -> MtaDeltas(c.req)]
  BY <1>1 DEF PublishCalls, OptionalBlocks, PublishBlock
<1>4. \A q \in Others(p) : theirs[q] \in Blocks
  BY <1>2, <1>3 DEF MtaDeltas
<1>5. R \in Views
  BY <1>3, <1>4 DEF Blocks, Views, Others
<1>6. c.i \in Nat \ {0}
  BY <1>2, ConstantsAssumption
<1>7. sig \in Presignatures
  BY <1>2, <1>3, <1>5, <1>6 DEF Presignatures, Blocks
<1>8. CASE /\ slots' = [slots EXCEPT ![p][x] = sig]
           /\ Enter(p, w, next)
  <2> HIDE DEF sig
  <2>1. slots' \in [Players -> [Indices -> Presignatures \cup {Absent}]]
    BY <1>7, <1>8 DEF TypeOK
  <2>2. next \in PublishCalls(p, c.req, c.i + 1) /\ next.block = Absent
    BY <1>1 DEF PublishCalls, OptionalBlocks
  <2> HIDE DEF next
  <2>3. CallOK(p, next)
    BY <1>2, <2>2 DEF CallOK
  <2>4. CallsOK'
    BY <1>8, <2>3, EnterOK DEF TypeOK
  <2> QED
    BY <2>1, <2>4 DEF TypeOK, PublishBlock, DataOK, counted, sent
<1>9. CASE Return(p, w) /\ UNCHANGED slots
  <2>1. CallsOK'
    BY <1>9, ReturnOK DEF TypeOK
  <2> QED
    BY <1>9, <2>1 DEF TypeOK, PublishBlock, DataOK, counted, sent
<1> QED
  BY <1>8, <1>9 DEF PublishBlock

LEMMA StorePresigningReturnType ==
  ASSUME TypeOK, NEW p \in Players, NEW w \in Workers,
         StorePresigningReturn(p, w)
  PROVE  TypeOK'
<1> DEFINE c == call[p][w]
<1>1. c.req \in Requests
  BY PublishLocals DEF TypeOK, CallsOK, StorePresigningReturn, LoopLocals
<1>2. DataOK'
  BY <1>1, ForgetOK DEF TypeOK, StorePresigningReturn
<1>3. metadata' \in [Players -> [Requests -> Views \cup {Absent, Zero}]]
  BY <1>1 DEF TypeOK, StorePresigningReturn, Forget
<1>4. CallsOK'
  BY ReturnOK DEF TypeOK, StorePresigningReturn
<1> QED
  BY <1>2, <1>3, <1>4 DEF TypeOK, StorePresigningReturn, counted, sent

LEMMA EcdsaSignType ==
  ASSUME TypeOK, NEW p \in Players, NEW w \in Workers, NEW tx \in Txs,
         EcdsaSign(p, w, tx)
  PROVE  TypeOK'
<1>1. PICK first \in Indices :
        Enter(p, w, [op |-> "sign", tx |-> tx, first |-> first, i |-> 1])
  BY DEF EcdsaSign
<1>2. CallOK(p, [op |-> "sign", tx |-> tx, first |-> first, i |-> 1])
  BY DEF CallOK, SignCalls
<1>3. CallsOK'
  BY <1>1, <1>2, EnterOK DEF TypeOK
<1> QED
  BY <1>3 DEF TypeOK, EcdsaSign, DataOK, stored, counted, sent

LEMMA SignBlockType ==
  ASSUME TypeOK, NEW p \in Players, NEW w \in Workers, SignBlock(p, w)
  PROVE  TypeOK'
<1> DEFINE c == call[p][w]
           x == SlotOf(c)
           use == [tx |-> c.tx, i |-> c.i, sig |-> slots[p][x]]
           next == [c EXCEPT !.i = @ + 1]
<1>1. c \in SignCalls
  BY SignLocals DEF TypeOK, CallsOK, SignBlock
<1>2. CASE /\ x \in Indices /\ slots[p][x] # Absent
           /\ Consume(p, c)
           /\ uses' = [uses EXCEPT ![p] = @ \cup {use}]
           /\ Enter(p, w, next)
  <2>1. slots[p][x] \in Presignatures
    BY <1>2 DEF TypeOK
  <2>2. use \in [tx : Txs, i : Nat, sig : Presignatures]
    BY <1>1, <2>1 DEF SignCalls
  <2>3. uses' \in [Players -> SUBSET [tx : Txs, i : Nat, sig : Presignatures]]
    BY <1>2, <2>2 DEF TypeOK
  <2>4. slots' \in [Players -> [Indices -> Presignatures \cup {Absent}]]
    BY <1>2 DEF TypeOK, Consume
  <2>5. next \in SignCalls
    BY <1>1 DEF SignCalls
  <2>6. CallOK(p, next)
    BY <2>5 DEF CallOK
  <2>7. CallsOK'
    BY <1>2, <2>6, EnterOK DEF TypeOK
  <2> QED
    BY <2>3, <2>4, <2>7 DEF TypeOK, SignBlock, DataOK, counted, sent
<1>3. CASE Return(p, w) /\ UNCHANGED <<slots, uses>>
  <2>1. CallsOK'
    BY <1>3, ReturnOK DEF TypeOK
  <2> QED
    BY <1>3, <2>1 DEF TypeOK, SignBlock, DataOK, counted, sent
<1> QED
  BY <1>2, <1>3 DEF SignBlock

\* Returning from a handler, of its own or not, changes nothing else.
LEMMA SignReturnType ==
  ASSUME TypeOK, NEW p \in Players, NEW w \in Workers,
         SignReturn(p, w) \/ Interrupt(p, w)
  PROVE  TypeOK'
<1>1. CallsOK'
  BY ReturnOK DEF TypeOK, SignReturn, Interrupt
<1> QED
  BY <1>1 DEF TypeOK, SignReturn, Interrupt, DataOK, stored, counted, sent

LEMMA CancelPreprocessingType ==
  ASSUME TypeOK, NEW p \in Players, NEW r \in Requests, CancelPreprocessing(p, r)
  PROVE  TypeOK'
<1>1. DataOK'
  BY ForgetOK DEF TypeOK, CancelPreprocessing
<1>2. metadata' \in [Players -> [Requests -> Views \cup {Absent, Zero}]]
  BY DEF TypeOK, CancelPreprocessing, Forget
<1> QED
  BY <1>1, <1>2 DEF TypeOK, CancelPreprocessing, CallsOK, counted, sent

LEMMA StutterType == TypeOK /\ UNCHANGED vars => TypeOK'
BY DEF TypeOK, DataOK, CallsOK, vars

\* No step leaves the types.
LEMMA NextType ==
  ASSUME TypeOK, Next
  PROVE  TypeOK'
<1>1. ASSUME NEW p \in Players, NEW w \in Workers, Begin(p, w)
      PROVE  TypeOK'
  BY <1>1, StartPreprocessingType, MtaResponseType, OfflineMtaVerifyType,
     StorePresigningDataType, EcdsaSignType DEF Begin
<1>2. ASSUME NEW p \in Players, NEW w \in Workers, Continue(p, w)
      PROVE  TypeOK'
  BY <1>2, CreateMtaRequestType, StartReturnType, LoadBlockType, StoreAckType,
     CreateMtaResponseType, ResponseReturnType, MtaVerifyType,
     OfflineMtaVerifyReturnType, PublishBlockType, StorePresigningReturnType,
     SignBlockType, SignReturnType DEF Continue
<1>3. ASSUME NEW p \in Players, NEW w \in Workers, Interrupt(p, w)
      PROVE  TypeOK'
  BY <1>3, SignReturnType
<1>4. ASSUME NEW p \in Players, NEW r \in Requests, CancelPreprocessing(p, r)
      PROVE  TypeOK'
  BY <1>4, CancelPreprocessingType
<1> QED
  BY <1>1, <1>2, <1>3, <1>4 DEF Next

\* Every reachable state of the handlers, their interruptions and restarts
\* included, has the types of TypeOK.
THEOREM TypeCorrect == Spec => []TypeOK
<1>1. Init => TypeOK
  BY InitType
<1>2. TypeOK /\ [Next]_vars => TypeOK'
  BY NextType, StutterType
<1> QED
  BY <1>1, <1>2, PTL DEF Spec

-----------------------------------------------------------------------------
(* SingleUse, for a host that runs one handler at a time per request and    *)
(* no abandoned store_presigning_data.  SingleUseInv is inductive with      *)
(* TypeOK: steps that neither store nor consume a presignature are covered  *)
(* by QuietStep, and PublishBlock and SignBlock have a lemma of their own.  *)

\* No presignature of block i of request r carries generation k.
Unpublished(p, r, i, k) ==
  \A s \in Published(p) : (s.req = r /\ s.block = i) => s.k # k

\* What p has for a presignature is not the data it was made from.
DataGone(p, s) ==
  \/ data[p][s.req][s.block] = Absent
  \/ data[p][s.req][s.block].k # s.k

LEMMA PublishedType ==
  ASSUME TypeOK, NEW p \in Players
  PROVE  /\ Published(p) \subseteq Presignatures
         /\ \A x \in Indices : slots[p][x] # Absent => slots[p][x] \in Published(p)
BY DEF TypeOK, Published, SlotsOf, UsedBy

LEMMA BlockType ==
  ASSUME TypeOK, NEW p \in Players, NEW r \in Requests,
         NEW i \in 1 .. Count[r], data[p][r][i] # Absent
  PROVE  data[p][r][i] \in Blocks /\ data[p][r][i].k \in Nat
<1>1. data[p][r] \in [1 .. Count[r] -> OptionalBlocks]
  BY DEF TypeOK, DataOK
<1>2. data[p][r][i] \in Blocks
  BY <1>1 DEF OptionalBlocks
<1> QED
  BY <1>2 DEF Blocks, Generations

\* Worker w of p goes from its locals to c, which leaves at most one worker
\* in a request.
LEMMA EnterOne ==
  ASSUME Serial, CallsOK, OnePerRequest,
         NEW p \in Players, NEW w \in Workers, NEW c, Enter(p, w, c),
         c.op \notin {"idle", "sign"} =>
           InRequest(p, w, c.req) \/ ~Busy(p, c.req)
  PROVE  OnePerRequest'
<1> SUFFICES ASSUME NEW q \in Players, NEW r \in Requests,
                    NEW u \in Workers, NEW v \in Workers,
                    InRequest(q, u, r)', InRequest(q, v, r)'
             PROVE  u = v
  BY DEF OnePerRequest
<1>1. \A x \in Workers :
        call'[q][x] = IF q = p /\ x = w THEN c ELSE call[q][x]
  BY DEF CallsOK, Enter
<1>2. \A x \in Workers : InRequest(q, x, r)' =>
        \/ InRequest(q, x, r)
        \/ q = p /\ x = w /\ ~Busy(p, r)
  BY <1>1 DEF InRequest
<1> QED
  BY <1>2 DEF OnePerRequest, Busy

\* A step of worker w of p that leaves slots and uses alone.
LEMMA QuietStep ==
  ASSUME TypeOK, TypeOK', SingleUseInv, OnePerRequest',
         NEW p \in Players, NEW w \in Workers, NEW c, Enter(p, w, c),
         UNCHANGED <<slots, uses>>,
         \A q \in Players, r \in Requests : starts[q][r] <= starts'[q][r],
         \* it writes blocks of a known, unpublished generation,
         \A q \in Players, r \in Requests : \A i \in 1 .. Count[r] :
           \/ data'[q][r][i] \in {data[q][r][i], Absent}
           \/ /\ data'[q][r][i].k <= starts'[q][r]
              /\ Unpublished(q, r, i, data'[q][r][i].k),
         \* draws and holds nothing else,
         \A r \in Requests : Draws(p, w, r)' =>
           /\ c.k <= starts'[p][r]
           /\ \A i \in 1 .. Count[r] : Unpublished(p, r, i, c.k),
         \A r \in Requests : Holds(p, w, r)' =>
           /\ c.block.k <= starts'[p][r]
           /\ Unpublished(p, r, c.i, c.block.k),
         \* and is past its block, or has the data deleted.
         \A s \in Published(p) :
           MakerPast(p, s) => MakerPast(p, s)' \/ DataGone(p, s)'
  PROVE  SingleUseInv'
<1> USE DEF SingleUseInv
<1>1. /\ \A q \in Players : Published(q)' = Published(q)
      /\ \A q \in Players : SlotsOf(q)' = SlotsOf(q)
      /\ \A q \in Players : UsedBy(q)' = UsedBy(q)
  BY DEF Published, SlotsOf, UsedBy
<1>2. \A q \in Players : \A x \in Workers :
        call'[q][x] = IF q = p /\ x = w THEN c ELSE call[q][x]
  BY DEF TypeOK, CallsOK, Enter
<1>3. \A q \in Players : Published(q) \subseteq Presignatures
  BY PublishedType
<1>4. \A q \in Players : \A x \in Workers : \A r \in Requests :
        \/ q = p /\ x = w
        \/ /\ Draws(q, x, r)' = Draws(q, x, r)
           /\ Holds(q, x, r)' = Holds(q, x, r)
           /\ InRequest(q, x, r)' = InRequest(q, x, r)
  BY <1>2 DEF Draws, Holds, InRequest
<1>5. KnownGenerations'
  <2> SUFFICES ASSUME NEW q \in Players, NEW r \in Requests
               PROVE  /\ \A i \in 1 .. Count[r] : data'[q][r][i] # Absent =>
                           data'[q][r][i].k <= starts'[q][r]
                      /\ \A x \in Workers :
                           /\ Draws(q, x, r)' => call'[q][x].k <= starts'[q][r]
                           /\ Holds(q, x, r)' =>
                                call'[q][x].block.k <= starts'[q][r]
                      /\ \A s \in Published(q) :
                           s.req = r => s.k <= starts'[q][r]
    BY <1>1 DEF KnownGenerations
  <2>1. starts[q][r] \in Nat /\ starts'[q][r] \in Nat /\ Count[r] \in Nat
    BY ConstantsAssumption DEF TypeOK
  <2>2. ASSUME NEW i \in 1 .. Count[r], data'[q][r][i] # Absent
        PROVE  data'[q][r][i].k <= starts'[q][r]
    <3>1. CASE data'[q][r][i] = data[q][r][i]
      <4>1. data[q][r][i].k \in Nat
        BY <2>2, <3>1, BlockType
      <4> QED
        BY <2>1, <2>2, <3>1, <4>1 DEF KnownGenerations
    <3> QED
      BY <2>2, <3>1
  <2>3. ASSUME NEW x \in Workers, Draws(q, x, r)'
        PROVE  call'[q][x].k <= starts'[q][r]
    <3>1. CASE q = p /\ x = w
      BY <1>2, <2>3, <3>1
    <3>2. CASE ~(q = p /\ x = w)
      <4>1. call'[q][x] = call[q][x] /\ Draws(q, x, r)
        BY <1>2, <1>4, <2>3, <3>2
      <4>2. call[q][x].k \in Nat
        BY <4>1, StartLocals DEF TypeOK, CallsOK, Draws, StartCalls, Generations
      <4> QED
        BY <2>1, <4>1, <4>2 DEF KnownGenerations
    <3> QED
      BY <3>1, <3>2
  <2>4. ASSUME NEW x \in Workers, Holds(q, x, r)'
        PROVE  call'[q][x].block.k <= starts'[q][r]
    <3>1. CASE q = p /\ x = w
      BY <1>2, <2>4, <3>1
    <3>2. CASE ~(q = p /\ x = w)
      <4>1. call'[q][x] = call[q][x] /\ Holds(q, x, r)
        BY <1>2, <1>4, <2>4, <3>2
      <4>2. call[q][x].block \in Blocks
        BY <4>1, RespondLocals, VerifyLocals, PublishLocals
        DEF TypeOK, CallsOK, Holds, RespondCalls, VerifyCalls, PublishCalls,
            OptionalBlocks
      <4>3. call[q][x].block.k \in Nat
        BY <4>2 DEF Blocks, Generations
      <4> QED
        BY <2>1, <4>1, <4>3 DEF KnownGenerations
    <3> QED
      BY <3>1, <3>2
  <2>5. ASSUME NEW s \in Published(q), s.req = r
        PROVE  s.k <= starts'[q][r]
    <3>1. s.k \in Nat
      BY <1>3 DEF Presignatures, Generations
    <3> QED
      BY <2>1, <2>5, <3>1 DEF KnownGenerations
  <2> QED
    BY <2>2, <2>3, <2>4, <2>5
<1>6. InItsSlot'
  BY <1>1 DEF InItsSlot
<1>7. UsedIsGone'
  BY <1>1 DEF UsedIsGone, Nonce
<1>8. AllRetired'
  <2> SUFFICES ASSUME NEW q \in Players, NEW s \in Published(q)
               PROVE  Retired(q, s)'
    BY <1>1 DEF AllRetired
  <2>1. Retired(q, s) /\ s.req \in Requests /\ s.block \in 1 .. Count[s.req]
    BY <1>3 DEF AllRetired, InItsSlot, Presignatures
  <2>2. MakerPast(q, s)' \/ DataGone(q, s)'
    <3>1. CASE MakerPast(q, s)
      <4>1. CASE q = p
        BY <3>1, <4>1
      <4>2. CASE q # p
        BY <1>2, <2>1, <3>1, <4>2 DEF MakerPast, InRequest
      <4> QED
        BY <4>1, <4>2
    <3>2. CASE DataGone(q, s)
      BY <2>1, <3>2 DEF DataGone, Unpublished
    <3> QED
      BY <2>1, <3>1, <3>2 DEF Retired, DataGone
  <2>3. ASSUME NEW x \in Workers, Draws(q, x, s.req)'
        PROVE  call'[q][x].k # s.k
    <3>1. CASE q = p /\ x = w
      BY <1>2, <2>1, <2>3, <3>1 DEF Unpublished
    <3>2. CASE ~(q = p /\ x = w)
      BY <1>2, <1>4, <2>1, <2>3, <3>2 DEF Retired
    <3> QED
      BY <3>1, <3>2
  <2>4. ASSUME NEW x \in Workers, Holds(q, x, s.req)', call'[q][x].i = s.block
        PROVE  call'[q][x].block.k # s.k
    <3>1. CASE q = p /\ x = w
      BY <1>2, <2>1, <2>4, <3>1 DEF Unpublished
    <3>2. CASE ~(q = p /\ x = w)
      BY <1>2, <1>4, <2>1, <2>4, <3>2 DEF Retired
    <3> QED
      BY <3>1, <3>2
  <2> QED
    BY <2>2, <2>3, <2>4 DEF Retired, DataGone
<1>9. SingleUse'
  BY DEF SingleUse, Nonce
<1> QED
  BY <1>5, <1>6, <1>7, <1>8, <1>9

\* A worker leaves its handler and nothing is stored.
LEMMA ReturnStep ==
  ASSUME Serial, TypeOK, TypeOK', SingleUseInv, ~AbandonedStore,
         NEW p \in Players, NEW w \in Workers, Return(p, w),
         UNCHANGED <<data, slots, uses, starts>>
  PROVE  SingleUseInv'
<1>1. Enter(p, w, Idle) /\ Idle.op = "idle"
  BY DEF Return, Idle
<1>2. \A v \in Workers : call'[p][v] = IF v = w THEN Idle ELSE call[p][v]
  BY <1>1 DEF TypeOK, CallsOK, Enter
<1>3. OnePerRequest'
  BY <1>1, EnterOne DEF TypeOK, SingleUseInv
<1>4. \A r \in Requests : ~Draws(p, w, r)' /\ ~Holds(p, w, r)'
  BY <1>1, <1>2 DEF Draws, Holds, InRequest
<1>5. \A q \in Players, r \in Requests : starts[q][r] <= starts'[q][r]
  BY ConstantsAssumption DEF TypeOK
<1>6. ASSUME NEW s \in Published(p), MakerPast(p, s)
      PROVE  MakerPast(p, s)' \/ DataGone(p, s)'
  <2>1. PICK v \in Workers : /\ InRequest(p, v, s.req)
                             /\ call[p][v].op = "publish"
                             /\ call[p][v].i > s.block
    BY <1>6 DEF MakerPast
  <2>2. CASE v # w
    BY <1>2, <2>1, <2>2 DEF MakerPast, InRequest
  <2>3. CASE v = w
    <3>1. s.req \in Requests /\ s.block \in 1 .. Count[s.req]
      BY PublishedType DEF SingleUseInv, InItsSlot, Presignatures
    <3>2. call[p][w].req = s.req /\ call[p][w].i > 1
      <4>1. call[p][w].i \in Nat /\ s.block \in Nat \ {0}
        BY <2>1, <2>3, <3>1, PublishLocals, ConstantsAssumption
        DEF TypeOK, CallsOK, LoopLocals
      <4> QED
        BY <2>1, <2>3, <4>1 DEF InRequest
    <3>3. data'[p][s.req] = NoData(s.req)
      BY <1>1, <1>2, <2>1, <2>3, <3>2 DEF AbandonedStore
    <3> QED
      BY <3>1, <3>3 DEF DataGone, NoData
  <2> QED
    BY <2>2, <2>3
<1> QED
  BY <1>1, <1>3, <1>4, <1>5, <1>6, QuietStep

\* A worker enters a handler, or goes on to its loop, with no block loaded.
LEMMA EnterStep ==
  ASSUME Serial, TypeOK, TypeOK', SingleUseInv,
         NEW p \in Players, NEW w \in Workers, NEW c, Enter(p, w, c),
         call[p][w].op # "publish",
         c.op \in {"ack", "respond", "verify", "publish", "sign"},
         c.op \in {"respond", "verify", "publish"} => c.block = Absent,
         c.op # "sign" => InRequest(p, w, c.req) \/ ~Busy(p, c.req),
         UNCHANGED <<data, slots, uses, starts>>
  PROVE  SingleUseInv'
<1>1. \A v \in Workers : call'[p][v] = IF v = w THEN c ELSE call[p][v]
  BY DEF TypeOK, CallsOK, Enter
<1>2. OnePerRequest'
  BY EnterOne DEF TypeOK, SingleUseInv
<1>3. \A r \in Requests : ~Draws(p, w, r)' /\ ~Holds(p, w, r)'
  BY <1>1 DEF Draws, Holds, InRequest
<1>4. \A q \in Players, r \in Requests : starts[q][r] <= starts'[q][r]
  BY ConstantsAssumption DEF TypeOK
<1>5. \A s \in Published(p) : MakerPast(p, s) => MakerPast(p, s)'
  BY <1>1 DEF MakerPast, InRequest
<1> QED
  BY <1>2, <1>3, <1>4, <1>5, QuietStep

LEMMA StartPreprocessingStep ==
  ASSUME Serial, TypeOK, TypeOK', SingleUseInv,
         NEW p \in Players, NEW w \in Workers, NEW r \in Requests,
         StartPreprocessing(p, w, r)
  PROVE  SingleUseInv'
<1> DEFINE k == starts[p][r] + 1
           c == [op |-> "start", req |-> r, k |-> k, i |-> 1]
<1>1. /\ Enter(p, w, c) /\ call[p][w].op = "idle" /\ ~Busy(p, r)
      /\ UNCHANGED <<data, slots, uses>>
      /\ starts' = [starts EXCEPT ![p][r] = @ + 1]
  BY DEF StartPreprocessing, Free
<1>2. \A v \in Workers : call'[p][v] = IF v = w THEN c ELSE call[p][v]
  BY <1>1 DEF TypeOK, CallsOK, Enter
<1>3. OnePerRequest'
  BY <1>1, EnterOne DEF TypeOK, SingleUseInv
<1>4. /\ \A q \in Players, x \in Requests : starts[q][x] <= starts'[q][x]
      /\ starts'[p][r] = k
      /\ starts[p][r] \in Nat
  BY <1>1, ConstantsAssumption DEF TypeOK
<1>5. \A s \in Published(p) : s.req = r => s.k # k
  <2>1. \A s \in Published(p) : s.k \in Nat
    BY PublishedType DEF Presignatures, Generations
  <2> QED
    BY <1>4, <2>1 DEF SingleUseInv, KnownGenerations
<1>6. ASSUME NEW x \in Requests, Draws(p, w, x)'
      PROVE  /\ c.k <= starts'[p][x]
             /\ \A i \in 1 .. Count[x] : Unpublished(p, x, i, c.k)
  <2>1. x = r
    BY <1>2, <1>6 DEF Draws, InRequest
  <2> QED
    BY <1>4, <1>5, <2>1 DEF Unpublished
<1>7. \A x \in Requests : ~Holds(p, w, x)'
  BY <1>2 DEF Holds
<1>8. \A s \in Published(p) : MakerPast(p, s) => MakerPast(p, s)'
  BY <1>1, <1>2 DEF MakerPast, InRequest
<1> HIDE DEF c
<1> QED
  BY <1>1, <1>3, <1>4, <1>6, <1>7, <1>8, QuietStep

\* What a worker draws or holds is of a known, unpublished generation.
LEMMA DrawnUnpublished ==
  ASSUME SingleUseInv, NEW p \in Players, NEW w \in Workers,
         NEW r \in Requests, Draws(p, w, r)
  PROVE  /\ call[p][w].k <= starts[p][r]
         /\ \A i \in 1 .. Count[r] : Unpublished(p, r, i, call[p][w].k)
BY DEF SingleUseInv, KnownGenerations, AllRetired, Retired, Unpublished

LEMMA HeldUnpublished ==
  ASSUME SingleUseInv, NEW p \in Players, NEW w \in Workers,
         NEW r \in Requests, Holds(p, w, r)
  PROVE  /\ call[p][w].block.k <= starts[p][r]
         /\ Unpublished(p, r, call[p][w].i, call[p][w].block.k)
BY DEF SingleUseInv, KnownGenerations, AllRetired, Retired, Unpublished

LEMMA CreateMtaRequestStep ==
  ASSUME Serial, TypeOK, TypeOK', SingleUseInv,
         NEW p \in Players, NEW w \in Workers, CreateMtaRequest(p, w)
  PROVE  SingleUseInv'
<1> DEFINE c == call[p][w]
           next == [c EXCEPT !.i = @ + 1]
<1>1. /\ c.op = "start" /\ Enter(p, w, next)
      /\ data' = [data EXCEPT ![p][c.req][c.i] = NewBlock(c.k)]
      /\ UNCHANGED <<slots, uses, starts>>
  BY DEF CreateMtaRequest, StoreBlock, counted
<1>2. c.req \in Requests /\ c \in StartCalls(c.req)
  BY <1>1, StartLocals DEF TypeOK, CallsOK
<1>3. /\ next.op = "start" /\ next.req = c.req /\ next.k = c.k
      /\ Draws(p, w, c.req)
  BY <1>1, <1>2 DEF StartCalls, Draws, InRequest
<1> HIDE DEF next
<1>4. \A v \in Workers : call'[p][v] = IF v = w THEN next ELSE call[p][v]
  BY <1>1 DEF TypeOK, CallsOK, Enter
<1>5. OnePerRequest'
  BY <1>1, <1>3, EnterOne DEF TypeOK, SingleUseInv, Draws
<1>6. \A q \in Players, r \in Requests : starts[q][r] <= starts'[q][r]
  BY <1>1, ConstantsAssumption DEF TypeOK
<1>7. /\ c.k <= starts'[p][c.req]
      /\ \A i \in 1 .. Count[c.req] : Unpublished(p, c.req, i, c.k)
  BY <1>1, <1>2, <1>3, DrawnUnpublished
<1>8. \A q \in Players, r \in Requests : \A i \in 1 .. Count[r] :
        \/ data'[q][r][i] = data[q][r][i]
        \/ q = p /\ r = c.req /\ data'[q][r][i].k = c.k
  <2>1. NewBlock(c.k).k = c.k
    BY DEF NewBlock
  <2>2. \A q \in Players, r \in Requests : \A i \in 1 .. Count[r] :
          \/ data'[q][r][i] = data[q][r][i]
          \/ q = p /\ r = c.req /\ i = c.i /\ data'[q][r][i] = NewBlock(c.k)
    BY StoredAt DEF CreateMtaRequest
  <2> QED
    BY <2>1, <2>2
<1>9. \A r \in Requests : Draws(p, w, r)' => r = c.req
  BY <1>3, <1>4 DEF Draws, InRequest
<1>10. \A r \in Requests : ~Holds(p, w, r)'
  BY <1>3, <1>4 DEF Holds
<1>11. \A s \in Published(p) : MakerPast(p, s) => MakerPast(p, s)'
  BY <1>1, <1>4 DEF MakerPast, InRequest
<1>12. \A q \in Players, r \in Requests : \A i \in 1 .. Count[r] :
         \/ data'[q][r][i] \in {data[q][r][i], Absent}
         \/ /\ data'[q][r][i].k <= starts'[q][r]
            /\ Unpublished(q, r, i, data'[q][r][i].k)
  BY <1>7, <1>8
<1>13. \A r \in Requests : Draws(p, w, r)' =>
         /\ next.k <= starts'[p][r]
         /\ \A i \in 1 .. Count[r] : Unpublished(p, r, i, next.k)
  BY <1>3, <1>7, <1>9
<1> QED
  BY <1>1, <1>5, <1>6, <1>10, <1>11, <1>12, <1>13, QuietStep

LEMMA LoadBlockStep ==
  ASSUME Serial, TypeOK, TypeOK', SingleUseInv, ~AbandonedStore,
         NEW p \in Players, NEW w \in Workers, LoadBlock(p, w)
  PROVE  SingleUseInv'
<1> DEFINE c == call[p][w]
           b == data[p][c.req][c.i]
           next == [c EXCEPT !.block = b]
<1>1. /\ c.op \in {"respond", "verify", "publish"} /\ More(c)
      /\ UNCHANGED <<data, slots, uses, starts>>
  BY DEF LoadBlock, stored, counted
<1>2. CASE Return(p, w)
  BY <1>1, <1>2, ReturnStep
<1>3. CASE b # Absent /\ Enter(p, w, next)
  <2>1. LoopLocals(c)
    BY <1>1, RespondLocals, VerifyLocals, PublishLocals DEF TypeOK, CallsOK
  <2>2. c.req \in Requests /\ c.i \in 1 .. Count[c.req]
    BY <1>1, <2>1, InRange DEF LoopLocals
  <2>3. /\ next.op = c.op /\ next.req = c.req /\ next.i = c.i /\ next.block = b
        /\ InRequest(p, w, c.req)
    BY <1>1, RespondLocals, VerifyLocals, PublishLocals
    DEF TypeOK, CallsOK, InRequest, RespondCalls, VerifyCalls, PublishCalls
  <2> HIDE DEF next
  <2>4. \A v \in Workers : call'[p][v] = IF v = w THEN next ELSE call[p][v]
    BY <1>3 DEF TypeOK, CallsOK, Enter
  <2>5. OnePerRequest'
    BY <1>3, <2>3, EnterOne DEF TypeOK, SingleUseInv
  <2>6. \A q \in Players, r \in Requests : starts[q][r] <= starts'[q][r]
    BY <1>1, ConstantsAssumption DEF TypeOK
  <2>7. b.k <= starts'[p][c.req]
    BY <1>1, <1>3, <2>2 DEF SingleUseInv, KnownGenerations
  <2>8. Unpublished(p, c.req, c.i, b.k)
    <3> SUFFICES ASSUME NEW s \in Published(p), s.req = c.req, s.block = c.i
                 PROVE  s.k # b.k
      BY DEF Unpublished
    <3>1. Retired(p, s)
      BY DEF SingleUseInv, AllRetired
    <3>2. ~MakerPast(p, s)
      <4> SUFFICES ASSUME NEW v \in Workers, InRequest(p, v, c.req),
                          call[p][v].i > c.i
                   PROVE  FALSE
        BY DEF MakerPast
      <4>1. v = w
        BY <2>2, <2>3 DEF SingleUseInv, OnePerRequest
      <4> QED
        BY <2>2, <4>1, ConstantsAssumption
    <3> QED
      BY <1>3, <3>1, <3>2 DEF Retired
  <2>9. \A r \in Requests : ~Draws(p, w, r)'
    BY <1>1, <2>3, <2>4 DEF Draws
  <2>10. \A r \in Requests : Holds(p, w, r)' =>
           /\ next.block.k <= starts'[p][r]
           /\ Unpublished(p, r, next.i, next.block.k)
    BY <2>3, <2>4, <2>7, <2>8 DEF Holds, InRequest
  <2>11. \A s \in Published(p) : MakerPast(p, s) => MakerPast(p, s)'
    BY <2>3, <2>4 DEF MakerPast, InRequest
  <2> QED
    BY <1>1, <1>3, <2>5, <2>6, <2>9, <2>10, <2>11, QuietStep
<1> QED
  BY <1>2, <1>3 DEF LoadBlock

\* Worker w of p stores the block it holds with its generation unchanged.
LEMMA WriteStep ==
  ASSUME Serial, TypeOK, TypeOK', SingleUseInv,
         NEW p \in Players, NEW w \in Workers, NEW b, NEW next,
         call[p][w].op \in {"respond", "verify"}, call[p][w].block # Absent,
         StoreBlock(p, call[p][w], b), b.k = call[p][w].block.k,
         Enter(p, w, next), next.op = call[p][w].op,
         next.req = call[p][w].req, next.block = Absent,
         UNCHANGED <<slots, uses, starts>>
  PROVE  SingleUseInv'
<1> DEFINE c == call[p][w]
<1>1. LoopLocals(c)
  BY RespondLocals, VerifyLocals DEF TypeOK, CallsOK
<1>2. c.req \in Requests /\ InRequest(p, w, c.req) /\ Holds(p, w, c.req)
  BY <1>1 DEF LoopLocals, InRequest, Holds
<1>3. \A v \in Workers : call'[p][v] = IF v = w THEN next ELSE call[p][v]
  BY DEF TypeOK, CallsOK, Enter
<1>4. OnePerRequest'
  BY <1>2, EnterOne DEF TypeOK, SingleUseInv
<1>5. \A q \in Players, r \in Requests : starts[q][r] <= starts'[q][r]
  BY ConstantsAssumption DEF TypeOK
<1>6. b.k <= starts'[p][c.req] /\ Unpublished(p, c.req, c.i, b.k)
  BY <1>2, HeldUnpublished
<1>7. \A q \in Players, r \in Requests : \A i \in 1 .. Count[r] :
        \/ data'[q][r][i] = data[q][r][i]
        \/ q = p /\ r = c.req /\ i = c.i /\ data'[q][r][i] = b
  BY StoredAt
<1>8. \A q \in Players, r \in Requests : \A i \in 1 .. Count[r] :
        \/ data'[q][r][i] \in {data[q][r][i], Absent}
        \/ /\ data'[q][r][i].k <= starts'[q][r]
           /\ Unpublished(q, r, i, data'[q][r][i].k)
  BY <1>6, <1>7
<1>9. \A r \in Requests : ~Draws(p, w, r)' /\ ~Holds(p, w, r)'
  BY <1>3 DEF Draws, Holds
<1>10. \A s \in Published(p) : MakerPast(p, s) => MakerPast(p, s)'
  BY <1>3 DEF MakerPast, InRequest
<1> QED
  BY <1>4, <1>5, <1>8, <1>9, <1>10, QuietStep

LEMMA CreateMtaResponseStep ==
  ASSUME Serial, TypeOK, TypeOK', SingleUseInv,
         NEW p \in Players, NEW w \in Workers, CreateMtaResponse(p, w)
  PROVE  SingleUseInv'
<1> DEFINE c == call[p][w]
           b == c.block
           new == Answered(b, c.answer)
           next == [c EXCEPT !.i = @ + 1, !.block = Absent,
                     !.out = Append(@, [k |-> b.k, gproofs |-> b.gproofs])]
<1>1. /\ c.op = "respond" /\ b # Absent
      /\ StoreBlock(p, c, new) /\ Enter(p, w, next)
      /\ UNCHANGED <<slots, uses, starts>>
  BY DEF CreateMtaResponse, counted
<1>2. c \in RespondCalls(c.req, c.i)
  BY <1>1, RespondLocals DEF TypeOK, CallsOK
<1>3. next.op = c.op /\ next.req = c.req /\ next.block = Absent
  BY <1>2 DEF RespondCalls
<1>4. new.k = b.k
  <2>1. b \in Blocks
    BY <1>1, <1>2 DEF RespondCalls, OptionalBlocks
  <2> QED
    BY <2>1 DEF Answered, Blocks
<1> HIDE DEF new, next
<1> QED
  BY <1>1, <1>3, <1>4, WriteStep

LEMMA MtaVerifyStep ==
  ASSUME Serial, TypeOK, TypeOK', SingleUseInv, ~AbandonedStore,
         NEW p \in Players, NEW w \in Workers, MtaVerify(p, w)
  PROVE  SingleUseInv'
<1> DEFINE c == call[p][w]
           b == c.block
           ranges == \A q \in Others(p) : AnswersMe(p, b, c.resps[q])
           new == [b EXCEPT !.gcom = FALSE,
                    !.alphas = Append(@, [q \in Players |-> c.resps[q].answer])]
           next == [c EXCEPT !.i = @ + 1, !.block = Absent,
                             !.ok = @ /\ ranges, !.out = Append(@, new)]
<1>1. /\ c.op = "verify" /\ b # Absent
      /\ UNCHANGED <<slots, uses, starts>>
  BY DEF MtaVerify, counted
<1>2. CASE Return(p, w) /\ UNCHANGED data
  BY <1>1, <1>2, ReturnStep
<1>3. CASE StoreBlock(p, c, new) /\ Enter(p, w, next)
  <2>1. c \in VerifyCalls(c.req, c.i)
    BY <1>1, VerifyLocals DEF TypeOK, CallsOK
  <2>2. next.op = c.op /\ next.req = c.req /\ next.block = Absent
    BY <2>1 DEF VerifyCalls
  <2>3. new.k = b.k
    <3>1. b \in Blocks
      BY <1>1, <2>1 DEF VerifyCalls, OptionalBlocks
    <3> QED
      BY <3>1 DEF Blocks
  <2> HIDE DEF new, next
  <2> QED
    BY <1>1, <1>3, <2>2, <2>3, WriteStep
<1> QED
  BY <1>2, <1>3 DEF MtaVerify

LEMMA StorePresigningReturnStep ==
  ASSUME Serial, TypeOK, TypeOK', SingleUseInv,
         NEW p \in Players, NEW w \in Workers, StorePresigningReturn(p, w)
  PROVE  SingleUseInv'
<1> DEFINE c == call[p][w]
<1>1. /\ c.op = "publish" /\ c.req \in Requests
      /\ Enter(p, w, Idle) /\ Idle.op = "idle"
      /\ UNCHANGED <<slots, uses, starts>>
      /\ data' = [data EXCEPT ![p][c.req] = NoData(c.req)]
  BY PublishLocals DEF TypeOK, CallsOK, StorePresigningReturn, Return, Idle,
     LoopLocals, counted, Forget
<1>2. \A v \in Workers : call'[p][v] = IF v = w THEN Idle ELSE call[p][v]
  BY <1>1 DEF TypeOK, CallsOK, Enter
<1>3. OnePerRequest'
  BY <1>1, EnterOne DEF TypeOK, SingleUseInv
<1>4. \A r \in Requests : ~Draws(p, w, r)' /\ ~Holds(p, w, r)'
  BY <1>1, <1>2 DEF Draws, Holds, InRequest
<1>5. \A q \in Players, r \in Requests : starts[q][r] <= starts'[q][r]
  BY <1>1, ConstantsAssumption DEF TypeOK
<1>6. \A q \in Players, r \in Requests : \A i \in 1 .. Count[r] :
        data'[q][r][i] = IF q = p /\ r = c.req THEN Absent ELSE data[q][r][i]
  BY <1>1 DEF TypeOK, DataOK, NoData
<1>7. ASSUME NEW s \in Published(p), MakerPast(p, s)
      PROVE  MakerPast(p, s)' \/ DataGone(p, s)'
  <2>1. PICK v \in Workers : /\ InRequest(p, v, s.req)
                             /\ call[p][v].op = "publish"
                             /\ call[p][v].i > s.block
    BY <1>7 DEF MakerPast
  <2>2. CASE v # w
    BY <1>2, <2>1, <2>2 DEF MakerPast, InRequest
  <2>3. CASE v = w
    <3>1. s.req = c.req /\ s.block \in 1 .. Count[s.req]
      BY <2>1, <2>3 DEF SingleUseInv, InItsSlot, InRequest
    <3> QED
      BY <1>1, <1>6, <3>1 DEF DataGone
  <2> QED
    BY <2>2, <2>3
<1>8. \A q \in Players, r \in Requests : \A i \in 1 .. Count[r] :
        data'[q][r][i] \in {data[q][r][i], Absent}
  BY <1>6
<1> QED
  BY <1>1, <1>3, <1>4, <1>5, <1>7, <1>8, QuietStep

LEMMA CancelPreprocessingStep ==
  ASSUME Serial, TypeOK, TypeOK', SingleUseInv,
         NEW p \in Players, NEW r \in Requests, CancelPreprocessing(p, r)
  PROVE  SingleUseInv'
<1>1. /\ UNCHANGED <<slots, call, uses, starts>>
      /\ data' = [data EXCEPT ![p][r] = NoData(r)]
  BY DEF CancelPreprocessing, Forget, counted
<1>2. \A q \in Players, x \in Requests : \A i \in 1 .. Count[x] :
        data'[q][x][i] \in {data[q][x][i], Absent}
  BY <1>1 DEF TypeOK, DataOK, NoData
<1>3. \A q \in Players : Published(q)' = Published(q)
  BY <1>1 DEF Published, SlotsOf, UsedBy
<1>4. OnePerRequest'
  BY <1>1 DEF SingleUseInv, OnePerRequest, InRequest
<1>5. KnownGenerations'
  BY <1>1, <1>2, <1>3
  DEF SingleUseInv, KnownGenerations, Draws, Holds, InRequest
<1>6. InItsSlot' /\ SingleUse'
  BY <1>1, <1>3 DEF SingleUseInv, InItsSlot, SingleUse, Nonce
<1>7. UsedIsGone'
  BY <1>1 DEF SingleUseInv, UsedIsGone, SlotsOf, UsedBy, Nonce
<1>8. AllRetired'
  <2> SUFFICES ASSUME NEW q \in Players, NEW s \in Published(q)
               PROVE  Retired(q, s)'
    BY <1>3 DEF AllRetired
  <2>1. Retired(q, s) /\ s.req \in Requests /\ s.block \in 1 .. Count[s.req]
    BY PublishedType DEF SingleUseInv, AllRetired, InItsSlot, Presignatures
  <2> QED
    BY <1>1, <1>2, <2>1 DEF Retired, MakerPast, Draws, Holds, InRequest
<1> QED
  BY <1>4, <1>5, <1>6, <1>7, <1>8 DEF SingleUseInv

LEMMA PublishBlockStep ==
  ASSUME Serial, TypeOK, TypeOK', SingleUseInv, ~AbandonedStore,
         NEW p \in Players, NEW w \in Workers, PublishBlock(p, w)
  PROVE  SingleUseInv'
<1> DEFINE c == call[p][w]
           b == c.block
           x == First[c.req] + c.i - 1
           theirs == [q \in Others(p) |-> c.dels[q].blocks[c.i]]
           R == [q \in Players |-> IF q = p THEN b.k ELSE theirs[q].k]
           sig == [req |-> c.req, block |-> c.i, k |-> b.k, R |-> R,
                   betas |-> b.betas, alphas |-> b.alphas]
           next == [c EXCEPT !.i = @ + 1, !.block = Absent]
<1>1. /\ c.op = "publish" /\ b # Absent
      /\ UNCHANGED <<data, uses, starts>>
  BY DEF PublishBlock, counted
<1>2. CASE Return(p, w) /\ UNCHANGED slots
  BY <1>1, <1>2, ReturnStep
<1>3. CASE /\ x \in Indices
           /\ slots' = [slots EXCEPT ![p][x] = sig]
           /\ Enter(p, w, next)
  <2>1. LoopLocals(c) /\ c \in PublishCalls(p, c.req, c.i)
    BY <1>1, PublishLocals DEF TypeOK, CallsOK
  <2>2. c.req \in Requests /\ c.i \in 1 .. Count[c.req]
    BY <1>1, <2>1, LoadedInRange DEF LoopLocals
  <2>3. /\ next.op = "publish" /\ next.req = c.req /\ next.i = c.i + 1
        /\ next.block = Absent
        /\ InRequest(p, w, c.req) /\ Holds(p, w, c.req)
    BY <1>1, <2>1 DEF PublishCalls, InRequest, Holds
  <2>4. /\ sig.req = c.req /\ sig.block = c.i /\ sig.k = b.k
        /\ x = First[c.req] + c.i - 1
    OBVIOUS
  <2> HIDE DEF sig, next, x
  <2>5. \A q \in Players : \A v \in Workers :
          call'[q][v] = IF q = p /\ v = w THEN next ELSE call[q][v]
    BY <1>3 DEF TypeOK, CallsOK, Enter
  <2>6. \A q \in Players : \A y \in Indices :
          slots'[q][y] = IF q = p /\ y = x THEN sig ELSE slots[q][y]
    BY <1>3 DEF TypeOK
  <2>7. /\ \A q \in Players : UsedBy(q)' = UsedBy(q)
        /\ \A q \in Players : \A s \in SlotsOf(q)' :
             s \in SlotsOf(q) \/ (q = p /\ s = sig)
    BY <1>1, <2>6 DEF UsedBy, SlotsOf
  <2>8. \A q \in Players : \A s \in Published(q)' :
          s \in Published(q) \/ (q = p /\ s = sig)
    BY <2>7 DEF Published
  <2>9. b.k <= starts[p][c.req] /\ Unpublished(p, c.req, c.i, b.k)
    BY <2>2, <2>3, HeldUnpublished
  <2>10. OnePerRequest'
    BY <1>3, <2>3, EnterOne DEF TypeOK, SingleUseInv
  <2>11. \A q \in Players, r \in Requests : \A v \in Workers :
           /\ Draws(q, v, r)' =>
                Draws(q, v, r) /\ call'[q][v] = call[q][v]
           /\ Holds(q, v, r)' =>
                Holds(q, v, r) /\ call'[q][v] = call[q][v]
    BY <1>1, <2>3, <2>5 DEF Draws, Holds, InRequest
  <2>12. KnownGenerations'
    BY <1>1, <2>4, <2>8, <2>9, <2>11 DEF SingleUseInv, KnownGenerations
  <2>13. InItsSlot'
    BY <2>2, <2>4, <2>6, <2>8 DEF SingleUseInv, InItsSlot
  <2>14. UsedIsGone'
    <3> SUFFICES ASSUME NEW q \in Players, NEW s \in SlotsOf(q)',
                        NEW u \in UsedBy(q)
                 PROVE  Nonce(s) # Nonce(u)
      BY <2>7 DEF UsedIsGone, Nonce
    <3>1. CASE s \in SlotsOf(q)
      BY <3>1 DEF SingleUseInv, UsedIsGone
    <3>2. CASE q = p /\ s = sig
      BY <2>4, <2>9, <3>2 DEF Unpublished, Nonce, Published
    <3> QED
      BY <2>7, <3>1, <3>2
  <2>15. AllRetired'
    <3> SUFFICES ASSUME NEW q \in Players, NEW s \in Published(q)'
                 PROVE  Retired(q, s)'
      BY DEF AllRetired
    <3>1. CASE s \in Published(q)
      <4>1. /\ Retired(q, s) /\ s.req \in Requests
            /\ s.block \in 1 .. Count[s.req]
        BY <3>1, PublishedType
        DEF SingleUseInv, AllRetired, InItsSlot, Presignatures
      <4>2. MakerPast(q, s) => MakerPast(q, s)'
        <5> SUFFICES ASSUME NEW v \in Workers, InRequest(q, v, s.req),
                            call[q][v].op = "publish",
                            call[q][v].i > s.block
                     PROVE  MakerPast(q, s)'
          BY DEF MakerPast
        <5>1. CASE q = p /\ v = w
          <6>1. c.i \in Nat /\ s.block \in Nat
            BY <2>2, <4>1, ConstantsAssumption
          <6>2. c.i + 1 > s.block
            BY <5>1, <6>1
          <6> QED
            BY <2>3, <2>5, <5>1, <6>2 DEF MakerPast, InRequest
        <5>2. CASE ~(q = p /\ v = w)
          BY <2>5, <5>2 DEF MakerPast, InRequest
        <5> QED
          BY <5>1, <5>2
      <4> QED
        BY <1>1, <2>11, <4>1, <4>2 DEF Retired
    <3>2. CASE q = p /\ s = sig
      <4>1. s.req = c.req /\ s.block = c.i /\ c.i + 1 > c.i
        BY <2>2, <2>4, <3>2, ConstantsAssumption
      <4>2. call'[p][w] = next
        BY <2>5
      <4>3. MakerPast(p, s)'
        BY <2>3, <4>1, <4>2 DEF MakerPast, InRequest
      <4>4. ASSUME NEW v \in Workers
            PROVE  ~Draws(p, v, s.req)' /\ ~Holds(p, v, s.req)'
        <5>1. s.req \in Requests /\ InRequest(p, w, s.req)'
          BY <2>2, <2>3, <4>1, <4>2 DEF InRequest
        <5>2. InRequest(p, v, s.req)' => v = w
          BY <2>10, <5>1 DEF OnePerRequest
        <5> QED
          BY <2>3, <4>2, <5>2 DEF Draws, Holds
      <4> QED
        BY <3>2, <4>3, <4>4 DEF Retired
    <3> QED
      BY <2>8, <3>1, <3>2
  <2>16. SingleUse'
    BY <1>1 DEF SingleUseInv, SingleUse, Nonce
  <2> QED
    BY <2>10, <2>12, <2>13, <2>14, <2>15, <2>16 DEF SingleUseInv
<1> QED
  BY <1>2, <1>3 DEF PublishBlock

LEMMA SignBlockStep ==
  ASSUME Serial, TypeOK, TypeOK', SingleUseInv, ~AbandonedStore,
         NEW p \in Players, NEW w \in Workers, SignBlock(p, w)
  PROVE  SingleUseInv'
<1> DEFINE c == call[p][w]
           x == SlotOf(c)
           sig == slots[p][x]
           use == [tx |-> c.tx, i |-> c.i, sig |-> sig]
           next == [c EXCEPT !.i = @ + 1]
<1>1. c.op = "sign" /\ UNCHANGED <<data, starts>>
  BY DEF SignBlock, counted
<1>2. CASE Return(p, w) /\ UNCHANGED <<slots, uses>>
  BY <1>1, <1>2, ReturnStep
<1>3. CASE /\ x \in Indices /\ sig # Absent
           /\ Consume(p, c)
           /\ uses' = [uses EXCEPT ![p] = @ \cup {use}]
           /\ Enter(p, w, next)
  <2>1. next.op = "sign"
    BY <1>1, SignLocals DEF TypeOK, CallsOK, SignCalls
  <2>2. use.sig = sig
    OBVIOUS
  <2> HIDE DEF next, x, use
  <2>3. \A q \in Players : \A v \in Workers :
          call'[q][v] = IF q = p /\ v = w THEN next ELSE call[q][v]
    BY <1>3 DEF TypeOK, CallsOK, Enter
  <2>4. \A q \in Players : \A y \in Indices :
          slots'[q][y] = IF q = p /\ y = x THEN Absent ELSE slots[q][y]
    BY <1>3 DEF TypeOK, Consume, x
  <2>5. \A q \in Players :
          uses'[q] = IF q = p THEN uses[q] \cup {use} ELSE uses[q]
    BY <1>3 DEF TypeOK
  <2>6. \A q \in Players : \A s \in SlotsOf(q)' :
          /\ s \in SlotsOf(q)
          /\ \E y \in Indices : s = slots[q][y] /\ ~(q = p /\ y = x)
    BY <2>4 DEF SlotsOf
  <2>7. \A q \in Players : \A s \in UsedBy(q)' :
          s \in UsedBy(q) \/ (q = p /\ s = sig)
    BY <2>2, <2>5 DEF UsedBy
  <2>8. sig \in SlotsOf(p)
    BY <1>3 DEF SlotsOf
  <2>9. \A q \in Players : \A s \in Published(q)' : s \in Published(q)
    BY <2>6, <2>7, <2>8 DEF Published
  <2>10. \A q \in Players, r \in Requests : \A v \in Workers :
           /\ InRequest(q, v, r)' = InRequest(q, v, r)
           /\ InRequest(q, v, r) => call'[q][v] = call[q][v]
    BY <1>1, <2>1, <2>3 DEF InRequest
  <2>11. OnePerRequest'
    BY <2>10 DEF SingleUseInv, OnePerRequest
  <2>12. KnownGenerations'
    BY <1>1, <2>9, <2>10 DEF SingleUseInv, KnownGenerations, Draws, Holds
  <2>13. InItsSlot'
    BY <2>4, <2>9 DEF SingleUseInv, InItsSlot
  <2>14. \A s \in SlotsOf(p)' : Nonce(s) # Nonce(sig)
    <3> SUFFICES ASSUME NEW s \in SlotsOf(p)'
                 PROVE  Nonce(s) # Nonce(sig)
      OBVIOUS
    <3>1. PICK y \in Indices : s = slots[p][y] /\ y # x /\ s # Absent
      BY <2>6 DEF SlotsOf
    <3>2. /\ y = First[s.req] + s.block - 1
          /\ x = First[sig.req] + sig.block - 1
      BY <1>3, <3>1 DEF SingleUseInv, InItsSlot
    <3> QED
      BY <3>1, <3>2 DEF Nonce
  <2>15. UsedIsGone'
    <3> SUFFICES ASSUME NEW q \in Players, NEW s \in SlotsOf(q)',
                        NEW u \in UsedBy(q)'
                 PROVE  Nonce(s) # Nonce(u)
      BY DEF UsedIsGone, Nonce
    <3> QED
      BY <2>6, <2>7, <2>14 DEF SingleUseInv, UsedIsGone
  <2>16. AllRetired'
    <3> SUFFICES ASSUME NEW q \in Players, NEW s \in Published(q)'
                 PROVE  Retired(q, s)'
      BY DEF AllRetired
    <3>1. Retired(q, s) /\ s.req \in Requests
      BY <2>9, PublishedType DEF SingleUseInv, AllRetired, Presignatures
    <3> QED
      BY <1>1, <2>10, <3>1 DEF Retired, MakerPast, Draws, Holds
  <2>17. SingleUse'
    <3> SUFFICES ASSUME NEW q \in Players, NEW u \in uses'[q], NEW v \in uses'[q],
                        Nonce(u.sig) = Nonce(v.sig)
                 PROVE  u = v
      BY DEF SingleUse, Nonce
    <3>1. ASSUME NEW t \in uses[p]
          PROVE  Nonce(t.sig) # Nonce(sig)
      BY <2>8 DEF SingleUseInv, UsedIsGone, UsedBy
    <3>2. /\ u \in uses[q] \/ (q = p /\ u = use)
          /\ v \in uses[q] \/ (q = p /\ v = use)
      BY <2>5
    <3> QED
      BY <2>2, <3>1, <3>2 DEF SingleUseInv, SingleUse
  <2> QED
    BY <2>11, <2>12, <2>13, <2>15, <2>16, <2>17 DEF SingleUseInv
<1> QED
  BY <1>2, <1>3 DEF SignBlock

LEMMA InitSingleUse == Init => SingleUseInv
<1> SUFFICES ASSUME Init PROVE SingleUseInv
  OBVIOUS
<1>1. \A p \in Players : Published(p) = {}
  BY DEF Init, Published, SlotsOf, UsedBy
<1>2. \A p \in Players, r \in Requests : \A w \in Workers : ~InRequest(p, w, r)
  BY DEF Init, InRequest, Idle
<1>3. \A p \in Players, r \in Requests : \A i \in 1 .. Count[r] :
        data[p][r][i] = Absent
  BY DEF Init, NoData
<1>4. OnePerRequest
  BY <1>2 DEF OnePerRequest
<1>5. KnownGenerations
  BY <1>1, <1>2, <1>3 DEF KnownGenerations, Draws, Holds
<1>6. InItsSlot
  BY <1>1 DEF InItsSlot, Init
<1>7. UsedIsGone /\ AllRetired /\ SingleUse
  BY <1>1 DEF UsedIsGone, AllRetired, SingleUse, Published, UsedBy, Init
<1> QED
  BY <1>4, <1>5, <1>6, <1>7 DEF SingleUseInv

LEMMA StutterSingleUse == SingleUseInv /\ UNCHANGED vars => SingleUseInv'
BY DEF SingleUseInv, OnePerRequest, KnownGenerations, InItsSlot, UsedIsGone,
       AllRetired, SingleUse, InRequest, Draws, Holds, Published, SlotsOf,
       UsedBy, Nonce, Retired, MakerPast, vars

\* Steps that enter a handler, and StoreAck, go through EnterStep.
LEMMA BeginStep ==
  ASSUME Serial, TypeOK, TypeOK', SingleUseInv,
         NEW p \in Players, NEW w \in Workers, Begin(p, w)
  PROVE  SingleUseInv'
<1>1. ASSUME NEW r \in Requests, StartPreprocessing(p, w, r)
      PROVE  SingleUseInv'
  BY <1>1, StartPreprocessingStep
<1>2. ASSUME NEW r \in Requests, MtaResponse(p, w, r)
      PROVE  SingleUseInv'
  <2>1. PICK view \in Views :
          Enter(p, w, [op |-> "ack", req |-> r, to |-> view])
    BY <1>2 DEF MtaResponse
  <2>2. /\ call[p][w].op = "idle" /\ ~Busy(p, r)
        /\ UNCHANGED <<data, slots, uses, starts>>
    BY <1>2 DEF MtaResponse, Free, stored, counted
  <2> QED
    BY <2>1, <2>2, EnterStep
<1>3. ASSUME NEW r \in Requests, OfflineMtaVerify(p, w, r)
      PROVE  SingleUseInv'
  <2>1. PICK resps \in [Players -> {m \in responses : m.req = r}] :
          Enter(p, w, [op |-> "verify", req |-> r, i |-> 1, block |-> Absent,
                       resps |-> resps, ok |-> TRUE, out |-> <<>>])
    BY <1>3 DEF OfflineMtaVerify
  <2>2. /\ call[p][w].op = "idle" /\ ~Busy(p, r)
        /\ UNCHANGED <<data, slots, uses, starts>>
    BY <1>3 DEF OfflineMtaVerify, Free, stored, counted
  <2> QED
    BY <2>1, <2>2, EnterStep
<1>4. ASSUME NEW r \in Requests, StorePresigningData(p, w, r)
      PROVE  SingleUseInv'
  <2>1. PICK dels \in [Others(p) -> {m \in deltas : m.req = r}] :
          Enter(p, w, [op |-> "publish", req |-> r, i |-> 1, block |-> Absent,
                       dels |-> dels])
    BY <1>4 DEF StorePresigningData
  <2>2. /\ call[p][w].op = "idle" /\ ~Busy(p, r)
        /\ UNCHANGED <<data, slots, uses, starts>>
    BY <1>4 DEF StorePresigningData, Free, stored, counted
  <2> QED
    BY <2>1, <2>2, EnterStep
<1>5. ASSUME NEW tx \in Txs, EcdsaSign(p, w, tx)
      PROVE  SingleUseInv'
  <2>1. PICK first \in Indices :
          Enter(p, w, [op |-> "sign", tx |-> tx, first |-> first, i |-> 1])
    BY <1>5 DEF EcdsaSign
  <2>2. call[p][w].op = "idle" /\ UNCHANGED <<data, slots, uses, starts>>
    BY <1>5 DEF EcdsaSign, stored, counted
  <2> QED
    BY <2>1, <2>2, EnterStep
<1> QED
  BY <1>1, <1>2, <1>3, <1>4, <1>5 DEF Begin

LEMMA StoreAckStep ==
  ASSUME Serial, TypeOK, TypeOK', SingleUseInv,
         NEW p \in Players, NEW w \in Workers, StoreAck(p, w)
  PROVE  SingleUseInv'
<1> DEFINE c == call[p][w]
           next == [op |-> "respond", req |-> c.req, i |-> 1, block |-> Absent,
                    answer |-> [by |-> p, n |-> answered[p][c.req] + 1,
                                to |-> c.to], out |-> <<>>]
<1>1. /\ c.op = "ack" /\ Enter(p, w, next)
      /\ UNCHANGED <<data, slots, uses, starts>>
  BY DEF StoreAck
<1>2. InRequest(p, w, next.req)
  BY <1>1 DEF InRequest
<1>3. next.op = "respond" /\ next.block = Absent
  OBVIOUS
<1> HIDE DEF next
<1> QED
  BY <1>1, <1>2, <1>3, EnterStep

LEMMA PlainReturnStep ==
  ASSUME Serial, TypeOK, TypeOK', SingleUseInv, ~AbandonedStore,
         NEW p \in Players, NEW w \in Workers,
         \/ StartReturn(p, w) \/ ResponseReturn(p, w)
         \/ OfflineMtaVerifyReturn(p, w) \/ SignReturn(p, w) \/ Interrupt(p, w)
  PROVE  SingleUseInv'
BY ReturnStep DEF StartReturn, ResponseReturn, OfflineMtaVerifyReturn,
   SignReturn, Interrupt, stored, counted

\* No step of an unabandoned store breaks the invariant.
LEMMA NextSingleUse ==
  ASSUME Serial, TypeOK, TypeOK', SingleUseInv, Next, ~AbandonedStore
  PROVE  SingleUseInv'
<1>1. ASSUME NEW p \in Players, NEW w \in Workers, Continue(p, w)
      PROVE  SingleUseInv'
  BY <1>1, CreateMtaRequestStep, PlainReturnStep, LoadBlockStep, StoreAckStep,
     CreateMtaResponseStep, MtaVerifyStep, PublishBlockStep,
     StorePresigningReturnStep, SignBlockStep DEF Continue
<1> QED
  BY <1>1, BeginStep, PlainReturnStep, CancelPreprocessingStep DEF Next

\* No share of k signs two messages, however many players, blocks, requests,
\* workers and restarts: for a host that runs one handler at a time for a
\* player and request, and as long as no store_presigning_data is left after
\* its first store with the blocks of the request still there.
THEOREM NoReuse ==
  ASSUME Serial
  PROVE  WholeSpec => []SingleUse
<1>1. Init => TypeOK /\ SingleUseInv
  BY InitType, InitSingleUse
<1>2. TypeOK /\ SingleUseInv /\ [Next /\ ~AbandonedStore]_vars
        => TypeOK' /\ SingleUseInv'
  BY NextType, StutterType, NextSingleUse, StutterSingleUse
<1>3. SingleUseInv => SingleUse
  BY DEF SingleUseInv
<1> QED
  BY <1>1, <1>2, <1>3, PTL DEF WholeSpec
=============================================================================

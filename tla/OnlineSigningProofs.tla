-------------------------- MODULE OnlineSigningProofs --------------------------
(* Type correctness of OnlineSigning, that the k of a life is used in one   *)
(* signature, and that the s for one R fit together.                        *)
EXTENDS OnlineSigning, FiniteSetTheorems, TLAPS

-----------------------------------------------------------------------------
(* Types                                                                    *)

\* The handlers that work on a record.
OnRecord == {"ack", "respond", "verify", "publish"}

\* Responses are numbered by how many a life has, so there are finitely many;
\* and what is answered has been stored.
TypeInv ==
  /\ TypeOK /\ AlphasAnswerAck
  /\ \A p \in Players : IsFiniteSet(responses[p])

\* A worker's record in call, by what it runs.
LEMMA CallFields ==
  ASSUME TypeInv, NEW p \in Players, NEW w \in Workers
  PROVE  /\ call[p][w].op \in OnRecord =>
              /\ call[p][w] \in [op : OnRecord, data : Records]
              /\ call[p][w].data \in Records /\ call[p][w].data # Absent
              /\ call[p][w].data.ack \in Vectors
         /\ call[p][w].op \in {"verify", "publish"} =>
              call[p][w].data.alpha \in Taken
         /\ call[p][w].op = "delete" => call[p][w].life \in Lives
<1>1. call[p][w] \in Calls
  BY DEF TypeInv, TypeOK
<1>2. call[p][w].op \in OnRecord => call[p][w] \in [op : OnRecord, data : Records]
  BY <1>1 DEF Calls, Idle, OnRecord
<1>3. call[p][w].op = "delete" => call[p][w].life \in Lives
  BY <1>1 DEF Calls, Idle
<1>4. call[p][w].op \in OnRecord => call[p][w].data.ack # Absent
  BY DEF TypeInv, AlphasAnswerAck, OnRecord
<1>5. call[p][w].op \in {"verify", "publish"} => call[p][w].data.alpha # Absent
  BY DEF TypeInv, AlphasAnswerAck
<1>6. Absent \notin Records
  BY DEF TypeInv, TypeOK, ConstantsOK
<1>7. {"verify", "publish"} \subseteq OnRecord
  BY DEF OnRecord
<1> QED
  BY <1>2, <1>3, <1>4, <1>5, <1>6, <1>7 DEF Records

\* The record of a player.
LEMMA DataFields ==
  ASSUME TypeInv, NEW p \in Players
  PROVE  /\ starts[p] \in Nat
         /\ data[p] # Absent =>
              /\ data[p] \in Records /\ data[p].life \in Lives
              /\ data[p].alpha # Absent => data[p].ack # Absent
         /\ MaxStarts \in Nat /\ Lives \subseteq Nat
<1>1. MaxStarts \in Nat
  BY DEF TypeInv, TypeOK, ConstantsOK
<1>2. Lives \subseteq Nat /\ 0 .. MaxStarts \subseteq Nat
  BY <1>1 DEF Lives
<1>3. starts[p] \in 0 .. MaxStarts
  BY DEF TypeInv, TypeOK
<1>4. data[p] # Absent => data[p] \in Records
  BY DEF TypeInv, TypeOK
<1>5. data[p] # Absent => (data[p].alpha # Absent => data[p].ack # Absent)
  BY DEF TypeInv, AlphasAnswerAck
<1> QED
  BY <1>1, <1>2, <1>3, <1>4, <1>5 DEF Records

\* A step that enters a handler, goes on in it or leaves it.
LEMMA CallStepType ==
  ASSUME TypeInv, NEW p \in Players, NEW w \in Workers, NEW c \in Calls,
         Enter(p, w, c), UNCHANGED <<starts, data, history>>,
         timing' \in [Players -> BOOLEAN],
         c.op \in OnRecord => c.data.ack # Absent,
         c.op \in {"verify", "publish"} => c.data.alpha # Absent
  PROVE  TypeInv'
<1>1. call' \in [Players -> [Workers -> Calls]]
  BY DEF TypeInv, TypeOK, Enter
<1>2. TypeOK'
  BY <1>1 DEF TypeInv, TypeOK, history, ConstantsOK
<1>3. AlphasAnswerAck'
  BY DEF TypeInv, TypeOK, AlphasAnswerAck, Enter, OnRecord
<1> QED
  BY <1>2, <1>3 DEF TypeInv, history

LEMMA IdleType == Idle \in Calls /\ Idle.op = "idle" /\ "idle" \notin OnRecord
BY DEF Idle, Calls, OnRecord

\* A step that stores the record of the handler: with an ack, and nothing
\* that was not in it.
LEMMA StoreType ==
  ASSUME TypeInv, NEW p \in Players, NEW w \in Workers,
         NEW c \in Calls, Enter(p, w, c),
         c.op \in OnRecord => c.data.ack # Absent,
         c.op \notin {"verify", "publish"},
         NEW d \in Records, d.ack # Absent,
         data' = [data EXCEPT ![p] = d] \/ data' = data
  PROVE  /\ data' \in [Players -> Records \cup {Absent}]
         /\ call' \in [Players -> [Workers -> Calls]]
         /\ AlphasAnswerAck'
<1>1. call' \in [Players -> [Workers -> Calls]]
  BY DEF TypeInv, TypeOK, Enter
<1>2. data' \in [Players -> Records \cup {Absent}]
  BY DEF TypeInv, TypeOK
<1>3. AlphasAnswerAck'
  <2> SUFFICES ASSUME NEW q \in Players
               PROVE  AlphasAnswerAck!(q)'
    BY DEF AlphasAnswerAck
  <2>1. data'[q] # Absent /\ data'[q].alpha # Absent => data'[q].ack # Absent
    BY DEF TypeInv, TypeOK, AlphasAnswerAck
  <2>2. \A v \in Workers : call'[q][v] = call[q][v] \/ call'[q][v] = c
    BY DEF TypeInv, TypeOK, Enter
  <2> QED
    BY <2>1, <2>2 DEF TypeInv, AlphasAnswerAck, OnRecord
<1> QED
  BY <1>1, <1>2, <1>3

LEMMA InitType == ConstantsOK /\ Init => TypeInv
<1> SUFFICES ASSUME ConstantsOK, Init
             PROVE  TypeInv
  OBVIOUS
<1>1. TypeOK
  BY DEF Init, TypeOK, ConstantsOK, Calls, Idle
<1>2. AlphasAnswerAck
  BY DEF Init, AlphasAnswerAck, Idle
<1>3. \A p \in Players : IsFiniteSet(responses[p])
  BY FS_EmptySet DEF Init
<1> QED
  BY <1>1, <1>2, <1>3 DEF TypeInv

LEMMA StartSigningType ==
  ASSUME TypeInv, NEW p \in Players, StartSigning(p)
  PROVE  TypeInv'
<1> DEFINE d == [life |-> starts[p] + 1, ack |-> Absent, beta |-> Absent,
                 alpha |-> Absent, done |-> FALSE]
<1>1. /\ starts' = [starts EXCEPT ![p] = @ + 1]
      /\ data' = [data EXCEPT ![p] = d]
      /\ starts[p] < MaxStarts
      /\ UNCHANGED <<timing, call, history>>
  BY DEF StartSigning
<1>2. starts[p] + 1 \in Lives /\ starts[p] + 1 \in 0 .. MaxStarts
  BY <1>1, DataFields DEF Lives
<1>3. d \in Records /\ d.alpha = Absent
  BY <1>2 DEF Records
<1> HIDE DEF d
<1>4. data' \in [Players -> Records \cup {Absent}] /\ starts' \in [Players -> 0 .. MaxStarts]
  BY <1>1, <1>2, <1>3 DEF TypeInv, TypeOK
<1>5. TypeOK'
  BY <1>1, <1>4 DEF TypeInv, TypeOK, history, ConstantsOK
<1>6. AlphasAnswerAck'
  BY <1>1, <1>3 DEF TypeInv, TypeOK, AlphasAnswerAck
<1> QED
  BY <1>1, <1>5, <1>6 DEF TypeInv, history

LEMMA CancelSigningType ==
  ASSUME TypeInv, NEW p \in Players, CancelSigning(p)
  PROVE  TypeInv'
<1>1. data' = [data EXCEPT ![p] = Absent] /\ UNCHANGED <<starts, timing, call, history>>
  BY DEF CancelSigning
<1>2. TypeOK'
  BY <1>1 DEF TypeInv, TypeOK, history, ConstantsOK
<1>3. AlphasAnswerAck'
  BY <1>1 DEF TypeInv, TypeOK, AlphasAnswerAck
<1> QED
  BY <1>1, <1>2, <1>3 DEF TypeInv, history

LEMMA MtaResponseType ==
  ASSUME TypeInv, NEW p \in Players, NEW w \in Workers, NEW v \in Vectors,
         MtaResponse(p, w, v)
  PROVE  TypeInv'
<1> DEFINE c == [op |-> "ack", data |-> [data[p] EXCEPT !.ack = v]]
<1>1. /\ data[p] # Absent /\ Enter(p, w, c) /\ UNCHANGED <<starts, data, history>>
      /\ timing' = [timing EXCEPT ![p] = TRUE]
  BY DEF MtaResponse
<1>2. [data[p] EXCEPT !.ack = v] \in Records /\ [data[p] EXCEPT !.ack = v].ack = v
  BY <1>1, DataFields DEF Records
<1>3. c \in Calls /\ c.op = "ack" /\ c.data.ack = v
  BY <1>2 DEF Calls
<1>4. v # Absent
  BY DEF TypeInv, TypeOK, ConstantsOK
<1>5. timing' \in [Players -> BOOLEAN]
  BY <1>1 DEF TypeInv, TypeOK
<1> HIDE DEF c
<1> QED
  BY <1>1, <1>3, <1>4, <1>5, CallStepType

LEMMA StoreAckType ==
  ASSUME TypeInv, NEW p \in Players, NEW w \in Workers, StoreAck(p, w)
  PROVE  TypeInv'
<1> DEFINE c == call[p][w]
           d == call[p][w].data
           a == [life |-> d.life, ack |-> d.ack]
           e == [c EXCEPT !.op = "respond"]
<1>1. /\ c.op = "ack"
      /\ Enter(p, w, e) \/ Enter(p, w, Idle)
      /\ data' = [data EXCEPT ![p] = d] \/ data' = data
      /\ acked' = [acked EXCEPT ![p] = @ \cup {a}] \/ acked' = acked
      /\ UNCHANGED <<starts, timing, responses, deltas, uses, signed>>
  BY DEF StoreAck, Update, Return
<1>2. c \in [op : OnRecord, data : Records] /\ d \in Records /\ d.ack \in Vectors
      /\ d.ack # Absent
  <2>1. c.op \in OnRecord
    BY <1>1 DEF OnRecord
  <2> QED
    BY <2>1, CallFields DEF TypeInv, TypeOK, ConstantsOK
<1>3. e \in Calls /\ e.op = "respond" /\ e.data = d
  BY <1>2 DEF Calls, OnRecord
<1>4. a \in [life : Lives, ack : Vectors]
  BY <1>2 DEF Records
<1> HIDE DEF c, d, e, a
<1>5. PICK f \in {e, Idle} : Enter(p, w, f)
  BY <1>1
<1>6. f \in Calls /\ f.op \notin {"verify", "publish"}
      /\ (f.op \in OnRecord => f.data.ack # Absent)
  BY <1>2, <1>3, IdleType
<1>7. /\ data' \in [Players -> Records \cup {Absent}]
      /\ call' \in [Players -> [Workers -> Calls]]
      /\ AlphasAnswerAck'
  BY <1>1, <1>2, <1>5, <1>6, StoreType
<1>8. acked' \in [Players -> SUBSET [life : Lives, ack : Vectors]]
  <2>1. acked \in [Players -> SUBSET [life : Lives, ack : Vectors]]
    BY DEF TypeInv, TypeOK
  <2>2. acked[p] \cup {a} \in SUBSET [life : Lives, ack : Vectors]
    BY <1>4, <2>1
  <2> QED
    BY <1>1, <2>1, <2>2
<1>9. TypeOK'
  BY <1>1, <1>7, <1>8 DEF TypeInv, TypeOK, ConstantsOK
<1> QED
  BY <1>1, <1>7, <1>9 DEF TypeInv

\* A response is numbered within its bound.
LEMMA RespondStep ==
  ASSUME TypeInv, NEW p \in Players, NEW w \in Workers, Respond(p, w)
  PROVE  \E r \in Responses :
           /\ call[p][w].op = "respond" /\ Enter(p, w, Idle)
           /\ UNCHANGED <<starts, timing, acked, deltas, uses, signed>>
           /\ \/ /\ data[p] # Absent
                 /\ data' = [data EXCEPT ![p] = [call[p][w].data EXCEPT !.beta = r]]
                 /\ responses' = [responses EXCEPT ![p] = @ \cup {r}]
              \/ UNCHANGED <<data, responses>>
<1> DEFINE d == call[p][w].data
           mine == {r \in responses[p] : r.life = d.life}
           n == Cardinality(mine) + 1
           r == [life |-> d.life, ack |-> d.ack, n |-> n]
<1>1. call[p][w].op = "respond" /\ n <= MaxResponses
  BY DEF Respond
<1>2. d \in Records /\ d.ack \in Vectors
  <2>1. call[p][w].op \in OnRecord
    BY <1>1 DEF OnRecord
  <2> QED
    BY <2>1, CallFields
<1>3. n \in 1 .. MaxResponses
  <2>1. IsFiniteSet(mine)
    BY FS_Subset DEF TypeInv
  <2>2. Cardinality(mine) \in Nat
    BY <2>1, FS_CardinalityType
  <2>3. MaxResponses \in Nat
    BY DEF TypeInv, TypeOK, ConstantsOK
  <2> HIDE DEF mine
  <2> QED
    BY <1>1, <2>2, <2>3
<1>4. /\ Enter(p, w, Idle)
      /\ UNCHANGED <<starts, timing, acked, deltas, uses, signed>>
      /\ \/ /\ data[p] # Absent
            /\ data' = [data EXCEPT ![p] = [d EXCEPT !.beta = r]]
            /\ responses' = [responses EXCEPT ![p] = @ \cup {r}]
         \/ UNCHANGED <<data, responses>>
  BY DEF Respond, Update, Return
<1> HIDE DEF n
<1>5. r \in Responses
  BY <1>2, <1>3 DEF Responses, Records
<1> QED
  BY <1>1, <1>4, <1>5

LEMMA RespondType ==
  ASSUME TypeInv, NEW p \in Players, NEW w \in Workers, Respond(p, w)
  PROVE  TypeInv'
<1> DEFINE d == call[p][w].data
<1>1. PICK r \in Responses :
        /\ call[p][w].op = "respond" /\ Enter(p, w, Idle)
        /\ data' = [data EXCEPT ![p] = [d EXCEPT !.beta = r]] \/ data' = data
        /\ responses' = [responses EXCEPT ![p] = @ \cup {r}] \/ responses' = responses
        /\ UNCHANGED <<starts, timing, acked, deltas, uses, signed>>
  BY RespondStep
<1>2. d \in Records /\ d.ack # Absent
  <2>1. call[p][w].op \in OnRecord
    BY <1>1 DEF OnRecord
  <2> QED
    BY <2>1, CallFields DEF TypeInv, TypeOK, ConstantsOK
<1>3. [d EXCEPT !.beta = r] \in Records /\ [d EXCEPT !.beta = r].ack # Absent
  BY <1>2 DEF Records
<1> HIDE DEF d
<1>4. /\ data' \in [Players -> Records \cup {Absent}]
      /\ call' \in [Players -> [Workers -> Calls]]
      /\ AlphasAnswerAck'
  BY <1>1, <1>3, IdleType, StoreType
<1>5. responses' \in [Players -> SUBSET Responses]
  BY <1>1 DEF TypeInv, TypeOK
<1>6. \A q \in Players : IsFiniteSet(responses'[q])
  <2> SUFFICES ASSUME NEW q \in Players
               PROVE  IsFiniteSet(responses'[q])
    OBVIOUS
  <2>1. responses'[q] = responses[q] \/ responses'[q] = responses[q] \cup {r}
    BY <1>1 DEF TypeInv, TypeOK
  <2>2. IsFiniteSet(responses[q])
    BY DEF TypeInv
  <2> QED
    BY <2>1, <2>2, FS_AddElement
<1>7. TypeOK'
  BY <1>1, <1>4, <1>5 DEF TypeInv, TypeOK, ConstantsOK
<1> QED
  BY <1>4, <1>6, <1>7 DEF TypeInv

LEMMA MtaVerifyType ==
  ASSUME TypeInv, NEW p \in Players, NEW w \in Workers,
         NEW rs \in Choices(responses), MtaVerify(p, w, rs)
  PROVE  TypeInv'
<1> DEFINE d == [data[p] EXCEPT !.alpha = rs]
           c == [op |-> "verify", data |-> d]
<1>1. /\ data[p] # Absent /\ data[p].ack # Absent /\ Enter(p, w, c)
      /\ UNCHANGED <<starts, data, timing, history>>
  BY DEF MtaVerify, ResponsesVerify
<1>2. rs \in Taken
  <2>1. \A q \in Players : rs[q] \in Responses
    BY DEF Choices, TypeInv, TypeOK
  <2>2. rs \in [Players -> UNION {responses[q] : q \in Players}]
    BY DEF Choices
  <2> QED
    BY <2>1, <2>2 DEF Taken
<1>3. rs # Absent
  BY <1>2 DEF TypeInv, TypeOK, ConstantsOK
<1>4. d \in Records /\ d.ack = data[p].ack /\ d.alpha = rs
  BY <1>1, <1>2, DataFields DEF Records
<1> HIDE DEF d
<1>5. c \in Calls /\ c.op = "verify" /\ c.data = d
  BY <1>4 DEF Calls
<1> HIDE DEF c
<1>6. timing' \in [Players -> BOOLEAN]
  BY <1>1 DEF TypeInv, TypeOK
<1> QED
  BY <1>1, <1>3, <1>4, <1>5, <1>6, CallStepType

LEMMA StoreVerifiedType ==
  ASSUME TypeInv, NEW p \in Players, NEW w \in Workers, StoreVerified(p, w)
  PROVE  TypeInv'
<1> DEFINE d == call[p][w].data
<1>1. /\ call[p][w].op = "verify" /\ Enter(p, w, Idle)
      /\ data' = [data EXCEPT ![p] = d] \/ data' = data
      /\ deltas' = [deltas EXCEPT ![p] = @ \cup {Delta(d)}] \/ deltas' = deltas
      /\ UNCHANGED <<starts, timing, acked, responses, uses, signed>>
  BY DEF StoreVerified, Update, Return
<1>2. d \in Records /\ d.ack \in Vectors /\ d.ack # Absent /\ d.alpha \in Taken
  <2>1. call[p][w].op \in OnRecord
    BY <1>1 DEF OnRecord
  <2> QED
    BY <1>1, <2>1, CallFields DEF TypeInv, TypeOK, ConstantsOK
<1>3. Delta(d) \in Deltas
  BY <1>2 DEF Delta, Deltas, Records
<1> HIDE DEF d
<1>4. /\ data' \in [Players -> Records \cup {Absent}]
      /\ call' \in [Players -> [Workers -> Calls]]
      /\ AlphasAnswerAck'
  BY <1>1, <1>2, IdleType, StoreType
<1>5. deltas' \in [Players -> SUBSET Deltas]
  BY <1>1, <1>3 DEF TypeInv, TypeOK
<1>6. TypeOK'
  BY <1>1, <1>4, <1>5 DEF TypeInv, TypeOK, ConstantsOK
<1> QED
  BY <1>1, <1>4, <1>6 DEF TypeInv

LEMMA GetSiType ==
  ASSUME TypeInv, NEW p \in Players, NEW w \in Workers, NEW ds,
         GetSi(p, w, ds)
  PROVE  TypeInv'
<1> DEFINE d == [data[p] EXCEPT !.done = TRUE]
           c == [op |-> "publish", data |-> d]
<1>1. /\ data[p] # Absent /\ data[p].alpha # Absent /\ Enter(p, w, c)
      /\ UNCHANGED <<starts, data, timing, history>>
  BY DEF GetSi
<1>2. data[p].ack # Absent
  BY <1>1, DataFields
<1>3. d \in Records /\ d.ack = data[p].ack /\ d.alpha = data[p].alpha
  BY <1>1, DataFields DEF Records
<1> HIDE DEF d
<1>4. c \in Calls /\ c.op = "publish" /\ c.data = d
  BY <1>3 DEF Calls
<1> HIDE DEF c
<1>5. timing' \in [Players -> BOOLEAN]
  BY <1>1 DEF TypeInv, TypeOK
<1> QED
  BY <1>1, <1>2, <1>3, <1>4, <1>5, CallStepType

LEMMA StoreRType ==
  ASSUME TypeInv, NEW p \in Players, NEW w \in Workers, StoreR(p, w)
  PROVE  TypeInv'
<1> DEFINE d == call[p][w].data
<1>1. /\ call[p][w].op = "publish" /\ Enter(p, w, Idle)
      /\ data' = [data EXCEPT ![p] = d] \/ data' = data
      /\ uses' = [uses EXCEPT ![p] = @ \cup {S(d)}] \/ uses' = uses
      /\ UNCHANGED <<starts, timing, acked, responses, deltas, signed>>
  BY DEF StoreR, Update, Return
<1>2. d \in Records /\ d.ack \in Vectors /\ d.ack # Absent /\ d.alpha \in Taken
  <2>1. call[p][w].op \in OnRecord
    BY <1>1 DEF OnRecord
  <2> QED
    BY <1>1, <2>1, CallFields DEF TypeInv, TypeOK, ConstantsOK
<1>3. S(d) \in [life : Lives, R : Vectors, beta : Responses \cup {Absent},
                alpha : Taken]
  BY <1>2 DEF S, Records
<1> HIDE DEF d
<1>4. /\ data' \in [Players -> Records \cup {Absent}]
      /\ call' \in [Players -> [Workers -> Calls]]
      /\ AlphasAnswerAck'
  BY <1>1, <1>2, IdleType, StoreType
<1>5. uses' \in [Players -> SUBSET [life : Lives, R : Vectors,
                   beta : Responses \cup {Absent}, alpha : Taken]]
  BY <1>1, <1>3 DEF TypeInv, TypeOK
<1>6. TypeOK'
  BY <1>1, <1>4, <1>5 DEF TypeInv, TypeOK, ConstantsOK
<1> QED
  BY <1>1, <1>4, <1>6 DEF TypeInv

LEMMA GetCmpSignatureType ==
  ASSUME TypeInv, NEW p \in Players, NEW w \in Workers, NEW ss,
         GetCmpSignature(p, w, ss)
  PROVE  TypeInv'
<1> DEFINE c == [op |-> "delete", life |-> data[p].life]
<1>1. data[p] # Absent /\ Enter(p, w, c) /\ UNCHANGED <<starts, data, timing, history>>
  BY DEF GetCmpSignature
<1>2. c \in Calls /\ c.op \notin OnRecord /\ c.op \notin {"verify", "publish"}
  BY <1>1, DataFields DEF Calls, OnRecord
<1> HIDE DEF c
<1>3. timing' \in [Players -> BOOLEAN]
  BY <1>1 DEF TypeInv, TypeOK
<1> QED
  BY <1>1, <1>2, <1>3, CallStepType

LEMMA DeleteSigningDataType ==
  ASSUME TypeInv, NEW p \in Players, NEW w \in Workers, DeleteSigningData(p, w)
  PROVE  TypeInv'
<1> DEFINE c == [op |-> "extract"]
<1>1. /\ call[p][w].op = "delete" /\ Enter(p, w, c)
      /\ data' = [data EXCEPT ![p] = Absent]
      /\ signed' = [signed EXCEPT ![p] = @ \cup {call[p][w].life}]
      /\ UNCHANGED <<starts, timing, acked, responses, deltas, uses>>
  BY DEF DeleteSigningData
<1>2. call[p][w].life \in Lives
  BY <1>1, CallFields
<1>3. c \in Calls /\ c.op \notin OnRecord
  BY DEF Calls, OnRecord
<1> HIDE DEF c
<1>4. call' \in [Players -> [Workers -> Calls]]
  BY <1>1, <1>3 DEF TypeInv, TypeOK, Enter
<1>5. signed' \in [Players -> SUBSET Lives]
  BY <1>1, <1>2 DEF TypeInv, TypeOK
<1>6. data' \in [Players -> Records \cup {Absent}]
  BY <1>1 DEF TypeInv, TypeOK
<1>7. TypeOK'
  BY <1>1, <1>4, <1>5, <1>6 DEF TypeInv, TypeOK, ConstantsOK
<1>8. AlphasAnswerAck'
  BY <1>1, <1>3 DEF TypeInv, TypeOK, AlphasAnswerAck, Enter, OnRecord
<1> QED
  BY <1>1, <1>7, <1>8 DEF TypeInv

LEMMA ExtractType ==
  ASSUME TypeInv, NEW p \in Players, NEW w \in Workers, Extract(p, w)
  PROVE  TypeInv'
<1>1. /\ Enter(p, w, Idle) /\ UNCHANGED <<starts, data, history>>
      /\ timing' = [timing EXCEPT ![p] = FALSE]
  BY DEF Extract, Return
<1>2. timing' \in [Players -> BOOLEAN]
  BY <1>1 DEF TypeInv, TypeOK
<1> QED
  BY <1>1, <1>2, IdleType, CallStepType

LEMMA InterruptType ==
  ASSUME TypeInv, NEW p \in Players, NEW w \in Workers, Interrupt(p, w)
  PROVE  TypeInv'
<1>1. Enter(p, w, Idle) /\ UNCHANGED <<starts, data, timing, history>>
  BY DEF Interrupt, Return
<1>2. timing' \in [Players -> BOOLEAN]
  BY <1>1 DEF TypeInv, TypeOK
<1> QED
  BY <1>1, <1>2, IdleType, CallStepType

LEMMA NextType == TypeInv /\ [Next]_vars => TypeInv'
<1> SUFFICES ASSUME TypeInv, [Next]_vars
             PROVE  TypeInv'
  OBVIOUS
<1>1. CASE UNCHANGED vars
  BY <1>1 DEF vars, history, TypeInv, TypeOK, ConstantsOK, AlphasAnswerAck
<1>2. CASE Next
  BY <1>2, StartSigningType, CancelSigningType, MtaResponseType, StoreAckType,
     RespondType, MtaVerifyType, StoreVerifiedType, GetSiType, StoreRType,
     GetCmpSignatureType, DeleteSigningDataType, ExtractType, InterruptType
  DEF Next, Call, Continue
<1> QED
  BY <1>1, <1>2

\* Every reachable state has its type, however many threads a host runs: no
\* handler returns a delta or an s without an ack and the alphas, or numbers
\* a response beyond the bound.
THEOREM TypeCorrect ==
  ASSUME ConstantsOK
  PROVE  Spec => []TypeOK
<1>1. Init => TypeInv
  BY InitType
<1>2. TypeInv => TypeOK
  BY DEF TypeInv
<1> QED
  BY <1>1, <1>2, NextType, PTL DEF Spec

-----------------------------------------------------------------------------
(* The k of a life is used in one signature                                 *)

\* When one handler of a player runs at a time, a worker that enters one
\* leaves the others idle, and one that goes on is the only one.
LEMMA EnteredAlone ==
  ASSUME TypeOK, Serial, OneHandler, NEW p \in Players, NEW w \in Workers,
         NEW c, Enter(p, w, c), MayEnter(p, w) \/ call[p][w].op # "idle"
  PROVE  OneHandler'
BY DEF TypeOK, OneHandler, Enter, MayEnter

LEMMA OthersIdle ==
  ASSUME OneHandler, NEW p \in Players, NEW w \in Workers,
         call[p][w].op # "idle"
  PROVE  \A v \in Workers : v # w => call[p][v].op = "idle"
BY DEF OneHandler

LEMMA InitSignature == Init => SignatureInv
BY DEF Init, SignatureInv, OneSignature, OneHandler, LoadedIsCurrent,
   AckOfLife, UseOfLife, Idle

\* A handler begins, or one ends before its step.
LEMMA CallStepSignature ==
  ASSUME SignatureInv, OneHandler', LoadedIsCurrent',
         UNCHANGED <<starts, data, acked, uses>>
  PROVE  SignatureInv'
BY DEF SignatureInv, OneSignature, AckOfLife, UseOfLife

\* What a handler that begins loads is current.
LEMMA EnterCurrent ==
  ASSUME TypeOK, LoadedIsCurrent, NEW p \in Players, NEW w \in Workers, NEW c,
         Enter(p, w, c), UNCHANGED data,
         c.op \in OnRecord => data[p] # Absent /\ c.data.life = data[p].life,
         c.op = "ack" => data[p].ack = Absent,
         c.op \in {"respond", "verify", "publish"} => c.data.ack = data[p].ack,
         c.op \in {"ack", "respond", "verify"} => c.data.done = data[p].done,
         c.op = "publish" => ~data[p].done /\ c.data.done
  PROVE  LoadedIsCurrent'
BY DEF TypeOK, LoadedIsCurrent, Enter, OnRecord

LEMMA IdleCurrent ==
  ASSUME TypeOK, LoadedIsCurrent, NEW p \in Players, NEW w \in Workers, NEW c,
         Enter(p, w, c), c.op \in {"idle", "extract", "delete"}, UNCHANGED data
  PROVE  LoadedIsCurrent'
BY EnterCurrent DEF OnRecord

\* The player whose only handler w goes on as c; the record it leaves.
LEMMA ChangedCurrent ==
  ASSUME TypeOK, LoadedIsCurrent, NEW p \in Players, NEW w \in Workers, NEW c,
         Enter(p, w, c), NEW d, data' = [data EXCEPT ![p] = d],
         \A v \in Workers : v # w => call[p][v].op = "idle",
         \/ c.op \notin OnRecord
         \/ c.op = "respond" /\ c.data = d /\ d # Absent
  PROVE  LoadedIsCurrent'
<1> SUFFICES ASSUME NEW q \in Players, NEW v \in Workers
             PROVE  LoadedIsCurrent!(q, v)'
  BY DEF LoadedIsCurrent
<1>1. CASE q # p
  <2>1. call'[q][v] = call[q][v] /\ data'[q] = data[q]
    BY <1>1 DEF TypeOK, Enter
  <2> QED
    BY <2>1 DEF LoadedIsCurrent
<1>2. CASE q = p /\ v # w
  <2>1. call'[q][v].op = "idle"
    BY <1>2 DEF TypeOK, Enter
  <2> QED
    BY <2>1
<1>3. CASE q = p /\ v = w
  <2>1. call'[q][v] = c /\ data'[q] = d
    BY <1>3 DEF TypeOK, Enter
  <2> QED
    BY <2>1 DEF OnRecord
<1> QED
  BY <1>1, <1>2, <1>3

LEMMA StartSigningSignature ==
  ASSUME TypeInv, SignatureInv, Serial, NEW p \in Players, StartSigning(p)
  PROVE  SignatureInv'
<1> DEFINE d == [life |-> starts[p] + 1, ack |-> Absent, beta |-> Absent,
                 alpha |-> Absent, done |-> FALSE]
<1>1. /\ starts' = [starts EXCEPT ![p] = @ + 1]
      /\ data' = [data EXCEPT ![p] = d]
      /\ UNCHANGED <<timing, call, history>>
      /\ \A w \in Workers : call[p][w].op = "idle"
  BY DEF StartSigning, MayEnter
<1>2. d.life = starts[p] + 1 /\ d.ack = Absent /\ ~d.done /\ starts[p] \in Nat
  BY DataFields
<1> HIDE DEF d
<1>3. OneHandler' /\ OneSignature'
  BY <1>1 DEF SignatureInv, OneHandler, OneSignature, history
<1>4. LoadedIsCurrent'
  BY <1>1 DEF TypeInv, TypeOK, SignatureInv, LoadedIsCurrent
<1>5. /\ \A a \in acked[p] : a.life <= starts[p] /\ a.life \in Nat
      /\ \A u \in uses[p] : u.life <= starts[p] /\ u.life \in Nat
  <2>1. Lives \subseteq Nat
    BY DataFields
  <2>2. /\ \A a \in acked[p] : a.life \in Lives
        /\ \A u \in uses[p] : u.life \in Lives
    BY DEF TypeInv, TypeOK
  <2> QED
    BY <2>1, <2>2 DEF SignatureInv, AckOfLife, UseOfLife
<1>6. /\ \A a \in acked[p] : a.life <= starts[p] + 1 /\ a.life # starts[p] + 1
      /\ \A u \in uses[p] : u.life <= starts[p] + 1 /\ u.life # starts[p] + 1
  BY <1>2, <1>5
<1>7. AckOfLife' /\ UseOfLife'
  <2> SUFFICES ASSUME NEW q \in Players
               PROVE  AckOfLife!(q)' /\ UseOfLife!(q)'
    BY DEF AckOfLife, UseOfLife
  <2>1. CASE q = p
    BY <1>1, <1>2, <1>6, <2>1 DEF TypeInv, TypeOK, history
  <2>2. CASE q # p
    BY <1>1, <2>2 DEF TypeInv, TypeOK, history, SignatureInv, AckOfLife, UseOfLife
  <2> QED
    BY <2>1, <2>2
<1> QED
  BY <1>3, <1>4, <1>7 DEF SignatureInv

\* The record goes, and no handler is left that works on it.
LEMMA RecordGoes ==
  ASSUME TypeInv, SignatureInv, NEW p \in Players,
         data' = [data EXCEPT ![p] = Absent], UNCHANGED <<starts, acked, uses>>,
         OneHandler', LoadedIsCurrent'
  PROVE  SignatureInv'
BY DEF TypeInv, TypeOK, SignatureInv, OneSignature, AckOfLife, UseOfLife

LEMMA CancelSigningSignature ==
  ASSUME TypeInv, SignatureInv, Serial, NEW p \in Players, CancelSigning(p)
  PROVE  SignatureInv'
<1>1. /\ data' = [data EXCEPT ![p] = Absent]
      /\ UNCHANGED <<starts, call, acked, uses>>
      /\ \A w \in Workers : call[p][w].op = "idle"
  BY DEF CancelSigning, MayEnter, history
<1>2. OneHandler'
  BY <1>1 DEF SignatureInv, OneHandler
<1>3. LoadedIsCurrent'
  BY <1>1 DEF TypeInv, TypeOK, SignatureInv, LoadedIsCurrent
<1> QED
  BY <1>1, <1>2, <1>3, RecordGoes

LEMMA DeleteSigningDataSignature ==
  ASSUME TypeInv, SignatureInv, Serial, NEW p \in Players, NEW w \in Workers,
         DeleteSigningData(p, w)
  PROVE  SignatureInv'
<1> DEFINE c == [op |-> "extract"]
<1>1. /\ call[p][w].op = "delete" /\ Enter(p, w, c)
      /\ data' = [data EXCEPT ![p] = Absent] /\ UNCHANGED <<starts, acked, uses>>
  BY DEF DeleteSigningData
<1>2. c.op \notin OnRecord
  BY DEF OnRecord
<1> HIDE DEF c
<1>3. \A v \in Workers : v # w => call[p][v].op = "idle"
  BY <1>1, OthersIdle DEF SignatureInv
<1>4. OneHandler'
  BY <1>1, EnteredAlone DEF SignatureInv, TypeInv
<1>5. LoadedIsCurrent'
  BY <1>1, <1>2, <1>3, ChangedCurrent DEF SignatureInv, TypeInv
<1> QED
  BY <1>1, <1>4, <1>5, RecordGoes

LEMMA MtaResponseSignature ==
  ASSUME TypeInv, SignatureInv, Serial, NEW p \in Players, NEW w \in Workers,
         NEW v \in Vectors, MtaResponse(p, w, v)
  PROVE  SignatureInv'
<1> DEFINE c == [op |-> "ack", data |-> [data[p] EXCEPT !.ack = v]]
<1>1. /\ data[p] # Absent /\ data[p].ack = Absent /\ MayEnter(p, w)
      /\ Enter(p, w, c) /\ UNCHANGED <<starts, data, acked, uses>>
  BY DEF MtaResponse, NoAck, history
<1>2. c.op = "ack" /\ c.data.life = data[p].life /\ c.data.done = data[p].done
  BY <1>1, DataFields DEF Records
<1> HIDE DEF c
<1>3. OneHandler'
  BY <1>1, EnteredAlone DEF SignatureInv, TypeInv
<1>4. LoadedIsCurrent'
  BY <1>1, <1>2, EnterCurrent DEF SignatureInv, TypeInv
<1> QED
  BY <1>1, <1>3, <1>4, CallStepSignature

LEMMA MtaVerifySignature ==
  ASSUME TypeInv, SignatureInv, Serial, NEW p \in Players, NEW w \in Workers,
         NEW rs \in Choices(responses), MtaVerify(p, w, rs)
  PROVE  SignatureInv'
<1> DEFINE c == [op |-> "verify", data |-> [data[p] EXCEPT !.alpha = rs]]
<1>1. /\ data[p] # Absent /\ MayEnter(p, w)
      /\ Enter(p, w, c) /\ UNCHANGED <<starts, data, acked, uses>>
  BY DEF MtaVerify, history
<1>2. /\ c.op = "verify" /\ c.data.life = data[p].life
      /\ c.data.done = data[p].done /\ c.data.ack = data[p].ack
  BY <1>1, DataFields DEF Records
<1> HIDE DEF c
<1>3. OneHandler'
  BY <1>1, EnteredAlone DEF SignatureInv, TypeInv
<1>4. LoadedIsCurrent'
  BY <1>1, <1>2, EnterCurrent DEF SignatureInv, TypeInv
<1> QED
  BY <1>1, <1>3, <1>4, CallStepSignature

LEMMA GetSiSignature ==
  ASSUME TypeInv, SignatureInv, Serial, NEW p \in Players, NEW w \in Workers,
         NEW ds, GetSi(p, w, ds)
  PROVE  SignatureInv'
<1> DEFINE c == [op |-> "publish", data |-> [data[p] EXCEPT !.done = TRUE]]
<1>1. /\ data[p] # Absent /\ ~data[p].done /\ MayEnter(p, w)
      /\ Enter(p, w, c) /\ UNCHANGED <<starts, data, acked, uses>>
  BY DEF GetSi, history
<1>2. /\ c.op = "publish" /\ c.data.life = data[p].life
      /\ c.data.ack = data[p].ack /\ c.data.done
  BY <1>1, DataFields DEF Records
<1> HIDE DEF c
<1>3. OneHandler'
  BY <1>1, EnteredAlone DEF SignatureInv, TypeInv
<1>4. LoadedIsCurrent'
  BY <1>1, <1>2, EnterCurrent DEF SignatureInv, TypeInv
<1> QED
  BY <1>1, <1>3, <1>4, CallStepSignature

LEMMA GetCmpSignatureSignature ==
  ASSUME TypeInv, SignatureInv, Serial, NEW p \in Players, NEW w \in Workers,
         NEW ss, GetCmpSignature(p, w, ss)
  PROVE  SignatureInv'
<1> DEFINE c == [op |-> "delete", life |-> data[p].life]
<1>1. MayEnter(p, w) /\ Enter(p, w, c) /\ UNCHANGED <<starts, data, acked, uses>>
  BY DEF GetCmpSignature, history
<1>2. c.op = "delete"
  OBVIOUS
<1> HIDE DEF c
<1>3. OneHandler'
  BY <1>1, EnteredAlone DEF SignatureInv, TypeInv
<1>4. LoadedIsCurrent'
  BY <1>1, <1>2, IdleCurrent DEF SignatureInv, TypeInv
<1> QED
  BY <1>1, <1>3, <1>4, CallStepSignature

\* A handler ends without storing anything.
LEMMA ReturnSignature ==
  ASSUME TypeInv, SignatureInv, Serial, NEW p \in Players, NEW w \in Workers,
         call[p][w].op # "idle", Enter(p, w, Idle),
         UNCHANGED <<starts, data, acked, uses>>
  PROVE  SignatureInv'
<1>1. OneHandler'
  BY EnteredAlone DEF SignatureInv, TypeInv
<1>2. LoadedIsCurrent'
  BY IdleType, IdleCurrent DEF SignatureInv, TypeInv
<1> QED
  BY <1>1, <1>2, CallStepSignature

LEMMA ExtractSignature ==
  ASSUME TypeInv, SignatureInv, Serial, NEW p \in Players, NEW w \in Workers,
         Extract(p, w)
  PROVE  SignatureInv'
BY ReturnSignature DEF Extract, Return, history

LEMMA InterruptSignature ==
  ASSUME TypeInv, SignatureInv, Serial, NEW p \in Players, NEW w \in Workers,
         Interrupt(p, w)
  PROVE  SignatureInv'
<1>1. call[p][w].op # "idle"
  BY DEF Interrupt, TypeInv, TypeOK, ConstantsOK
<1> QED
  BY <1>1, ReturnSignature DEF Interrupt, Return, history

\* The first ack of the life.
LEMMA StoreAckSignature ==
  ASSUME TypeInv, SignatureInv, Serial, NEW p \in Players, NEW w \in Workers,
         StoreAck(p, w)
  PROVE  SignatureInv'
<1> DEFINE c == call[p][w]
           d == call[p][w].data
           a == [life |-> d.life, ack |-> d.ack]
           e == [c EXCEPT !.op = "respond"]
<1>1. /\ c.op = "ack" /\ UNCHANGED <<starts, uses>>
      /\ \/ /\ data' = [data EXCEPT ![p] = d] /\ Enter(p, w, e)
            /\ acked' = [acked EXCEPT ![p] = @ \cup {a}]
         \/ Enter(p, w, Idle) /\ UNCHANGED <<data, acked>>
  BY DEF StoreAck, Update, Return
<1>2. CASE Enter(p, w, Idle) /\ UNCHANGED <<data, acked>>
  BY <1>1, <1>2, ReturnSignature
<1>3. CASE /\ data' = [data EXCEPT ![p] = d] /\ Enter(p, w, e)
           /\ acked' = [acked EXCEPT ![p] = @ \cup {a}]
  <2>1. c \in [op : OnRecord, data : Records] /\ d \in Records /\ d.ack # Absent /\ d # Absent
    <3>1. c.op \in OnRecord
      BY <1>1 DEF OnRecord
    <3> QED
      BY <3>1, CallFields DEF TypeInv, TypeOK, ConstantsOK
  <2>2. /\ data[p] # Absent /\ d.life = data[p].life /\ d.done = data[p].done
        /\ data[p].ack = Absent
    BY <1>1 DEF SignatureInv, LoadedIsCurrent
  <2>3. d.life = starts[p] /\ starts[p] \in Nat
    BY <2>2, DataFields DEF SignatureInv, AckOfLife
  <2>4. \A b \in acked[p] : b.life # d.life
    BY <2>2 DEF SignatureInv, AckOfLife
  <2>5. e.op = "respond" /\ e.data = d /\ a.life = d.life /\ a = [life |-> d.life, ack |-> d.ack]
    BY <2>1 DEF OnRecord
  <2>6. \A v \in Workers : v # w => call[p][v].op = "idle"
    BY <1>1, OthersIdle DEF SignatureInv
  <2> HIDE DEF c, d, a, e
  <2>7. OneHandler'
    BY <1>1, <1>3, EnteredAlone DEF SignatureInv, TypeInv, c
  <2>8. LoadedIsCurrent'
    BY <1>3, <2>1, <2>5, <2>6, ChangedCurrent DEF SignatureInv, TypeInv
  <2>9. acked'[p] = acked[p] \cup {a} /\ data'[p] = d
        /\ \A q \in Players : q # p => acked'[q] = acked[q] /\ data'[q] = data[q]
    BY <1>3 DEF TypeInv, TypeOK
  <2>10. OneSignature'
    <3> SUFFICES ASSUME NEW q \in Players
                 PROVE  OneSignature!(q)'
      BY DEF OneSignature
    <3>1. CASE q = p
      BY <1>1, <2>4, <2>5, <2>9, <3>1 DEF SignatureInv, OneSignature
    <3>2. CASE q # p
      BY <1>1, <2>9, <3>2 DEF SignatureInv, OneSignature
    <3> QED
      BY <3>1, <3>2
  <2>11. AckOfLife'
    <3> SUFFICES ASSUME NEW q \in Players
                 PROVE  AckOfLife!(q)'
      BY DEF AckOfLife
    <3>1. CASE q = p
      <4>1. starts'[p] = starts[p] /\ a.life <= starts[p]
        BY <1>1, <2>3, <2>5
      <4>2. \A b \in acked[p] : b.life <= starts[p]
        BY DEF SignatureInv, AckOfLife
      <4>3. \A b \in acked'[p] : b.life <= starts'[p]
        BY <2>9, <4>1, <4>2
      <4> QED
        BY <1>1, <2>1, <2>3, <2>5, <2>9, <3>1, <4>3
    <3>2. CASE q # p
      BY <1>1, <2>9, <3>2 DEF SignatureInv, AckOfLife
    <3> QED
      BY <3>1, <3>2
  <2>12. UseOfLife'
    BY <1>1, <2>1, <2>2, <2>9 DEF SignatureInv, UseOfLife
  <2> QED
    BY <2>7, <2>8, <2>10, <2>11, <2>12 DEF SignatureInv
<1> QED
  BY <1>1, <1>2, <1>3

\* A handler that ends by storing a record with the same ack of the life.
LEMMA StoreSameAck ==
  ASSUME TypeInv, SignatureInv, Serial, NEW p \in Players, NEW w \in Workers,
         call[p][w].op # "idle", Enter(p, w, Idle),
         NEW d \in Records, data' = [data EXCEPT ![p] = d], data[p] # Absent,
         d.life = data[p].life, d.ack = data[p].ack,
         UNCHANGED <<starts, acked>>
  PROVE  OneHandler' /\ LoadedIsCurrent' /\ AckOfLife'
<1>1. OneHandler'
  BY EnteredAlone DEF SignatureInv, TypeInv
<1>2. LoadedIsCurrent'
  BY OthersIdle, IdleType, ChangedCurrent DEF SignatureInv, TypeInv
<1>3. d # Absent
  BY DEF TypeInv, TypeOK, ConstantsOK
<1>4. AckOfLife'
  BY <1>3 DEF TypeInv, TypeOK, SignatureInv, AckOfLife
<1> QED
  BY <1>1, <1>2, <1>4

LEMMA RespondSignature ==
  ASSUME TypeInv, SignatureInv, Serial, NEW p \in Players, NEW w \in Workers,
         Respond(p, w)
  PROVE  SignatureInv'
<1> DEFINE d == call[p][w].data
<1>1. PICK r \in Responses :
        /\ call[p][w].op = "respond" /\ Enter(p, w, Idle)
        /\ UNCHANGED <<starts, acked, uses>>
        /\ \/ data[p] # Absent /\ data' = [data EXCEPT ![p] = [d EXCEPT !.beta = r]]
           \/ UNCHANGED data
  BY RespondStep
<1>2. CASE UNCHANGED data
  BY <1>1, <1>2, ReturnSignature
<1>3. CASE data[p] # Absent /\ data' = [data EXCEPT ![p] = [d EXCEPT !.beta = r]]
  <2> DEFINE e == [d EXCEPT !.beta = r]
  <2>1. d \in Records
    <3>1. call[p][w].op \in OnRecord
      BY <1>1 DEF OnRecord
    <3> QED
      BY <3>1, CallFields
  <2>2. e \in Records /\ e.life = d.life /\ e.ack = d.ack /\ e.done = d.done
    BY <2>1 DEF Records
  <2>3. d.life = data[p].life /\ d.ack = data[p].ack /\ d.done = data[p].done
    BY <1>1 DEF SignatureInv, LoadedIsCurrent
  <2>4. data' = [data EXCEPT ![p] = e] /\ e # Absent
    BY <1>3, <2>2 DEF TypeInv, TypeOK, ConstantsOK
  <2> HIDE DEF d, e
  <2>5. OneHandler' /\ LoadedIsCurrent' /\ AckOfLife'
    <3>1. call[p][w].op # "idle" /\ Enter(p, w, Idle) /\ UNCHANGED <<starts, acked>>
      BY <1>1
    <3>2. data[p] # Absent /\ e.life = data[p].life /\ e.ack = data[p].ack
      BY <1>3, <2>2, <2>3
    <3> QED
      BY <2>2, <2>4, <3>1, <3>2, StoreSameAck
  <2>6. UseOfLife'
    BY <1>1, <1>3, <2>2, <2>3, <2>4 DEF TypeInv, TypeOK, SignatureInv, UseOfLife
  <2> QED
    BY <1>1, <2>5, <2>6 DEF SignatureInv, OneSignature
<1> QED
  BY <1>1, <1>2, <1>3

LEMMA StoreVerifiedSignature ==
  ASSUME TypeInv, SignatureInv, Serial, NEW p \in Players, NEW w \in Workers,
         StoreVerified(p, w)
  PROVE  SignatureInv'
<1> DEFINE d == call[p][w].data
<1>1. /\ call[p][w].op = "verify" /\ Enter(p, w, Idle)
      /\ UNCHANGED <<starts, acked, uses>>
      /\ \/ data[p] # Absent /\ data' = [data EXCEPT ![p] = d]
         \/ UNCHANGED data
  BY DEF StoreVerified, Update, Return
<1>2. CASE UNCHANGED data
  BY <1>1, <1>2, ReturnSignature
<1>3. CASE data[p] # Absent /\ data' = [data EXCEPT ![p] = d]
  <2>1. d \in Records /\ d # Absent
    <3>1. call[p][w].op \in OnRecord
      BY <1>1 DEF OnRecord
    <3> QED
      BY <3>1, CallFields
  <2>2. d.life = data[p].life /\ d.ack = data[p].ack /\ d.done = data[p].done
    BY <1>1 DEF SignatureInv, LoadedIsCurrent
  <2> HIDE DEF d
  <2>3. OneHandler' /\ LoadedIsCurrent' /\ AckOfLife'
    BY <1>1, <1>3, <2>1, <2>2, StoreSameAck
  <2>4. UseOfLife'
    BY <1>1, <1>3, <2>1, <2>2 DEF TypeInv, TypeOK, SignatureInv, UseOfLife
  <2> QED
    BY <1>1, <2>3, <2>4 DEF SignatureInv, OneSignature
<1> QED
  BY <1>1, <1>2, <1>3

\* The first and only s of the life, for the ack of the record.
LEMMA StoreRSignature ==
  ASSUME TypeInv, SignatureInv, Serial, NEW p \in Players, NEW w \in Workers,
         StoreR(p, w)
  PROVE  SignatureInv'
<1> DEFINE d == call[p][w].data
<1>1. /\ call[p][w].op = "publish" /\ Enter(p, w, Idle)
      /\ UNCHANGED <<starts, acked>>
      /\ \/ /\ data[p] # Absent /\ data' = [data EXCEPT ![p] = d]
            /\ uses' = [uses EXCEPT ![p] = @ \cup {S(d)}] \/ UNCHANGED uses
         \/ UNCHANGED <<data, uses>>
  BY DEF StoreR, Update, Return
<1>2. CASE UNCHANGED <<data, uses>>
  BY <1>1, <1>2, ReturnSignature
<1>3. CASE /\ data[p] # Absent /\ data' = [data EXCEPT ![p] = d]
           /\ uses' = [uses EXCEPT ![p] = @ \cup {S(d)}] \/ UNCHANGED uses
  <2>1. d \in Records /\ d # Absent /\ d.ack # Absent
    <3>1. call[p][w].op \in OnRecord
      BY <1>1 DEF OnRecord
    <3> QED
      BY <3>1, CallFields DEF TypeInv, TypeOK, ConstantsOK
  <2>2. d.life = data[p].life /\ d.ack = data[p].ack /\ ~data[p].done
    BY <1>1 DEF SignatureInv, LoadedIsCurrent
  <2>3. S(d).life = d.life /\ S(d).R = d.ack
    BY DEF S
  <2>4. \A u \in uses[p] : u.life # d.life
    BY <1>3, <2>2 DEF SignatureInv, UseOfLife
  <2>5. d.life = starts[p] /\ [life |-> d.life, ack |-> d.ack] \in acked[p]
        /\ starts[p] \in Nat
    BY <1>3, <2>1, <2>2, DataFields DEF SignatureInv, AckOfLife
  <2>6. d.done
    BY <1>1 DEF SignatureInv, LoadedIsCurrent
  <2>7. \A v \in Workers : v # w => call[p][v].op = "idle"
    BY <1>1, OthersIdle DEF SignatureInv
  <2> HIDE DEF d
  <2>8. OneHandler' /\ LoadedIsCurrent' /\ AckOfLife'
    BY <1>1, <1>3, <2>1, <2>2, StoreSameAck
  <2>9. /\ data'[p] = d /\ uses'[p] \subseteq uses[p] \cup {S(d)}
        /\ \A q \in Players : q # p => uses'[q] = uses[q] /\ data'[q] = data[q]
    BY <1>3 DEF TypeInv, TypeOK
  <2>10. UseOfLife'
    <3> SUFFICES ASSUME NEW q \in Players
                 PROVE  UseOfLife!(q)'
      BY DEF UseOfLife
    <3>1. CASE q = p
      <4>1. \A u \in uses'[p] : u.life <= starts[p]
        BY <2>3, <2>5, <2>9 DEF SignatureInv, UseOfLife
      <4> QED
        BY <1>1, <2>6, <2>9, <3>1, <4>1
    <3>2. CASE q # p
      BY <1>1, <2>9, <3>2 DEF SignatureInv, UseOfLife
    <3> QED
      BY <3>1, <3>2
  <2>11. OneSignature'
    <3> SUFFICES ASSUME NEW q \in Players
                 PROVE  OneSignature!(q)'
      BY DEF OneSignature
    <3>1. CASE q = p
      <4>1. \A u, v \in uses'[p] : u.life = v.life => u = v
        BY <2>3, <2>4, <2>9 DEF SignatureInv, OneSignature
      <4>2. \A u \in uses'[p] : [life |-> u.life, ack |-> u.R] \in acked[p]
        BY <2>3, <2>5, <2>9 DEF SignatureInv, OneSignature
      <4> QED
        BY <1>1, <3>1, <4>1, <4>2 DEF SignatureInv, OneSignature
    <3>2. CASE q # p
      BY <1>1, <2>9, <3>2 DEF SignatureInv, OneSignature
    <3> QED
      BY <3>1, <3>2
  <2> QED
    BY <2>8, <2>10, <2>11 DEF SignatureInv
<1> QED
  BY <1>1, <1>2, <1>3

LEMMA NextSignature ==
  ASSUME Serial
  PROVE  TypeInv /\ SignatureInv /\ [Next]_vars => SignatureInv'
<1> SUFFICES ASSUME TypeInv, SignatureInv, [Next]_vars
             PROVE  SignatureInv'
  OBVIOUS
<1>1. CASE UNCHANGED vars
  BY <1>1 DEF vars, history, SignatureInv, OneSignature, OneHandler,
     LoadedIsCurrent, AckOfLife, UseOfLife
<1>2. CASE Next
  BY <1>2, StartSigningSignature, CancelSigningSignature, MtaResponseSignature,
     StoreAckSignature, RespondSignature, MtaVerifySignature,
     StoreVerifiedSignature, GetSiSignature, StoreRSignature,
     GetCmpSignatureSignature, DeleteSigningDataSignature, ExtractSignature,
     InterruptSignature
  DEF Next, Call, Continue
<1> QED
  BY <1>1, <1>2

\* When a host runs one handler of a player at a time, the k of a life signs
\* once, with the R of the requests acknowledged first: for any number of
\* players, lives and responses, wherever handlers stop.
THEOREM KSignsOnce ==
  ASSUME ConstantsOK, Serial
  PROVE  Spec => []OneSignature
<1>1. Init => TypeInv /\ SignatureInv
  BY InitType, InitSignature
<1>2. TypeInv /\ SignatureInv /\ [Next]_vars => TypeInv' /\ SignatureInv'
  BY NextType, NextSignature
<1>3. SignatureInv => OneSignature
  BY DEF SignatureInv
<1> QED
  BY <1>1, <1>2, <1>3, PTL DEF Spec

-----------------------------------------------------------------------------
(* The s for one R fit together                                             *)

\* What get_si has found of an s: it is for the own request, and each other
\* player has returned a delta of the life R names, for the same requests,
\* with the same products.
Fits(p, u) ==
  /\ u.R[p] = u.life
  /\ \A q \in Players \ {p} : \E e \in deltas[q] :
       /\ e.life = u.R[q] /\ e.ack = u.R
       /\ e.alpha[p] = u.beta /\ u.alpha[q] = e.beta

\* A life has one delta, the one of its record: alphas are added once.
DeltaOfLife ==
  \A p \in Players :
    /\ \A e \in deltas[p] : e.life <= starts[p]
    /\ \A e, f \in deltas[p] : e.life = f.life => e = f

DeltaOfRecord ==
  \A p \in Players : data[p] # Absent =>
    /\ \A e \in deltas[p] : e.life = data[p].life =>
         data[p].alpha # Absent /\ e = Delta(data[p])
    /\ data[p].alpha # Absent => data[p].ack[p] = data[p].life
    /\ data[p].done => data[p].alpha # Absent

\* What a handler in progress relies on: until alphas are stored there are
\* none, and get_si changes nothing that goes into delta and s.
Stored(p, c) ==
  /\ c.op \in {"ack", "respond", "verify"} => data[p].alpha = Absent
  /\ c.op \in {"ack", "respond"} => c.data.alpha = Absent
  /\ c.op = "verify" => c.data.ack[p] = c.data.life
  /\ c.op = "publish" => Delta(c.data) = Delta(data[p]) /\ Fits(p, S(c.data))

LoadedIsStored == \A p \in Players, w \in Workers : Stored(p, call[p][w])

\* An s fits the deltas of the others and has the products of the own one.
UsesFit ==
  \A p \in Players : \A u \in uses[p] :
    /\ Fits(p, u)
    /\ \A e \in deltas[p] : e.life = u.life => e.beta = u.beta /\ e.alpha = u.alpha

FitInv == DeltaOfLife /\ DeltaOfRecord /\ LoadedIsStored /\ UsesFit

\* Two s for one R: the delta that the first was compared with is the one
\* of the life of the second.
LEMMA FitTogether == UsesFit => SignaturesFit
<1> SUFFICES ASSUME UsesFit, NEW p \in Players, NEW u \in uses[p]
             PROVE  SignaturesFit!(p)!(u)
  BY DEF SignaturesFit
<1>1. u.life = u.R[p]
  BY DEF UsesFit, Fits
<1>2. ASSUME NEW q \in Players \ {p}, NEW v \in uses[q], u.R = v.R
      PROVE  u.alpha[q] = v.beta
  <2>1. PICK e \in deltas[q] : e.life = u.R[q] /\ u.alpha[q] = e.beta
    BY DEF UsesFit, Fits
  <2>2. v.R[q] = v.life
    BY DEF UsesFit, Fits
  <2>3. e.beta = v.beta
    BY <1>2, <2>1, <2>2 DEF UsesFit
  <2> QED
    BY <2>1, <2>3
<1> QED
  BY <1>1, <1>2

LEMMA InitFit == Init => FitInv
BY DEF Init, FitInv, DeltaOfLife, DeltaOfRecord, LoadedIsStored, Stored, UsesFit, Idle

\* A delta that was returned stays.
LEMMA FitsStays ==
  ASSUME NEW p, NEW u, Fits(p, u), \A q \in Players : deltas[q] \subseteq deltas'[q]
  PROVE  Fits(p, u)'
BY DEF Fits

\* A handler begins, or one ends before its step.
LEMMA CallStepFit ==
  ASSUME TypeInv, FitInv, NEW p \in Players, NEW w \in Workers, NEW c,
         Enter(p, w, c), UNCHANGED <<starts, data, deltas, uses>>, Stored(p, c)
  PROVE  FitInv'
<1>1. DeltaOfLife' /\ DeltaOfRecord' /\ UsesFit'
  BY DEF FitInv, DeltaOfLife, DeltaOfRecord, UsesFit, Fits
<1>2. \A q \in Players, v \in Workers :
        call'[q][v] = call[q][v] \/ (q = p /\ call'[q][v] = c)
  BY DEF TypeInv, TypeOK, Enter
<1>3. LoadedIsStored'
  BY <1>2 DEF FitInv, LoadedIsStored, Stored, Fits
<1> QED
  BY <1>1, <1>3 DEF FitInv

\* A step of the only handler of a player that changes its record.
LEMMA OthersStored ==
  ASSUME TypeInv, SignatureInv, LoadedIsStored, NEW p \in Players, NEW w \in Workers,
         NEW c, Enter(p, w, c), call[p][w].op # "idle", NEW d,
         data' = [data EXCEPT ![p] = d],
         \A q \in Players : deltas[q] \subseteq deltas'[q], Stored(p, c)'
  PROVE  LoadedIsStored'
<1> SUFFICES ASSUME NEW q \in Players, NEW v \in Workers
             PROVE  Stored(q, call[q][v])'
  BY DEF LoadedIsStored
<1>1. CASE q # p
  <2>1. call'[q][v] = call[q][v] /\ data'[q] = data[q]
    BY <1>1 DEF TypeInv, TypeOK, Enter
  <2>2. Stored(q, call[q][v])
    BY DEF LoadedIsStored
  <2> QED
    BY <2>1, <2>2, FitsStays DEF Stored
<1>2. CASE q = p /\ v # w
  <2>1. call[p][v].op = "idle"
    BY <1>2, OthersIdle DEF SignatureInv
  <2>2. call'[q][v].op = "idle"
    BY <1>2, <2>1 DEF TypeInv, TypeOK, Enter
  <2> QED
    BY <2>2 DEF Stored
<1>3. CASE q = p /\ v = w
  <2>1. call'[q][v] = c
    BY <1>3 DEF TypeInv, TypeOK, Enter
  <2> QED
    BY <1>3, <2>1
<1> QED
  BY <1>1, <1>2, <1>3

\* Nothing that is idle or only deletes relies on a record.
LEMMA NothingStored ==
  ASSUME NEW p, NEW c, c.op \in {"idle", "extract", "delete"}
  PROVE  Stored(p, c)
BY DEF Stored

LEMMA StartSigningFit ==
  ASSUME TypeInv, SignatureInv, FitInv, Serial, NEW p \in Players, StartSigning(p)
  PROVE  FitInv'
<1> DEFINE d == [life |-> starts[p] + 1, ack |-> Absent, beta |-> Absent,
                 alpha |-> Absent, done |-> FALSE]
<1>1. /\ starts' = [starts EXCEPT ![p] = @ + 1]
      /\ data' = [data EXCEPT ![p] = d]
      /\ UNCHANGED <<call, deltas, uses>>
      /\ \A w \in Workers : call[p][w].op = "idle"
  BY DEF StartSigning, MayEnter, history
<1>2. d.life = starts[p] + 1 /\ d.alpha = Absent /\ ~d.done /\ starts[p] \in Nat
  BY DataFields
<1> HIDE DEF d
<1>3. \A e \in deltas[p] : e.life <= starts[p] + 1 /\ e.life # starts[p] + 1
  <2>1. \A e \in deltas[p] : e.life \in Lives
    BY DEF TypeInv, TypeOK, Deltas
  <2>2. \A e \in deltas[p] : e.life \in Nat /\ e.life <= starts[p]
    BY <2>1, DataFields DEF FitInv, DeltaOfLife
  <2> QED
    BY <1>2, <2>2
<1>4. \A q \in Players : q # p => starts'[q] = starts[q] /\ data'[q] = data[q]
  BY <1>1 DEF TypeInv, TypeOK
<1>5. starts'[p] = starts[p] + 1 /\ data'[p] = d
  BY <1>1 DEF TypeInv, TypeOK
<1>6. DeltaOfLife'
  BY <1>1, <1>3, <1>4, <1>5 DEF FitInv, DeltaOfLife
<1>7. DeltaOfRecord'
  BY <1>1, <1>2, <1>3, <1>4, <1>5 DEF FitInv, DeltaOfRecord
<1>8. LoadedIsStored'
  BY <1>1, <1>4 DEF FitInv, LoadedIsStored, Stored, Fits
<1>9. UsesFit'
  BY <1>1 DEF FitInv, UsesFit, Fits
<1> QED
  BY <1>6, <1>7, <1>8, <1>9 DEF FitInv

LEMMA CancelSigningFit ==
  ASSUME TypeInv, FitInv, Serial, NEW p \in Players, CancelSigning(p)
  PROVE  FitInv'
<1>1. /\ data' = [data EXCEPT ![p] = Absent]
      /\ UNCHANGED <<starts, call, deltas, uses>>
      /\ \A w \in Workers : call[p][w].op = "idle"
  BY DEF CancelSigning, MayEnter, history
<1>2. data'[p] = Absent /\ \A q \in Players : q # p => data'[q] = data[q]
  BY <1>1 DEF TypeInv, TypeOK
<1>3. LoadedIsStored'
  BY <1>1, <1>2 DEF FitInv, LoadedIsStored, Stored, Fits
<1> QED
  BY <1>1, <1>2, <1>3 DEF FitInv, DeltaOfLife, DeltaOfRecord, UsesFit, Fits

LEMMA DeleteSigningDataFit ==
  ASSUME TypeInv, SignatureInv, FitInv, NEW p \in Players, NEW w \in Workers,
         DeleteSigningData(p, w)
  PROVE  FitInv'
<1> DEFINE c == [op |-> "extract"]
<1>1. /\ call[p][w].op = "delete" /\ Enter(p, w, c)
      /\ data' = [data EXCEPT ![p] = Absent] /\ UNCHANGED <<starts, deltas, uses>>
  BY DEF DeleteSigningData
<1>2. c.op = "extract"
  OBVIOUS
<1> HIDE DEF c
<1>3. data'[p] = Absent /\ \A q \in Players : q # p => data'[q] = data[q]
  BY <1>1 DEF TypeInv, TypeOK
<1>4. Stored(p, c)'
  BY <1>2 DEF Stored
<1>5. LoadedIsStored'
  BY <1>1, <1>4, OthersStored DEF FitInv
<1> QED
  BY <1>1, <1>3, <1>5 DEF FitInv, DeltaOfLife, DeltaOfRecord, UsesFit, Fits

LEMMA MtaResponseFit ==
  ASSUME TypeInv, FitInv, NEW p \in Players, NEW w \in Workers,
         NEW v \in Vectors, MtaResponse(p, w, v)
  PROVE  FitInv'
<1> DEFINE c == [op |-> "ack", data |-> [data[p] EXCEPT !.ack = v]]
<1>1. /\ data[p] # Absent /\ data[p].ack = Absent
      /\ Enter(p, w, c) /\ UNCHANGED <<starts, data, deltas, uses>>
  BY DEF MtaResponse, NoAck, history
<1>2. data[p] \in Records /\ data[p].alpha = Absent
  BY <1>1, DataFields
<1>3. c.op = "ack" /\ c.data.alpha = Absent
  BY <1>2 DEF Records
<1> HIDE DEF c
<1>4. Stored(p, c)
  BY <1>2, <1>3 DEF Stored
<1> QED
  BY <1>1, <1>4, CallStepFit

LEMMA MtaVerifyFit ==
  ASSUME TypeInv, FitInv, NEW p \in Players, NEW w \in Workers,
         NEW rs \in Choices(responses), MtaVerify(p, w, rs)
  PROVE  FitInv'
<1> DEFINE c == [op |-> "verify", data |-> [data[p] EXCEPT !.alpha = rs]]
<1>1. /\ data[p] # Absent /\ data[p].alpha = Absent /\ data[p].ack[p] = data[p].life
      /\ Enter(p, w, c) /\ UNCHANGED <<starts, data, deltas, uses>>
  BY DEF MtaVerify, ResponsesVerify, history
<1>2. data[p] \in Records
  BY <1>1, DataFields
<1>3. c.op = "verify" /\ c.data.ack = data[p].ack /\ c.data.life = data[p].life
  BY <1>2 DEF Records
<1> HIDE DEF c
<1>4. Stored(p, c)
  BY <1>1, <1>3 DEF Stored
<1> QED
  BY <1>1, <1>4, CallStepFit

\* What get_si compares: the deltas of the others with the own one.
LEMMA GetSiFit ==
  ASSUME TypeInv, FitInv, NEW p \in Players, NEW w \in Workers,
         NEW ds \in Received(p, deltas), GetSi(p, w, ds)
  PROVE  FitInv'
<1> DEFINE d == data[p]
           n == [d EXCEPT !.done = TRUE]
           c == [op |-> "publish", data |-> n]
<1>1. /\ d # Absent /\ d.alpha # Absent
      /\ \A q \in Players \ {p} : ds[q] \in deltas[q]
      /\ DeltasProved(p, d, ds) /\ DeltaVerifies(p, d, ds)
      /\ Enter(p, w, c) /\ UNCHANGED <<starts, data, deltas, uses>>
  BY DEF GetSi, history
<1>2. d \in Records
  BY <1>1, DataFields
<1>3. n.life = d.life /\ n.ack = d.ack /\ n.beta = d.beta /\ n.alpha = d.alpha
  BY <1>2 DEF Records
<1>4. c.op = "publish" /\ c.data = n
  OBVIOUS
<1>5. d.ack[p] = d.life
  BY <1>1 DEF FitInv, DeltaOfRecord
<1> HIDE DEF d, n, c
<1>6. ASSUME NEW q \in Players \ {p}
      PROVE  /\ ds[q].life = d.ack[q] /\ ds[q].ack = d.ack
             /\ ds[q].alpha[p] = d.beta /\ d.alpha[q] = ds[q].beta
  <2>1. ds[q].life = d.ack[q] /\ ds[q].ack = d.ack
    BY <1>1 DEF DeltasProved
  <2>2. ds[q].alpha[p] = Delta(d).beta /\ Delta(d).alpha[q] = ds[q].beta
    BY <1>1 DEF DeltaVerifies
  <2>3. Delta(d).beta = d.beta /\ Delta(d).alpha = d.alpha
    BY DEF Delta
  <2> QED
    BY <2>1, <2>2, <2>3
<1>7. S(n).life = d.life /\ S(n).R = d.ack /\ S(n).beta = d.beta /\ S(n).alpha = d.alpha
  BY <1>3 DEF S
<1>8. Fits(p, S(n))
  BY <1>1, <1>5, <1>6, <1>7 DEF Fits
<1>9. Delta(n) = Delta(data[p])
  BY <1>3 DEF Delta, d
<1>10. Stored(p, c)
  BY <1>4, <1>8, <1>9 DEF Stored
<1> QED
  BY <1>1, <1>10, CallStepFit

LEMMA GetCmpSignatureFit ==
  ASSUME TypeInv, FitInv, NEW p \in Players, NEW w \in Workers, NEW ss,
         GetCmpSignature(p, w, ss)
  PROVE  FitInv'
<1> DEFINE c == [op |-> "delete", life |-> data[p].life]
<1>1. Enter(p, w, c) /\ UNCHANGED <<starts, data, deltas, uses>>
  BY DEF GetCmpSignature, history
<1>2. c.op = "delete"
  OBVIOUS
<1> HIDE DEF c
<1> QED
  BY <1>1, <1>2, NothingStored, CallStepFit

LEMMA ReturnFit ==
  ASSUME TypeInv, FitInv, NEW p \in Players, NEW w \in Workers,
         Enter(p, w, Idle), UNCHANGED <<starts, data, deltas, uses>>
  PROVE  FitInv'
BY IdleType, NothingStored, CallStepFit

LEMMA ExtractFit ==
  ASSUME TypeInv, FitInv, NEW p \in Players, NEW w \in Workers, Extract(p, w)
  PROVE  FitInv'
BY ReturnFit DEF Extract, Return, history

LEMMA InterruptFit ==
  ASSUME TypeInv, FitInv, NEW p \in Players, NEW w \in Workers, Interrupt(p, w)
  PROVE  FitInv'
BY ReturnFit DEF Interrupt, Return, history

\* The handlers of the response store a record that still has no alphas: its
\* life has no delta, before and after.
LEMMA NoAlphasFit ==
  ASSUME TypeInv, SignatureInv, FitInv, NEW p \in Players, NEW w \in Workers,
         NEW c, Enter(p, w, c), call[p][w].op \in {"ack", "respond"},
         NEW d, data' = [data EXCEPT ![p] = d], UNCHANGED <<starts, deltas, uses>>,
         data[p] # Absent, d.life = data[p].life, d.done = data[p].done,
         d.alpha = Absent,
         \/ c.op = "respond" /\ c.data.alpha = Absent
         \/ c.op = "idle"
  PROVE  FitInv'
<1>1. data[p].alpha = Absent
  BY DEF FitInv, LoadedIsStored, Stored
<1>2. ~d.done /\ \A e \in deltas[p] : e.life # d.life
  BY <1>1 DEF FitInv, DeltaOfRecord
<1>3. data'[p] = d /\ \A q \in Players : q # p => data'[q] = data[q]
  BY DEF TypeInv, TypeOK
<1>4. DeltaOfRecord'
  BY <1>2, <1>3 DEF FitInv, DeltaOfRecord
<1>5. Stored(p, c)'
  BY <1>3 DEF Stored
<1>6. LoadedIsStored'
  BY <1>5, OthersStored DEF FitInv
<1> QED
  BY <1>4, <1>6 DEF FitInv, DeltaOfLife, UsesFit, Fits

LEMMA StoreAckFit ==
  ASSUME TypeInv, SignatureInv, FitInv, NEW p \in Players, NEW w \in Workers,
         StoreAck(p, w)
  PROVE  FitInv'
<1> DEFINE c == call[p][w]
           d == call[p][w].data
           e == [c EXCEPT !.op = "respond"]
<1>1. /\ c.op = "ack" /\ UNCHANGED <<starts, deltas, uses>>
      /\ \/ data[p] # Absent /\ data' = [data EXCEPT ![p] = d] /\ Enter(p, w, e)
         \/ Enter(p, w, Idle) /\ UNCHANGED data
  BY DEF StoreAck, Update, Return
<1>2. CASE Enter(p, w, Idle) /\ UNCHANGED data
  BY <1>1, <1>2, ReturnFit
<1>3. CASE data[p] # Absent /\ data' = [data EXCEPT ![p] = d] /\ Enter(p, w, e)
  <2>1. c \in [op : OnRecord, data : Records]
    BY <1>1, CallFields DEF OnRecord
  <2>2. d.life = data[p].life /\ d.done = data[p].done
    BY <1>1 DEF SignatureInv, LoadedIsCurrent
  <2>3. d.alpha = Absent
    BY <1>1 DEF FitInv, LoadedIsStored, Stored
  <2>4. e.op = "respond" /\ e.data = d
    BY <2>1
  <2> HIDE DEF d, e
  <2> QED
    BY <1>1, <1>3, <2>2, <2>3, <2>4, NoAlphasFit
<1> QED
  BY <1>1, <1>2, <1>3

LEMMA RespondFit ==
  ASSUME TypeInv, SignatureInv, FitInv, NEW p \in Players, NEW w \in Workers,
         Respond(p, w)
  PROVE  FitInv'
<1> DEFINE d == call[p][w].data
<1>1. PICK r \in Responses :
        /\ call[p][w].op = "respond" /\ Enter(p, w, Idle)
        /\ UNCHANGED <<starts, deltas, uses>>
        /\ \/ data[p] # Absent /\ data' = [data EXCEPT ![p] = [d EXCEPT !.beta = r]]
           \/ UNCHANGED data
  BY RespondStep
<1>2. CASE UNCHANGED data
  BY <1>1, <1>2, ReturnFit
<1>3. CASE data[p] # Absent /\ data' = [data EXCEPT ![p] = [d EXCEPT !.beta = r]]
  <2> DEFINE e == [d EXCEPT !.beta = r]
  <2>1. d \in Records
    BY <1>1, CallFields DEF OnRecord
  <2>2. e.life = d.life /\ e.done = d.done /\ e.alpha = d.alpha
    BY <2>1 DEF Records
  <2>3. d.life = data[p].life /\ d.done = data[p].done
    BY <1>1 DEF SignatureInv, LoadedIsCurrent
  <2>4. d.alpha = Absent
    BY <1>1 DEF FitInv, LoadedIsStored, Stored
  <2>5. data' = [data EXCEPT ![p] = e]
    BY <1>3
  <2> HIDE DEF d, e
  <2>6. call[p][w].op \in {"ack", "respond"} /\ Enter(p, w, Idle) /\ Idle.op = "idle"
        /\ UNCHANGED <<starts, deltas, uses>> /\ data[p] # Absent
    BY <1>1, <1>3, IdleType
  <2>7. e.life = data[p].life /\ e.done = data[p].done /\ e.alpha = Absent
    BY <2>2, <2>3, <2>4
  <2> QED
    BY <2>5, <2>6, <2>7, NoAlphasFit
<1> QED
  BY <1>1, <1>2, <1>3

\* The first delta of the life: no s of it has been returned.
LEMMA StoreVerifiedFit ==
  ASSUME TypeInv, SignatureInv, FitInv, NEW p \in Players, NEW w \in Workers,
         StoreVerified(p, w)
  PROVE  FitInv'
<1> DEFINE d == call[p][w].data
<1>1. /\ call[p][w].op = "verify" /\ Enter(p, w, Idle)
      /\ UNCHANGED <<starts, uses>>
      /\ \/ /\ data[p] # Absent /\ data' = [data EXCEPT ![p] = d]
            /\ deltas' = [deltas EXCEPT ![p] = @ \cup {Delta(d)}] \/ UNCHANGED deltas
         \/ UNCHANGED <<data, deltas>>
  BY DEF StoreVerified, Update, Return
<1>2. CASE UNCHANGED <<data, deltas>>
  BY <1>1, <1>2, ReturnFit
<1>3. CASE /\ data[p] # Absent /\ data' = [data EXCEPT ![p] = d]
           /\ deltas' = [deltas EXCEPT ![p] = @ \cup {Delta(d)}] \/ UNCHANGED deltas
  <2>1. d.alpha # Absent
    BY <1>1 DEF TypeInv, AlphasAnswerAck
  <2>2. d.life = data[p].life
    BY <1>1 DEF SignatureInv, LoadedIsCurrent
  <2>3. data[p].alpha = Absent /\ d.ack[p] = d.life
    BY <1>1 DEF FitInv, LoadedIsStored, Stored
  <2>4. \A e \in deltas[p] : e.life # d.life
    BY <1>3, <2>2, <2>3 DEF FitInv, DeltaOfRecord
  <2>5. \A u \in uses[p] : u.life # d.life
    <3>1. ~data[p].done
      BY <1>3, <2>3 DEF FitInv, DeltaOfRecord
    <3> QED
      BY <1>3, <2>2, <3>1 DEF SignatureInv, UseOfLife
  <2>6. d.life <= starts[p]
    <3>1. data[p].life = starts[p] /\ starts[p] \in Nat
      BY <1>3, DataFields DEF SignatureInv, AckOfLife
    <3> QED
      BY <2>2, <3>1
  <2>7. Delta(d).life = d.life
    BY DEF Delta
  <2> HIDE DEF d
  <2>8. /\ data'[p] = d /\ deltas'[p] \subseteq deltas[p] \cup {Delta(d)}
        /\ \A q \in Players : q # p => deltas'[q] = deltas[q] /\ data'[q] = data[q]
        /\ \A q \in Players : deltas[q] \subseteq deltas'[q]
    BY <1>3 DEF TypeInv, TypeOK
  <2>9. DeltaOfLife'
    <3> SUFFICES ASSUME NEW q \in Players
                 PROVE  DeltaOfLife!(q)'
      BY DEF DeltaOfLife
    <3>1. CASE q = p
      <4>1. \A e \in deltas'[p] : e.life <= starts[p]
        BY <2>6, <2>7, <2>8 DEF FitInv, DeltaOfLife
      <4>2. \A e, f \in deltas'[p] : e.life = f.life => e = f
        BY <2>4, <2>7, <2>8 DEF FitInv, DeltaOfLife
      <4> QED
        BY <1>1, <3>1, <4>1, <4>2
    <3>2. CASE q # p
      BY <1>1, <2>8, <3>2 DEF FitInv, DeltaOfLife
    <3> QED
      BY <3>1, <3>2
  <2>10. DeltaOfRecord'
    <3> SUFFICES ASSUME NEW q \in Players
                 PROVE  DeltaOfRecord!(q)'
      BY DEF DeltaOfRecord
    <3>1. CASE q = p
      BY <2>1, <2>3, <2>4, <2>8, <3>1
    <3>2. CASE q # p
      BY <2>8, <3>2 DEF FitInv, DeltaOfRecord
    <3> QED
      BY <3>1, <3>2
  <2>11. LoadedIsStored'
    <3>1. Stored(p, Idle)'
      BY IdleType DEF Stored
    <3> QED
      BY <1>1, <1>3, <2>8, <3>1, OthersStored DEF FitInv
  <2>12. UsesFit'
    <3> SUFFICES ASSUME NEW q \in Players, NEW u \in uses[q]
                 PROVE  /\ Fits(q, u)'
                        /\ \A e \in deltas'[q] : e.life = u.life =>
                             e.beta = u.beta /\ e.alpha = u.alpha
      BY <1>1 DEF UsesFit
    <3>1. Fits(q, u)'
      BY <2>8, FitsStays DEF FitInv, UsesFit
    <3>2. ASSUME NEW e \in deltas'[q], e.life = u.life
          PROVE  e \in deltas[q]
      BY <2>5, <2>7, <2>8, <3>2
    <3> QED
      BY <3>1, <3>2 DEF FitInv, UsesFit
  <2> QED
    BY <2>9, <2>10, <2>11, <2>12 DEF FitInv
<1> QED
  BY <1>1, <1>2, <1>3

\* The s of the life, with the products of its delta.
LEMMA StoreRFit ==
  ASSUME TypeInv, SignatureInv, FitInv, NEW p \in Players, NEW w \in Workers,
         StoreR(p, w)
  PROVE  FitInv'
<1> DEFINE d == call[p][w].data
<1>1. /\ call[p][w].op = "publish" /\ Enter(p, w, Idle)
      /\ UNCHANGED <<starts, deltas>>
      /\ \/ /\ data[p] # Absent /\ data' = [data EXCEPT ![p] = d]
            /\ uses' = [uses EXCEPT ![p] = @ \cup {S(d)}] \/ UNCHANGED uses
         \/ UNCHANGED <<data, uses>>
  BY DEF StoreR, Update, Return
<1>2. CASE UNCHANGED <<data, uses>>
  BY <1>1, <1>2, ReturnFit
<1>3. CASE /\ data[p] # Absent /\ data' = [data EXCEPT ![p] = d]
           /\ uses' = [uses EXCEPT ![p] = @ \cup {S(d)}] \/ UNCHANGED uses
  <2>1. d.alpha # Absent
    BY <1>1 DEF TypeInv, AlphasAnswerAck
  <2>2. d.life = data[p].life /\ d.ack = data[p].ack
    BY <1>1 DEF SignatureInv, LoadedIsCurrent
  <2>3. Delta(d) = Delta(data[p]) /\ Fits(p, S(d))
    BY <1>1 DEF FitInv, LoadedIsStored, Stored
  <2>4. data[p].alpha = d.alpha
    BY <2>3 DEF Delta
  <2>5. \A e \in deltas[p] : e.life = d.life => e = Delta(d)
    BY <1>3, <2>2, <2>3 DEF FitInv, DeltaOfRecord
  <2>6. d.ack[p] = d.life
    BY <1>3, <2>1, <2>2, <2>4 DEF FitInv, DeltaOfRecord
  <2>7. /\ S(d).life = d.life /\ S(d).beta = Delta(d).beta
        /\ S(d).alpha = Delta(d).alpha
    BY DEF S, Delta
  <2> HIDE DEF d
  <2>8. /\ data'[p] = d /\ uses'[p] \subseteq uses[p] \cup {S(d)}
        /\ \A q \in Players : q # p => uses'[q] = uses[q] /\ data'[q] = data[q]
    BY <1>3 DEF TypeInv, TypeOK
  <2>9. DeltaOfRecord'
    <3> SUFFICES ASSUME NEW q \in Players
                 PROVE  DeltaOfRecord!(q)'
      BY DEF DeltaOfRecord
    <3>1. CASE q = p
      BY <1>1, <2>1, <2>5, <2>6, <2>8, <3>1
    <3>2. CASE q # p
      BY <1>1, <2>8, <3>2 DEF FitInv, DeltaOfRecord
    <3> QED
      BY <3>1, <3>2
  <2>10. LoadedIsStored'
    <3>1. Stored(p, Idle)'
      BY IdleType DEF Stored
    <3> QED
      BY <1>1, <1>3, <3>1, OthersStored DEF FitInv
  <2>11. UsesFit'
    <3> SUFFICES ASSUME NEW q \in Players, NEW u \in uses'[q]
                 PROVE  /\ Fits(q, u)
                        /\ \A e \in deltas[q] : e.life = u.life =>
                             e.beta = u.beta /\ e.alpha = u.alpha
      BY <1>1 DEF UsesFit, Fits
    <3>1. CASE u \in uses[q]
      BY <3>1 DEF FitInv, UsesFit
    <3>2. CASE u \notin uses[q]
      <4>1. q = p /\ u = S(d)
        BY <2>8, <3>2
      <4> QED
        BY <2>3, <2>5, <2>7, <4>1
    <3> QED
      BY <3>1, <3>2
  <2> QED
    BY <1>1, <2>9, <2>10, <2>11 DEF FitInv, DeltaOfLife
<1> QED
  BY <1>1, <1>2, <1>3

LEMMA NextFit ==
  ASSUME Serial
  PROVE  TypeInv /\ SignatureInv /\ FitInv /\ [Next]_vars => FitInv'
<1> SUFFICES ASSUME TypeInv, SignatureInv, FitInv, [Next]_vars
             PROVE  FitInv'
  OBVIOUS
<1>1. CASE UNCHANGED vars
  BY <1>1 DEF vars, history, FitInv, DeltaOfLife, DeltaOfRecord, LoadedIsStored,
     Stored, UsesFit, Fits
<1>2. CASE Next
  BY <1>2, StartSigningFit, CancelSigningFit, MtaResponseFit, StoreAckFit,
     RespondFit, MtaVerifyFit, StoreVerifiedFit, GetSiFit, StoreRFit,
     GetCmpSignatureFit, DeleteSigningDataFit, ExtractFit, InterruptFit
  DEF Next, Call, Continue
<1> QED
  BY <1>1, <1>2

\* When a host runs one handler of a player at a time, the s that players
\* return for one R fit together: for any number of players, lives and
\* responses, whatever it passes to whom and wherever handlers stop.
THEOREM SignaturesOfOneRFit ==
  ASSUME ConstantsOK, Serial
  PROVE  Spec => []SignaturesFit
<1>1. Init => TypeInv /\ SignatureInv /\ FitInv
  BY InitType, InitSignature, InitFit
<1>2. TypeInv /\ SignatureInv /\ FitInv /\ [Next]_vars
        => TypeInv' /\ SignatureInv' /\ FitInv'
  BY NextType, NextSignature, NextFit
<1>3. FitInv => SignaturesFit
  BY FitTogether DEF FitInv
<1> QED
  BY <1>1, <1>2, <1>3, PTL DEF Spec
=============================================================================

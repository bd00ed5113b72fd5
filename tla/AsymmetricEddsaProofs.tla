------------------------ MODULE AsymmetricEddsaProofs ------------------------
(* Type correctness of AsymmetricEddsa, that its nonces answer once, that   *)
(* the answers of servers agree, and what becomes of their commitments.     *)
EXTENDS AsymmetricEddsa, FiniteSetTheorems, TLAPS

-----------------------------------------------------------------------------
(* Types                                                                    *)

\* A server returns answers to blocks of indices there are, because the client
\* answered with them.
TypeInv == TypeOK /\ UsesAnswered

LEMMA Constants ==
  ASSUME ConstantsOK
  PROVE  /\ Client \notin Servers /\ Client \in Actors /\ Servers \subseteq Actors
         /\ MaxStarts \in Nat /\ Lives \subseteq Nat /\ 0 .. MaxStarts \subseteq Nat
         /\ \A n \in Lives : n >= 1
         /\ Total \in Nat /\ Indices \subseteq Nat
         /\ Blocks \in Nat /\ Blocks >= 1 /\ 1 .. Blocks \subseteq Nat
         /\ Absent \notin Records /\ Absent \notin Vectors
BY DEF ConstantsOK, Actors, Lives, Indices

LEMMA SumTypes ==
  /\ Vectors \subseteq Sums
  /\ \A s \in Servers, n \in Lives : OwnR(s, n) \in Sums
  /\ \A s \in Servers : Twice(s) \in Sums
<1>1. Vectors \subseteq Sums
  <2>1. Servers \in SUBSET Servers
    OBVIOUS
  <2> QED
    BY <2>1 DEF Vectors, Sums
<1>2. ASSUME NEW s \in Servers, NEW n \in Lives
      PROVE  OwnR(s, n) \in Sums
  <2>1. {s} \in SUBSET Servers /\ OwnR(s, n) \in [{s} -> Lives]
    BY DEF OwnR
  <2> QED
    BY <2>1 DEF Sums
<1>3. \A s \in Servers : Twice(s) \in Sums
  BY DEF Sums
<1> QED
  BY <1>1, <1>2, <1>3

\* What the handlers of a server work on.
LEMMA ServerCall ==
  ASSUME TypeInv, NEW s \in Servers, NEW w \in Workers
  PROVE  LET c == call[s][w] IN
         /\ c.op \in OnRecord => c.tx \in Txs /\ c.data \in Records
         /\ c.op \in {"delete", "extract", "drop"} => c.tx \in Txs
         /\ c.op = "delete" => c.life \in Lives
         /\ c.op \in {"decommit", "sum"} => c.Rs \in Vectors
         /\ c.op \in {"forget", "fix", "answer"} =>
              c \in [op : {"forget", "fix", "answer"}, tx : Txs, data : Records]
         /\ c.op = "consume" =>
              /\ c \in [op : {"consume"}, tx : Txs, data : Records,
                        from : Indices, R : Sums, block : 1 .. Blocks]
              /\ c.from \in Indices /\ c.R \in Sums /\ c.block \in 1 .. Blocks
<1>1. call[s][w] \in ServerCalls
  BY DEF TypeInv, TypeOK
<1> QED
  BY <1>1 DEF ServerCalls, Idle, OnRecord

LEMMA ClientCall ==
  ASSUME TypeInv, NEW w \in Workers
  PROVE  LET c == call[Client][w] IN
         /\ c.op \in {"idle", "consume"}
         /\ c.op = "consume" =>
              /\ c \in [op : {"consume"}, tx : Txs, index : Indices, R : Sums,
                        block : 1 .. Blocks]
              /\ c.tx \in Txs /\ c.index \in Indices /\ c.R \in Sums
              /\ c.block \in 1 .. Blocks
<1>1. call[Client][w] \in ClientCalls
  BY DEF TypeInv, TypeOK
<1> QED
  BY <1>1 DEF ClientCalls, Idle

LEMMA IdleCall ==
  /\ Idle \in ServerCalls /\ Idle \in ClientCalls
  /\ Idle.op = "idle" /\ "idle" \notin OnRecord
BY DEF Idle, ServerCalls, ClientCalls, OnRecord

LEMMA RecordFields ==
  ASSUME NEW d \in Records
  PROVE  d.life \in Lives /\ d.index \in Indices /\ d.R \in Sums /\ d.client \in BOOLEAN
BY DEF Records

LEMMA Stored ==
  ASSUME TypeInv, NEW s \in Servers, NEW t \in Txs
  PROVE  /\ starts[s][t] \in Nat /\ starts[s][t] <= MaxStarts
         /\ data[s][t] # Absent => data[s][t] \in Records
         /\ commitments[s][t] # Absent => commitments[s][t] \in Vectors
<1>1. starts[s][t] \in 0 .. MaxStarts
  BY DEF TypeInv, TypeOK
<1>2. MaxStarts \in Nat
  BY Constants DEF TypeInv, TypeOK
<1> QED
  BY <1>1, <1>2 DEF TypeInv, TypeOK

\* A worker of a server enters a handler, goes on in it or leaves it, and
\* returns what the client answered.
LEMMA ServerReturnsType ==
  ASSUME TypeInv, NEW s \in Servers, NEW w \in Workers, NEW c \in ServerCalls,
         Enter(s, w, c), UNCHANGED answered,
         \A q \in Servers : \A u \in uses'[q] :
           \/ u \in uses[q]
           \/ [tx |-> u.tx, index |-> u.index, block |-> u.block, R |-> u.R]
                \in answered,
         c.op = "consume" => ReturnedAnswers(c.tx, c.from, c.R),
         c.op = "answer" => ReturnedAnswers(c.tx, c.data.index, c.data.R)
  PROVE  /\ call' \in [Actors -> [Workers -> ServerCalls \cup ClientCalls]]
         /\ call'[Client] \in [Workers -> ClientCalls]
         /\ \A q \in Servers : call'[q] \in [Workers -> ServerCalls]
         /\ UsesAnswered'
<1>1. s \in Actors /\ s # Client /\ Client \in Actors /\ Servers \subseteq Actors
  BY Constants DEF TypeInv, TypeOK
<1>2. /\ call' \in [Actors -> [Workers -> ServerCalls \cup ClientCalls]]
      /\ call'[Client] = call[Client]
      /\ \A q \in Servers : call'[q] \in [Workers -> ServerCalls]
  BY <1>1 DEF TypeInv, TypeOK, Enter
<1>3. \A q \in Servers, v \in Workers : call'[q][v] = call[q][v] \/ call'[q][v] = c
  BY <1>1 DEF TypeInv, TypeOK, Enter
<1>4. \A q \in Servers : \A u \in uses'[q] :
        [tx |-> u.tx, index |-> u.index, block |-> u.block, R |-> u.R] \in answered
  BY DEF TypeInv, UsesAnswered
<1>5. \A q \in Servers, v \in Workers :
        LET e == call'[q][v] IN
        /\ e.op = "consume" => ReturnedAnswers(e.tx, e.from, e.R)
        /\ e.op = "answer" => ReturnedAnswers(e.tx, e.data.index, e.data.R)
  BY <1>3 DEF TypeInv, UsesAnswered
<1>6. UsesAnswered'
  BY <1>4, <1>5 DEF UsesAnswered, ReturnedAnswers
<1> QED
  BY <1>2, <1>6 DEF TypeInv, TypeOK

LEMMA ServerCallType ==
  ASSUME TypeInv, NEW s \in Servers, NEW w \in Workers, NEW c \in ServerCalls,
         Enter(s, w, c), UNCHANGED answered,
         uses' = uses,
         c.op = "consume" => ReturnedAnswers(c.tx, c.from, c.R),
         c.op = "answer" => ReturnedAnswers(c.tx, c.data.index, c.data.R)
  PROVE  /\ call' \in [Actors -> [Workers -> ServerCalls \cup ClientCalls]]
         /\ call'[Client] \in [Workers -> ClientCalls]
         /\ \A q \in Servers : call'[q] \in [Workers -> ServerCalls]
         /\ UsesAnswered'
BY ServerReturnsType

LEMMA ClientCallType ==
  ASSUME TypeInv, NEW w \in Workers, NEW c \in ClientCalls, Enter(Client, w, c),
         answered \subseteq answered', UNCHANGED uses
  PROVE  /\ call' \in [Actors -> [Workers -> ServerCalls \cup ClientCalls]]
         /\ call'[Client] \in [Workers -> ClientCalls]
         /\ \A q \in Servers : call'[q] \in [Workers -> ServerCalls]
         /\ UsesAnswered'
<1>1. Client \notin Servers /\ Client \in Actors /\ Servers \subseteq Actors
  BY Constants DEF TypeInv, TypeOK
<1>2. /\ call' \in [Actors -> [Workers -> ServerCalls \cup ClientCalls]]
      /\ call'[Client] \in [Workers -> ClientCalls]
  BY <1>1 DEF TypeInv, TypeOK, Enter
<1>3. \A q \in Servers : call'[q] = call[q]
  BY <1>1 DEF TypeInv, TypeOK, Enter
<1>4. UsesAnswered'
  BY <1>3 DEF TypeInv, UsesAnswered, ReturnedAnswers
<1> QED
  BY <1>2, <1>3, <1>4 DEF TypeInv, TypeOK

\* A history that grows at one server keeps its type.
LEMMA Grown ==
  ASSUME NEW X, NEW h, h \in [Servers -> SUBSET X], NEW s \in Servers, NEW Y,
         Y \subseteq X
  PROVE  /\ [h EXCEPT ![s] = @ \cup Y] \in [Servers -> SUBSET X]
         /\ [h EXCEPT ![s] = @ \cup Y][s] = h[s] \cup Y
         /\ \A q \in Servers \ {s} : [h EXCEPT ![s] = @ \cup Y][q] = h[q]
OBVIOUS

LEMMA InitType == ConstantsOK /\ Init => TypeInv
<1> SUFFICES ASSUME ConstantsOK, Init
             PROVE  TypeInv
  OBVIOUS
<1>1. Servers \subseteq Actors /\ Client \in Actors
  BY Constants
<1>2. TypeOK
  BY <1>1, Constants, IdleCall DEF Init, TypeOK
<1>3. UsesAnswered
  BY <1>1, IdleCall DEF Init, UsesAnswered
<1> QED
  BY <1>2, <1>3 DEF TypeInv

LEMMA PrepareType ==
  ASSUME TypeInv, NEW a \in Actors, Prepare(a)
  PROVE  TypeInv'
<1>1. PICK n \in 0 .. Total : pool' = [pool EXCEPT ![a] = 0 .. (n - 1)]
  BY DEF Prepare
<1>2. UNCHANGED <<starts, data, commitments, timing, call, bound, sent, answered,
                  uses, signed>>
  BY DEF Prepare, history
<1>3. 0 .. (n - 1) \subseteq Indices
  BY Constants DEF TypeInv, TypeOK, Indices
<1>4. pool' \in [Actors -> (SUBSET Indices) \cup {Absent}]
  BY <1>1, <1>3 DEF TypeInv, TypeOK
<1>5. UsesAnswered'
  BY <1>2 DEF TypeInv, UsesAnswered, ReturnedAnswers
<1> QED
  BY <1>2, <1>4, <1>5 DEF TypeInv, TypeOK, ConstantsOK

LEMMA EddsaSignOfflineType ==
  ASSUME TypeInv, NEW s \in Servers, NEW t \in Txs, NEW i \in Indices,
         EddsaSignOffline(s, t, i)
  PROVE  TypeInv'
<1> DEFINE n == starts[s][t] + 1
           d == [life |-> n, index |-> i, R |-> OwnR(s, n), client |-> FALSE]
           a == [tx |-> t, R |-> OwnR(s, n)]
<1>1. /\ starts[s][t] < MaxStarts
      /\ timing' = [timing EXCEPT ![s][t] = TRUE]
      /\ starts' = [starts EXCEPT ![s][t] = n]
      /\ data' = [data EXCEPT ![s][t] = d]
      /\ sent' = [sent EXCEPT ![s] = @ \cup {a}] \/ sent' = sent
      /\ UNCHANGED <<pool, commitments, call, bound, answered, uses, signed>>
  <2>1. sent' = [sent EXCEPT ![s] = IF Pair THEN @ \cup {a} ELSE @]
    BY DEF EddsaSignOffline
  <2>2. sent' = [sent EXCEPT ![s] = @ \cup {a}] \/ sent' = sent
    BY <2>1 DEF TypeInv, TypeOK
  <2> QED
    BY <2>2 DEF EddsaSignOffline
<1>2. n \in Lives /\ n \in 0 .. MaxStarts
  BY <1>1, Stored, Constants DEF TypeInv, TypeOK, Lives
<1>3. OwnR(s, n) \in Sums
  BY <1>2, SumTypes
<1>4. d \in Records /\ a \in [tx : Txs, R : Sums]
  BY <1>2, <1>3 DEF Records
<1> HIDE DEF n, d, a
<1>5. /\ starts' \in [Servers -> [Txs -> 0 .. MaxStarts]]
      /\ data' \in [Servers -> [Txs -> Records \cup {Absent}]]
  BY <1>1, <1>2, <1>4 DEF TypeInv, TypeOK
<1>6. /\ timing' \in [Servers -> [Txs -> BOOLEAN]]
      /\ sent' \in [Servers -> SUBSET [tx : Txs, R : Sums]]
  <2>1. timing' \in [Servers -> [Txs -> BOOLEAN]]
    BY <1>1 DEF TypeInv, TypeOK
  <2>2. sent' \in [Servers -> SUBSET [tx : Txs, R : Sums]]
    <3>1. sent \in [Servers -> SUBSET [tx : Txs, R : Sums]]
      BY DEF TypeInv, TypeOK
    <3>2. {a} \subseteq [tx : Txs, R : Sums]
      BY <1>4
    <3>3. [sent EXCEPT ![s] = @ \cup {a}] \in [Servers -> SUBSET [tx : Txs, R : Sums]]
      BY <3>1, <3>2, Grown
    <3> QED
      BY <1>1, <3>1, <3>3
  <2> QED
    BY <2>1, <2>2
<1>7. UsesAnswered'
  BY <1>1 DEF TypeInv, UsesAnswered, ReturnedAnswers
<1> QED
  BY <1>1, <1>5, <1>6, <1>7 DEF TypeInv, TypeOK, ConstantsOK

\* A step that only moves a worker of a server to another call.
LEMMA EnterType ==
  ASSUME TypeInv, NEW s \in Servers, NEW w \in Workers, NEW c \in ServerCalls,
         Enter(s, w, c),
         UNCHANGED <<pool, starts, data, commitments, timing, history>>,
         c.op = "consume" => ReturnedAnswers(c.tx, c.from, c.R),
         c.op # "answer"
  PROVE  TypeInv'
<1>1. UNCHANGED <<bound, sent, answered, uses, signed>>
  BY DEF history
<1>2. /\ call' \in [Actors -> [Workers -> ServerCalls \cup ClientCalls]]
      /\ call'[Client] \in [Workers -> ClientCalls]
      /\ \A q \in Servers : call'[q] \in [Workers -> ServerCalls]
      /\ UsesAnswered'
  BY <1>1, ServerCallType
<1> QED
  BY <1>1, <1>2 DEF TypeInv, TypeOK, ConstantsOK

LEMMA DecommitRType ==
  ASSUME TypeInv, NEW s \in Servers, NEW w \in Workers, NEW t \in Txs,
         NEW v \in Vectors, DecommitR(s, w, t, v)
  PROVE  TypeInv'
<1> DEFINE c == [op |-> "decommit", tx |-> t, data |-> data[s][t], Rs |-> v]
<1>1. /\ data[s][t] # Absent /\ Enter(s, w, c)
      /\ UNCHANGED <<pool, starts, data, commitments, timing, history>>
  BY DEF DecommitR
<1>2. c \in ServerCalls /\ c.op = "decommit"
  BY <1>1, Stored DEF ServerCalls
<1> HIDE DEF c
<1> QED
  BY <1>1, <1>2, EnterType

LEMMA BroadcastRType ==
  ASSUME TypeInv, NEW s \in Servers, NEW w \in Workers, NEW t \in Txs,
         NEW v \in Vectors, BroadcastR(s, w, t, v)
  PROVE  TypeInv'
<1> DEFINE c == [op |-> "sum", tx |-> t, data |-> data[s][t], Rs |-> v]
<1>1. /\ data[s][t] # Absent /\ Enter(s, w, c)
      /\ UNCHANGED <<pool, starts, data, commitments, timing, history>>
  BY DEF BroadcastR
<1>2. c \in ServerCalls /\ c.op = "sum"
  BY <1>1, Stored DEF ServerCalls
<1> HIDE DEF c
<1> QED
  BY <1>1, <1>2, EnterType

\* A server goes on to delete the commitments with the sum of the Rs, or returns.
LEMMA LoadCommitmentsStep ==
  ASSUME TypeInv, NEW s \in Servers, NEW w \in Workers, LoadCommitments(s, w)
  PROVE  LET c == call[s][w]
             d == c.data
         IN
         /\ c.op = "sum" /\ c.tx \in Txs /\ c.Rs \in Vectors
         /\ d \in Records /\ d.life \in Lives
         /\ UNCHANGED <<pool, starts, data, commitments, timing, history>>
         /\ \/ Enter(s, w, Idle)
            \/ /\ commitments[s][c.tx] = c.Rs
               /\ \E e \in Records :
                    /\ e.life = d.life /\ e.index = d.index /\ e.R = Sum(s, d, c.Rs)
                    /\ Enter(s, w, [op |-> "forget", tx |-> c.tx, data |-> e])
<1> DEFINE c == call[s][w]
           d == c.data
           S == Sum(s, d, c.Rs)
           e == [d EXCEPT !.R = S]
<1>1. /\ c.op = "sum"
      /\ UNCHANGED <<pool, starts, data, commitments, timing, history>>
  BY DEF LoadCommitments
<1>2. c.tx \in Txs /\ c.Rs \in Vectors /\ d \in Records
  BY <1>1, ServerCall DEF OnRecord
<1>3. d.life \in Lives
  BY <1>2, RecordFields
<1>4. S \in Sums
  BY <1>2, <1>3, SumTypes DEF Sum, Vectors
<1>5. \/ Enter(s, w, Idle)
      \/ /\ commitments[s][c.tx] = c.Rs
         /\ Enter(s, w, [op |-> "forget", tx |-> c.tx, data |-> e])
  BY DEF LoadCommitments, Return
<1> HIDE DEF c, S
<1>6. e \in Records /\ e.life = d.life /\ e.index = d.index /\ e.R = S
  BY <1>2, <1>4 DEF Records
<1> HIDE DEF e
<1> QED
  BY <1>1, <1>2, <1>3, <1>5, <1>6 DEF S, c

LEMMA LoadCommitmentsType ==
  ASSUME TypeInv, NEW s \in Servers, NEW w \in Workers, LoadCommitments(s, w)
  PROVE  TypeInv'
<1> DEFINE t == call[s][w].tx
           g(e) == [op |-> "forget", tx |-> t, data |-> e]
<1>1. /\ t \in Txs
      /\ UNCHANGED <<pool, starts, data, commitments, timing, history>>
      /\ Enter(s, w, Idle) \/ \E e \in Records : Enter(s, w, g(e))
  BY LoadCommitmentsStep
<1>2. Idle \in ServerCalls /\ Idle.op = "idle"
  BY DEF ServerCalls, Idle
<1>3. \A e \in Records : g(e) \in ServerCalls /\ g(e).op = "forget"
  BY <1>1 DEF ServerCalls
<1> HIDE DEF t, g
<1>4. PICK c \in ServerCalls : Enter(s, w, c) /\ c.op \in {"idle", "forget"}
  BY <1>1, <1>2, <1>3
<1> QED
  BY <1>1, <1>4, EnterType

LEMMA BroadcastSiType ==
  ASSUME TypeInv, NEW s \in Servers, NEW w \in Workers, NEW t \in Txs,
         NEW i \in Indices, NEW R \in Sums, BroadcastSi(s, w, t, i, R)
  PROVE  TypeInv'
<1> DEFINE c == [op |-> "consume", tx |-> t, data |-> data[s][t], from |-> i,
                 R |-> R, block |-> 1]
<1>1. /\ data[s][t] # Absent /\ Enter(s, w, c)
      /\ ReturnedAnswers(t, i, R)
      /\ UNCHANGED <<pool, starts, data, commitments, timing, history>>
  BY DEF BroadcastSi, ReturnedAnswers
<1>2. 1 \in 1 .. Blocks
  BY Constants DEF TypeInv, TypeOK
<1>3. c \in ServerCalls /\ c.op = "consume" /\ c.tx = t /\ c.from = i /\ c.R = R
  BY <1>1, <1>2, Stored DEF ServerCalls
<1> HIDE DEF c
<1> QED
  BY <1>1, <1>3, EnterType

LEMMA GetEddsaSignatureType ==
  ASSUME TypeInv, NEW s \in Servers, NEW w \in Workers, NEW t \in Txs,
         GetEddsaSignature(s, w, t)
  PROVE  TypeInv'
<1> DEFINE c == [op |-> "delete", tx |-> t, life |-> data[s][t].life]
<1>1. /\ data[s][t] # Absent /\ Enter(s, w, c)
      /\ UNCHANGED <<pool, starts, data, commitments, timing, history>>
  BY DEF GetEddsaSignature
<1>2. data[s][t].life \in Lives
  BY <1>1, Stored, RecordFields
<1>3. c \in ServerCalls /\ c.op = "delete"
  BY <1>2 DEF ServerCalls
<1> HIDE DEF c
<1> QED
  BY <1>1, <1>3, EnterType
LEMMA StoreCommitmentsType ==
  ASSUME TypeInv, NEW s \in Servers, NEW w \in Workers, StoreCommitments(s, w)
  PROVE  TypeInv'
<1> DEFINE c == call[s][w]
           b == [tx |-> c.tx, life |-> c.data.life, index |-> c.data.index, Rs |-> c.Rs]
           X == [tx : Txs, life : Lives, index : Indices, Rs : Vectors]
<1>1. /\ c.op = "decommit" /\ Enter(s, w, Idle)
      /\ \/ /\ commitments' = [commitments EXCEPT ![s][c.tx] = c.Rs]
            /\ bound' = [bound EXCEPT ![s] = @ \cup {b}]
         \/ UNCHANGED <<commitments, bound>>
      /\ UNCHANGED <<pool, starts, data, timing, sent, answered, uses, signed>>
  BY DEF StoreCommitments, Return
<1>2. c.tx \in Txs /\ c.data \in Records /\ c.Rs \in Vectors
  BY <1>1, ServerCall DEF OnRecord
<1>3. b \in X
  BY <1>2, RecordFields
<1>4. bound \in [Servers -> SUBSET X] /\ {b} \subseteq X
  BY <1>3 DEF TypeInv, TypeOK
<1> HIDE DEF c, b
<1>5. commitments' \in [Servers -> [Txs -> Vectors \cup {Absent}]]
  <2> HIDE DEF X
  <2>1. commitments \in [Servers -> [Txs -> Vectors \cup {Absent}]]
    BY DEF TypeInv, TypeOK
  <2> QED
    BY <1>1, <1>2, <2>1
<1>6. bound' \in [Servers -> SUBSET X]
  <2> HIDE DEF X
  <2>1. [bound EXCEPT ![s] = @ \cup {b}] \in [Servers -> SUBSET X]
    BY <1>4, Grown
  <2> QED
    BY <1>1, <1>4, <2>1
<1>7. /\ call' \in [Actors -> [Workers -> ServerCalls \cup ClientCalls]]
      /\ call'[Client] \in [Workers -> ClientCalls]
      /\ \A q \in Servers : call'[q] \in [Workers -> ServerCalls]
      /\ UsesAnswered'
  BY <1>1, IdleCall, ServerCallType
<1> QED
  BY <1>1, <1>5, <1>6, <1>7 DEF TypeInv, TypeOK, ConstantsOK

LEMMA DeleteCommitmentsType ==
  ASSUME TypeInv, NEW s \in Servers, NEW w \in Workers, DeleteCommitments(s, w)
  PROVE  TypeInv'
<1> DEFINE c == call[s][w]
           e == [c EXCEPT !.op = "fix"]
<1>1. /\ c.op = "forget" /\ Enter(s, w, e)
      /\ commitments' = [commitments EXCEPT ![s][c.tx] = Absent]
      /\ UNCHANGED <<pool, starts, data, timing, history>>
  BY DEF DeleteCommitments
<1>2. c \in [op : {"forget", "fix", "answer"}, tx : Txs, data : Records]
  BY <1>1, ServerCall
<1>3. e \in ServerCalls /\ e.op = "fix"
  BY <1>2 DEF ServerCalls
<1> HIDE DEF c, e
<1>4. UNCHANGED <<bound, sent, answered, uses, signed>>
  BY <1>1 DEF history
<1>5. commitments' \in [Servers -> [Txs -> Vectors \cup {Absent}]]
  BY <1>1 DEF TypeInv, TypeOK
<1>6. /\ call' \in [Actors -> [Workers -> ServerCalls \cup ClientCalls]]
      /\ call'[Client] \in [Workers -> ClientCalls]
      /\ \A q \in Servers : call'[q] \in [Workers -> ServerCalls]
      /\ UsesAnswered'
  BY <1>1, <1>3, <1>4, ServerCallType
<1> QED
  BY <1>1, <1>4, <1>5, <1>6 DEF TypeInv, TypeOK, ConstantsOK

LEMMA StoreSumType ==
  ASSUME TypeInv, NEW s \in Servers, NEW w \in Workers, StoreSum(s, w)
  PROVE  TypeInv'
<1> DEFINE c == call[s][w]
           a == [tx |-> c.tx, R |-> c.data.R]
           X == [tx : Txs, R : Sums]
<1>1. /\ c.op = "fix" /\ Enter(s, w, Idle)
      /\ data' = [data EXCEPT ![s][c.tx] = c.data]
      /\ sent' = [sent EXCEPT ![s] = @ \cup {a}]
      /\ UNCHANGED <<pool, starts, commitments, timing, bound, answered, uses, signed>>
  BY DEF StoreSum, Return
<1>2. c.tx \in Txs /\ c.data \in Records
  BY <1>1, ServerCall DEF OnRecord
<1>3. {a} \subseteq X /\ sent \in [Servers -> SUBSET X]
  BY <1>2, RecordFields DEF TypeInv, TypeOK
<1> HIDE DEF c, a
<1>4. data' \in [Servers -> [Txs -> Records \cup {Absent}]]
  BY <1>1, <1>2 DEF TypeInv, TypeOK
<1>5. sent' \in [Servers -> SUBSET X]
  <2> HIDE DEF X
  <2> QED
    BY <1>1, <1>3, Grown
<1>6. /\ call' \in [Actors -> [Workers -> ServerCalls \cup ClientCalls]]
      /\ call'[Client] \in [Workers -> ClientCalls]
      /\ \A q \in Servers : call'[q] \in [Workers -> ServerCalls]
      /\ UsesAnswered'
  BY <1>1, IdleCall, ServerCallType
<1> QED
  BY <1>1, <1>4, <1>5, <1>6 DEF TypeInv, TypeOK, ConstantsOK

LEMMA ClientSignOfflineType ==
  ASSUME TypeInv, NEW w \in Workers, NEW t \in Txs, NEW i \in Indices,
         NEW R \in Sums, ClientSignOffline(w, t, i, R)
  PROVE  TypeInv'
<1> DEFINE c == [op |-> "consume", tx |-> t, index |-> i, R |-> R, block |-> 1]
<1>1. /\ Enter(Client, w, c)
      /\ UNCHANGED <<pool, starts, data, commitments, timing, history>>
  BY DEF ClientSignOffline
<1>2. c \in ClientCalls
  BY Constants DEF ClientCalls, TypeInv, TypeOK
<1> HIDE DEF c
<1>3. UNCHANGED <<bound, sent, answered, uses, signed>>
  BY <1>1 DEF history
<1>4. /\ call' \in [Actors -> [Workers -> ServerCalls \cup ClientCalls]]
      /\ call'[Client] \in [Workers -> ClientCalls]
      /\ \A q \in Servers : call'[q] \in [Workers -> ServerCalls]
      /\ UsesAnswered'
  BY <1>1, <1>2, <1>3, ClientCallType
<1> QED
  BY <1>1, <1>3, <1>4 DEF TypeInv, TypeOK, ConstantsOK

\* What the client returns for all blocks of a call.
Returned(c) ==
  {[tx |-> c.tx, index |-> c.index + i - 1, block |-> i, R |-> c.R] : i \in 1 .. Blocks}

\* A step of a call of the client takes one k, and the last returns.
LEMMA ConsumeKStep ==
  ASSUME TypeInv, NEW w \in Workers, ConsumeK(w)
  PROVE  LET c == call[Client][w]
             j == c.index + c.block - 1
         IN
         /\ c.op = "consume" /\ c.index \in Nat /\ c.block \in Nat /\ c.block >= 1
         /\ UNCHANGED <<starts, data, commitments, timing, bound, sent, uses, signed>>
         /\ \/ /\ pool[Client] # Absent /\ j \in pool[Client] /\ j \in Indices
               /\ pool' = [pool EXCEPT ![Client] = @ \ {j}]
               /\ \/ /\ c.block < Blocks /\ answered' = answered
                     /\ Enter(Client, w, [c EXCEPT !.block = @ + 1])
                  \/ /\ c.block = Blocks /\ Enter(Client, w, Idle)
                     /\ answered' = answered \cup Returned(c) \/ answered' = answered
            \/ Enter(Client, w, Idle) /\ UNCHANGED <<pool, answered>>
<1> DEFINE c == call[Client][w]
           j == c.index + c.block - 1
<1>1. c.op = "consume"
  BY DEF ConsumeK
<1>2. /\ c.index \in Nat /\ c.block \in 1 .. Blocks
      /\ c.block \in Nat /\ c.block >= 1
  BY <1>1, ClientCall, Constants DEF TypeInv, TypeOK
<1>3. pool[Client] # Absent => pool[Client] \subseteq Indices
  BY Constants DEF TypeInv, TypeOK
<1>4. /\ UNCHANGED <<starts, data, commitments, timing, bound, sent, uses, signed>>
      /\ \/ /\ pool[Client] # Absent /\ j \in pool[Client]
            /\ pool' = [pool EXCEPT ![Client] = @ \ {j}]
            /\ \/ /\ c.block < Blocks /\ answered' = answered
                  /\ Enter(Client, w, [c EXCEPT !.block = @ + 1])
               \/ /\ c.block = Blocks /\ Enter(Client, w, Idle)
                  /\ answered' = answered \cup Returned(c) \/ answered' = answered
         \/ Enter(Client, w, Idle) /\ UNCHANGED <<pool, answered>>
  BY DEF ConsumeK, Load, Held, Return, Returned
<1> QED
  BY <1>1, <1>2, <1>3, <1>4

LEMMA ConsumeKType ==
  ASSUME TypeInv, NEW w \in Workers, ConsumeK(w)
  PROVE  TypeInv'
<1> DEFINE c == call[Client][w]
           j == c.index + c.block - 1
           X == [tx : Txs, index : Indices, block : 1 .. Blocks, R : Sums]
<1>1. /\ c.op = "consume" /\ c.index \in Nat
      /\ UNCHANGED <<starts, data, commitments, timing, bound, sent, uses, signed>>
      /\ \/ pool' = [pool EXCEPT ![Client] = @ \ {j}] /\ pool[Client] # Absent
         \/ pool' = pool
      /\ \/ c.block < Blocks /\ Enter(Client, w, [c EXCEPT !.block = @ + 1])
         \/ Enter(Client, w, Idle)
      /\ \/ /\ answered' = answered \cup Returned(c)
            /\ c.index + Blocks - 1 \in Indices
         \/ answered' = answered
  BY ConsumeKStep
<1>2. /\ c \in [op : {"consume"}, tx : Txs, index : Indices, R : Sums,
                block : 1 .. Blocks]
      /\ c.tx \in Txs /\ c.R \in Sums /\ c.block \in 1 .. Blocks
  BY <1>1, ClientCall
<1>3. c.block < Blocks => [c EXCEPT !.block = @ + 1] \in ClientCalls
  <2>1. c.block < Blocks => c.block + 1 \in 1 .. Blocks
    BY <1>2, Constants DEF TypeInv, TypeOK
  <2> QED
    BY <1>2, <2>1 DEF ClientCalls
<1>4. c.index + Blocks - 1 \in Indices => Returned(c) \subseteq X
  <2> SUFFICES ASSUME c.index + Blocks - 1 \in Indices, NEW i \in 1 .. Blocks
               PROVE  [tx |-> c.tx, index |-> c.index + i - 1, block |-> i,
                       R |-> c.R] \in X
    BY DEF Returned
  <2>1. c.index + i - 1 \in Indices
    BY <1>1, Constants DEF TypeInv, TypeOK, Indices
  <2> QED
    BY <1>2, <2>1
<1>5. answered \subseteq X /\ Client \in Actors
  BY Constants DEF TypeInv, TypeOK
<1> HIDE DEF c, j
<1>6. answered' \subseteq X /\ answered \subseteq answered'
  <2> HIDE DEF X
  <2> QED
    BY <1>1, <1>4, <1>5
<1>7. pool' \in [Actors -> (SUBSET Indices) \cup {Absent}]
  <2>1. pool[Client] # Absent => pool[Client] \ {j} \in SUBSET Indices
    BY <1>5 DEF TypeInv, TypeOK
  <2> QED
    BY <1>1, <1>5, <2>1 DEF TypeInv, TypeOK
<1>8. /\ call' \in [Actors -> [Workers -> ServerCalls \cup ClientCalls]]
      /\ call'[Client] \in [Workers -> ClientCalls]
      /\ \A q \in Servers : call'[q] \in [Workers -> ServerCalls]
      /\ UsesAnswered'
  BY <1>1, <1>3, <1>6, IdleCall, ClientCallType
<1> QED
  BY <1>1, <1>6, <1>7, <1>8 DEF TypeInv, TypeOK, ConstantsOK
\* The other handlers of a server, as what they do to call.
LEMMA ConsumeCommitmentStep ==
  ASSUME TypeInv, NEW s \in Servers, NEW w \in Workers, ConsumeCommitment(s, w)
  PROVE  LET c == call[s][w]
             j == c.data.index + c.block - 1
         IN
         /\ c.op = "consume" /\ c.data \in Records /\ c.data.index \in Nat
         /\ c.block \in Nat /\ c.block >= 1 /\ c.block <= Blocks
         /\ UNCHANGED <<starts, data, commitments, timing, history>>
         /\ \/ /\ pool[s] # Absent /\ j \in pool[s] /\ j \in Indices
               /\ pool' = [pool EXCEPT ![s] = @ \ {j}]
               /\ \/ c.block < Blocks /\ Enter(s, w, [c EXCEPT !.block = @ + 1])
                  \/ /\ c.block = Blocks /\ c.from = c.data.index /\ c.R = c.data.R
                     /\ Enter(s, w, [op |-> "answer", tx |-> c.tx,
                                     data |-> [c.data EXCEPT !.client = TRUE]])
                  \/ Enter(s, w, Idle)
            \/ Enter(s, w, Idle) /\ UNCHANGED pool
<1> DEFINE c == call[s][w]
           j == c.data.index + c.block - 1
<1>1. c.op = "consume"
  BY DEF ConsumeCommitment
<1>2. c.data \in Records /\ c.block \in 1 .. Blocks
  BY <1>1, ServerCall DEF OnRecord
<1>3. /\ c.data.index \in Nat /\ c.block \in Nat /\ c.block >= 1
      /\ c.block <= Blocks /\ Blocks \in Nat
  BY <1>2, RecordFields, Constants DEF TypeInv, TypeOK
<1>4. pool[s] # Absent => pool[s] \subseteq Indices
  BY Constants DEF TypeInv, TypeOK
<1>5. /\ UNCHANGED <<starts, data, commitments, timing, history>>
      /\ \/ /\ pool[s] # Absent /\ j \in pool[s]
            /\ pool' = [pool EXCEPT ![s] = @ \ {j}]
            /\ \/ c.block < Blocks /\ Enter(s, w, [c EXCEPT !.block = @ + 1])
               \/ /\ ~(c.block < Blocks) /\ c.from = c.data.index /\ c.R = c.data.R
                  /\ Enter(s, w, [op |-> "answer", tx |-> c.tx,
                                  data |-> [c.data EXCEPT !.client = TRUE]])
               \/ Enter(s, w, Idle)
         \/ Enter(s, w, Idle) /\ UNCHANGED pool
  <2>1. /\ UNCHANGED <<starts, data, commitments, timing, history>>
        /\ \/ /\ Load(s, j) /\ ClientAnswerVerifies(c)
              /\ Enter(s, w, IF c.block < Blocks THEN [c EXCEPT !.block = @ + 1]
                       ELSE [op |-> "answer", tx |-> c.tx,
                             data |-> [c.data EXCEPT !.client = TRUE]])
           \/ Load(s, j) /\ Enter(s, w, Idle)
           \/ Enter(s, w, Idle) /\ UNCHANGED pool
    BY DEF ConsumeCommitment, Return
  <2>2. Load(s, j) => /\ pool[s] # Absent /\ j \in pool[s]
                      /\ pool' = [pool EXCEPT ![s] = @ \ {j}]
    BY DEF Load, Held
  <2>3. ClientAnswerVerifies(c) => c.from = c.data.index /\ c.R = c.data.R
    BY DEF ClientAnswerVerifies
  <2> HIDE DEF c, j
  <2> QED
    BY <2>1, <2>2, <2>3
<1>6. ~(c.block < Blocks) => c.block = Blocks
  BY <1>3
<1> HIDE DEF c, j
<1> QED
  BY <1>1, <1>2, <1>3, <1>4, <1>5, <1>6 DEF c, j

LEMMA ConsumeCommitmentType ==
  ASSUME TypeInv, NEW s \in Servers, NEW w \in Workers, ConsumeCommitment(s, w)
  PROVE  TypeInv'
<1> DEFINE c == call[s][w]
           j == c.data.index + c.block - 1
           e == [c EXCEPT !.block = @ + 1]
           f == [op |-> "answer", tx |-> c.tx,
                 data |-> [c.data EXCEPT !.client = TRUE]]
<1>1. /\ c.op = "consume" /\ c.data \in Records
      /\ UNCHANGED <<starts, data, commitments, timing, history>>
      /\ \/ pool' = [pool EXCEPT ![s] = @ \ {j}] /\ pool[s] # Absent
         \/ pool' = pool
      /\ \/ c.block < Blocks /\ Enter(s, w, e)
         \/ c.from = c.data.index /\ c.R = c.data.R /\ Enter(s, w, f)
         \/ Enter(s, w, Idle)
  BY ConsumeCommitmentStep
<1>2. /\ c \in [op : {"consume"}, tx : Txs, data : Records, from : Indices,
                R : Sums, block : 1 .. Blocks]
      /\ c.tx \in Txs /\ c.block \in 1 .. Blocks
  BY <1>1, ServerCall DEF OnRecord
<1>3. ReturnedAnswers(c.tx, c.from, c.R)
  BY <1>1 DEF TypeInv, UsesAnswered
<1>4. c.block < Blocks =>
        e \in ServerCalls /\ e.op = "consume" /\ e.tx = c.tx /\ e.from = c.from /\ e.R = c.R
  <2>1. c.block < Blocks => c.block + 1 \in 1 .. Blocks
    BY <1>2, Constants DEF TypeInv, TypeOK
  <2> QED
    BY <1>2, <2>1 DEF ServerCalls
<1>5. /\ f \in ServerCalls /\ f.op = "answer" /\ f.tx = c.tx
      /\ f.data.index = c.data.index /\ f.data.R = c.data.R
  <2>1. [c.data EXCEPT !.client = TRUE] \in Records
    BY <1>1 DEF Records
  <2> QED
    BY <1>1, <1>2, <2>1 DEF ServerCalls, Records
<1> HIDE DEF c, j, e, f
<1>6. UNCHANGED <<bound, sent, answered, uses, signed>>
  BY <1>1 DEF history
<1>7. pool' \in [Actors -> (SUBSET Indices) \cup {Absent}]
  <2>1. s \in Actors
    BY DEF Actors
  <2>2. pool[s] # Absent => pool[s] \ {j} \in SUBSET Indices
    BY <2>1 DEF TypeInv, TypeOK
  <2> QED
    BY <1>1, <2>1, <2>2 DEF TypeInv, TypeOK
<1>8. PICK g \in ServerCalls :
        /\ Enter(s, w, g)
        /\ g.op = "consume" => ReturnedAnswers(g.tx, g.from, g.R)
        /\ g.op = "answer" => ReturnedAnswers(g.tx, g.data.index, g.data.R)
  BY <1>1, <1>3, <1>4, <1>5, IdleCall
<1>9. /\ call' \in [Actors -> [Workers -> ServerCalls \cup ClientCalls]]
      /\ call'[Client] \in [Workers -> ClientCalls]
      /\ \A q \in Servers : call'[q] \in [Workers -> ServerCalls]
      /\ UsesAnswered'
  BY <1>6, <1>8, ServerCallType
<1> QED
  BY <1>1, <1>6, <1>7, <1>9 DEF TypeInv, TypeOK, ConstantsOK

\* What a server returns for all blocks of a transaction.
Answers(d, t) == {Answer(d, t, i) : i \in 1 .. Blocks}

LEMMA StoreAnsweredType ==
  ASSUME TypeInv, NEW s \in Servers, NEW w \in Workers, StoreAnswered(s, w)
  PROVE  TypeInv'
<1> DEFINE c == call[s][w]
           X == [tx : Txs, life : Lives, block : 1 .. Blocks, R : Sums, index : Indices]
           Z == [tx : Txs, life : Lives]
           y == [tx |-> c.tx, life |-> c.data.life]
           e == [op |-> "extract", tx |-> c.tx]
<1>1. /\ c.op = "answer"
      /\ uses' = [uses EXCEPT ![s] = @ \cup Answers(c.data, c.tx)]
      /\ \/ data' = [data EXCEPT ![s][c.tx] = Absent]
         \/ data' = [data EXCEPT ![s][c.tx] = c.data]
      /\ signed' = [signed EXCEPT ![s] = @ \cup {y}] \/ signed' = signed
      /\ Enter(s, w, e) \/ Enter(s, w, Idle)
      /\ UNCHANGED <<pool, starts, commitments, timing, bound, sent, answered>>
  BY DEF StoreAnswered, Answers, Return
<1>2. c.tx \in Txs /\ c.data \in Records /\ e \in ServerCalls /\ e.op = "extract"
  BY <1>1, ServerCall DEF OnRecord, ServerCalls
<1>3. c.data.life \in Lives /\ c.data.R \in Sums /\ y \in Z
  BY <1>2, RecordFields
<1>4. \A i \in 1 .. Blocks :
        /\ [tx |-> c.tx, index |-> c.data.index + i - 1, block |-> i, R |-> c.data.R]
             \in answered
        /\ c.data.index + i - 1 \in Indices
  <2>1. ReturnedAnswers(c.tx, c.data.index, c.data.R)
    BY <1>1 DEF TypeInv, UsesAnswered
  <2>2. \A a \in answered : a.index \in Indices
    BY DEF TypeInv, TypeOK
  <2> SUFFICES ASSUME NEW i \in 1 .. Blocks
               PROVE  /\ [tx |-> c.tx, index |-> c.data.index + i - 1, block |-> i,
                          R |-> c.data.R] \in answered
                      /\ c.data.index + i - 1 \in Indices
    OBVIOUS
  <2> DEFINE a == [tx |-> c.tx, index |-> c.data.index + i - 1, block |-> i,
                   R |-> c.data.R]
  <2>3. a \in answered
    BY <2>1 DEF ReturnedAnswers
  <2>4. a.index = c.data.index + i - 1
    OBVIOUS
  <2> HIDE DEF a
  <2>5. c.data.index + i - 1 \in Indices
    BY <2>2, <2>3, <2>4
  <2> QED
    BY <2>3, <2>5 DEF a
<1>5. \A u \in Answers(c.data, c.tx) :
        /\ u \in X
        /\ [tx |-> u.tx, index |-> u.index, block |-> u.block, R |-> u.R] \in answered
  BY <1>2, <1>3, <1>4 DEF Answers, Answer
<1> HIDE DEF c, e, y
<1>6. uses \in [Servers -> SUBSET X] /\ signed \in [Servers -> SUBSET Z]
  BY DEF TypeInv, TypeOK
<1>7. data' \in [Servers -> [Txs -> Records \cup {Absent}]]
  <2>1. data \in [Servers -> [Txs -> Records \cup {Absent}]]
    BY DEF TypeInv, TypeOK
  <2> QED
    BY <1>1, <1>2, <2>1
<1>8. /\ uses' \in [Servers -> SUBSET X]
      /\ uses'[s] = uses[s] \cup Answers(c.data, c.tx)
      /\ \A q \in Servers \ {s} : uses'[q] = uses[q]
  <2> HIDE DEF X
  <2>1. Answers(c.data, c.tx) \subseteq X
    BY <1>5
  <2> QED
    BY <1>1, <1>6, <2>1, Grown
<1>9. signed' \in [Servers -> SUBSET Z]
  <2> HIDE DEF Z
  <2>1. {y} \subseteq Z
    BY <1>3
  <2>2. [signed EXCEPT ![s] = @ \cup {y}] \in [Servers -> SUBSET Z]
    BY <1>6, <2>1, Grown
  <2> QED
    BY <1>1, <1>6, <2>2
<1>10. PICK g \in {e, Idle} : Enter(s, w, g)
  BY <1>1
<1>11. g \in ServerCalls /\ g.op # "consume" /\ g.op # "answer"
  BY <1>2, IdleCall
<1>12. \A q \in Servers : \A u \in uses'[q] :
         \/ u \in uses[q]
         \/ [tx |-> u.tx, index |-> u.index, block |-> u.block, R |-> u.R] \in answered
  BY <1>5, <1>8
<1>13. /\ call' \in [Actors -> [Workers -> ServerCalls \cup ClientCalls]]
       /\ call'[Client] \in [Workers -> ClientCalls]
       /\ \A q \in Servers : call'[q] \in [Workers -> ServerCalls]
       /\ UsesAnswered'
  BY <1>1, <1>10, <1>11, <1>12, ServerReturnsType
<1> QED
  BY <1>1, <1>7, <1>8, <1>9, <1>13 DEF TypeInv, TypeOK, ConstantsOK

LEMMA DeleteSigningDataType ==
  ASSUME TypeInv, NEW s \in Servers, NEW w \in Workers, DeleteSigningData(s, w)
  PROVE  TypeInv'
<1> DEFINE c == call[s][w]
           e == [op |-> "extract", tx |-> c.tx]
           y == [tx |-> c.tx, life |-> c.life]
           Z == [tx : Txs, life : Lives]
<1>1. /\ c.op = "delete" /\ Enter(s, w, e)
      /\ data' = [data EXCEPT ![s][c.tx] = Absent]
      /\ signed' = [signed EXCEPT ![s] = @ \cup {y}]
      /\ UNCHANGED <<pool, starts, commitments, timing, bound, sent, answered, uses>>
  BY DEF DeleteSigningData
<1>2. c.tx \in Txs /\ c.life \in Lives
  BY <1>1, ServerCall
<1>3. e \in ServerCalls /\ e.op = "extract" /\ {y} \subseteq Z
  BY <1>2 DEF ServerCalls
<1> HIDE DEF c, e, y
<1>4. data' \in [Servers -> [Txs -> Records \cup {Absent}]]
  BY <1>1 DEF TypeInv, TypeOK
<1>5. signed' \in [Servers -> SUBSET Z]
  <2>1. signed \in [Servers -> SUBSET Z]
    BY DEF TypeInv, TypeOK
  <2> HIDE DEF Z
  <2> QED
    BY <1>1, <1>3, <2>1, Grown
<1>6. /\ call' \in [Actors -> [Workers -> ServerCalls \cup ClientCalls]]
      /\ call'[Client] \in [Workers -> ClientCalls]
      /\ \A q \in Servers : call'[q] \in [Workers -> ServerCalls]
      /\ UsesAnswered'
  BY <1>1, <1>3, ServerCallType
<1> QED
  BY <1>1, <1>4, <1>5, <1>6 DEF TypeInv, TypeOK, ConstantsOK

LEMMA ExtractType ==
  ASSUME TypeInv, NEW s \in Servers, NEW w \in Workers, Extract(s, w)
  PROVE  TypeInv'
<1>1. /\ timing' = [timing EXCEPT ![s][call[s][w].tx] = FALSE]
      /\ Enter(s, w, Idle)
      /\ UNCHANGED <<pool, starts, data, commitments, bound, sent, answered, uses, signed>>
  BY DEF Extract, Return, history
<1>2. timing' \in [Servers -> [Txs -> BOOLEAN]]
  BY <1>1 DEF TypeInv, TypeOK
<1>3. /\ call' \in [Actors -> [Workers -> ServerCalls \cup ClientCalls]]
      /\ call'[Client] \in [Workers -> ClientCalls]
      /\ \A q \in Servers : call'[q] \in [Workers -> ServerCalls]
      /\ UsesAnswered'
  BY <1>1, IdleCall, ServerCallType
<1> QED
  BY <1>1, <1>2, <1>3 DEF TypeInv, TypeOK, ConstantsOK

LEMMA CancelSigningType ==
  ASSUME TypeInv, NEW s \in Servers, NEW w \in Workers, NEW t \in Txs,
         CancelSigning(s, w, t)
  PROVE  TypeInv'
<1> DEFINE e == [op |-> "drop", tx |-> t]
<1>1. /\ Enter(s, w, e)
      /\ commitments' = [commitments EXCEPT ![s][t] = Absent]
      /\ UNCHANGED <<pool, starts, data, timing, bound, sent, answered, uses, signed>>
  BY DEF CancelSigning, CancelCommitments, history
<1>2. e \in ServerCalls /\ e.op = "drop"
  BY DEF ServerCalls
<1> HIDE DEF e
<1>3. commitments' \in [Servers -> [Txs -> Vectors \cup {Absent}]]
  BY <1>1 DEF TypeInv, TypeOK
<1>4. /\ call' \in [Actors -> [Workers -> ServerCalls \cup ClientCalls]]
      /\ call'[Client] \in [Workers -> ClientCalls]
      /\ \A q \in Servers : call'[q] \in [Workers -> ServerCalls]
      /\ UsesAnswered'
  BY <1>1, <1>2, ServerCallType
<1> QED
  BY <1>1, <1>3, <1>4 DEF TypeInv, TypeOK, ConstantsOK

LEMMA CancelDataType ==
  ASSUME TypeInv, NEW s \in Servers, NEW w \in Workers, CancelData(s, w)
  PROVE  TypeInv'
<1>1. /\ Enter(s, w, Idle)
      /\ data' = [data EXCEPT ![s][call[s][w].tx] = Absent]
      /\ UNCHANGED <<pool, starts, commitments, timing, bound, sent, answered, uses, signed>>
  BY DEF CancelData, Return, history
<1>2. data' \in [Servers -> [Txs -> Records \cup {Absent}]]
  BY <1>1 DEF TypeInv, TypeOK
<1>3. /\ call' \in [Actors -> [Workers -> ServerCalls \cup ClientCalls]]
      /\ call'[Client] \in [Workers -> ClientCalls]
      /\ \A q \in Servers : call'[q] \in [Workers -> ServerCalls]
      /\ UsesAnswered'
  BY <1>1, IdleCall, ServerCallType
<1> QED
  BY <1>1, <1>2, <1>3 DEF TypeInv, TypeOK, ConstantsOK

LEMMA InterruptType ==
  ASSUME TypeInv, NEW a \in Actors, NEW w \in Workers, Interrupt(a, w)
  PROVE  TypeInv'
<1>1. /\ Enter(a, w, Idle)
      /\ UNCHANGED <<pool, starts, data, commitments, timing, history>>
  BY DEF Interrupt, Return
<1>2. CASE a \in Servers
  BY <1>1, <1>2, IdleCall, EnterType
<1>3. CASE a = Client
  <2>1. UNCHANGED <<bound, sent, answered, uses, signed>>
    BY <1>1 DEF history
  <2>2. /\ call' \in [Actors -> [Workers -> ServerCalls \cup ClientCalls]]
        /\ call'[Client] \in [Workers -> ClientCalls]
        /\ \A q \in Servers : call'[q] \in [Workers -> ServerCalls]
        /\ UsesAnswered'
    BY <1>1, <1>3, <2>1, IdleCall, ClientCallType
  <2> QED
    BY <1>1, <2>1, <2>2 DEF TypeInv, TypeOK, ConstantsOK
<1> QED
  BY <1>2, <1>3 DEF Actors

LEMMA NextType == TypeInv /\ [Next]_vars => TypeInv'
<1> SUFFICES ASSUME TypeInv, [Next]_vars
             PROVE  TypeInv'
  OBVIOUS
<1>1. CASE UNCHANGED vars
  BY <1>1 DEF vars, TypeInv, TypeOK, ConstantsOK, UsesAnswered, ReturnedAnswers
<1>2. CASE StartSignaturePreprocessing
  BY <1>2, PrepareType DEF StartSignaturePreprocessing, Actors
<1>3. ASSUME NEW w \in Workers,
             \/ \E t \in Txs, i \in Indices, R \in Sums : ClientSignOffline(w, t, i, R)
             \/ ConsumeK(w)
      PROVE  TypeInv'
  BY <1>3, ClientSignOfflineType, ConsumeKType
<1>4. ASSUME NEW s \in Servers,
             \/ StorePresigningData(s)
             \/ \E t \in Txs, i \in Indices : EddsaSignOffline(s, t, i)
      PROVE  TypeInv'
  BY <1>4, PrepareType, EddsaSignOfflineType DEF StorePresigningData, Actors
<1>5. ASSUME NEW s \in Servers, NEW w \in Workers,
             \/ \E t \in Txs, v \in Vectors : DecommitR(s, w, t, v)
             \/ \E t \in Txs, v \in Vectors : BroadcastR(s, w, t, v)
             \/ \E t \in Txs, i \in Indices, R \in Sums : BroadcastSi(s, w, t, i, R)
             \/ \E t \in Txs : GetEddsaSignature(s, w, t) \/ CancelSigning(s, w, t)
      PROVE  TypeInv'
  BY <1>5, DecommitRType, BroadcastRType, BroadcastSiType,
     GetEddsaSignatureType, CancelSigningType
<1>6. ASSUME NEW s \in Servers, NEW w \in Workers, Continue(s, w)
      PROVE  TypeInv'
  BY <1>6, StoreCommitmentsType, LoadCommitmentsType, DeleteCommitmentsType,
     StoreSumType,
     ConsumeCommitmentType, StoreAnsweredType, DeleteSigningDataType,
     ExtractType, CancelDataType
  DEF Continue
<1>7. ASSUME NEW a \in Actors, NEW w \in Workers, Interrupt(a, w)
      PROVE  TypeInv'
  BY <1>7, InterruptType
<1> QED
  BY <1>1, <1>2, <1>3, <1>4, <1>5, <1>6, <1>7 DEF Next

LEMMA TypeInvHolds ==
  ASSUME ConstantsOK
  PROVE  Spec => []TypeInv
<1>1. Init => TypeInv
  BY InitType
<1>2. TypeInv /\ [Next]_vars => TypeInv'
  BY NextType
<1> QED
  BY <1>1, <1>2, PTL DEF Spec

\* The type invariant holds for any servers, transactions, blocks and threads.
THEOREM TypeCorrect ==
  ASSUME ConstantsOK
  PROVE  Spec => []TypeOK
<1>1. TypeInv => TypeOK
  BY DEF TypeInv
<1> QED
  BY <1>1, TypeInvHolds, PTL
-----------------------------------------------------------------------------
(* What is taken out of a pool is used once                                 *)

TakenInv == IndicesTaken /\ ServerIndexOnce /\ ClientKAnswersOnce

LEMMA TakesNothing ==
  ASSUME NEW a, NEW c,
         c.op \notin {"consume", "answer"} \/ (c.op = "consume" /\ c.block = 1)
  PROVE  Taken(a, c) = {}
BY DEF Taken

LEMMA TakenIn ==
  ASSUME NEW a, NEW c, NEW j
  PROVE  j \in Taken(a, c) <=>
           LET first == IF a = Client THEN c.index ELSE c.data.index
               count == IF c.op = "consume" THEN c.block - 1
                        ELSE IF c.op = "answer" THEN Blocks ELSE 0
           IN j \in Indices /\ count # 0 /\ first <= j /\ j < first + count
BY DEF Taken

\* A worker w of a takes J, and may have used what it has.
LEMMA TakeStep ==
  ASSUME TypeInv, IndicesTaken, NEW a \in Actors, NEW w \in Workers, NEW J,
         \/ J = {} /\ pool'[a] = pool[a]
         \/ pool[a] # Absent /\ J \subseteq pool[a] /\ pool'[a] = pool[a] \ J,
         \A v \in Workers : v # w => call'[a][v] = call[a][v],
         Taken(a, call'[a][w]) \subseteq Taken(a, call[a][w]) \cup J,
         Used(a)' \subseteq Used(a) \cup Taken(a, call[a][w]) \cup J,
         Taken(a, call'[a][w]) \cap Used(a)' = {}
  PROVE  IndicesTaken!(a)'
<1>1. /\ \A v \in Workers : \A j \in Taken(a, call[a][v]) :
           pool[a] # Absent /\ j \notin pool[a] /\ j \notin Used(a)
      /\ \A j \in Used(a) : pool[a] # Absent /\ j \notin pool[a]
      /\ \A u, v \in Workers :
           u # v => Taken(a, call[a][u]) \cap Taken(a, call[a][v]) = {}
  BY DEF IndicesTaken
<1>2. pool[a] # Absent => pool'[a] # Absent /\ pool'[a] = pool[a] \ J
  <2>1. pool[a] # Absent => pool[a] \ J \in SUBSET Indices
    BY DEF TypeInv, TypeOK
  <2> QED
    BY <2>1 DEF TypeInv, TypeOK, ConstantsOK
<1>3. \A j \in J : pool[a] # Absent /\ j \in pool[a]
  OBVIOUS
<1>4. \A j \in Used(a) \cup Taken(a, call[a][w]) \cup J :
        pool'[a] # Absent /\ j \notin pool'[a]
  BY <1>1, <1>2, <1>3
<1>5. \A v \in Workers : \A j \in Taken(a, call'[a][v]) :
        pool'[a] # Absent /\ j \notin pool'[a] /\ j \notin Used(a)'
  <2> SUFFICES ASSUME NEW v \in Workers, NEW j \in Taken(a, call'[a][v])
               PROVE  pool'[a] # Absent /\ j \notin pool'[a] /\ j \notin Used(a)'
    OBVIOUS
  <2>1. CASE v = w
    BY <1>4, <2>1
  <2>2. CASE v # w
    <3>1. j \in Taken(a, call[a][v])
      BY <2>2
    <3>2. pool[a] # Absent /\ j \notin pool[a] /\ j \notin Used(a)
          /\ j \notin Taken(a, call[a][w])
      BY <1>1, <2>2, <3>1
    <3> QED
      BY <1>2, <1>3, <3>2
  <2> QED
    BY <2>1, <2>2
<1>6. \A u, v \in Workers :
        u # v => Taken(a, call'[a][u]) \cap Taken(a, call'[a][v]) = {}
  <2>1. \A v \in Workers : v # w => Taken(a, call'[a][v]) = Taken(a, call[a][v])
    OBVIOUS
  <2>2. \A v \in Workers : v # w => Taken(a, call'[a][w]) \cap Taken(a, call[a][v]) = {}
    BY <1>1, <1>3
  <2> QED
    BY <1>1, <2>1, <2>2
<1>7. \A j \in Used(a)' : pool'[a] # Absent /\ j \notin pool'[a]
  BY <1>4
<1> QED
  BY <1>5, <1>6, <1>7

\* An actor that does nothing.
LEMMA StillStep ==
  ASSUME IndicesTaken, NEW a \in Actors, pool'[a] = pool[a], call'[a] = call[a],
         Used(a)' = Used(a)
  PROVE  IndicesTaken!(a)'
<1>1. IndicesTaken!(a)
  BY DEF IndicesTaken
<1> QED
  BY <1>1

\* A worker enters a handler or leaves one, and takes nothing.
LEMMA MoveStep ==
  ASSUME TypeInv, TakenInv, NEW a \in Actors, NEW w \in Workers, NEW c,
         Enter(a, w, c), Taken(a, c) = {}, UNCHANGED <<pool, answered, uses>>
  PROVE  TakenInv'
<1>1. \A b \in Actors : Used(b)' = Used(b)
  BY DEF Used
<1>2. /\ call'[a][w] = c
      /\ \A v \in Workers : v # w => call'[a][v] = call[a][v]
      /\ \A b \in Actors \ {a} : call'[b] = call[b]
  BY DEF TypeInv, TypeOK, Enter
<1>3. IndicesTaken!(a)'
  <2>1. Taken(a, call'[a][w]) = {}
    BY <1>2
  <2>2. /\ pool'[a] = pool[a]
        /\ Taken(a, call'[a][w]) \subseteq Taken(a, call[a][w]) \cup {}
        /\ Used(a)' \subseteq Used(a) \cup Taken(a, call[a][w]) \cup {}
        /\ Taken(a, call'[a][w]) \cap Used(a)' = {}
    BY <1>1, <2>1
  <2> QED
    BY <1>2, <2>2, TakeStep DEF TakenInv
<1>4. \A b \in Actors : b # a => IndicesTaken!(b)'
  BY <1>1, <1>2, StillStep DEF TakenInv
<1>5. IndicesTaken'
  BY <1>3, <1>4 DEF IndicesTaken
<1> QED
  BY <1>5 DEF TakenInv, ServerIndexOnce, ClientKAnswersOnce

LEMMA PrepareTaken ==
  ASSUME TypeInv, TakenInv, NEW a \in Actors, Prepare(a)
  PROVE  TakenInv'
<1>1. /\ pool[a] = Absent /\ \A b \in Actors \ {a} : pool'[b] = pool[b]
      /\ UNCHANGED <<call, answered, uses>>
  BY DEF Prepare, history, TypeInv, TypeOK
<1>2. \A b \in Actors : Used(b)' = Used(b)
  BY <1>1 DEF Used
<1>3. Used(a) = {} /\ \A w \in Workers : Taken(a, call[a][w]) = {}
  BY <1>1 DEF TakenInv, IndicesTaken
<1>4. IndicesTaken!(a)'
  BY <1>1, <1>2, <1>3
<1>5. \A b \in Actors : b # a => IndicesTaken!(b)'
  BY <1>1, <1>2, StillStep DEF TakenInv
<1>6. IndicesTaken'
  BY <1>4, <1>5 DEF IndicesTaken
<1> QED
  BY <1>1, <1>6 DEF TakenInv, ServerIndexOnce, ClientKAnswersOnce

\* The k of the next block is taken; after the last all are used.
LEMMA ConsumeKTaken ==
  ASSUME TypeInv, TakenInv, NEW w \in Workers, ConsumeK(w)
  PROVE  TakenInv'
<1> DEFINE c == call[Client][w]
           j == c.index + c.block - 1
           e == [c EXCEPT !.block = @ + 1]
<1>1. Client \in Actors /\ Blocks \in Nat /\ Indices \subseteq Nat
  BY Constants DEF TypeInv, TypeOK
<1>2. /\ c.op = "consume" /\ c.index \in Nat /\ c.block \in Nat /\ c.block >= 1
      /\ UNCHANGED uses
  BY ConsumeKStep
<1>3. /\ e.op = "consume" /\ e.index = c.index /\ e.block = c.block + 1
  <2>1. c \in [op : {"consume"}, tx : Txs, index : Indices, R : Sums,
               block : 1 .. Blocks]
    BY <1>2, ClientCall
  <2> QED
    BY <2>1
<1>4. CASE Enter(Client, w, Idle) /\ UNCHANGED <<pool, answered>>
  <2>1. Taken(Client, Idle) = {}
    BY IdleCall, TakesNothing
  <2> QED
    BY <1>1, <1>2, <1>4, <2>1, MoveStep
<1>5. ASSUME pool[Client] # Absent, j \in pool[Client], j \in Indices,
             pool' = [pool EXCEPT ![Client] = @ \ {j}],
             NEW g, Enter(Client, w, g),
             Taken(Client, g) \subseteq Taken(Client, c) \cup {j},
             Used(Client)' \subseteq Used(Client) \cup Taken(Client, c) \cup {j},
             Taken(Client, g) \cap Used(Client)' = {}
      PROVE  IndicesTaken'
  <2>1. /\ call'[Client][w] = g
        /\ \A v \in Workers : v # w => call'[Client][v] = call[Client][v]
        /\ \A b \in Actors \ {Client} : call'[b] = call[b]
    BY <1>1, <1>5 DEF TypeInv, TypeOK, Enter
  <2>2. pool'[Client] = pool[Client] \ {j}
        /\ \A b \in Actors \ {Client} : pool'[b] = pool[b]
    BY <1>1, <1>5 DEF TypeInv, TypeOK
  <2> HIDE DEF j, c
  <2>3. IndicesTaken!(Client)'
    BY <1>1, <1>5, <2>1, <2>2, TakeStep DEF TakenInv, c
  <2>4. \A b \in Actors : b # Client => Used(b)' = Used(b)
    BY <1>2 DEF Used
  <2>5. \A b \in Actors : b # Client => IndicesTaken!(b)'
    BY <2>1, <2>2, <2>4, StillStep DEF TakenInv
  <2> QED
    BY <2>3, <2>5 DEF IndicesTaken
<1>6. \A i \in Nat : i \in Taken(Client, c) <=>
        i \in Indices /\ c.index <= i /\ i < c.index + c.block - 1
  BY <1>2, TakenIn
<1>7. \/ j \notin Used(Client) /\ Taken(Client, c) \cap Used(Client) = {}
      \/ pool[Client] = Absent \/ j \notin pool[Client]
  BY <1>1 DEF TakenInv, IndicesTaken
<1>8. CASE /\ pool[Client] # Absent /\ j \in pool[Client] /\ j \in Indices
           /\ pool' = [pool EXCEPT ![Client] = @ \ {j}]
           /\ Enter(Client, w, e) /\ answered' = answered
  <2>1. Taken(Client, e) \subseteq Taken(Client, c) \cup {j}
    <3> SUFFICES ASSUME NEW i \in Taken(Client, e), i # j
                 PROVE  i \in Taken(Client, c)
      OBVIOUS
    <3>1. i \in Indices /\ c.index <= i /\ i < c.index + c.block
      <4> HIDE DEF e
      <4>1. i \in Indices /\ e.index <= i /\ i < e.index + (e.block - 1)
        BY <1>3, TakenIn
      <4> HIDE DEF c
      <4> QED
        BY <1>1, <1>2, <1>3, <4>1
    <3>2. i \in Nat /\ i < c.index + c.block - 1
      BY <1>1, <1>2, <3>1
    <3> QED
      BY <1>6, <3>1, <3>2
  <2>2. Used(Client)' = Used(Client)
    BY <1>8 DEF Used
  <2>3. Taken(Client, e) \cap Used(Client)' = {}
    BY <1>7, <1>8, <2>1, <2>2
  <2> HIDE DEF e, j, c
  <2>4. IndicesTaken'
    BY <1>5, <1>8, <2>1, <2>2, <2>3
  <2> QED
    BY <1>2, <1>8, <2>4 DEF TakenInv, ServerIndexOnce, ClientKAnswersOnce
<1>9. CASE /\ pool[Client] # Absent /\ j \in pool[Client] /\ j \in Indices
           /\ pool' = [pool EXCEPT ![Client] = @ \ {j}]
           /\ c.block = Blocks /\ Enter(Client, w, Idle)
           /\ answered' = answered \cup Returned(c) \/ answered' = answered
  <2>1. Taken(Client, Idle) = {}
    BY IdleCall, TakesNothing
  <2>2. \A a \in Returned(c) :
          a.index \in Taken(Client, c) \cup {j} /\ a.index = c.index + a.block - 1
          /\ a.block \in 1 .. Blocks /\ a.tx = c.tx /\ a.R = c.R
          /\ a = [tx |-> a.tx, index |-> a.index, block |-> a.block, R |-> a.R]
    <3> SUFFICES ASSUME NEW i \in 1 .. Blocks
                 PROVE  c.index + i - 1 \in Taken(Client, c) \cup {j}
      BY DEF Returned
    <3>1. c.index + i - 1 \in Nat /\ c.index <= c.index + i - 1
          /\ (i = Blocks => c.index + i - 1 = j)
          /\ (i # Blocks => c.index + i - 1 < c.index + c.block - 1)
      BY <1>1, <1>2, <1>9
    <3>2. c.index + i - 1 \in Indices
      <4>1. c.index + i - 1 <= j /\ Total \in Nat
        BY <1>1, <1>2, <1>9, Constants DEF TypeInv, TypeOK
      <4> QED
        BY <1>1, <1>2, <1>9, <3>1, <4>1 DEF Indices
    <3> QED
      BY <1>6, <3>1, <3>2
  <2>3. Used(Client)' \subseteq Used(Client) \cup Taken(Client, c) \cup {j}
    BY <1>9, <2>2 DEF Used
  <2>4. IndicesTaken'
    <3>1. Taken(Client, Idle) \subseteq Taken(Client, c) \cup {j}
          /\ Taken(Client, Idle) \cap Used(Client)' = {}
      BY <2>1
    <3> HIDE DEF c, j, e
    <3> QED
      BY <1>5, <1>9, <2>3, <3>1
  <2>5. \A a \in Returned(c), b \in answered : a.index # b.index
    BY <1>7, <1>9, <2>2 DEF Used
  <2>6. \A a, b \in Returned(c) : a.index = b.index => a = b
    <3> SUFFICES ASSUME NEW a \in Returned(c), NEW b \in Returned(c),
                        a.index = b.index
                 PROVE  a = b
      OBVIOUS
    <3>1. a.block = b.block
      BY <1>1, <1>2, <2>2
    <3> QED
      BY <2>2, <3>1
  <2>7. ClientKAnswersOnce'
    BY <1>9, <2>5, <2>6 DEF TakenInv, ClientKAnswersOnce
  <2> QED
    BY <1>2, <2>4, <2>7 DEF TakenInv, ServerIndexOnce
<1> QED
  BY <1>4, <1>8, <1>9, ConsumeKStep
\* The same of all actors, when w enters the handler g.
LEMMA PoolStep ==
  ASSUME TypeInv, IndicesTaken, NEW a \in Actors, NEW w \in Workers, NEW J, NEW g,
         Enter(a, w, g),
         \/ J = {} /\ pool' = pool
         \/ /\ pool[a] # Absent /\ J \subseteq pool[a]
            /\ pool' = [pool EXCEPT ![a] = @ \ J],
         Taken(a, g) \subseteq Taken(a, call[a][w]) \cup J,
         Used(a)' \subseteq Used(a) \cup Taken(a, call[a][w]) \cup J,
         Taken(a, g) \cap Used(a)' = {},
         \A b \in Actors \ {a} : Used(b)' = Used(b)
  PROVE  IndicesTaken'
<1>1. /\ call'[a][w] = g
      /\ \A v \in Workers : v # w => call'[a][v] = call[a][v]
      /\ \A b \in Actors \ {a} : call'[b] = call[b]
  BY DEF TypeInv, TypeOK, Enter
<1>2. /\ \/ J = {} /\ pool'[a] = pool[a]
         \/ pool[a] # Absent /\ J \subseteq pool[a] /\ pool'[a] = pool[a] \ J
      /\ \A b \in Actors \ {a} : pool'[b] = pool[b]
  BY DEF TypeInv, TypeOK
<1>3. IndicesTaken!(a)'
  BY <1>1, <1>2, TakeStep
<1>4. \A b \in Actors : b # a => IndicesTaken!(b)'
  BY <1>1, <1>2, StillStep
<1> QED
  BY <1>3, <1>4 DEF IndicesTaken

LEMMA ConsumeCommitmentTaken ==
  ASSUME TypeInv, TakenInv, NEW s \in Servers, NEW w \in Workers,
         ConsumeCommitment(s, w)
  PROVE  TakenInv'
<1> DEFINE c == call[s][w]
           j == c.data.index + c.block - 1
           e == [c EXCEPT !.block = @ + 1]
           f == [op |-> "answer", tx |-> c.tx,
                 data |-> [c.data EXCEPT !.client = TRUE]]
<1>1. s \in Actors /\ s # Client /\ Blocks \in Nat /\ Indices \subseteq Nat
  BY Constants DEF TypeInv, TypeOK, Actors
<1>2. /\ c.op = "consume" /\ c.data \in Records /\ c.data.index \in Nat
      /\ c.block \in Nat /\ c.block >= 1 /\ c.block <= Blocks
      /\ UNCHANGED <<starts, data, commitments, timing, history>>
  BY ConsumeCommitmentStep
<1>3. UNCHANGED <<uses, answered>> /\ \A b \in Actors : Used(b)' = Used(b)
  BY <1>2 DEF history, Used
<1>4. \A i : i \in Taken(s, c) <=>
        /\ i \in Indices /\ c.block - 1 # 0
        /\ c.data.index <= i /\ i < c.data.index + (c.block - 1)
  BY <1>1, <1>2, TakenIn
<1>5. \A i \in Taken(s, e) : i \in Indices /\ c.data.index <= i /\ i < c.data.index + c.block
  <2>1. /\ e.op = "consume" /\ e.data = c.data /\ e.block = c.block + 1
    <3>1. c \in [op : {"consume"}, tx : Txs, data : Records, from : Indices,
                 R : Sums, block : 1 .. Blocks]
      BY <1>2, ServerCall DEF OnRecord
    <3> QED
      BY <3>1
  <2> HIDE DEF e, c
  <2>2. \A i \in Taken(s, e) :
          i \in Indices /\ e.data.index <= i /\ i < e.data.index + (e.block - 1)
    BY <1>1, <2>1, TakenIn
  <2> QED
    BY <1>1, <1>2, <2>1, <2>2
<1>6. c.block = Blocks =>
        \A i \in Taken(s, f) : i \in Indices /\ c.data.index <= i /\ i < c.data.index + c.block
  <2>1. f.op = "answer" /\ f.data.index = c.data.index
    BY <1>2 DEF Records
  <2> HIDE DEF f, c
  <2>2. \A i \in Taken(s, f) :
          i \in Indices /\ f.data.index <= i /\ i < f.data.index + Blocks
    BY <1>1, <2>1, TakenIn
  <2> QED
    BY <2>1, <2>2
<1>7. \A i \in Indices : c.data.index <= i /\ i < c.data.index + c.block =>
        i \in Taken(s, c) \cup {j}
  <2> SUFFICES ASSUME NEW i \in Indices, c.data.index <= i, i < c.data.index + c.block,
                      i # j
               PROVE  i \in Taken(s, c)
    OBVIOUS
  <2>1. i \in Nat
    BY <1>1
  <2>2. c.block - 1 # 0 /\ i < c.data.index + (c.block - 1)
    BY <1>2, <2>1
  <2> QED
    BY <1>4, <2>2
<1>8. Taken(s, Idle) = {}
  BY IdleCall, TakesNothing
<1>9. CASE Enter(s, w, Idle) /\ UNCHANGED pool
  BY <1>1, <1>3, <1>8, <1>9, MoveStep
<1>10. ASSUME pool[s] # Absent, j \in pool[s], pool' = [pool EXCEPT ![s] = @ \ {j}],
              NEW g, Enter(s, w, g), Taken(s, g) \subseteq Taken(s, c) \cup {j}
       PROVE  TakenInv'
  <2>1. (Taken(s, c) \cup {j}) \cap Used(s) = {}
    BY <1>1, <1>10 DEF TakenInv, IndicesTaken
  <2> HIDE DEF j
  <2>2. /\ {j} \subseteq pool[s] /\ Taken(s, g) \cap Used(s)' = {}
        /\ Used(s)' \subseteq Used(s) \cup Taken(s, c) \cup {j}
    BY <1>1, <1>3, <1>10, <2>1
  <2>3. IndicesTaken'
    BY <1>1, <1>3, <1>10, <2>2, PoolStep DEF TakenInv
  <2> QED
    BY <1>3, <2>3 DEF TakenInv, ServerIndexOnce, ClientKAnswersOnce
<1>11. Taken(s, e) \subseteq Taken(s, c) \cup {j}
  BY <1>5, <1>7
<1>12. c.block = Blocks => Taken(s, f) \subseteq Taken(s, c) \cup {j}
  BY <1>6, <1>7
<1>13. Taken(s, Idle) \subseteq Taken(s, c) \cup {j}
  BY <1>8
<1>14. \/ /\ pool[s] # Absent /\ j \in pool[s]
          /\ pool' = [pool EXCEPT ![s] = @ \ {j}]
          /\ \/ Enter(s, w, e)
             \/ c.block = Blocks /\ Enter(s, w, f)
             \/ Enter(s, w, Idle)
       \/ Enter(s, w, Idle) /\ UNCHANGED pool
  BY ConsumeCommitmentStep
<1> HIDE DEF c, j, e, f
<1> QED
  BY <1>9, <1>10, <1>11, <1>12, <1>13, <1>14

\* All blocks are answered with what was taken for them.
LEMMA StoreAnsweredStep ==
  ASSUME TypeInv, NEW s \in Servers, NEW w \in Workers, StoreAnswered(s, w)
  PROVE  LET c == call[s][w] IN
         /\ c.op = "answer" /\ c.tx \in Txs /\ c.data \in Records
         /\ ReturnedAnswers(c.tx, c.data.index, c.data.R)
         /\ uses'[s] = uses[s] \cup Answers(c.data, c.tx)
         /\ \A q \in Servers \ {s} : uses'[q] = uses[q]
         /\ \A u \in Answers(c.data, c.tx) :
              /\ u.block \in 1 .. Blocks /\ u.index = c.data.index + u.block - 1
              /\ u.tx = c.tx /\ u.life = c.data.life /\ u.R = c.data.R
              /\ u.index \in Indices /\ u = Answer(c.data, c.tx, u.block)
         /\ Enter(s, w, [op |-> "extract", tx |-> c.tx]) \/ Enter(s, w, Idle)
         /\ data' = [data EXCEPT ![s][c.tx] = Absent]
            \/ data' = [data EXCEPT ![s][c.tx] = c.data]
         /\ UNCHANGED <<pool, starts, commitments, timing, bound, sent, answered>>
<1> DEFINE c == call[s][w]
<1>1. /\ c.op = "answer"
      /\ uses' = [uses EXCEPT ![s] = @ \cup Answers(c.data, c.tx)]
      /\ Enter(s, w, [op |-> "extract", tx |-> c.tx]) \/ Enter(s, w, Idle)
      /\ data' = [data EXCEPT ![s][c.tx] = Absent]
         \/ data' = [data EXCEPT ![s][c.tx] = c.data]
      /\ UNCHANGED <<pool, starts, commitments, timing, bound, sent, answered>>
  BY DEF StoreAnswered, Answers, Return
<1>2. c.tx \in Txs /\ c.data \in Records
  BY <1>1, ServerCall DEF OnRecord
<1>3. ReturnedAnswers(c.tx, c.data.index, c.data.R)
  BY <1>1 DEF TypeInv, UsesAnswered
<1>4. \A i \in 1 .. Blocks : c.data.index + i - 1 \in Indices
  <2> SUFFICES ASSUME NEW i \in 1 .. Blocks
               PROVE  c.data.index + i - 1 \in Indices
    OBVIOUS
  <2> DEFINE a == [tx |-> c.tx, index |-> c.data.index + i - 1, block |-> i,
                   R |-> c.data.R]
  <2>1. a \in answered /\ a.index = c.data.index + i - 1
    BY <1>3 DEF ReturnedAnswers
  <2> HIDE DEF a
  <2>2. a.index \in Indices
    BY <2>1 DEF TypeInv, TypeOK
  <2> QED
    BY <2>1, <2>2
<1> HIDE DEF c
<1>5. \A u \in Answers(c.data, c.tx) :
        /\ u.block \in 1 .. Blocks /\ u.index = c.data.index + u.block - 1
        /\ u.tx = c.tx /\ u.life = c.data.life /\ u.R = c.data.R
        /\ u.index \in Indices /\ u = Answer(c.data, c.tx, u.block)
  BY <1>4 DEF Answers, Answer
<1>6. uses'[s] = uses[s] \cup Answers(c.data, c.tx)
      /\ \A q \in Servers \ {s} : uses'[q] = uses[q]
  <2>1. uses \in [Servers -> SUBSET [tx : Txs, life : Lives, block : 1 .. Blocks,
                                     R : Sums, index : Indices]]
    BY DEF TypeInv, TypeOK
  <2> QED
    BY <1>1, <2>1
<1> QED
  BY <1>1, <1>2, <1>3, <1>5, <1>6 DEF c

LEMMA StoreAnsweredTaken ==
  ASSUME TypeInv, TakenInv, NEW s \in Servers, NEW w \in Workers, StoreAnswered(s, w)
  PROVE  TakenInv'
<1> DEFINE c == call[s][w]
           A == Answers(c.data, c.tx)
<1>1. s \in Actors /\ s # Client /\ Blocks \in Nat /\ 1 .. Blocks \subseteq Nat
  BY Constants DEF TypeInv, TypeOK, Actors
<1>2. /\ c.op = "answer" /\ c.data \in Records
      /\ uses'[s] = uses[s] \cup A
      /\ \A q \in Servers \ {s} : uses'[q] = uses[q]
      /\ \A u \in A :
           /\ u.block \in 1 .. Blocks /\ u.index = c.data.index + u.block - 1
           /\ u.index \in Indices /\ u = Answer(c.data, c.tx, u.block)
      /\ Enter(s, w, [op |-> "extract", tx |-> c.tx]) \/ Enter(s, w, Idle)
      /\ UNCHANGED <<pool, answered>>
  BY StoreAnsweredStep
<1>3. c.data.index \in Nat
  BY <1>2, RecordFields, Constants DEF TypeInv, TypeOK
<1>4. PICK g : Enter(s, w, g) /\ Taken(s, g) = {}
  <2>1. /\ Taken(s, Idle) = {}
        /\ Taken(s, [op |-> "extract", tx |-> c.tx]) = {}
    BY IdleCall, TakesNothing
  <2> QED
    BY <1>2, <2>1
<1> HIDE DEF A
<1>5. \A u \in A : u.index \in Taken(s, c)
  <2>1. \A i : i \in Taken(s, c) <=>
          /\ i \in Indices /\ Blocks # 0
          /\ c.data.index <= i /\ i < c.data.index + Blocks
    BY <1>1, <1>2, TakenIn
  <2> SUFFICES ASSUME NEW u \in A
               PROVE  u.index \in Taken(s, c)
    OBVIOUS
  <2> HIDE DEF c
  <2>2. u.block \in 1 .. Blocks /\ u.index = c.data.index + u.block - 1 /\ u.index \in Indices
    BY <1>2
  <2>3. /\ Blocks # 0
        /\ c.data.index <= u.index /\ u.index < c.data.index + Blocks
    BY <1>1, <1>3, <2>2
  <2> QED
    BY <2>1, <2>2, <2>3
<1>6. /\ Used(s)' \subseteq Used(s) \cup Taken(s, c)
      /\ \A b \in Actors \ {s} : Used(b)' = Used(b)
  BY <1>1, <1>2, <1>5 DEF Used, Actors
<1>7. IndicesTaken'
  <2>1. /\ Taken(s, g) \subseteq Taken(s, c) \cup {}
        /\ Used(s)' \subseteq Used(s) \cup Taken(s, c) \cup {}
        /\ Taken(s, g) \cap Used(s)' = {}
    BY <1>4, <1>6
  <2> QED
    BY <1>1, <1>2, <1>4, <1>6, <2>1, PoolStep DEF TakenInv
<1>8. Taken(s, c) \cap Used(s) = {}
  BY <1>1 DEF TakenInv, IndicesTaken
<1>9. \A u, v \in A : u.index = v.index => u = v
  <2> HIDE DEF c
  <2> SUFFICES ASSUME NEW u \in A, NEW v \in A, u.index = v.index
               PROVE  u = v
    OBVIOUS
  <2>1. u.block = v.block
    BY <1>1, <1>2, <1>3
  <2> QED
    BY <1>2, <2>1
<1>10. \A u \in A, v \in uses[s] : u.index # v.index
  BY <1>1, <1>5, <1>8 DEF Used
<1>11. ServerIndexOnce'
  BY <1>2, <1>9, <1>10 DEF TakenInv, ServerIndexOnce
<1> QED
  BY <1>2, <1>7, <1>11 DEF TakenInv, ClientKAnswersOnce

LEMMA NextTaken == TypeInv /\ TakenInv /\ [Next]_vars => TakenInv'
<1> SUFFICES ASSUME TypeInv, TakenInv, [Next]_vars
             PROVE  TakenInv'
  OBVIOUS
<1>1. CASE UNCHANGED vars
  BY <1>1 DEF vars, TakenInv, IndicesTaken, ServerIndexOnce, ClientKAnswersOnce, Used
<1>2. CASE StartSignaturePreprocessing
  BY <1>2, PrepareTaken DEF StartSignaturePreprocessing, Actors
<1>3. ASSUME NEW w \in Workers, NEW t \in Txs, NEW i \in Indices, NEW R \in Sums,
             ClientSignOffline(w, t, i, R)
      PROVE  TakenInv'
  <2> DEFINE e == [op |-> "consume", tx |-> t, index |-> i, R |-> R, block |-> 1]
  <2>1. Enter(Client, w, e) /\ UNCHANGED <<pool, answered, uses>>
    BY <1>3 DEF ClientSignOffline, history
  <2>2. Taken(Client, e) = {}
    BY TakesNothing
  <2> HIDE DEF e
  <2> QED
    BY <2>1, <2>2, MoveStep DEF Actors
<1>4. ASSUME NEW w \in Workers, ConsumeK(w)
      PROVE  TakenInv'
  BY <1>4, ConsumeKTaken
<1>5. ASSUME NEW s \in Servers, StorePresigningData(s)
      PROVE  TakenInv'
  BY <1>5, PrepareTaken DEF StorePresigningData, Actors
<1>6. ASSUME NEW s \in Servers, NEW t \in Txs, NEW i \in Indices,
             EddsaSignOffline(s, t, i)
      PROVE  TakenInv'
  BY <1>6
  DEF EddsaSignOffline, TakenInv, IndicesTaken, ServerIndexOnce, ClientKAnswersOnce, Used
<1>7. ASSUME NEW s \in Servers, NEW w \in Workers, NEW c,
             Enter(s, w, c), UNCHANGED <<pool, answered, uses>>,
             c.op \notin {"consume", "answer"} \/ (c.op = "consume" /\ c.block = 1)
      PROVE  TakenInv'
  BY <1>7, TakesNothing, MoveStep DEF Actors
<1>8. ASSUME NEW s \in Servers, NEW w \in Workers, NEW t \in Txs, NEW v \in Vectors,
             DecommitR(s, w, t, v)
      PROVE  TakenInv'
  <2> DEFINE e == [op |-> "decommit", tx |-> t, data |-> data[s][t], Rs |-> v]
  <2>1. Enter(s, w, e) /\ UNCHANGED <<pool, answered, uses>> /\ e.op = "decommit"
    BY <1>8 DEF DecommitR, history
  <2> HIDE DEF e
  <2> QED
    BY <1>7, <2>1
<1>9. ASSUME NEW s \in Servers, NEW w \in Workers, NEW t \in Txs, NEW v \in Vectors,
             BroadcastR(s, w, t, v)
      PROVE  TakenInv'
  <2> DEFINE e == [op |-> "sum", tx |-> t, data |-> data[s][t], Rs |-> v]
  <2>1. Enter(s, w, e) /\ UNCHANGED <<pool, answered, uses>> /\ e.op = "sum"
    BY <1>9 DEF BroadcastR, history
  <2> HIDE DEF e
  <2> QED
    BY <1>7, <2>1
<1>10. ASSUME NEW s \in Servers, NEW w \in Workers, NEW t \in Txs, NEW i \in Indices,
              NEW R \in Sums, BroadcastSi(s, w, t, i, R)
       PROVE  TakenInv'
  <2> DEFINE e == [op |-> "consume", tx |-> t, data |-> data[s][t], from |-> i,
                   R |-> R, block |-> 1]
  <2>1. Enter(s, w, e) /\ UNCHANGED <<pool, answered, uses>>
        /\ e.op = "consume" /\ e.block = 1
    BY <1>10 DEF BroadcastSi, history
  <2> HIDE DEF e
  <2> QED
    BY <1>7, <2>1
<1>11. ASSUME NEW s \in Servers, NEW w \in Workers, NEW t \in Txs,
              GetEddsaSignature(s, w, t)
       PROVE  TakenInv'
  <2> DEFINE e == [op |-> "delete", tx |-> t, life |-> data[s][t].life]
  <2>1. Enter(s, w, e) /\ UNCHANGED <<pool, answered, uses>> /\ e.op = "delete"
    BY <1>11 DEF GetEddsaSignature, history
  <2> HIDE DEF e
  <2> QED
    BY <1>7, <2>1
<1>12. ASSUME NEW s \in Servers, NEW w \in Workers, NEW t \in Txs,
              CancelSigning(s, w, t)
       PROVE  TakenInv'
  <2> DEFINE e == [op |-> "drop", tx |-> t]
  <2>1. Enter(s, w, e) /\ UNCHANGED <<pool, answered, uses>> /\ e.op = "drop"
    BY <1>12 DEF CancelSigning, history
  <2> HIDE DEF e
  <2> QED
    BY <1>7, <2>1
<1>13. ASSUME NEW s \in Servers, NEW w \in Workers,
              \/ StoreCommitments(s, w) \/ StoreSum(s, w)
              \/ Extract(s, w) \/ CancelData(s, w)
       PROVE  TakenInv'
  <2>1. Enter(s, w, Idle) /\ UNCHANGED <<pool, answered, uses>>
    BY <1>13 DEF StoreCommitments, StoreSum, Extract, CancelData, Return, history
  <2> QED
    BY <1>7, <2>1, IdleCall
<1>14. ASSUME NEW s \in Servers, NEW w \in Workers, DeleteCommitments(s, w)
       PROVE  TakenInv'
  <2> DEFINE c == call[s][w]
             e == [c EXCEPT !.op = "fix"]
  <2>1. c.op = "forget" /\ Enter(s, w, e) /\ UNCHANGED <<pool, answered, uses>>
    BY <1>14 DEF DeleteCommitments, history
  <2>2. c \in [op : {"forget", "fix", "answer"}, tx : Txs, data : Records]
    BY <2>1, ServerCall
  <2>3. e.op = "fix"
    BY <2>2
  <2> HIDE DEF e
  <2> QED
    BY <1>7, <2>1, <2>3
<1>15. ASSUME NEW s \in Servers, NEW w \in Workers, DeleteSigningData(s, w)
       PROVE  TakenInv'
  <2> DEFINE e == [op |-> "extract", tx |-> call[s][w].tx]
  <2>1. Enter(s, w, e) /\ UNCHANGED <<pool, answered, uses>> /\ e.op = "extract"
    BY <1>15 DEF DeleteSigningData
  <2> HIDE DEF e
  <2> QED
    BY <1>7, <2>1
<1>16. ASSUME NEW a \in Actors, NEW w \in Workers, Interrupt(a, w)
       PROVE  TakenInv'
  <2>1. Enter(a, w, Idle) /\ UNCHANGED <<pool, answered, uses>>
    BY <1>16 DEF Interrupt, Return, history
  <2> QED
    BY <2>1, IdleCall, TakesNothing, MoveStep
<1>17. ASSUME NEW s \in Servers, NEW w \in Workers,
              ConsumeCommitment(s, w) \/ StoreAnswered(s, w)
       PROVE  TakenInv'
  BY <1>17, ConsumeCommitmentTaken, StoreAnsweredTaken
<1>18. ASSUME NEW s \in Servers, NEW w \in Workers, LoadCommitments(s, w)
       PROVE  TakenInv'
  <2>1. UNCHANGED <<pool, answered, uses>>
    BY <1>18 DEF LoadCommitments, history
  <2> DEFINE t == call[s][w].tx
             g(e) == [op |-> "forget", tx |-> t, data |-> e]
  <2>2. Enter(s, w, Idle) \/ \E e : Enter(s, w, g(e))
    BY <1>18, LoadCommitmentsStep
  <2>3. \A e : g(e).op = "forget"
    OBVIOUS
  <2> HIDE DEF t, g
  <2>4. CASE Enter(s, w, Idle)
    BY <1>7, <2>1, <2>4, IdleCall
  <2>5. ASSUME NEW e, Enter(s, w, g(e))
        PROVE  TakenInv'
    BY <1>7, <2>1, <2>3, <2>5
  <2> QED
    BY <2>2, <2>4, <2>5
<1> QED
  BY <1>1, <1>2, <1>3, <1>4, <1>5, <1>6, <1>8, <1>9, <1>10, <1>11, <1>12, <1>13,
     <1>14, <1>15, <1>16, <1>17, <1>18
  DEF Next, Continue

LEMMA InitTaken == ConstantsOK /\ Init => TypeInv /\ TakenInv
<1> SUFFICES ASSUME ConstantsOK, Init
             PROVE  TypeInv /\ TakenInv
  OBVIOUS
<1>1. \A a \in Actors : Used(a) = {} /\ \A w \in Workers : Taken(a, call[a][w]) = {}
  BY IdleCall, TakesNothing DEF Init, Used, Actors
<1>2. TakenInv
  BY <1>1 DEF Init, TakenInv, IndicesTaken, ServerIndexOnce, ClientKAnswersOnce
<1> QED
  BY <1>2, InitType

LEMMA TakenInvHolds ==
  ASSUME ConstantsOK
  PROVE  Spec => [](TypeInv /\ TakenInv)
<1>1. Init => TypeInv /\ TakenInv
  BY InitTaken
<1>2. TypeInv /\ TakenInv /\ [Next]_vars => (TypeInv /\ TakenInv)'
  BY NextType, NextTaken
<1> QED
  BY <1>1, <1>2, PTL DEF Spec
-----------------------------------------------------------------------------
(* A life has one index                                                     *)

IndexFunctions == [Servers -> [Txs -> [Lives -> Indices \cup {Absent}]]]

LEMMA SumDomain ==
  ASSUME NEW R \in Sums
  PROVE  DOMAIN R \subseteq Servers
<1>1. CASE \E S \in SUBSET Servers : R \in [S -> Lives]
  BY <1>1
<1>2. CASE \E s \in Servers : R = Twice(s)
  BY <1>2 DEF Twice, OwnR
<1> QED
  BY <1>1, <1>2 DEF Sums

LEMMA ServerEnters ==
  ASSUME TypeInv, NEW s \in Servers, NEW w \in Workers, NEW c, Enter(s, w, c)
  PROVE  /\ call'[s][w] = c
         /\ \A q \in Servers, v \in Workers : q # s \/ v # w => call'[q][v] = call[q][v]
         /\ call'[Client] = call[Client]
<1>1. s \in Actors /\ s # Client /\ Client \in Actors /\ Servers \subseteq Actors
  BY Constants DEF TypeInv, TypeOK
<1> QED
  BY <1>1 DEF TypeInv, TypeOK, Enter

\* Where no life begins, all that is new has the indices that are known.
LEMMA IndexStep ==
  ASSUME NEW f, IndicesBy(f), UNCHANGED starts,
         \A s \in Servers, t \in Txs :
           \/ data'[s][t] = data[s][t]
           \/ data'[s][t] # Absent => Holds(f, s, t, data'[s][t]),
         \A s \in Servers, w \in Workers :
           \/ call'[s][w] = call[s][w]
           \/ call'[s][w].op \in OnRecord => CallHolds(f, s, call'[s][w]),
         \A s \in Servers : \A b \in bound'[s] :
           b \in bound[s] \/ Began(f, s, b.tx, b.life, b.index),
         \A s \in Servers : \A u \in uses'[s] :
           \/ u \in uses[s]
           \/ /\ Began(f, s, u.tx, u.life, u.index - u.block + 1)
              /\ Names(f, u.tx, u.R, u.index - u.block + 1)
  PROVE  IndicesBy(f)'
<1> SUFFICES ASSUME NEW s \in Servers
             PROVE  IndicesBy(f)!(s)'
  BY DEF IndicesBy
<1>4. IndicesBy(f)!(s)
  BY DEF IndicesBy
<1>5. \A t \in Txs : data'[s][t] # Absent => Holds(f, s, t, data'[s][t])
  BY <1>4
<1>6. \A w \in Workers : call'[s][w].op \in OnRecord => CallHolds(f, s, call'[s][w])
  BY <1>4
<1>7. \A b \in bound'[s] : Began(f, s, b.tx, b.life, b.index)
  BY <1>4
<1>8. \A u \in uses'[s] :
        /\ Began(f, s, u.tx, u.life, u.index - u.block + 1)
        /\ Names(f, u.tx, u.R, u.index - u.block + 1)
  BY <1>4
<1> QED
  BY <1>5, <1>6, <1>7, <1>8 DEF CallHolds, Holds, Names, Began

\* A worker of a server goes on with c.
LEMMA IndexCall ==
  ASSUME TypeInv, NEW f, IndicesBy(f), NEW s \in Servers, NEW w \in Workers, NEW c,
         Enter(s, w, c), c.op \in OnRecord => CallHolds(f, s, c),
         UNCHANGED <<starts, data, bound, uses>>
  PROVE  IndicesBy(f)'
<1>1. \A q \in Servers, v \in Workers :
        \/ call'[q][v] = call[q][v]
        \/ call'[q][v].op \in OnRecord => CallHolds(f, q, call'[q][v])
  BY ServerEnters
<1> QED
  BY <1>1, IndexStep

\* What Began, Names and Holds say when st lives are begun.
BeganIn(st, f, s, t, n, i) == n <= st[s][t] /\ f[s][t][n] = i
NamesIn(st, f, t, R, i) ==
  \A q \in DOMAIN R : R[q] \in Lives => BeganIn(st, f, q, t, R[q], i)
HoldsIn(st, f, s, t, d) ==
  BeganIn(st, f, s, t, d.life, d.index) /\ NamesIn(st, f, t, d.R, d.index)
CallHoldsIn(st, f, s, c) ==
  /\ HoldsIn(st, f, s, c.tx, c.data)
  /\ c.op = "sum" => NamesIn(st, f, c.tx, c.Rs, c.data.index)

\* What st and f say, su and g say.
Known(st, f, su, g) ==
  /\ \A q \in Servers, u \in Txs, m \in Lives : \A k :
       BeganIn(st, f, q, u, m, k) => BeganIn(su, g, q, u, m, k)
  /\ \A u \in Txs, R \in Sums : \A k :
       NamesIn(st, f, u, R, k) => NamesIn(su, g, u, R, k)
  /\ \A q \in Servers, u \in Txs, e \in Records :
       HoldsIn(st, f, q, u, e) => HoldsIn(su, g, q, u, e)

\* n, the next life of s and t, gets the index i.
Adds(st, f, su, g, s, t, n, i) ==
  /\ n = st[s][t] + 1 /\ su[s][t] = n /\ g[s][t][n] = i
  /\ \A q \in Servers, u \in Txs : q # s \/ u # t => su[q][u] = st[q][u]
  /\ \A q \in Servers, u \in Txs, m \in Lives :
       (q # s \/ u # t \/ m # n) => g[q][u][m] = f[q][u][m]

\* When n, the next life of s and t, gets the index i, what is known stays so.
LEMMA LifeAdded ==
  ASSUME ConstantsOK, NEW f \in IndexFunctions, NEW g, NEW st, NEW su,
         NEW s \in Servers, NEW t \in Txs, NEW n \in Lives, NEW i \in Indices,
         st \in [Servers -> [Txs -> Nat]], Adds(st, f, su, g, s, t, n, i)
  PROVE  Known(st, f, su, g) /\ BeganIn(su, g, s, t, n, i)
<1>1. st[s][t] \in Nat /\ n \in Nat /\ \A m \in Lives : m \in Nat
  BY Constants
<1>2. BeganIn(su, g, s, t, n, i)
  BY <1>1 DEF BeganIn, Adds
<1>3. ASSUME NEW q \in Servers, NEW u \in Txs, NEW m \in Lives, NEW k,
             BeganIn(st, f, q, u, m, k)
      PROVE  BeganIn(su, g, q, u, m, k)
  <2>1. m <= st[q][u] /\ f[q][u][m] = k
    BY <1>3 DEF BeganIn, Adds
  <2>2. CASE q = s /\ u = t
    <3>1. m # n /\ m <= n
      BY <1>1, <2>1, <2>2 DEF Adds
    <3> QED
      BY <2>1, <2>2, <3>1 DEF BeganIn, Adds
  <2>3. CASE q # s \/ u # t
    BY <2>1, <2>3 DEF BeganIn, Adds
  <2> QED
    BY <2>2, <2>3
<1>4. ASSUME NEW u \in Txs, NEW R \in Sums, NEW k, NamesIn(st, f, u, R, k)
      PROVE  NamesIn(su, g, u, R, k)
  BY <1>3, <1>4, SumDomain DEF NamesIn
<1>5. ASSUME NEW q \in Servers, NEW u \in Txs, NEW e \in Records,
             HoldsIn(st, f, q, u, e)
      PROVE  HoldsIn(su, g, q, u, e)
  BY <1>3, <1>4, <1>5, RecordFields DEF HoldsIn
<1> QED
  BY <1>2, <1>3, <1>4, <1>5 DEF Known

\* The life of a server that begins gets an index no other has a say in.
LEMMA EddsaSignOfflineIndex ==
  ASSUME TypeInv, NEW f \in IndexFunctions, IndicesBy(f), NEW s \in Servers,
         NEW t \in Txs, NEW i \in Indices, EddsaSignOffline(s, t, i)
  PROVE  IndexOfLife'
<1>1. /\ starts[s][t] < MaxStarts
      /\ UNCHANGED <<call, bound, uses>>
  BY DEF EddsaSignOffline
<1>2. starts[s][t] + 1 \in Lives
  BY <1>1, Stored, Constants DEF Lives, TypeInv, TypeOK
<1>3. PICK n \in Lives : n = starts[s][t] + 1
  BY <1>2
<1>4. PICK d : /\ d = [life |-> n, index |-> i, R |-> OwnR(s, n), client |-> FALSE]
               /\ starts' = [starts EXCEPT ![s][t] = n]
               /\ data' = [data EXCEPT ![s][t] = d]
  BY <1>3 DEF EddsaSignOffline
<1>5. d \in Records /\ d.life = n /\ d.index = i /\ d.R = OwnR(s, n)
  BY <1>4, SumTypes DEF Records
<1>6. data'[s][t] = d
      /\ \A q \in Servers, u \in Txs : q # s \/ u # t => data'[q][u] = data[q][u]
  <2>1. data' = [data EXCEPT ![s][t] = d]
    BY <1>4
  <2>2. data \in [Servers -> [Txs -> Records \cup {Absent}]]
    BY DEF TypeInv, TypeOK
  <2> QED
    BY <2>1, <2>2
<1>7. PICK g \in {[f EXCEPT ![s][t][n] = i]} : g = [f EXCEPT ![s][t][n] = i]
  OBVIOUS
<1>8. ConstantsOK /\ starts \in [Servers -> [Txs -> Nat]]
  BY Constants DEF TypeInv, TypeOK
<1>9. /\ g \in IndexFunctions /\ g[s][t][n] = i
       /\ \A q \in Servers, u \in Txs, m \in Lives :
            (q # s \/ u # t \/ m # n) => g[q][u][m] = f[q][u][m]
  BY <1>7 DEF IndexFunctions
<1>10. /\ starts'[s][t] = n
       /\ \A q \in Servers, u \in Txs : q # s \/ u # t => starts'[q][u] = starts[q][u]
  <2>1. starts' = [starts EXCEPT ![s][t] = n]
    BY <1>4
  <2> QED
    BY <1>8, <2>1
<1>11. Known(starts, f, starts', g) /\ BeganIn(starts', g, s, t, n, i)
  <2>1. Adds(starts, f, starts', g, s, t, n, i)
    BY <1>3, <1>9, <1>10 DEF Adds
  <2> QED
    BY <1>8, <2>1, LifeAdded
<1>12. HoldsIn(starts', g, s, t, d)
  <2>1. NamesIn(starts', g, t, OwnR(s, n), i)
    BY <1>11 DEF NamesIn, OwnR
  <2>2. BeganIn(starts', g, s, t, d.life, d.index) /\ NamesIn(starts', g, t, d.R, d.index)
    BY <1>5, <1>11, <2>1
  <2> QED
    BY <2>2 DEF HoldsIn
<1>13. ASSUME NEW q \in Servers
       PROVE  /\ \A u \in Txs : data'[q][u] # Absent => HoldsIn(starts', g, q, u, data'[q][u])
              /\ \A w \in Workers :
                   call'[q][w].op \in OnRecord => CallHoldsIn(starts', g, q, call'[q][w])
              /\ \A b \in bound'[q] : BeganIn(starts', g, q, b.tx, b.life, b.index)
              /\ \A u \in uses'[q] :
                   /\ BeganIn(starts', g, q, u.tx, u.life, u.index - u.block + 1)
                   /\ NamesIn(starts', g, u.tx, u.R, u.index - u.block + 1)
  <2>1. /\ \A u \in Txs : data[q][u] # Absent => HoldsIn(starts, f, q, u, data[q][u])
        /\ \A w \in Workers :
             call[q][w].op \in OnRecord => CallHoldsIn(starts, f, q, call[q][w])
        /\ \A b \in bound[q] : BeganIn(starts, f, q, b.tx, b.life, b.index)
        /\ \A u \in uses[q] :
             /\ BeganIn(starts, f, q, u.tx, u.life, u.index - u.block + 1)
             /\ NamesIn(starts, f, u.tx, u.R, u.index - u.block + 1)
    BY DEF IndicesBy, CallHoldsIn, HoldsIn, NamesIn, BeganIn, CallHolds, Holds,
           Names, Began
  <2>2. \A u \in Txs : data'[q][u] # Absent => HoldsIn(starts', g, q, u, data'[q][u])
    BY <1>6, <1>11, <1>12, <2>1, Stored DEF Known
  <2>3. \A w \in Workers :
          call'[q][w].op \in OnRecord => CallHoldsIn(starts', g, q, call'[q][w])
    <3> SUFFICES ASSUME NEW w \in Workers, call[q][w].op \in OnRecord
                 PROVE  CallHoldsIn(starts', g, q, call[q][w])
      BY <1>1
    <3> DEFINE c == call[q][w]
    <3>1. c.tx \in Txs /\ c.data \in Records /\ (c.op = "sum" => c.Rs \in Sums)
      BY ServerCall, SumTypes
    <3>2. CallHoldsIn(starts, f, q, c)
      BY <2>1
    <3> HIDE DEF c
    <3>3. HoldsIn(starts', g, q, c.tx, c.data)
      BY <1>11, <3>1, <3>2 DEF CallHoldsIn, Known
    <3>4. c.op = "sum" => NamesIn(starts', g, c.tx, c.Rs, c.data.index)
      BY <1>11, <3>1, <3>2 DEF CallHoldsIn, Known
    <3>5. CallHoldsIn(starts', g, q, c)
      BY <3>3, <3>4 DEF CallHoldsIn
    <3> QED
      BY <3>5 DEF c
  <2>4. \A b \in bound'[q] : BeganIn(starts', g, q, b.tx, b.life, b.index)
    <3>1. \A b \in bound[q] : b.tx \in Txs /\ b.life \in Lives
      BY DEF TypeInv, TypeOK
    <3> QED
      BY <1>1, <1>11, <2>1, <3>1 DEF Known
  <2>5. \A u \in uses'[q] :
          /\ BeganIn(starts', g, q, u.tx, u.life, u.index - u.block + 1)
          /\ NamesIn(starts', g, u.tx, u.R, u.index - u.block + 1)
    <3>1. \A u \in uses[q] : u.tx \in Txs /\ u.life \in Lives /\ u.R \in Sums
      BY DEF TypeInv, TypeOK
    <3> QED
      BY <1>1, <1>11, <2>1, <3>1 DEF Known
  <2> QED
    BY <2>2, <2>3, <2>4, <2>5
<1>14. IndicesBy(g)'
  BY <1>13 DEF IndicesBy, CallHoldsIn, HoldsIn, NamesIn, BeganIn, CallHolds, Holds,
               Names, Began
<1> QED
  BY <1>14, <1>9 DEF IndexOfLife, IndexFunctions

\* The Rs that arrive open commitments with the index of the own life.
LEMMA BroadcastRIndex ==
  ASSUME TypeInv, NEW f \in IndexFunctions, IndicesBy(f), NEW s \in Servers,
         NEW w \in Workers, NEW t \in Txs, NEW v \in Vectors, BroadcastR(s, w, t, v)
  PROVE  IndicesBy(f)'
<1> DEFINE d == data[s][t]
           c == [op |-> "sum", tx |-> t, data |-> d, Rs |-> v]
<1>1. /\ d # Absent
      /\ \A q \in Servers : Opened(q, t, v[q], d.index)
      /\ Enter(s, w, c)
      /\ UNCHANGED <<starts, data, bound, uses>>
  BY DEF BroadcastR, history
<1>2. Holds(f, s, t, d)
  BY <1>1 DEF IndicesBy
<1>3. c.op = "sum" /\ c.tx = t /\ c.data = d /\ c.Rs = v
  OBVIOUS
<1> HIDE DEF c
<1>4. Names(f, t, v, d.index)
  <2> SUFFICES ASSUME NEW q \in Servers
               PROVE  Began(f, q, t, v[q], d.index)
    BY DEF Names, Vectors
  <2>1. PICK b \in bound[q] : b.tx = t /\ b.life = v[q] /\ b.index = d.index
    BY <1>1 DEF Opened
  <2> QED
    BY <2>1 DEF IndicesBy
<1>5. CallHolds(f, s, c)
  BY <1>2, <1>3, <1>4 DEF CallHolds
<1> HIDE DEF d
<1> QED
  BY <1>1, <1>5, IndexCall

\* What is added up are those Rs.
LEMMA LoadCommitmentsIndex ==
  ASSUME TypeInv, NEW f \in IndexFunctions, IndicesBy(f), NEW s \in Servers,
         NEW w \in Workers, LoadCommitments(s, w)
  PROVE  IndicesBy(f)'
<1> DEFINE c == call[s][w]
           d == c.data
           v == c.Rs
           S == Sum(s, d, v)
           g(e) == [op |-> "forget", tx |-> c.tx, data |-> e]
<1>1. /\ c.op = "sum" /\ v \in Vectors
      /\ UNCHANGED <<starts, data, bound, uses>>
      /\ \/ Enter(s, w, Idle)
         \/ \E e \in Records :
              /\ e.life = d.life /\ e.index = d.index /\ e.R = S
              /\ Enter(s, w, g(e))
  BY LoadCommitmentsStep DEF history
<1>2. CallHolds(f, s, c)
  BY <1>1 DEF IndicesBy, OnRecord
<1>3. \A e : g(e).op = "forget" /\ g(e).tx = c.tx /\ g(e).data = e
  OBVIOUS
<1> HIDE DEF c, S, g
<1>4. Began(f, s, c.tx, d.life, d.index) /\ Names(f, c.tx, v, d.index)
  BY <1>1, <1>2 DEF CallHolds, Holds
<1>5. Names(f, c.tx, S, d.index)
  <2>1. CASE S = [v EXCEPT ![s] = d.life]
    <3>1. \A q \in DOMAIN S : q \in DOMAIN v /\ (S[q] = v[q] \/ (q = s /\ S[q] = d.life))
      BY <1>1, <2>1 DEF Vectors
    <3> QED
      BY <1>4, <3>1 DEF Names
  <2>2. CASE S = Twice(s)
    <3>1. \A q \in DOMAIN S : S[q] = 0
      BY <2>2 DEF Twice, OwnR
    <3>2. 0 \notin Lives
      BY Constants DEF TypeInv, TypeOK
    <3> QED
      BY <3>1, <3>2 DEF Names
  <2> QED
    BY <2>1, <2>2 DEF S, Sum
<1>6. CASE Enter(s, w, Idle)
  BY <1>1, <1>6, IdleCall, IndexCall
<1>7. ASSUME NEW e \in Records, e.life = d.life, e.index = d.index, e.R = S,
             Enter(s, w, g(e))
      PROVE  IndicesBy(f)'
  <2>1. CallHolds(f, s, g(e))
    BY <1>3, <1>4, <1>5, <1>7 DEF CallHolds, Holds
  <2> QED
    BY <1>1, <1>7, <2>1, IndexCall
<1> QED
  BY <1>1, <1>6, <1>7

LEMMA StoreCommitmentsIndex ==
  ASSUME TypeInv, NEW f \in IndexFunctions, IndicesBy(f), NEW s \in Servers,
         NEW w \in Workers, StoreCommitments(s, w)
  PROVE  IndicesBy(f)'
<1> DEFINE c == call[s][w]
           y == [tx |-> c.tx, life |-> c.data.life, index |-> c.data.index,
                 Rs |-> c.Rs]
<1>1. /\ c.op = "decommit" /\ Enter(s, w, Idle)
      /\ bound' = [bound EXCEPT ![s] = @ \cup {y}] \/ bound' = bound
      /\ UNCHANGED <<starts, data, uses>>
  BY DEF StoreCommitments, Return
<1>2. Holds(f, s, c.tx, c.data)
  BY <1>1 DEF IndicesBy, CallHolds, OnRecord
<1>3. Began(f, s, y.tx, y.life, y.index)
  BY <1>2 DEF Holds
<1> HIDE DEF y
<1>4. \A q \in Servers : \A b \in bound'[q] :
        b \in bound[q] \/ Began(f, q, b.tx, b.life, b.index)
  <2> DEFINE X == [tx : Txs, life : Lives, index : Indices, Rs : Vectors]
  <2>1. bound \in [Servers -> SUBSET X]
    BY DEF TypeInv, TypeOK
  <2> HIDE DEF X
  <2>2. \A q \in Servers : bound'[q] \subseteq bound[q] \cup (IF q = s THEN {y} ELSE {})
    BY <1>1, <2>1
  <2> QED
    BY <1>3, <2>2
<1>5. \A q \in Servers, v \in Workers :
        \/ call'[q][v] = call[q][v]
        \/ call'[q][v].op \in OnRecord => CallHolds(f, q, call'[q][v])
  BY <1>1, ServerEnters, IdleCall
<1> QED
  BY <1>1, <1>4, <1>5, IndexStep

\* The record of a call is stored, or removed.
LEMMA RecordIndex ==
  ASSUME TypeInv, NEW f \in IndexFunctions, IndicesBy(f), NEW s \in Servers,
         NEW w \in Workers, NEW c, Enter(s, w, c), c.op \notin OnRecord, NEW d,
         NEW t \in Txs, data' = [data EXCEPT ![s][t] = d],
         d # Absent => Holds(f, s, t, d), UNCHANGED <<starts, bound>>,
         \A q \in Servers : \A u \in uses'[q] :
           \/ u \in uses[q]
           \/ /\ Began(f, q, u.tx, u.life, u.index - u.block + 1)
              /\ Names(f, u.tx, u.R, u.index - u.block + 1)
  PROVE  IndicesBy(f)'
<1>1. \A q \in Servers, v \in Workers :
        \/ call'[q][v] = call[q][v]
        \/ call'[q][v].op \in OnRecord => CallHolds(f, q, call'[q][v])
  BY ServerEnters
<1>2. \A q \in Servers, u \in Txs :
        \/ data'[q][u] = data[q][u]
        \/ data'[q][u] # Absent => Holds(f, q, u, data'[q][u])
  <2>1. data \in [Servers -> [Txs -> Records \cup {Absent}]]
    BY DEF TypeInv, TypeOK
  <2>2. data'[s][t] = d
        /\ \A q \in Servers, u \in Txs : q # s \/ u # t => data'[q][u] = data[q][u]
    BY <2>1
  <2> QED
    BY <2>2
<1> QED
  BY <1>1, <1>2, IndexStep

LEMMA StoreAnsweredIndex ==
  ASSUME TypeInv, NEW f \in IndexFunctions, IndicesBy(f), NEW s \in Servers,
         NEW w \in Workers, StoreAnswered(s, w)
  PROVE  IndicesBy(f)'
<1> DEFINE c == call[s][w]
           e == [op |-> "extract", tx |-> c.tx]
<1>1. /\ c.op = "answer" /\ c.tx \in Txs /\ c.data \in Records
      /\ uses'[s] = uses[s] \cup Answers(c.data, c.tx)
      /\ \A q \in Servers \ {s} : uses'[q] = uses[q]
      /\ \A u \in Answers(c.data, c.tx) :
           /\ u.block \in 1 .. Blocks /\ u.index = c.data.index + u.block - 1
           /\ u.tx = c.tx /\ u.life = c.data.life /\ u.R = c.data.R
      /\ Enter(s, w, e) \/ Enter(s, w, Idle)
      /\ data' = [data EXCEPT ![s][c.tx] = Absent]
         \/ data' = [data EXCEPT ![s][c.tx] = c.data]
      /\ UNCHANGED <<starts, bound>>
  BY StoreAnsweredStep
<1>2. Holds(f, s, c.tx, c.data)
  BY <1>1 DEF IndicesBy, CallHolds, OnRecord
<1>3. e.op \notin OnRecord
  BY DEF OnRecord
<1> HIDE DEF c, e
<1>4. c.data.index \in Nat /\ 1 .. Blocks \subseteq Nat
  BY <1>1, RecordFields, Constants DEF TypeInv, TypeOK
<1>5. \A q \in Servers : \A u \in uses'[q] :
        \/ u \in uses[q]
        \/ /\ Began(f, q, u.tx, u.life, u.index - u.block + 1)
           /\ Names(f, u.tx, u.R, u.index - u.block + 1)
  <2>1. ASSUME NEW u \in Answers(c.data, c.tx)
        PROVE  /\ Began(f, s, u.tx, u.life, u.index - u.block + 1)
               /\ Names(f, u.tx, u.R, u.index - u.block + 1)
    <3>1. u.index - u.block + 1 = c.data.index
      <4>1. u.block \in Nat /\ u.index = c.data.index + u.block - 1
        BY <1>1, <1>4
      <4> QED
        BY <1>4, <4>1
    <3>2. u.tx = c.tx /\ u.life = c.data.life /\ u.R = c.data.R
      BY <1>1
    <3> QED
      BY <1>2, <3>1, <3>2 DEF Holds
  <2> QED
    BY <1>1, <2>1
<1>6. PICK g \in {e, Idle} : Enter(s, w, g)
  BY <1>1
<1>7. g.op \notin OnRecord
  BY <1>3, IdleCall
<1>8. PICK d \in {Absent, c.data} : data' = [data EXCEPT ![s][c.tx] = d]
  BY <1>1
<1> QED
  BY <1>1, <1>2, <1>5, <1>6, <1>7, <1>8, RecordIndex

LEMMA NextIndex == TypeInv /\ IndexOfLife /\ [Next]_vars => IndexOfLife'
<1> SUFFICES ASSUME TypeInv, IndexOfLife, [Next]_vars
             PROVE  IndexOfLife'
  OBVIOUS
<1>1. PICK f \in IndexFunctions : IndicesBy(f)
  BY DEF IndexOfLife, IndexFunctions
<1>2. IndicesBy(f)' => IndexOfLife'
  BY DEF IndexOfLife, IndexFunctions
<1>3. CASE UNCHANGED vars
  BY <1>1, <1>2, <1>3, IndexStep DEF vars
<1>4. CASE StartSignaturePreprocessing
  BY <1>1, <1>2, <1>4, IndexStep DEF StartSignaturePreprocessing, Prepare, history
<1>5. ASSUME NEW c, NEW w \in Workers, Enter(Client, w, c),
             UNCHANGED <<starts, data, bound, uses>>
      PROVE  IndexOfLife'
  <2>1. \A q \in Servers : call'[q] = call[q]
    <3>1. Client \notin Servers /\ Servers \subseteq Actors
      BY Constants DEF TypeInv, TypeOK
    <3> QED
      BY <1>5, <3>1 DEF TypeInv, TypeOK, Enter
  <2> QED
    BY <1>1, <1>2, <1>5, <2>1, IndexStep
<1>6. ASSUME NEW w \in Workers, NEW t \in Txs, NEW i \in Indices, NEW R \in Sums,
             ClientSignOffline(w, t, i, R)
      PROVE  IndexOfLife'
  BY <1>5, <1>6 DEF ClientSignOffline, history
<1>7. ASSUME NEW w \in Workers, ConsumeK(w)
      PROVE  IndexOfLife'
  <2>1. \E c : Enter(Client, w, c)
    BY <1>7 DEF ConsumeK, Return
  <2>2. UNCHANGED <<starts, data, bound, uses>>
    BY <1>7 DEF ConsumeK
  <2> QED
    BY <1>5, <2>1, <2>2
<1>8. ASSUME NEW s \in Servers, StorePresigningData(s)
      PROVE  IndexOfLife'
  BY <1>1, <1>2, <1>8, IndexStep DEF StorePresigningData, Prepare, history
<1>9. ASSUME NEW s \in Servers, NEW t \in Txs, NEW i \in Indices,
             EddsaSignOffline(s, t, i)
      PROVE  IndexOfLife'
  BY <1>1, <1>9, EddsaSignOfflineIndex
<1>10. ASSUME NEW s \in Servers, NEW w \in Workers, NEW c, Enter(s, w, c),
              c.op \in OnRecord => CallHolds(f, s, c),
              UNCHANGED <<starts, data, bound, uses>>
       PROVE  IndexOfLife'
  BY <1>1, <1>2, <1>10, IndexCall
<1>11. ASSUME NEW s \in Servers, NEW w \in Workers, NEW t \in Txs, NEW v \in Vectors,
              DecommitR(s, w, t, v)
       PROVE  IndexOfLife'
  <2> DEFINE e == [op |-> "decommit", tx |-> t, data |-> data[s][t], Rs |-> v]
  <2>1. /\ Enter(s, w, e) /\ data[s][t] # Absent
        /\ UNCHANGED <<starts, data, bound, uses>>
    BY <1>11 DEF DecommitR, history
  <2>2. Holds(f, s, t, data[s][t])
    BY <1>1, <2>1 DEF IndicesBy
  <2>3. e.tx = t /\ e.data = data[s][t] /\ e.op # "sum"
    OBVIOUS
  <2> HIDE DEF e
  <2> QED
    BY <1>10, <2>1, <2>2, <2>3 DEF CallHolds
<1>12. ASSUME NEW s \in Servers, NEW w \in Workers, NEW t \in Txs, NEW v \in Vectors,
              BroadcastR(s, w, t, v)
       PROVE  IndexOfLife'
  BY <1>1, <1>2, <1>12, BroadcastRIndex
<1>13. ASSUME NEW s \in Servers, NEW w \in Workers, NEW t \in Txs, NEW i \in Indices,
              NEW R \in Sums, BroadcastSi(s, w, t, i, R)
       PROVE  IndexOfLife'
  <2> DEFINE e == [op |-> "consume", tx |-> t, data |-> data[s][t], from |-> i,
                   R |-> R, block |-> 1]
  <2>1. /\ Enter(s, w, e) /\ data[s][t] # Absent
        /\ UNCHANGED <<starts, data, bound, uses>>
    BY <1>13 DEF BroadcastSi, history
  <2>2. Holds(f, s, t, data[s][t])
    BY <1>1, <2>1 DEF IndicesBy
  <2>3. e.tx = t /\ e.data = data[s][t] /\ e.op # "sum"
    OBVIOUS
  <2> HIDE DEF e
  <2> QED
    BY <1>10, <2>1, <2>2, <2>3 DEF CallHolds
<1>14. ASSUME NEW s \in Servers, NEW w \in Workers, NEW t \in Txs,
              GetEddsaSignature(s, w, t) \/ CancelSigning(s, w, t)
       PROVE  IndexOfLife'
  <2>1. PICK c \in {[op |-> "delete", tx |-> t, life |-> data[s][t].life],
                    [op |-> "drop", tx |-> t]} : Enter(s, w, c)
    BY <1>14 DEF GetEddsaSignature, CancelSigning
  <2>2. c.op \notin OnRecord
    BY DEF OnRecord
  <2>3. UNCHANGED <<starts, data, bound, uses>>
    BY <1>14 DEF GetEddsaSignature, CancelSigning, history
  <2> QED
    BY <1>10, <2>1, <2>2, <2>3
<1>15. ASSUME NEW s \in Servers, NEW w \in Workers, StoreCommitments(s, w)
       PROVE  IndexOfLife'
  BY <1>1, <1>2, <1>15, StoreCommitmentsIndex
<1>23. ASSUME NEW s \in Servers, NEW w \in Workers, LoadCommitments(s, w)
       PROVE  IndexOfLife'
  BY <1>1, <1>2, <1>23, LoadCommitmentsIndex
<1>16. ASSUME NEW s \in Servers, NEW w \in Workers, DeleteCommitments(s, w)
       PROVE  IndexOfLife'
  <2> DEFINE c == call[s][w]
             e == [c EXCEPT !.op = "fix"]
  <2>1. c.op = "forget" /\ Enter(s, w, e) /\ UNCHANGED <<starts, data, bound, uses>>
    BY <1>16 DEF DeleteCommitments, history
  <2>2. c \in [op : {"forget", "fix", "answer"}, tx : Txs, data : Records]
    BY <2>1, ServerCall
  <2>3. e.tx = c.tx /\ e.data = c.data /\ e.op # "sum"
    BY <2>2
  <2>4. Holds(f, s, c.tx, c.data)
    BY <1>1, <2>1 DEF IndicesBy, CallHolds, OnRecord
  <2> HIDE DEF e, c
  <2> QED
    BY <1>10, <2>1, <2>3, <2>4 DEF CallHolds
<1>17. ASSUME NEW s \in Servers, NEW w \in Workers, StoreSum(s, w)
       PROVE  IndexOfLife'
  <2> DEFINE c == call[s][w]
  <2>1. /\ c.op = "fix" /\ Enter(s, w, Idle)
        /\ data' = [data EXCEPT ![s][c.tx] = c.data]
        /\ UNCHANGED <<starts, bound, uses>>
    BY <1>17 DEF StoreSum, Return
  <2>2. c.tx \in Txs /\ Holds(f, s, c.tx, c.data)
    BY <1>1, <2>1, ServerCall DEF IndicesBy, CallHolds, OnRecord
  <2> HIDE DEF c
  <2> QED
    BY <1>1, <1>2, <2>1, <2>2, IdleCall, RecordIndex
<1>18. ASSUME NEW s \in Servers, NEW w \in Workers, ConsumeCommitment(s, w)
       PROVE  IndexOfLife'
  <2> DEFINE c == call[s][w]
             d == [c.data EXCEPT !.client = TRUE]
             e == [c EXCEPT !.block = @ + 1]
             g == [op |-> "answer", tx |-> c.tx, data |-> d]
  <2>1. /\ c.op = "consume" /\ c.data \in Records
        /\ UNCHANGED <<starts, data, commitments, timing, history>>
        /\ Enter(s, w, e) \/ Enter(s, w, g) \/ Enter(s, w, Idle)
    BY <1>18, ConsumeCommitmentStep
  <2>2. Holds(f, s, c.tx, c.data)
    BY <1>1, <2>1 DEF IndicesBy, CallHolds, OnRecord
  <2>3. e.tx = c.tx /\ e.data = c.data /\ e.op # "sum"
    <3>1. c \in [op : {"consume"}, tx : Txs, data : Records, from : Indices,
                 R : Sums, block : 1 .. Blocks]
      BY <2>1, ServerCall DEF OnRecord
    <3> QED
      BY <2>1, <3>1
  <2>4. d.life = c.data.life /\ d.index = c.data.index /\ d.R = c.data.R
    BY <2>1 DEF Records
  <2>5. g.tx = c.tx /\ g.data = d /\ g.op # "sum"
    OBVIOUS
  <2> HIDE DEF c, d, e, g
  <2>6. Holds(f, s, c.tx, d)
    BY <2>2, <2>4 DEF Holds
  <2>7. UNCHANGED <<starts, data, bound, uses>>
    BY <2>1 DEF history
  <2> QED
    BY <1>10, <2>1, <2>2, <2>3, <2>5, <2>6, <2>7, IdleCall DEF CallHolds
<1>19. ASSUME NEW s \in Servers, NEW w \in Workers, StoreAnswered(s, w)
       PROVE  IndexOfLife'
  BY <1>1, <1>2, <1>19, StoreAnsweredIndex
<1>20. ASSUME NEW s \in Servers, NEW w \in Workers,
              DeleteSigningData(s, w) \/ CancelData(s, w)
       PROVE  IndexOfLife'
  <2> DEFINE t == call[s][w].tx
  <2>1. PICK c \in {[op |-> "extract", tx |-> t], Idle} : Enter(s, w, c)
    BY <1>20 DEF DeleteSigningData, CancelData, Return
  <2>2. c.op \notin OnRecord
    BY IdleCall DEF OnRecord
  <2>3. t \in Txs
    BY <1>20, ServerCall DEF DeleteSigningData, CancelData
  <2>4. /\ data' = [data EXCEPT ![s][t] = Absent]
        /\ UNCHANGED <<starts, bound, uses>>
    BY <1>20 DEF DeleteSigningData, CancelData, history
  <2> HIDE DEF t
  <2> QED
    BY <1>1, <1>2, <2>1, <2>2, <2>3, <2>4, RecordIndex
<1>21. ASSUME NEW s \in Servers, NEW w \in Workers, Extract(s, w)
       PROVE  IndexOfLife'
  <2>1. Enter(s, w, Idle) /\ UNCHANGED <<starts, data, bound, uses>>
    BY <1>21 DEF Extract, Return, history
  <2> QED
    BY <1>10, <2>1, IdleCall
<1>22. ASSUME NEW a \in Actors, NEW w \in Workers, Interrupt(a, w)
       PROVE  IndexOfLife'
  <2>1. Enter(a, w, Idle) /\ UNCHANGED <<starts, data, bound, uses>>
    BY <1>22 DEF Interrupt, Return, history
  <2> QED
    BY <1>5, <1>10, <2>1, IdleCall DEF Actors
<1> QED
  BY <1>3, <1>4, <1>6, <1>7, <1>8, <1>9, <1>11, <1>12, <1>13, <1>14, <1>15, <1>16,
     <1>17, <1>18, <1>19, <1>20, <1>21, <1>22, <1>23
  DEF Next, Continue

\* All that holds however the threads of the players interleave.
NonceInv == TypeInv /\ TakenInv /\ IndexOfLife

LEMMA NonceInvHolds ==
  ASSUME ConstantsOK
  PROVE  Spec => []NonceInv
<1>1. Init => IndexOfLife
  <2> SUFFICES ASSUME Init
               PROVE  IndexOfLife
    OBVIOUS
  <2> DEFINE f == [s \in Servers |-> [t \in Txs |-> [n \in Lives |-> Absent]]]
  <2>1. f \in IndexFunctions
    BY DEF IndexFunctions
  <2>2. \A s \in Servers, w \in Workers : call[s][w].op \notin OnRecord
    BY IdleCall DEF Init, Actors
  <2> HIDE DEF f
  <2>3. IndicesBy(f)
    BY <2>2 DEF Init, IndicesBy
  <2> QED
    BY <2>1, <2>3 DEF IndexOfLife, IndexFunctions
<1>2. NonceInv /\ [Next]_vars => NonceInv'
  BY NextType, NextTaken, NextIndex DEF NonceInv
<1>3. Init => NonceInv
  <2>1. Init => TypeInv /\ TakenInv
    BY InitTaken
  <2> QED
    BY <1>1, <2>1 DEF NonceInv
<1> QED
  BY <1>2, <1>3, PTL DEF Spec

\* The answers of two servers that count each other's lives are to the same sum
\* and index, for any number of servers, transactions, blocks and threads and
\* wherever handlers stop: the lives of a sum have its index, and the client
\* answered one sum with the index.
THEOREM AnswersAreToOneSum ==
  ASSUME ConstantsOK
  PROVE  Spec => []AnswersAgree
<1>1. NonceInv => AnswersAgree
  <2> SUFFICES ASSUME NonceInv, NEW s \in Servers, NEW q \in Servers,
                      NEW u \in uses[s], NEW v \in uses[q],
                      u.tx = v.tx, u.block = v.block,
                      q \in DOMAIN u.R, u.R[q] = v.life
               PROVE  u.R = v.R /\ u.index = v.index
    BY DEF AnswersAgree
  <2>1. PICK f : IndicesBy(f)
    BY DEF NonceInv, IndexOfLife
  <2>2. /\ v.life \in Lives /\ u.index \in Nat /\ v.index \in Nat
        /\ u.block \in Nat /\ v.block \in Nat
    <3>1. /\ u \in [tx : Txs, life : Lives, block : 1 .. Blocks, R : Sums, index : Indices]
          /\ v \in [tx : Txs, life : Lives, block : 1 .. Blocks, R : Sums, index : Indices]
      BY DEF NonceInv, TypeInv, TypeOK
    <3> QED
      BY <3>1, Constants DEF NonceInv, TypeInv, TypeOK
  <2>3. Began(f, q, u.tx, u.R[q], u.index - u.block + 1)
    BY <2>1, <2>2 DEF IndicesBy, Names
  <2>4. Began(f, q, v.tx, v.life, v.index - v.block + 1)
    BY <2>1 DEF IndicesBy
  <2>5. u.index - u.block + 1 = v.index - v.block + 1
    BY <2>3, <2>4 DEF Began
  <2>6. u.index = v.index
    BY <2>2, <2>5
  <2>7. /\ [tx |-> u.tx, index |-> u.index, block |-> u.block, R |-> u.R] \in answered
        /\ [tx |-> v.tx, index |-> v.index, block |-> v.block, R |-> v.R] \in answered
    BY DEF NonceInv, TypeInv, UsesAnswered
  <2>8. [tx |-> u.tx, index |-> u.index, block |-> u.block, R |-> u.R]
          = [tx |-> v.tx, index |-> v.index, block |-> v.block, R |-> v.R]
    BY <2>6, <2>7 DEF NonceInv, TakenInv, ClientKAnswersOnce
  <2>9. u.R = v.R
    BY <2>8
  <2> QED
    BY <2>6, <2>9
<1> QED
  BY <1>1, NonceInvHolds, PTL

\* The life and its index are used together, and the commitment of the index is
\* gone.
LEMMA ServerKAnswers ==
  ASSUME NonceInv, Blocks = 1
  PROVE  ServerKAnswersOnce
<1> SUFFICES ASSUME NEW s \in Servers, NEW u \in uses[s], NEW v \in uses[s],
                    \/ u.tx = v.tx /\ K(u.life, u.block) = K(v.life, v.block)
                    \/ u.index = v.index
             PROVE  u = v
  BY DEF ServerKAnswersOnce
<1>1. PICK f : IndicesBy(f)
  BY DEF NonceInv, IndexOfLife
<1>2. /\ u.index \in Nat /\ v.index \in Nat /\ u.block = 1 /\ v.block = 1
  <2>1. /\ u \in [tx : Txs, life : Lives, block : 1 .. Blocks, R : Sums, index : Indices]
        /\ v \in [tx : Txs, life : Lives, block : 1 .. Blocks, R : Sums, index : Indices]
    BY DEF NonceInv, TypeInv, TypeOK
  <2>2. u.index \in Nat /\ v.index \in Nat
    BY <2>1, Constants DEF NonceInv, TypeInv, TypeOK
  <2>3. u.block \in 1 .. 1 /\ v.block \in 1 .. 1
    BY <2>1
  <2> QED
    BY <2>2, <2>3
<1>3. CASE u.tx = v.tx /\ K(u.life, u.block) = K(v.life, v.block)
  <2>1. u.life = v.life
    BY <1>3 DEF K
  <2>2. /\ Began(f, s, u.tx, u.life, u.index - u.block + 1)
        /\ Began(f, s, v.tx, v.life, v.index - v.block + 1)
    BY <1>1 DEF IndicesBy
  <2>3. u.index - u.block + 1 = v.index - v.block + 1
    BY <1>3, <2>1, <2>2 DEF Began
  <2>4. u.index = v.index
    BY <1>2, <2>3
  <2> QED
    BY <2>4 DEF NonceInv, TakenInv, ServerIndexOnce
<1>4. CASE u.index = v.index
  BY <1>4 DEF NonceInv, TakenInv, ServerIndexOnce
<1> QED
  BY <1>3, <1>4

\* The k the client drew for an index answers one challenge, and where every
\* transaction has one block a k of a server does, and a client's R is used once:
\* for any number of transactions, threads and servers, although a k is loaded in
\* a step of its own and another transaction may be given the index meanwhile.
THEOREM EachKAnswersOnce ==
  ASSUME ConstantsOK
  PROVE  Spec => []NoncesAnswerOnce
<1>1. NonceInv => NoncesAnswerOnce
  BY ServerKAnswers DEF NonceInv, TakenInv, NoncesAnswerOnce
<1> QED
  BY <1>1, NonceInvHolds, PTL
-----------------------------------------------------------------------------
(* When handlers do not interleave                                          *)

LEMMA OneHandlerStep ==
  ASSUME TypeInv, OneHandler, NEW a \in Actors, NEW w \in Workers, NEW c,
         Enter(a, w, c),
         call[a][w].op # "idle" \/ \A v \in Workers : call[a][v].op = "idle"
  PROVE  OneHandler'
<1>1. /\ \A v \in Workers : v # w => call'[a][v] = call[a][v]
      /\ \A b \in Actors \ {a} : call'[b] = call[b]
  BY DEF TypeInv, TypeOK, Enter
<1>2. \A v \in Workers : v # w => call'[a][v].op = "idle"
  BY <1>1 DEF OneHandler
<1>3. \A b \in Actors : OneHandler!(b)'
  BY <1>1, <1>2 DEF OneHandler
<1> QED
  BY <1>3 DEF OneHandler

\* A handler is entered where none runs, and only a handler that runs goes on.
LEMMA OneHandlerMoves ==
  ASSUME TypeInv, OneHandler, Serial, [Next]_vars
  PROVE  OneHandler'
<1>1. ASSUME NEW a \in Actors, NEW w \in Workers, NEW c, Enter(a, w, c),
             MayEnter(a, w) \/ call[a][w].op # "idle"
      PROVE  OneHandler'
  BY <1>1, OneHandlerStep DEF MayEnter
<1>2. Client \in Actors /\ Servers \subseteq Actors
  BY DEF Actors
<1>3. CASE UNCHANGED vars \/ StartSignaturePreprocessing
  BY <1>3 DEF vars, StartSignaturePreprocessing, Prepare, OneHandler
<1>4. ASSUME NEW w \in Workers, NEW t \in Txs, NEW i \in Indices, NEW R \in Sums,
             ClientSignOffline(w, t, i, R)
      PROVE  OneHandler'
  BY <1>1, <1>2, <1>4 DEF ClientSignOffline
<1>5. ASSUME NEW w \in Workers, ConsumeK(w)
      PROVE  OneHandler'
  <2>1. \E c : Enter(Client, w, c)
    BY <1>5 DEF ConsumeK, Return
  <2>2. call[Client][w].op # "idle"
    BY <1>5 DEF ConsumeK
  <2> QED
    BY <1>1, <1>2, <2>1, <2>2
<1>6. ASSUME NEW s \in Servers,
             StorePresigningData(s) \/ \E t \in Txs, i \in Indices : EddsaSignOffline(s, t, i)
      PROVE  OneHandler'
  BY <1>6 DEF StorePresigningData, Prepare, EddsaSignOffline, OneHandler
<1>7. ASSUME NEW s \in Servers, NEW w \in Workers, NEW t \in Txs,
             \/ \E v \in Vectors : DecommitR(s, w, t, v) \/ BroadcastR(s, w, t, v)
             \/ \E i \in Indices, R \in Sums : BroadcastSi(s, w, t, i, R)
             \/ GetEddsaSignature(s, w, t) \/ CancelSigning(s, w, t)
      PROVE  OneHandler'
  <2>1. MayEnter(s, w) /\ \E c : Enter(s, w, c)
    BY <1>7 DEF DecommitR, BroadcastR, BroadcastSi, GetEddsaSignature, CancelSigning
  <2> QED
    BY <1>1, <1>2, <2>1
<1>8. ASSUME NEW s \in Servers, NEW w \in Workers, Continue(s, w)
      PROVE  OneHandler'
  <2>1. call[s][w].op # "idle"
    BY <1>8 DEF Continue, StoreCommitments, LoadCommitments, DeleteCommitments, StoreSum,
       ConsumeCommitment, StoreAnswered, DeleteSigningData, Extract, CancelData
  <2>2. \E c : Enter(s, w, c)
    BY <1>8 DEF Continue, StoreCommitments, LoadCommitments, DeleteCommitments, StoreSum,
       ConsumeCommitment, StoreAnswered, DeleteSigningData, Extract, CancelData, Return
  <2> QED
    BY <1>1, <1>2, <2>1, <2>2
<1>9. ASSUME NEW a \in Actors, NEW w \in Workers, Interrupt(a, w)
      PROVE  OneHandler'
  <2>1. call[a][w].op # "idle"
    <3>1. "idle" \notin Interrupts
      BY DEF TypeInv, TypeOK, ConstantsOK
    <3> QED
      BY <1>9, <3>1 DEF Interrupt
  <2> QED
    BY <1>1, <1>9, <2>1 DEF Interrupt, Return
<1> QED
  BY <1>3, <1>4, <1>5, <1>6, <1>7, <1>8, <1>9 DEF Next

\* What LoadedIsCurrent, CommitmentsOfLife and RecordOfLife say of a server with
\* the records dt, commitments cm and bound commitments bd.
LoadedAs(dt, c) ==
  c.op \in OnRecord =>
    /\ dt[c.tx] # Absent /\ c.data.life = dt[c.tx].life
    /\ c.op \in {"decommit", "sum", "consume", "answer"} => c.data.R = dt[c.tx].R

BindsIn(bd, t, n, v) == \E b \in bd : b.tx = t /\ b.life = n /\ b.Rs = v

CommittedAs(s, cm, bd, c) ==
  /\ c.op = "decommit" =>
       ~Pair /\ c.data.R = OwnR(s, c.data.life) /\ c.Rs[s] = c.data.life
  /\ c.op \in {"forget", "fix"} =>
       ~Pair /\ c.data.R \in Vectors /\ BindsIn(bd, c.tx, c.data.life, c.data.R)
  /\ c.op = "consume" => c.R \in Vectors
  /\ c.op = "answer" => c.data.R \in Vectors
  /\ c.op \in {"fix", "delete", "drop"} => cm[c.tx] = Absent

RecordAs(s, dt, cm, bd, t) ==
  /\ dt[t] # Absent =>
       \/ dt[t].R = OwnR(s, dt[t].life)
       \/ dt[t].R \in Vectors /\ (Pair \/ BindsIn(bd, t, dt[t].life, dt[t].R))
  /\ cm[t] # Absent =>
       /\ ~Pair /\ dt[t] # Absent
       /\ dt[t].R = OwnR(s, dt[t].life)
       /\ cm[t][s] = dt[t].life
       /\ BindsIn(bd, t, dt[t].life, cm[t])

RecordInv ==
  \A s \in Servers :
    /\ \A w \in Workers :
         LoadedAs(data[s], call[s][w]) /\ CommittedAs(s, commitments[s], bound[s], call[s][w])
    /\ \A t \in Txs : RecordAs(s, data[s], commitments[s], bound[s], t)

LEMMA RecordParts ==
  RecordInv <=> LoadedIsCurrent /\ RecordOfLife /\ CommitmentsOfLife
<1>1. \A s \in Servers : \A t, n, v : Binds(s, t, n, v) <=> BindsIn(bound[s], t, n, v)
  BY DEF Binds, BindsIn
<1>2. LoadedIsCurrent <=> \A s \in Servers, w \in Workers : LoadedAs(data[s], call[s][w])
  BY DEF LoadedIsCurrent, LoadedAs
<1>3. CommitmentsOfLife <=> \A s \in Servers, w \in Workers :
        CommittedAs(s, commitments[s], bound[s], call[s][w])
  BY <1>1 DEF CommitmentsOfLife, CommittedAs
<1>4. RecordOfLife <=> \A s \in Servers, t \in Txs :
        RecordAs(s, data[s], commitments[s], bound[s], t)
  BY <1>1 DEF RecordOfLife, RecordAs, HeldSum
<1> QED
  BY <1>2, <1>3, <1>4 DEF RecordInv

\* A sum of all Rs is an own one in a pair only.
LEMMA PairSums ==
  ASSUME ConstantsOK, NEW s \in Servers
  PROVE  /\ Pair => \A n \in Lives : OwnR(s, n) \in Vectors
         /\ ~Pair => \A n : OwnR(s, n) \notin Vectors
         /\ ~Pair => \A n : DOMAIN OwnR(s, n) # Servers
<1>1. Pair <=> Servers = {s}
  <2>1. IsFiniteSet(Servers)
    BY DEF ConstantsOK
  <2> QED
    BY <2>1, FS_Singleton DEF Pair
<1>2. \A n : DOMAIN OwnR(s, n) = {s}
  BY DEF OwnR
<1>3. \A v \in Vectors : DOMAIN v = Servers
  BY DEF Vectors
<1> QED
  BY <1>1, <1>2, <1>3 DEF OwnR, Vectors

LEMMA OwnRInjective ==
  ASSUME NEW s, NEW m, NEW n, OwnR(s, m) = OwnR(s, n)
  PROVE  m = n
<1>1. OwnR(s, m)[s] = m /\ OwnR(s, n)[s] = n
  BY DEF OwnR
<1> QED
  BY <1>1

\* A worker w of s enters c while no other is in a handler of s.
LEMMA RecordStep ==
  ASSUME TypeInv, OneHandler, RecordInv, NEW s \in Servers, NEW w \in Workers, NEW c,
         Enter(s, w, c),
         call[s][w].op # "idle" \/ \A v \in Workers : call[s][v].op = "idle",
         \A q \in Servers \ {s} :
           data'[q] = data[q] /\ commitments'[q] = commitments[q] /\ bound'[q] = bound[q],
         LoadedAs(data'[s], c), CommittedAs(s, commitments'[s], bound'[s], c),
         \A t \in Txs : RecordAs(s, data'[s], commitments'[s], bound'[s], t)
  PROVE  RecordInv'
<1>1. /\ call'[s][w] = c
      /\ \A q \in Servers, v \in Workers : q # s \/ v # w => call'[q][v] = call[q][v]
  BY ServerEnters
<1>2. \A v \in Workers : v # w => call[s][v].op = "idle"
  BY DEF OneHandler, Actors
<1>3. ASSUME NEW q \in Servers
      PROVE  /\ \A v \in Workers :
                  /\ LoadedAs(data'[q], call'[q][v])
                  /\ CommittedAs(q, commitments'[q], bound'[q], call'[q][v])
             /\ \A t \in Txs : RecordAs(q, data'[q], commitments'[q], bound'[q], t)
  <2>1. CASE q # s
    <3>1. \A v \in Workers : call'[q][v] = call[q][v]
      BY <1>1, <2>1
    <3>2. data'[q] = data[q] /\ commitments'[q] = commitments[q] /\ bound'[q] = bound[q]
      BY <2>1
    <3> QED
      BY <3>1, <3>2 DEF RecordInv
  <2>2. CASE q = s
    <3>1. ASSUME NEW v \in Workers, v # w
          PROVE  /\ LoadedAs(data'[s], call'[s][v])
                 /\ CommittedAs(s, commitments'[s], bound'[s], call'[s][v])
      <4>1. call'[s][v].op = "idle"
        BY <1>1, <1>2, <3>1
      <4> QED
        BY <4>1 DEF LoadedAs, CommittedAs, OnRecord
    <3> QED
      BY <1>1, <2>2, <3>1
  <2> QED
    BY <2>1, <2>2
<1> QED
  BY <1>3 DEF RecordInv
\* A handler that writes nothing.
LEMMA RecordCall ==
  ASSUME TypeInv, OneHandler, RecordInv, NEW s \in Servers, NEW w \in Workers, NEW c,
         Enter(s, w, c),
         call[s][w].op # "idle" \/ \A v \in Workers : call[s][v].op = "idle",
         UNCHANGED <<data, commitments, bound>>,
         LoadedAs(data[s], c), CommittedAs(s, commitments[s], bound[s], c)
  PROVE  RecordInv'
<1>1. \A t \in Txs : RecordAs(s, data[s], commitments[s], bound[s], t)
  BY DEF RecordInv
<1>2. /\ data'[s] = data[s] /\ commitments'[s] = commitments[s] /\ bound'[s] = bound[s]
      /\ \A q \in Servers \ {s} :
           data'[q] = data[q] /\ commitments'[q] = commitments[q] /\ bound'[q] = bound[q]
  OBVIOUS
<1> QED
  BY <1>1, <1>2, RecordStep

LEMMA NoCall ==
  ASSUME NEW dt, NEW s, NEW cm, NEW bd, NEW c,
         c.op \notin OnRecord, c.op \in {"fix", "delete", "drop"} => cm[c.tx] = Absent
  PROVE  LoadedAs(dt, c) /\ CommittedAs(s, cm, bd, c)
BY DEF LoadedAs, CommittedAs, OnRecord

\* One record of s changes: what is said of the others does not.
LEMMA OtherRecords ==
  ASSUME RecordInv, NEW s \in Servers, NEW t \in Txs, bound[s] \subseteq bound'[s],
         \A u \in Txs : u # t =>
           data'[s][u] = data[s][u] /\ commitments'[s][u] = commitments[s][u],
         RecordAs(s, data'[s], commitments'[s], bound'[s], t)
  PROVE  \A u \in Txs : RecordAs(s, data'[s], commitments'[s], bound'[s], u)
<1> SUFFICES ASSUME NEW u \in Txs, u # t
             PROVE  RecordAs(s, data'[s], commitments'[s], bound'[s], u)
  OBVIOUS
<1>1. RecordAs(s, data[s], commitments[s], bound[s], u)
  BY DEF RecordInv
<1>2. data'[s][u] = data[s][u] /\ commitments'[s][u] = commitments[s][u]
  OBVIOUS
<1>3. \A n, v : BindsIn(bound[s], u, n, v) => BindsIn(bound'[s], u, n, v)
  BY DEF BindsIn
<1> QED
  BY <1>1, <1>2, <1>3 DEF RecordAs

\* What a handler knows of the record it loaded, when it is the only one.
LEMMA LoadedRecord ==
  ASSUME TypeInv, RecordInv, NEW s \in Servers, NEW w \in Workers,
         call[s][w].op \in OnRecord
  PROVE  LET c == call[s][w] IN
         /\ c.tx \in Txs /\ c.data \in Records /\ data[s][c.tx] # Absent
         /\ c.data.life = data[s][c.tx].life
         /\ c.op \in {"decommit", "sum", "consume", "answer"} => c.data.R = data[s][c.tx].R
         /\ RecordAs(s, data[s], commitments[s], bound[s], c.tx)
         /\ CommittedAs(s, commitments[s], bound[s], c)
BY ServerCall DEF RecordInv, LoadedAs

LEMMA EddsaSignOfflineRecord ==
  ASSUME TypeInv, OneHandler, RecordInv, Serial, NEW s \in Servers, NEW t \in Txs,
         NEW i \in Indices, EddsaSignOffline(s, t, i)
  PROVE  RecordInv'
<1>1. PICK d : /\ d.R = OwnR(s, d.life)
               /\ data' = [data EXCEPT ![s][t] = d]
  <2>1. LET n == starts[s][t] + 1
            d == [life |-> n, index |-> i, R |-> OwnR(s, n), client |-> FALSE]
        IN data' = [data EXCEPT ![s][t] = d]
    BY DEF EddsaSignOffline
  <2> QED
    BY <2>1
<1>2. /\ data[s][t] = Absent /\ \A v \in Workers : call[s][v].op = "idle"
      /\ UNCHANGED <<call, commitments, bound>>
  BY DEF EddsaSignOffline, MayEnter
<1>3. data'[s][t] = d
      /\ \A q \in Servers, u \in Txs : q # s \/ u # t => data'[q][u] = data[q][u]
  <2>1. data' = [data EXCEPT ![s][t] = d]
    BY <1>1
  <2>2. data \in [Servers -> [Txs -> Records \cup {Absent}]]
    BY DEF TypeInv, TypeOK
  <2> QED
    BY <2>1, <2>2
<1>4. commitments[s][t] = Absent
  BY <1>2 DEF RecordInv, RecordAs
<1>5. RecordAs(s, data'[s], commitments'[s], bound'[s], t)
  BY <1>1, <1>2, <1>3, <1>4 DEF RecordAs
<1>6. \A u \in Txs : RecordAs(s, data'[s], commitments'[s], bound'[s], u)
  BY <1>2, <1>3, <1>5, OtherRecords
<1>7. \A v \in Workers :
        LoadedAs(data'[s], call'[s][v])
        /\ CommittedAs(s, commitments'[s], bound'[s], call'[s][v])
  BY <1>2, NoCall DEF OnRecord
<1>8. \A q \in Servers : q # s => data'[q] = data[q]
  BY <1>1
<1> QED
  BY <1>2, <1>6, <1>7, <1>8 DEF RecordInv

LEMMA DecommitRRecord ==
  ASSUME TypeInv, OneHandler, RecordInv, Serial, NEW s \in Servers, NEW w \in Workers,
         NEW t \in Txs, NEW v \in Vectors, DecommitR(s, w, t, v)
  PROVE  RecordInv'
<1> DEFINE d == data[s][t]
           c == [op |-> "decommit", tx |-> t, data |-> d, Rs |-> v]
<1>1. /\ ~Pair /\ d # Absent /\ d.R = OwnR(s, v[s])
      /\ Enter(s, w, c) /\ UNCHANGED <<data, commitments, bound>>
      /\ \A u \in Workers : call[s][u].op = "idle"
  BY DEF DecommitR, OwnCommitment, MayEnter, history
<1>2. d.R \notin Vectors
  BY <1>1, PairSums DEF TypeInv, TypeOK
<1>3. d.R = OwnR(s, d.life)
  <2>1. RecordAs(s, data[s], commitments[s], bound[s], t)
    BY DEF RecordInv
  <2> QED
    BY <1>1, <1>2, <2>1 DEF RecordAs
<1>4. v[s] = d.life
  BY <1>1, <1>3, OwnRInjective
<1>5. c.op = "decommit" /\ c.tx = t /\ c.data = d /\ c.Rs = v
  OBVIOUS
<1> HIDE DEF c
<1>6. LoadedAs(data[s], c)
  BY <1>1, <1>5 DEF LoadedAs
<1>7. CommittedAs(s, commitments[s], bound[s], c)
  BY <1>1, <1>3, <1>4, <1>5 DEF CommittedAs
<1> QED
  BY <1>1, <1>6, <1>7, RecordCall

LEMMA StoreCommitmentsRecord ==
  ASSUME TypeInv, OneHandler, RecordInv, NEW s \in Servers, NEW w \in Workers,
         StoreCommitments(s, w)
  PROVE  RecordInv'
<1> DEFINE c == call[s][w]
           y == [tx |-> c.tx, life |-> c.data.life, index |-> c.data.index, Rs |-> c.Rs]
<1>1. /\ c.op = "decommit" /\ Enter(s, w, Idle) /\ UNCHANGED data
      /\ \/ /\ commitments' = [commitments EXCEPT ![s][c.tx] = c.Rs]
            /\ bound' = [bound EXCEPT ![s] = @ \cup {y}]
         \/ UNCHANGED <<commitments, bound>>
  BY DEF StoreCommitments, Return
<1>2. LoadedAs(data[s], Idle) /\ CommittedAs(s, commitments[s], bound[s], Idle)
      /\ LoadedAs(data'[s], Idle) /\ CommittedAs(s, commitments'[s], bound'[s], Idle)
  BY IdleCall, NoCall
<1>3. CASE UNCHANGED <<commitments, bound>>
  BY <1>1, <1>2, <1>3, RecordCall
<1>4. CASE /\ commitments' = [commitments EXCEPT ![s][c.tx] = c.Rs]
           /\ bound' = [bound EXCEPT ![s] = @ \cup {y}]
  <2>1. /\ c.tx \in Txs /\ data[s][c.tx] # Absent
        /\ c.data.life = data[s][c.tx].life /\ c.data.R = data[s][c.tx].R
        /\ ~Pair /\ c.data.R = OwnR(s, c.data.life) /\ c.Rs[s] = c.data.life
    BY <1>1, LoadedRecord DEF OnRecord, CommittedAs
  <2>2. /\ y \in bound'[s] /\ bound[s] \subseteq bound'[s]
        /\ \A q \in Servers \ {s} : bound'[q] = bound[q]
    <3> HIDE DEF y
    <3>1. bound \in [Servers -> SUBSET [tx : Txs, life : Lives, index : Indices,
                                        Rs : Vectors]]
      BY DEF TypeInv, TypeOK
    <3> QED
      BY <1>4, <3>1
  <2>3. y.tx = c.tx /\ y.life = c.data.life /\ y.Rs = c.Rs
    OBVIOUS
  <2> HIDE DEF y, c
  <2>4. commitments'[s][c.tx] = c.Rs
        /\ \A q \in Servers, u \in Txs :
             q # s \/ u # c.tx => commitments'[q][u] = commitments[q][u]
    <3>1. commitments' = [commitments EXCEPT ![s][c.tx] = c.Rs]
      BY <1>4
    <3>2. commitments \in [Servers -> [Txs -> Vectors \cup {Absent}]]
      BY DEF TypeInv, TypeOK
    <3> QED
      BY <2>1, <3>1, <3>2
  <2>5. BindsIn(bound'[s], c.tx, data[s][c.tx].life, c.Rs)
    BY <2>1, <2>2, <2>3 DEF BindsIn
  <2>6. RecordAs(s, data'[s], commitments'[s], bound'[s], c.tx)
    BY <1>1, <2>1, <2>4, <2>5 DEF RecordAs
  <2>7. \A u \in Txs : RecordAs(s, data'[s], commitments'[s], bound'[s], u)
    BY <1>1, <2>1, <2>2, <2>4, <2>6, OtherRecords
  <2>8. \A q \in Servers \ {s} : commitments'[q] = commitments[q]
    BY <1>4
  <2>9. call[s][w].op # "idle"
    BY <1>1 DEF c
  <2> QED
    BY <1>1, <1>2, <2>2, <2>7, <2>8, <2>9, RecordStep
<1> QED
  BY <1>1, <1>3, <1>4

LEMMA BroadcastRRecord ==
  ASSUME TypeInv, OneHandler, RecordInv, Serial, NEW s \in Servers, NEW w \in Workers,
         NEW t \in Txs, NEW v \in Vectors, BroadcastR(s, w, t, v)
  PROVE  RecordInv'
<1> DEFINE c == [op |-> "sum", tx |-> t, data |-> data[s][t], Rs |-> v]
<1>1. /\ data[s][t] # Absent /\ Enter(s, w, c)
      /\ UNCHANGED <<data, commitments, bound>>
      /\ \A u \in Workers : call[s][u].op = "idle"
  BY DEF BroadcastR, MayEnter, history
<1>2. c.op = "sum" /\ c.tx = t /\ c.data = data[s][t]
  OBVIOUS
<1> HIDE DEF c
<1>3. LoadedAs(data[s], c) /\ CommittedAs(s, commitments[s], bound[s], c)
  BY <1>1, <1>2 DEF LoadedAs, CommittedAs
<1> QED
  BY <1>1, <1>3, RecordCall

\* The sum is that of the lives whose commitments are stored.
LEMMA LoadCommitmentsRecord ==
  ASSUME TypeInv, OneHandler, RecordInv, NEW s \in Servers, NEW w \in Workers,
         LoadCommitments(s, w)
  PROVE  RecordInv'
<1> DEFINE c == call[s][w]
           d == c.data
           v == c.Rs
           g(e) == [op |-> "forget", tx |-> c.tx, data |-> e]
<1>1. /\ c.op = "sum" /\ c.tx \in Txs /\ v \in Vectors
      /\ UNCHANGED <<data, commitments, bound>>
      /\ \/ Enter(s, w, Idle)
         \/ /\ commitments[s][c.tx] = v
            /\ \E e \in Records :
                 /\ e.life = d.life /\ e.R = Sum(s, d, v)
                 /\ Enter(s, w, g(e))
  BY LoadCommitmentsStep DEF history
<1>2. /\ data[s][c.tx] # Absent
      /\ d.life = data[s][c.tx].life /\ d.R = data[s][c.tx].R
      /\ RecordAs(s, data[s], commitments[s], bound[s], c.tx)
  BY <1>1, LoadedRecord DEF OnRecord
<1>3. \A e : g(e).op = "forget" /\ g(e).tx = c.tx /\ g(e).data = e
  OBVIOUS
<1>4. call[s][w].op # "idle"
  BY <1>1
<1> HIDE DEF c, g
<1>5. CASE Enter(s, w, Idle)
  <2>1. LoadedAs(data[s], Idle) /\ CommittedAs(s, commitments[s], bound[s], Idle)
    BY IdleCall, NoCall
  <2> QED
    BY <1>1, <1>4, <1>5, <2>1, RecordCall
<1>6. ASSUME NEW e \in Records, commitments[s][c.tx] = v, e.life = d.life,
             e.R = Sum(s, d, v), Enter(s, w, g(e))
      PROVE  RecordInv'
  <2>1. v # Absent
    BY <1>1, Constants DEF TypeInv, TypeOK
  <2>2. /\ ~Pair /\ d.R = OwnR(s, d.life) /\ v[s] = d.life
        /\ BindsIn(bound[s], c.tx, d.life, v)
    BY <1>2, <1>6, <2>1 DEF RecordAs
  <2>3. Sum(s, d, v) = v
    BY <1>1, <2>2 DEF Sum, Vectors
  <2>4. LoadedAs(data[s], g(e))
    BY <1>2, <1>3, <1>6 DEF LoadedAs
  <2>5. CommittedAs(s, commitments[s], bound[s], g(e))
    BY <1>1, <1>3, <1>6, <2>2, <2>3 DEF CommittedAs
  <2> QED
    BY <1>1, <1>4, <1>6, <2>4, <2>5, RecordCall
<1> QED
  BY <1>1, <1>5, <1>6

LEMMA DeleteCommitmentsRecord ==
  ASSUME TypeInv, OneHandler, RecordInv, NEW s \in Servers, NEW w \in Workers,
         DeleteCommitments(s, w)
  PROVE  RecordInv'
<1> DEFINE c == call[s][w]
           e == [c EXCEPT !.op = "fix"]
<1>1. /\ c.op = "forget" /\ Enter(s, w, e) /\ UNCHANGED <<data, bound>>
      /\ commitments' = [commitments EXCEPT ![s][c.tx] = Absent]
  BY DEF DeleteCommitments, history
<1>2. /\ c.tx \in Txs /\ data[s][c.tx] # Absent
      /\ c.data.life = data[s][c.tx].life
      /\ ~Pair /\ c.data.R \in Vectors
      /\ BindsIn(bound[s], c.tx, c.data.life, c.data.R)
      /\ RecordAs(s, data[s], commitments[s], bound[s], c.tx)
  BY <1>1, LoadedRecord DEF OnRecord, CommittedAs
<1>3. e.op = "fix" /\ e.tx = c.tx /\ e.data = c.data
  <2>1. c \in [op : {"forget", "fix", "answer"}, tx : Txs, data : Records]
    BY <1>1, ServerCall
  <2> QED
    BY <2>1
<1> HIDE DEF e, c
<1>4. commitments'[s][c.tx] = Absent
      /\ \A q \in Servers, u \in Txs :
           q # s \/ u # c.tx => commitments'[q][u] = commitments[q][u]
  <2>1. commitments' = [commitments EXCEPT ![s][c.tx] = Absent]
    BY <1>1
  <2>2. commitments \in [Servers -> [Txs -> Vectors \cup {Absent}]]
    BY DEF TypeInv, TypeOK
  <2> QED
    BY <1>2, <2>1, <2>2
<1>5. RecordAs(s, data'[s], commitments'[s], bound'[s], c.tx)
  BY <1>1, <1>2, <1>4 DEF RecordAs
<1>6. \A u \in Txs : RecordAs(s, data'[s], commitments'[s], bound'[s], u)
  BY <1>1, <1>2, <1>4, <1>5, OtherRecords
<1>7. LoadedAs(data'[s], e)
  BY <1>1, <1>2, <1>3 DEF LoadedAs
<1>8. CommittedAs(s, commitments'[s], bound'[s], e)
  BY <1>1, <1>2, <1>3, <1>4 DEF CommittedAs
<1>9. \A q \in Servers \ {s} : commitments'[q] = commitments[q]
  BY <1>1
<1>10. call[s][w].op # "idle"
  BY <1>1 DEF c
<1> QED
  BY <1>1, <1>6, <1>7, <1>8, <1>9, <1>10, RecordStep

\* A handler that writes or deletes the record and is done with it.
LEMMA RecordWritten ==
  ASSUME TypeInv, OneHandler, RecordInv, NEW s \in Servers, NEW w \in Workers, NEW c,
         Enter(s, w, c), call[s][w].op # "idle", c.op \in {"idle", "extract"},
         NEW t \in Txs, NEW d, data' = [data EXCEPT ![s][t] = d],
         UNCHANGED <<commitments, bound>>, commitments[s][t] = Absent,
         d # Absent => d.R \in Vectors /\ (Pair \/ BindsIn(bound[s], t, d.life, d.R))
  PROVE  RecordInv'
<1>1. data'[s][t] = d
      /\ \A q \in Servers, u \in Txs : q # s \/ u # t => data'[q][u] = data[q][u]
  <2>1. data \in [Servers -> [Txs -> Records \cup {Absent}]]
    BY DEF TypeInv, TypeOK
  <2> QED
    BY <2>1
<1>2. RecordAs(s, data'[s], commitments'[s], bound'[s], t)
  BY <1>1 DEF RecordAs
<1>3. \A u \in Txs : RecordAs(s, data'[s], commitments'[s], bound'[s], u)
  BY <1>1, <1>2, OtherRecords
<1>4. LoadedAs(data'[s], c) /\ CommittedAs(s, commitments'[s], bound'[s], c)
  BY NoCall DEF OnRecord
<1>5. \A q \in Servers \ {s} :
        data'[q] = data[q] /\ commitments'[q] = commitments[q] /\ bound'[q] = bound[q]
  OBVIOUS
<1> QED
  BY <1>3, <1>4, <1>5, RecordStep
LEMMA StoreSumRecord ==
  ASSUME TypeInv, OneHandler, RecordInv, NEW s \in Servers, NEW w \in Workers,
         StoreSum(s, w)
  PROVE  RecordInv'
<1> DEFINE c == call[s][w]
<1>1. /\ c.op = "fix" /\ Enter(s, w, Idle)
      /\ data' = [data EXCEPT ![s][c.tx] = c.data] /\ UNCHANGED <<commitments, bound>>
  BY DEF StoreSum, Return
<1>2. /\ c.tx \in Txs /\ commitments[s][c.tx] = Absent /\ c.data.R \in Vectors
      /\ BindsIn(bound[s], c.tx, c.data.life, c.data.R)
  BY <1>1, LoadedRecord DEF OnRecord, CommittedAs
<1>3. call[s][w].op # "idle"
  BY <1>1
<1> HIDE DEF c
<1> QED
  BY <1>1, <1>2, <1>3, IdleCall, RecordWritten

\* The client answered what every server returned.
LEMMA BroadcastSiRecord ==
  ASSUME TypeInv, OneHandler, RecordInv, SumsOfAll, Serial, NEW s \in Servers,
         NEW w \in Workers, NEW t \in Txs, NEW i \in Indices, NEW R \in Sums,
         BroadcastSi(s, w, t, i, R)
  PROVE  RecordInv'
<1> DEFINE c == [op |-> "consume", tx |-> t, data |-> data[s][t], from |-> i,
                 R |-> R, block |-> 1]
<1>1. /\ data[s][t] # Absent
      /\ Enter(s, w, c) /\ UNCHANGED <<data, commitments, bound>>
      /\ \A v \in Workers : call[s][v].op = "idle"
  BY DEF BroadcastSi, MayEnter, history
<1>2. R \in Vectors
  <2>1. 1 \in 1 .. Blocks
    BY Constants DEF TypeInv, TypeOK
  <2>2. [tx |-> t, index |-> i + 1 - 1, block |-> 1, R |-> R] \in answered
    BY <2>1 DEF BroadcastSi
  <2>3. \A a \in answered : a.R \in Vectors
    BY DEF SumsOfAll
  <2> QED
    BY <2>2, <2>3
<1>3. c.op = "consume" /\ c.tx = t /\ c.data = data[s][t] /\ c.R = R
  OBVIOUS
<1> HIDE DEF c
<1>4. LoadedAs(data[s], c) /\ CommittedAs(s, commitments[s], bound[s], c)
  BY <1>1, <1>2, <1>3 DEF LoadedAs, CommittedAs
<1> QED
  BY <1>1, <1>4, RecordCall

LEMMA ConsumeCommitmentRecord ==
  ASSUME TypeInv, OneHandler, RecordInv, NEW s \in Servers, NEW w \in Workers,
         ConsumeCommitment(s, w)
  PROVE  RecordInv'
<1> DEFINE c == call[s][w]
           d == [c.data EXCEPT !.client = TRUE]
           e == [c EXCEPT !.block = @ + 1]
           g == [op |-> "answer", tx |-> c.tx, data |-> d]
<1>1. /\ c.op = "consume" /\ c.data \in Records
      /\ UNCHANGED <<starts, data, commitments, timing, history>>
      /\ \/ Enter(s, w, e)
         \/ c.R = c.data.R /\ Enter(s, w, g)
         \/ Enter(s, w, Idle)
  BY ConsumeCommitmentStep
<1>2. /\ data[s][c.tx] # Absent /\ c.data.life = data[s][c.tx].life
      /\ c.data.R = data[s][c.tx].R /\ c.R \in Vectors
  BY <1>1, LoadedRecord DEF OnRecord, CommittedAs
<1>3. e.op = "consume" /\ e.tx = c.tx /\ e.data = c.data /\ e.R = c.R
  <2>1. c \in [op : {"consume"}, tx : Txs, data : Records, from : Indices,
               R : Sums, block : 1 .. Blocks]
    BY <1>1, ServerCall DEF OnRecord
  <2> QED
    BY <2>1
<1>4. d.life = c.data.life /\ d.R = c.data.R
  BY <1>1 DEF Records
<1>5. g.op = "answer" /\ g.tx = c.tx /\ g.data = d
  OBVIOUS
<1>6. c.op # "idle"
  BY <1>1
<1>7. UNCHANGED <<data, commitments, bound>>
  BY <1>1 DEF history
<1> HIDE DEF d, e, g
<1>8. CASE Enter(s, w, e)
  <2>1. LoadedAs(data[s], e) /\ CommittedAs(s, commitments[s], bound[s], e)
    BY <1>2, <1>3 DEF LoadedAs, CommittedAs
  <2> QED
    BY <1>6, <1>7, <1>8, <2>1, RecordCall
<1>9. CASE c.R = c.data.R /\ Enter(s, w, g)
  <2>1. LoadedAs(data[s], g) /\ CommittedAs(s, commitments[s], bound[s], g)
    BY <1>2, <1>4, <1>5, <1>9 DEF LoadedAs, CommittedAs
  <2> QED
    BY <1>6, <1>7, <1>9, <2>1, RecordCall
<1>10. CASE Enter(s, w, Idle)
  <2>1. LoadedAs(data[s], Idle) /\ CommittedAs(s, commitments[s], bound[s], Idle)
    BY IdleCall, NoCall
  <2> QED
    BY <1>6, <1>7, <1>10, <2>1, RecordCall
<1> QED
  BY <1>1, <1>8, <1>9, <1>10

\* A server that answers has no commitments, and holds the sum they bind.
LEMMA AnswersSum ==
  ASSUME TypeInv, RecordInv, NEW s \in Servers, NEW w \in Workers,
         call[s][w].op = "answer"
  PROVE  LET c == call[s][w] IN
         /\ commitments[s][c.tx] = Absent /\ c.data.R \in Vectors
         /\ ~Pair => BindsIn(bound[s], c.tx, c.data.life, c.data.R)
<1> DEFINE c == call[s][w]
<1>1. /\ data[s][c.tx] # Absent /\ c.data.life = data[s][c.tx].life
      /\ c.data.R = data[s][c.tx].R /\ c.data.R \in Vectors
      /\ RecordAs(s, data[s], commitments[s], bound[s], c.tx)
  BY LoadedRecord DEF OnRecord, CommittedAs
<1>2. ~Pair => c.data.R # OwnR(s, c.data.life)
  BY <1>1, PairSums DEF TypeInv, TypeOK
<1> HIDE DEF c
<1>3. /\ commitments[s][c.tx] = Absent
      /\ ~Pair => BindsIn(bound[s], c.tx, c.data.life, c.data.R)
  BY <1>1, <1>2 DEF RecordAs
<1> QED
  BY <1>1, <1>3 DEF c

LEMMA StoreAnsweredRecord ==
  ASSUME TypeInv, OneHandler, RecordInv, NEW s \in Servers, NEW w \in Workers,
         StoreAnswered(s, w)
  PROVE  RecordInv'
<1> DEFINE c == call[s][w]
           e == [op |-> "extract", tx |-> c.tx]
<1>1. /\ c.op = "answer" /\ UNCHANGED <<commitments, bound>> /\ c.tx \in Txs
      /\ Enter(s, w, e) \/ Enter(s, w, Idle)
      /\ data' = [data EXCEPT ![s][c.tx] = Absent]
         \/ data' = [data EXCEPT ![s][c.tx] = c.data]
  BY StoreAnsweredStep
<1>2. /\ commitments[s][c.tx] = Absent /\ c.data.R \in Vectors
      /\ ~Pair => BindsIn(bound[s], c.tx, c.data.life, c.data.R)
  BY <1>1, AnswersSum
<1>3. e.op = "extract" /\ call[s][w].op # "idle"
  BY <1>1
<1> HIDE DEF c, e
<1>4. PICK g \in {e, Idle} : Enter(s, w, g)
  BY <1>1
<1>5. PICK d \in {Absent, c.data} : data' = [data EXCEPT ![s][c.tx] = d]
  BY <1>1
<1>6. g.op \in {"idle", "extract"}
  BY <1>3, IdleCall
<1>7. d # Absent => d.R \in Vectors /\ (Pair \/ BindsIn(bound[s], c.tx, d.life, d.R))
  BY <1>2
<1> QED
  BY <1>1, <1>2, <1>3, <1>4, <1>5, <1>6, <1>7, RecordWritten

\* A signature is assembled from a sum of all Rs.
LEMMA GetEddsaSignatureRecord ==
  ASSUME TypeInv, OneHandler, RecordInv, Serial, NEW s \in Servers, NEW w \in Workers,
         NEW t \in Txs, GetEddsaSignature(s, w, t)
  PROVE  RecordInv'
<1> DEFINE d == data[s][t]
           c == [op |-> "delete", tx |-> t, life |-> d.life]
<1>1. /\ ~Pair /\ d # Absent /\ DOMAIN d.R = Servers
      /\ Enter(s, w, c) /\ UNCHANGED <<data, commitments, bound>>
      /\ \A v \in Workers : call[s][v].op = "idle"
  BY DEF GetEddsaSignature, Verifies, MayEnter, history
<1>2. d.R # OwnR(s, d.life)
  BY <1>1, PairSums DEF TypeInv, TypeOK
<1>3. commitments[s][t] = Absent
  BY <1>2 DEF RecordInv, RecordAs
<1>4. c.op = "delete" /\ c.tx = t
  OBVIOUS
<1> HIDE DEF c, d
<1>5. LoadedAs(data[s], c) /\ CommittedAs(s, commitments[s], bound[s], c)
  BY <1>3, <1>4, NoCall DEF OnRecord
<1> QED
  BY <1>1, <1>5, RecordCall

LEMMA DeletesRecord ==
  ASSUME TypeInv, OneHandler, RecordInv, NEW s \in Servers, NEW w \in Workers,
         DeleteSigningData(s, w) \/ CancelData(s, w)
  PROVE  RecordInv'
<1> DEFINE c == call[s][w]
<1>1. PICK e \in {[op |-> "extract", tx |-> c.tx], Idle} : Enter(s, w, e)
  BY DEF DeleteSigningData, CancelData, Return
<1>2. e.op \in {"idle", "extract"}
  BY IdleCall
<1>3. c.op \in {"delete", "drop"}
  BY DEF DeleteSigningData, CancelData
<1>4. /\ data' = [data EXCEPT ![s][c.tx] = Absent]
      /\ UNCHANGED <<commitments, bound>>
  BY DEF DeleteSigningData, CancelData, history
<1>5. c.tx \in Txs /\ commitments[s][c.tx] = Absent
  <2>1. CommittedAs(s, commitments[s], bound[s], c)
    BY DEF RecordInv
  <2> QED
    BY <1>3, <2>1, ServerCall DEF CommittedAs
<1>6. call[s][w].op # "idle"
  BY <1>3
<1> HIDE DEF c
<1> QED
  BY <1>1, <1>2, <1>4, <1>5, <1>6, RecordWritten

LEMMA CancelSigningRecord ==
  ASSUME TypeInv, OneHandler, RecordInv, Serial, NEW s \in Servers, NEW w \in Workers,
         NEW t \in Txs, CancelSigning(s, w, t)
  PROVE  RecordInv'
<1> DEFINE c == [op |-> "drop", tx |-> t]
<1>1. /\ commitments' = [commitments EXCEPT ![s][t] = Absent]
      /\ Enter(s, w, c) /\ UNCHANGED <<data, bound>>
      /\ \A v \in Workers : call[s][v].op = "idle"
  BY DEF CancelSigning, CancelCommitments, MayEnter, history
<1>2. c.op = "drop" /\ c.tx = t
  OBVIOUS
<1> HIDE DEF c
<1>3. commitments'[s][t] = Absent
      /\ \A q \in Servers, u \in Txs :
           q # s \/ u # t => commitments'[q][u] = commitments[q][u]
  <2>1. commitments' = [commitments EXCEPT ![s][t] = Absent]
    BY <1>1
  <2>2. commitments \in [Servers -> [Txs -> Vectors \cup {Absent}]]
    BY DEF TypeInv, TypeOK
  <2> QED
    BY <2>1, <2>2
<1>4. RecordAs(s, data'[s], commitments'[s], bound'[s], t)
  BY <1>1, <1>3 DEF RecordInv, RecordAs
<1>5. \A u \in Txs : RecordAs(s, data'[s], commitments'[s], bound'[s], u)
  BY <1>1, <1>3, <1>4, OtherRecords
<1>6. LoadedAs(data'[s], c) /\ CommittedAs(s, commitments'[s], bound'[s], c)
  BY <1>2, <1>3, NoCall DEF OnRecord
<1>7. \A q \in Servers \ {s} : commitments'[q] = commitments[q]
  BY <1>1
<1> QED
  BY <1>1, <1>5, <1>6, <1>7, RecordStep

\* A handler of the client.
LEMMA ClientRecord ==
  ASSUME TypeInv, RecordInv, NEW w \in Workers, NEW c, Enter(Client, w, c),
         UNCHANGED <<data, commitments, bound>>
  PROVE  RecordInv'
<1>1. \A q \in Servers : call'[q] = call[q]
  <2>1. Client \notin Servers /\ Servers \subseteq Actors
    BY Constants DEF TypeInv, TypeOK
  <2> QED
    BY <2>1 DEF TypeInv, TypeOK, Enter
<1> QED
  BY <1>1 DEF RecordInv

LEMMA NextRecord ==
  ASSUME TypeInv, OneHandler, RecordInv, SumsOfAll, Serial, [Next]_vars
  PROVE  RecordInv'
<1>1. CASE UNCHANGED vars
  BY <1>1 DEF vars, RecordInv
<1>2. CASE StartSignaturePreprocessing
  BY <1>2 DEF StartSignaturePreprocessing, Prepare, history, RecordInv
<1>3. ASSUME NEW w \in Workers,
             \/ \E t \in Txs, i \in Indices, R \in Sums : ClientSignOffline(w, t, i, R)
             \/ ConsumeK(w)
      PROVE  RecordInv'
  <2>1. \E c : Enter(Client, w, c)
    BY <1>3 DEF ClientSignOffline, ConsumeK, Return
  <2>2. UNCHANGED <<data, commitments, bound>>
    BY <1>3 DEF ClientSignOffline, ConsumeK, history
  <2> QED
    BY <2>1, <2>2, ClientRecord
<1>4. ASSUME NEW s \in Servers, StorePresigningData(s)
      PROVE  RecordInv'
  BY <1>4 DEF StorePresigningData, Prepare, history, RecordInv
<1>5. ASSUME NEW s \in Servers, NEW t \in Txs, NEW i \in Indices,
             EddsaSignOffline(s, t, i)
      PROVE  RecordInv'
  BY <1>5, EddsaSignOfflineRecord
<1>6. ASSUME NEW s \in Servers, NEW w \in Workers,
             \/ \E t \in Txs, v \in Vectors : DecommitR(s, w, t, v)
             \/ \E t \in Txs, v \in Vectors : BroadcastR(s, w, t, v)
             \/ \E t \in Txs, i \in Indices, R \in Sums : BroadcastSi(s, w, t, i, R)
             \/ \E t \in Txs : GetEddsaSignature(s, w, t) \/ CancelSigning(s, w, t)
      PROVE  RecordInv'
  BY <1>6, DecommitRRecord, BroadcastRRecord, BroadcastSiRecord,
     GetEddsaSignatureRecord, CancelSigningRecord
<1>7. ASSUME NEW s \in Servers, NEW w \in Workers, Enter(s, w, Idle),
             call[s][w].op # "idle", UNCHANGED <<data, commitments, bound>>
      PROVE  RecordInv'
  <2>1. LoadedAs(data[s], Idle) /\ CommittedAs(s, commitments[s], bound[s], Idle)
    BY IdleCall, NoCall
  <2> QED
    BY <1>7, <2>1, RecordCall
<1>8. ASSUME NEW s \in Servers, NEW w \in Workers, Continue(s, w)
      PROVE  RecordInv'
  <2>1. CASE Extract(s, w)
    BY <1>7, <2>1 DEF Extract, Return, history
  <2> QED
    BY <1>8, <2>1, StoreCommitmentsRecord, LoadCommitmentsRecord,
       DeleteCommitmentsRecord, StoreSumRecord,
       ConsumeCommitmentRecord, StoreAnsweredRecord, DeletesRecord DEF Continue
<1>9. ASSUME NEW a \in Actors, NEW w \in Workers, Interrupt(a, w)
      PROVE  RecordInv'
  <2>1. /\ Enter(a, w, Idle) /\ UNCHANGED <<data, commitments, bound>>
        /\ call[a][w].op # "idle"
    <3>1. "idle" \notin Interrupts
      BY DEF TypeInv, TypeOK, ConstantsOK
    <3> QED
      BY <1>9, <3>1 DEF Interrupt, Return, history
  <2> QED
    BY <1>7, <2>1, ClientRecord DEF Actors
<1> QED
  BY <1>1, <1>2, <1>3, <1>4, <1>5, <1>6, <1>8, <1>9 DEF Next

LEMMA NextSums ==
  ASSUME TypeInv, RecordInv, SumsOfAll, [Next]_vars
  PROVE  SumsOfAll'
<1>1. ASSUME UNCHANGED <<sent, answered>>,
             \A w \in Workers : call'[Client][w] = call[Client][w]
                                \/ call'[Client][w].op # "consume"
      PROVE  SumsOfAll'
  BY <1>1 DEF SumsOfAll
<1>2. CASE UNCHANGED vars
  BY <1>1, <1>2 DEF vars
<1>3. CASE StartSignaturePreprocessing \/ \E s \in Servers : StorePresigningData(s)
  BY <1>1, <1>3 DEF StartSignaturePreprocessing, StorePresigningData, Prepare, history
<1>4. ASSUME NEW w \in Workers, NEW c, Enter(Client, w, c),
             c.op = "consume" => c.R \in Vectors, UNCHANGED sent,
             \A a \in answered' : a \in answered \/ a.R \in Vectors
      PROVE  SumsOfAll'
  <2>1. /\ call'[Client][w] = c
        /\ \A v \in Workers : v # w => call'[Client][v] = call[Client][v]
    BY <1>4, Constants DEF TypeInv, TypeOK, Enter
  <2> QED
    BY <1>4, <2>1 DEF SumsOfAll
<1>5. ASSUME NEW w \in Workers, NEW t \in Txs, NEW i \in Indices, NEW R \in Sums,
             ClientSignOffline(w, t, i, R)
      PROVE  SumsOfAll'
  <2> DEFINE c == [op |-> "consume", tx |-> t, index |-> i, R |-> R, block |-> 1]
  <2>1. FromAll(t, R) /\ Enter(Client, w, c) /\ UNCHANGED <<sent, answered>>
    BY <1>5 DEF ClientSignOffline, history
  <2>2. PICK s : s \in Servers
    BY DEF TypeInv, TypeOK, ConstantsOK
  <2>3. [tx |-> t, R |-> R] \in sent[s]
    BY <2>1, <2>2 DEF FromAll
  <2>4. c.R = R /\ R \in Vectors
    BY <2>2, <2>3 DEF SumsOfAll
  <2> HIDE DEF c
  <2> QED
    BY <1>4, <2>1, <2>4
<1>6. ASSUME NEW w \in Workers, ConsumeK(w)
      PROVE  SumsOfAll'
  <2> DEFINE c == call[Client][w]
             e == [c EXCEPT !.block = @ + 1]
  <2>1. /\ c.op = "consume" /\ UNCHANGED sent
        /\ Enter(Client, w, e) \/ Enter(Client, w, Idle)
        /\ answered' = answered \cup Returned(c) \/ answered' = answered
    BY <1>6, ConsumeKStep
  <2>2. c.R \in Vectors
    BY <2>1 DEF SumsOfAll
  <2>3. e.R = c.R
    <3>1. c \in [op : {"consume"}, tx : Txs, index : Indices, R : Sums,
                 block : 1 .. Blocks]
      BY <2>1, ClientCall
    <3> QED
      BY <3>1
  <2>4. \A a \in Returned(c) : a.R \in Vectors
    BY <2>2 DEF Returned
  <2> HIDE DEF c, e
  <2>5. PICK g \in {e, Idle} : Enter(Client, w, g)
    BY <2>1
  <2>6. g.op = "consume" => g.R \in Vectors
    BY <2>2, <2>3, IdleCall
  <2>7. \A a \in answered' : a \in answered \/ a.R \in Vectors
    BY <2>1, <2>4
  <2> QED
    BY <1>4, <2>1, <2>5, <2>6, <2>7
<1>7. ASSUME NEW s \in Servers, NEW x, x.R \in Vectors,
             sent' = [sent EXCEPT ![s] = @ \cup {x}] \/ sent' = sent,
             UNCHANGED answered, call'[Client] = call[Client]
      PROVE  SumsOfAll'
  <2>1. sent \in [Servers -> SUBSET [tx : Txs, R : Sums]]
    BY DEF TypeInv, TypeOK
  <2>2. \A q \in Servers : sent'[q] \subseteq sent[q] \cup {x}
    BY <1>7, <2>1
  <2>3. \A q \in Servers : \A a \in sent'[q] : a.R \in Vectors
    BY <1>7, <2>2 DEF SumsOfAll
  <2> QED
    BY <1>7, <2>3 DEF SumsOfAll
<1>8. ASSUME NEW s \in Servers, NEW t \in Txs, NEW i \in Indices,
             EddsaSignOffline(s, t, i)
      PROVE  SumsOfAll'
  <2>1. starts[s][t] + 1 \in Lives
    <3>1. starts[s][t] < MaxStarts
      BY <1>8 DEF EddsaSignOffline
    <3> QED
      BY <3>1, Stored, Constants DEF Lives, TypeInv, TypeOK
  <2>2. PICK n \in Lives : n = starts[s][t] + 1
    BY <2>1
  <2>3. PICK x : x = [tx |-> t, R |-> OwnR(s, n)]
    OBVIOUS
  <2>4. /\ sent' = [sent EXCEPT ![s] = IF Pair THEN @ \cup {x} ELSE @]
        /\ UNCHANGED <<answered, call>>
    BY <1>8, <2>2, <2>3 DEF EddsaSignOffline
  <2>5. CASE Pair
    <3>1. x.R \in Vectors
      BY <2>2, <2>3, <2>5, PairSums DEF TypeInv, TypeOK
    <3>2. sent' = [sent EXCEPT ![s] = @ \cup {x}]
      BY <2>4, <2>5
    <3> QED
      BY <1>7, <2>4, <3>1, <3>2
  <2>6. CASE ~Pair
    <3>1. sent' = sent
      BY <2>4, <2>6 DEF TypeInv, TypeOK
    <3> QED
      BY <1>1, <2>4, <3>1
  <2> QED
    BY <2>5, <2>6
<1>9. ASSUME NEW s \in Servers, NEW w \in Workers, NEW c, Enter(s, w, c),
             UNCHANGED <<sent, answered>>
      PROVE  SumsOfAll'
  BY <1>1, <1>9, ServerEnters
<1>10. ASSUME NEW s \in Servers, NEW w \in Workers,
              \/ \E t \in Txs, v \in Vectors : DecommitR(s, w, t, v)
              \/ \E t \in Txs, v \in Vectors : BroadcastR(s, w, t, v)
              \/ \E t \in Txs, i \in Indices, R \in Sums : BroadcastSi(s, w, t, i, R)
              \/ \E t \in Txs : GetEddsaSignature(s, w, t) \/ CancelSigning(s, w, t)
       PROVE  SumsOfAll'
  BY <1>9, <1>10
  DEF DecommitR, BroadcastR, BroadcastSi, GetEddsaSignature, CancelSigning, history
<1>11. ASSUME NEW s \in Servers, NEW w \in Workers, StoreSum(s, w)
       PROVE  SumsOfAll'
  <2> DEFINE c == call[s][w]
             x == [tx |-> c.tx, R |-> c.data.R]
  <2>1. /\ c.op = "fix" /\ Enter(s, w, Idle) /\ UNCHANGED answered
        /\ sent' = [sent EXCEPT ![s] = @ \cup {x}]
    BY <1>11 DEF StoreSum, Return
  <2>2. x.R \in Vectors
    <3>1. c.data.R \in Vectors
      BY <2>1, LoadedRecord DEF OnRecord, CommittedAs
    <3> QED
      BY <3>1
  <2>3. call'[Client] = call[Client]
    BY <2>1, ServerEnters
  <2> HIDE DEF x, c
  <2> QED
    BY <1>7, <2>1, <2>2, <2>3
<1>12. ASSUME NEW s \in Servers, NEW w \in Workers, Continue(s, w), ~StoreSum(s, w)
       PROVE  SumsOfAll'
  <2>1. \E c : Enter(s, w, c)
    BY <1>12 DEF Continue, StoreCommitments, LoadCommitments, DeleteCommitments, StoreSum,
       ConsumeCommitment, StoreAnswered, DeleteSigningData, Extract, CancelData, Return
  <2>2. UNCHANGED <<sent, answered>>
    BY <1>12 DEF Continue, StoreCommitments, LoadCommitments, DeleteCommitments, StoreSum,
       ConsumeCommitment, StoreAnswered, DeleteSigningData, Extract, CancelData, history
  <2> QED
    BY <1>9, <2>1, <2>2
<1>13. ASSUME NEW a \in Actors, NEW w \in Workers, Interrupt(a, w)
       PROVE  SumsOfAll'
  <2>1. Enter(a, w, Idle) /\ UNCHANGED <<sent, answered>>
    BY <1>13 DEF Interrupt, Return, history
  <2>2. CASE a = Client
    BY <1>4, <2>1, <2>2, IdleCall
  <2>3. CASE a \in Servers
    BY <1>9, <2>1, <2>3
  <2> QED
    BY <2>2, <2>3 DEF Actors
<1> QED
  BY <1>2, <1>3, <1>5, <1>6, <1>8, <1>10, <1>11, <1>12, <1>13 DEF Next

\* All that holds when the threads of a player do not interleave.
OneThreadInv == NonceInv /\ OneHandler /\ RecordInv /\ SumsOfAll

LEMMA OneThreadInvHolds ==
  ASSUME ConstantsOK, Serial
  PROVE  Spec => []OneThreadInv
<1>1. Init => OneHandler /\ RecordInv /\ SumsOfAll
  <2> SUFFICES ASSUME Init
               PROVE  OneHandler /\ RecordInv /\ SumsOfAll
    OBVIOUS
  <2>1. \A a \in Actors, w \in Workers : call[a][w] = Idle
    BY DEF Init
  <2>2. OneHandler
    BY <2>1, IdleCall DEF OneHandler
  <2>3. SumsOfAll
    BY <2>1, IdleCall DEF Init, SumsOfAll, Actors
  <2>4. \A s \in Servers, w \in Workers :
          LoadedAs(data[s], call[s][w])
          /\ CommittedAs(s, commitments[s], bound[s], call[s][w])
    BY <2>1, IdleCall, NoCall DEF Actors
  <2>5. \A s \in Servers, t \in Txs : RecordAs(s, data[s], commitments[s], bound[s], t)
    BY DEF Init, RecordAs
  <2> QED
    BY <2>2, <2>3, <2>4, <2>5 DEF RecordInv
<1>2. TypeInv /\ OneHandler /\ RecordInv /\ SumsOfAll /\ [Next]_vars
        => (OneHandler /\ RecordInv /\ SumsOfAll)'
  BY OneHandlerMoves, NextRecord, NextSums
<1>3. NonceInv => TypeInv
  BY DEF NonceInv
<1> QED
  BY <1>1, <1>2, <1>3, NonceInvHolds, PTL DEF Spec, OneThreadInv

\* When a host runs one handler of a player at a time, a server without a record
\* of a transaction holds no commitments of it, wherever handlers stop and
\* however often the txid is used: the record is deleted after the commitments
\* are, or in a pair, which has none.
THEOREM NoCommitmentsLeft ==
  ASSUME ConstantsOK, Serial
  PROVE  Spec => []NothingLeft
<1>1. OneThreadInv => NothingLeft
  BY RecordParts DEF OneThreadInv, RecordOfLife, NothingLeft
<1> QED
  BY <1>1, OneThreadInvHolds, PTL
-----------------------------------------------------------------------------
(* A server opens its R to one set of commitments                           *)

\* The record of t has the own R, and no commitments are stored or on their way
\* out.
Uncommitted(dt, cm, cl, s, t) ==
  /\ dt[t] # Absent /\ dt[t].R = OwnR(s, dt[t].life) /\ cm[t] = Absent
  /\ \A w \in Workers : cl[w].op \in {"fix", "drop"} => cl[w].tx # t

UnboundIn(bd, t, n) == \A b \in bd : b.tx = t => b.life # n

BoundInv ==
  /\ BoundOnce
  /\ \A s \in Servers, t \in Txs :
       Uncommitted(data[s], commitments[s], call[s], s, t)
         => UnboundIn(bound[s], t, data[s][t].life)

\* No handler stops between the two accesses that end the commitments of a life.
EndsCommitments == "fix" \notin Interrupts /\ "drop" \notin Interrupts

LEMMA UnboundKept ==
  ASSUME BoundInv, UNCHANGED bound,
         \A s \in Servers, t \in Txs :
           Uncommitted(data'[s], commitments'[s], call'[s], s, t) =>
             /\ Uncommitted(data[s], commitments[s], call[s], s, t)
             /\ data'[s][t].life = data[s][t].life
  PROVE  BoundInv'
<1>1. \A s \in Servers, t \in Txs :
        Uncommitted(data'[s], commitments'[s], call'[s], s, t)
          => UnboundIn(bound'[s], t, data'[s][t].life)
  <2> SUFFICES ASSUME NEW s \in Servers, NEW t \in Txs,
                      Uncommitted(data'[s], commitments'[s], call'[s], s, t)
               PROVE  UnboundIn(bound[s], t, data'[s][t].life)
    OBVIOUS
  <2>1. /\ Uncommitted(data[s], commitments[s], call[s], s, t)
        /\ data'[s][t].life = data[s][t].life
    OBVIOUS
  <2> QED
    BY <2>1 DEF BoundInv
<1> QED
  BY <1>1 DEF BoundInv, BoundOnce

\* A worker of s goes on with c and writes at most its record of t.
LEMMA UnboundWritten ==
  ASSUME TypeInv, BoundInv, NEW s \in Servers, NEW w \in Workers, NEW c,
         Enter(s, w, c), NEW t \in Txs, UNCHANGED bound,
         \A q \in Servers, u \in Txs : q # s \/ u # t =>
           data'[q][u] = data[q][u] /\ commitments'[q][u] = commitments[q][u],
         call[s][w].op \in {"fix", "drop"} => call[s][w].tx = t,
         \/ data'[s][t] = Absent
         \/ data'[s][t].R # OwnR(s, data'[s][t].life)
         \/ c.op \in {"fix", "drop"} /\ c.tx = t
         \/ /\ data'[s][t] = data[s][t] /\ commitments'[s][t] = commitments[s][t]
            /\ call[s][w].op \notin {"fix", "drop"}
  PROVE  BoundInv'
<1>1. /\ call'[s][w] = c
      /\ \A q \in Servers, v \in Workers : q # s \/ v # w => call'[q][v] = call[q][v]
  BY ServerEnters
<1>2. ASSUME NEW q \in Servers, NEW u \in Txs,
             Uncommitted(data'[q], commitments'[q], call'[q], q, u)
      PROVE  /\ Uncommitted(data[q], commitments[q], call[q], q, u)
             /\ data'[q][u].life = data[q][u].life
  <2>1. CASE q # s
    BY <1>1, <1>2, <2>1 DEF Uncommitted
  <2>2. CASE q = s /\ u # t
    BY <1>1, <1>2, <2>2 DEF Uncommitted
  <2>3. CASE q = s /\ u = t
    <3>1. /\ data'[s][t] # Absent /\ data'[s][t].R = OwnR(s, data'[s][t].life)
          /\ ~(c.op \in {"fix", "drop"} /\ c.tx = t)
      BY <1>1, <1>2, <2>3 DEF Uncommitted
    <3>2. /\ data'[s][t] = data[s][t] /\ commitments'[s][t] = commitments[s][t]
          /\ call[s][w].op \notin {"fix", "drop"}
      BY <3>1
    <3> QED
      BY <1>1, <1>2, <2>3, <3>2 DEF Uncommitted
  <2> QED
    BY <2>1, <2>2, <2>3
<1> QED
  BY <1>2, UnboundKept

LEMMA UnboundCall ==
  ASSUME TypeInv, BoundInv, NEW s \in Servers, NEW w \in Workers, NEW c,
         Enter(s, w, c), call[s][w].op \notin {"fix", "drop"},
         UNCHANGED <<data, commitments, bound>>
  PROVE  BoundInv'
<1>1. CASE Txs = {}
  BY <1>1 DEF BoundInv, BoundOnce
<1>2. ASSUME NEW t \in Txs
      PROVE  BoundInv'
  BY UnboundWritten
<1> QED
  BY <1>1, <1>2

\* The lives that are bound have begun.
LEMMA EddsaSignOfflineBound ==
  ASSUME NonceInv, BoundInv, NEW s \in Servers, NEW t \in Txs, NEW i \in Indices,
         EddsaSignOffline(s, t, i)
  PROVE  BoundInv'
<1>1. TypeInv /\ IndexOfLife
  BY DEF NonceInv
<1>2. PICK n : n = starts[s][t] + 1
  OBVIOUS
<1>3. PICK d : d.life = n /\ data' = [data EXCEPT ![s][t] = d]
  <2>1. LET e == [life |-> n, index |-> i, R |-> OwnR(s, n), client |-> FALSE]
        IN data' = [data EXCEPT ![s][t] = e]
    BY <1>2 DEF EddsaSignOffline
  <2> QED
    BY <2>1
<1>4. UNCHANGED <<call, commitments, bound>>
  BY DEF EddsaSignOffline
<1>5. data'[s][t] = d
      /\ \A q \in Servers, u \in Txs : q # s \/ u # t => data'[q][u] = data[q][u]
  <2>1. data' = [data EXCEPT ![s][t] = d]
    BY <1>3
  <2>2. data \in [Servers -> [Txs -> Records \cup {Absent}]]
    BY <1>1 DEF TypeInv, TypeOK
  <2> QED
    BY <2>1, <2>2
<1>6. UnboundIn(bound[s], t, n)
  <2> SUFFICES ASSUME NEW b \in bound[s], b.tx = t
               PROVE  b.life # n
    BY DEF UnboundIn
  <2>1. b.life <= starts[s][t]
    BY <1>1 DEF IndexOfLife, IndicesBy, Began
  <2>2. b.life \in Nat /\ starts[s][t] \in Nat
    <3>1. b.life \in Lives
      BY <1>1 DEF TypeInv, TypeOK
    <3> QED
      BY <1>1, <3>1, Stored, Constants DEF TypeInv, TypeOK
  <2> QED
    BY <1>2, <2>1, <2>2
<1>7. ASSUME NEW q \in Servers, NEW u \in Txs,
             Uncommitted(data'[q], commitments'[q], call'[q], q, u)
      PROVE  UnboundIn(bound'[q], u, data'[q][u].life)
  <2>1. CASE q = s /\ u = t
    BY <1>3, <1>4, <1>5, <1>6, <2>1
  <2>2. CASE q # s \/ u # t
    <3>1. Uncommitted(data[q], commitments[q], call[q], q, u)
      BY <1>4, <1>5, <1>7, <2>2 DEF Uncommitted
    <3> QED
      BY <1>4, <1>5, <2>2, <3>1 DEF BoundInv
  <2> QED
    BY <2>1, <2>2
<1> QED
  BY <1>4, <1>7 DEF BoundInv, BoundOnce

LEMMA StoreCommitmentsBound ==
  ASSUME TypeInv, OneHandler, RecordInv, BoundInv, NEW s \in Servers,
         NEW w \in Workers, StoreCommitments(s, w)
  PROVE  BoundInv'
<1> DEFINE c == call[s][w]
           y == [tx |-> c.tx, life |-> c.data.life, index |-> c.data.index, Rs |-> c.Rs]
<1>1. /\ c.op = "decommit" /\ Enter(s, w, Idle) /\ UNCHANGED data
      /\ \/ /\ commitments[s][c.tx] = Absent
            /\ commitments' = [commitments EXCEPT ![s][c.tx] = c.Rs]
            /\ bound' = [bound EXCEPT ![s] = @ \cup {y}]
         \/ UNCHANGED <<commitments, bound>>
  BY DEF StoreCommitments, NoCommitments, Return
<1>2. CASE UNCHANGED <<commitments, bound>>
  BY <1>1, <1>2, UnboundCall
<1>3. CASE /\ commitments[s][c.tx] = Absent
           /\ commitments' = [commitments EXCEPT ![s][c.tx] = c.Rs]
           /\ bound' = [bound EXCEPT ![s] = @ \cup {y}]
  <2>1. /\ c.tx \in Txs /\ data[s][c.tx] # Absent
        /\ c.data.life = data[s][c.tx].life /\ c.data.R = data[s][c.tx].R
        /\ c.data.R = OwnR(s, c.data.life) /\ c.Rs \in Vectors
    BY <1>1, LoadedRecord, ServerCall DEF OnRecord, CommittedAs
  <2>2. c.Rs # Absent
    BY <2>1, Constants DEF TypeInv, TypeOK
  <2>3. \A v \in Workers : call[s][v].op \notin {"fix", "drop"}
    <3>1. \A v \in Workers : v # w => call[s][v].op = "idle"
      BY <1>1 DEF OneHandler, Actors
    <3> QED
      BY <1>1, <3>1
  <2>4. y.tx = c.tx /\ y.life = c.data.life
    OBVIOUS
  <2> HIDE DEF y, c
  <2>5. UnboundIn(bound[s], c.tx, c.data.life)
    <3>1. Uncommitted(data[s], commitments[s], call[s], s, c.tx)
      BY <1>3, <2>1, <2>3 DEF Uncommitted
    <3> QED
      BY <2>1, <3>1 DEF BoundInv
  <2>6. /\ bound'[s] = bound[s] \cup {y}
        /\ \A q \in Servers \ {s} : bound'[q] = bound[q]
    <3>1. bound \in [Servers -> SUBSET [tx : Txs, life : Lives, index : Indices,
                                        Rs : Vectors]]
      BY DEF TypeInv, TypeOK
    <3> QED
      BY <1>3, <3>1
  <2>7. commitments'[s][c.tx] = c.Rs
        /\ \A q \in Servers, u \in Txs :
             q # s \/ u # c.tx => commitments'[q][u] = commitments[q][u]
    <3>1. commitments' = [commitments EXCEPT ![s][c.tx] = c.Rs]
      BY <1>3
    <3>2. commitments \in [Servers -> [Txs -> Vectors \cup {Absent}]]
      BY DEF TypeInv, TypeOK
    <3> QED
      BY <2>1, <3>1, <3>2
  <2>8. BoundOnce'
    <3>1. \A b \in bound[s] : ~(b.tx = y.tx /\ b.life = y.life)
      BY <2>4, <2>5 DEF UnboundIn
    <3>2. \A q \in Servers : BoundOnce!(q)'
      BY <2>6, <3>1 DEF BoundInv, BoundOnce
    <3> QED
      BY <3>2 DEF BoundOnce
  <2>9. ASSUME NEW q \in Servers, NEW u \in Txs,
               Uncommitted(data'[q], commitments'[q], call'[q], q, u)
        PROVE  UnboundIn(bound'[q], u, data'[q][u].life)
    <3>1. q # s \/ u # c.tx
      BY <2>2, <2>7, <2>9 DEF Uncommitted
    <3>2. \A v \in Workers : call[q][v].op \in {"fix", "drop"} => call[q][v].tx # u
      <4>1. \A v \in Workers : q # s => call'[q][v] = call[q][v]
        BY <1>1, ServerEnters
      <4> QED
        BY <2>3, <2>9, <4>1 DEF Uncommitted
    <3>3. Uncommitted(data[q], commitments[q], call[q], q, u)
      BY <1>1, <2>7, <2>9, <3>1, <3>2 DEF Uncommitted
    <3>4. UnboundIn(bound[q], u, data[q][u].life)
      BY <3>3 DEF BoundInv
    <3> QED
      BY <1>1, <2>4, <2>6, <3>1, <3>4 DEF UnboundIn
  <2> QED
    BY <2>8, <2>9 DEF BoundInv
<1> QED
  BY <1>1, <1>2, <1>3

LEMMA DeleteCommitmentsBound ==
  ASSUME TypeInv, OneHandler, RecordInv, BoundInv, NEW s \in Servers,
         NEW w \in Workers, DeleteCommitments(s, w)
  PROVE  BoundInv'
<1> DEFINE c == call[s][w]
           e == [c EXCEPT !.op = "fix"]
<1>1. /\ c.op = "forget" /\ Enter(s, w, e) /\ UNCHANGED <<data, bound>>
      /\ commitments' = [commitments EXCEPT ![s][c.tx] = Absent]
  BY DEF DeleteCommitments, history
<1>2. c.tx \in Txs /\ e.op = "fix" /\ e.tx = c.tx
  <2>1. c \in [op : {"forget", "fix", "answer"}, tx : Txs, data : Records]
    BY <1>1, ServerCall
  <2> QED
    BY <2>1
<1>3. call[s][w].op \notin {"fix", "drop"}
  BY <1>1
<1> HIDE DEF e, c
<1>4. \A q \in Servers, u \in Txs : q # s \/ u # c.tx =>
        data'[q][u] = data[q][u] /\ commitments'[q][u] = commitments[q][u]
  <2>1. commitments' = [commitments EXCEPT ![s][c.tx] = Absent] /\ data' = data
    BY <1>1
  <2>2. commitments \in [Servers -> [Txs -> Vectors \cup {Absent}]]
    BY DEF TypeInv, TypeOK
  <2> QED
    BY <1>2, <2>1, <2>2
<1> QED
  BY <1>1, <1>2, <1>3, <1>4, UnboundWritten

LEMMA StoreSumBound ==
  ASSUME TypeInv, OneHandler, RecordInv, BoundInv, NEW s \in Servers,
         NEW w \in Workers, StoreSum(s, w)
  PROVE  BoundInv'
<1> DEFINE c == call[s][w]
<1>1. /\ c.op = "fix" /\ Enter(s, w, Idle) /\ UNCHANGED <<commitments, bound>>
      /\ data' = [data EXCEPT ![s][c.tx] = c.data]
  BY DEF StoreSum, Return
<1>2. c.tx \in Txs /\ ~Pair /\ c.data.R \in Vectors
  BY <1>1, LoadedRecord DEF OnRecord, CommittedAs
<1>3. c.data.R # OwnR(s, c.data.life)
  BY <1>2, PairSums DEF TypeInv, TypeOK
<1>4. call[s][w].tx = c.tx
  OBVIOUS
<1> HIDE DEF c
<1>5. data'[s][c.tx] = c.data
      /\ \A q \in Servers, u \in Txs : q # s \/ u # c.tx => data'[q][u] = data[q][u]
  <2>1. data' = [data EXCEPT ![s][c.tx] = c.data]
    BY <1>1
  <2>2. data \in [Servers -> [Txs -> Records \cup {Absent}]]
    BY DEF TypeInv, TypeOK
  <2> QED
    BY <1>2, <2>1, <2>2
<1> QED
  BY <1>1, <1>2, <1>3, <1>4, <1>5, UnboundWritten

LEMMA StoreAnsweredBound ==
  ASSUME TypeInv, OneHandler, RecordInv, BoundInv, NEW s \in Servers,
         NEW w \in Workers, StoreAnswered(s, w)
  PROVE  BoundInv'
<1> DEFINE c == call[s][w]
<1>1. /\ c.op = "answer" /\ UNCHANGED <<commitments, bound>> /\ c.tx \in Txs
      /\ \E g : Enter(s, w, g)
  BY StoreAnsweredStep
<1>2. \/ data' = [data EXCEPT ![s][c.tx] = Absent]
      \/ ~Pair /\ data' = [data EXCEPT ![s][c.tx] = c.data]
  BY DEF StoreAnswered
<1>3. ~Pair => c.data.R # OwnR(s, c.data.life)
  <2>1. c.data.R \in Vectors
    BY <1>1, AnswersSum
  <2> QED
    BY <2>1, PairSums DEF TypeInv, TypeOK
<1>4. call[s][w].tx = c.tx /\ call[s][w].op \notin {"fix", "drop"}
  BY <1>1
<1> HIDE DEF c
<1>5. PICK d : /\ data' = [data EXCEPT ![s][c.tx] = d]
               /\ d = Absent \/ d.R # OwnR(s, d.life)
  BY <1>2, <1>3
<1>6. data'[s][c.tx] = d
      /\ \A q \in Servers, u \in Txs : q # s \/ u # c.tx => data'[q][u] = data[q][u]
  <2>1. data' = [data EXCEPT ![s][c.tx] = d]
    BY <1>5
  <2>2. data \in [Servers -> [Txs -> Records \cup {Absent}]]
    BY DEF TypeInv, TypeOK
  <2> QED
    BY <1>1, <2>1, <2>2
<1>7. PICK g : Enter(s, w, g)
  BY <1>1
<1>8. data'[s][c.tx] = Absent \/ data'[s][c.tx].R # OwnR(s, data'[s][c.tx].life)
  BY <1>5, <1>6
<1>9. \A q \in Servers, u \in Txs : q # s \/ u # c.tx =>
        data'[q][u] = data[q][u] /\ commitments'[q][u] = commitments[q][u]
  BY <1>1, <1>6
<1>10. UNCHANGED bound /\ c.tx \in Txs
  BY <1>1
<1> QED
  BY <1>4, <1>7, <1>8, <1>9, <1>10, UnboundWritten

LEMMA DeletesBound ==
  ASSUME TypeInv, BoundInv, NEW s \in Servers, NEW w \in Workers,
         DeleteSigningData(s, w) \/ CancelData(s, w)
  PROVE  BoundInv'
<1> DEFINE c == call[s][w]
<1>1. /\ UNCHANGED <<commitments, bound>> /\ \E g : Enter(s, w, g)
      /\ data' = [data EXCEPT ![s][c.tx] = Absent]
      /\ c.op \in {"delete", "drop"}
  BY DEF DeleteSigningData, CancelData, Return, history
<1>2. c.tx \in Txs
  BY <1>1, ServerCall
<1>3. call[s][w].tx = c.tx
  OBVIOUS
<1> HIDE DEF c
<1>4. data'[s][c.tx] = Absent
      /\ \A q \in Servers, u \in Txs : q # s \/ u # c.tx => data'[q][u] = data[q][u]
  <2>1. data' = [data EXCEPT ![s][c.tx] = Absent]
    BY <1>1
  <2>2. data \in [Servers -> [Txs -> Records \cup {Absent}]]
    BY DEF TypeInv, TypeOK
  <2> QED
    BY <1>2, <2>1, <2>2
<1> QED
  BY <1>1, <1>2, <1>3, <1>4, UnboundWritten

LEMMA CancelSigningBound ==
  ASSUME TypeInv, BoundInv, Serial, NEW s \in Servers, NEW w \in Workers,
         NEW t \in Txs, CancelSigning(s, w, t)
  PROVE  BoundInv'
<1> DEFINE c == [op |-> "drop", tx |-> t]
<1>1. Enter(s, w, c) /\ UNCHANGED <<data, bound>> /\ call[s][w].op = "idle"
  BY DEF CancelSigning, MayEnter, history
<1>2. c.op = "drop" /\ c.tx = t
  OBVIOUS
<1> HIDE DEF c
<1>3. \A q \in Servers, u \in Txs : q # s \/ u # t =>
        data'[q][u] = data[q][u] /\ commitments'[q][u] = commitments[q][u]
  <2>1. commitments' = [commitments EXCEPT ![s][t] = Absent]
    BY DEF CancelSigning, CancelCommitments
  <2>2. commitments \in [Servers -> [Txs -> Vectors \cup {Absent}]]
    BY DEF TypeInv, TypeOK
  <2> QED
    BY <1>1, <2>1, <2>2
<1>4. /\ call[s][w].op \notin {"fix", "drop"}
      /\ c.op \in {"fix", "drop"} /\ c.tx = t
  BY <1>1, <1>2
<1> QED
  BY <1>1, <1>3, <1>4, UnboundWritten

LEMMA NextBound ==
  ASSUME NonceInv, OneHandler, RecordInv, BoundInv, Serial, EndsCommitments, [Next]_vars
  PROVE  BoundInv'
<1>1. TypeInv
  BY DEF NonceInv
<1>2. CASE UNCHANGED vars
  BY <1>2 DEF vars, BoundInv, BoundOnce, Uncommitted
<1>3. CASE StartSignaturePreprocessing \/ \E s \in Servers : StorePresigningData(s)
  BY <1>3 DEF StartSignaturePreprocessing, StorePresigningData, Prepare, history,
     BoundInv, BoundOnce, Uncommitted
<1>4. ASSUME NEW w \in Workers, NEW c, Enter(Client, w, c),
             UNCHANGED <<data, commitments, bound>>
      PROVE  BoundInv'
  <2>1. \A q \in Servers : call'[q] = call[q]
    <3>1. Client \notin Servers /\ Servers \subseteq Actors
      BY <1>1, Constants DEF TypeInv, TypeOK
    <3> QED
      BY <1>1, <1>4, <3>1 DEF TypeInv, TypeOK, Enter
  <2> QED
    BY <1>4, <2>1, UnboundKept
<1>5. ASSUME NEW w \in Workers,
             \/ \E t \in Txs, i \in Indices, R \in Sums : ClientSignOffline(w, t, i, R)
             \/ ConsumeK(w)
      PROVE  BoundInv'
  <2>1. \E c : Enter(Client, w, c)
    BY <1>5 DEF ClientSignOffline, ConsumeK, Return
  <2>2. UNCHANGED <<data, commitments, bound>>
    BY <1>5 DEF ClientSignOffline, ConsumeK, history
  <2> QED
    BY <1>4, <2>1, <2>2
<1>6. ASSUME NEW s \in Servers, NEW t \in Txs, NEW i \in Indices,
             EddsaSignOffline(s, t, i)
      PROVE  BoundInv'
  BY <1>6, EddsaSignOfflineBound
<1>7. ASSUME NEW s \in Servers, NEW w \in Workers, NEW t \in Txs,
             \/ \E v \in Vectors : DecommitR(s, w, t, v) \/ BroadcastR(s, w, t, v)
             \/ \E i \in Indices, R \in Sums : BroadcastSi(s, w, t, i, R)
             \/ GetEddsaSignature(s, w, t)
      PROVE  BoundInv'
  <2>1. \E c : Enter(s, w, c)
    BY <1>7 DEF DecommitR, BroadcastR, BroadcastSi, GetEddsaSignature
  <2>2. call[s][w].op = "idle" /\ UNCHANGED <<data, commitments, bound>>
    BY <1>7 DEF DecommitR, BroadcastR, BroadcastSi, GetEddsaSignature, MayEnter, history
  <2> QED
    BY <1>1, <2>1, <2>2, UnboundCall
<1>8. ASSUME NEW s \in Servers, NEW w \in Workers, NEW t \in Txs,
             CancelSigning(s, w, t)
      PROVE  BoundInv'
  BY <1>1, <1>8, CancelSigningBound
<1>9. ASSUME NEW s \in Servers, NEW w \in Workers,
             LoadCommitments(s, w) \/ ConsumeCommitment(s, w) \/ Extract(s, w)
      PROVE  BoundInv'
  <2>1. \E c : Enter(s, w, c)
    BY <1>9 DEF LoadCommitments, ConsumeCommitment, Extract, Return
  <2>2. call[s][w].op \notin {"fix", "drop"} /\ UNCHANGED <<data, commitments, bound>>
    BY <1>9 DEF LoadCommitments, ConsumeCommitment, Extract, history
  <2> QED
    BY <1>1, <2>1, <2>2, UnboundCall
<1>10. ASSUME NEW s \in Servers, NEW w \in Workers, Continue(s, w)
       PROVE  BoundInv'
  BY <1>1, <1>9, <1>10, StoreCommitmentsBound, DeleteCommitmentsBound, StoreSumBound,
     StoreAnsweredBound, DeletesBound DEF Continue
<1>11. ASSUME NEW a \in Actors, NEW w \in Workers, Interrupt(a, w)
       PROVE  BoundInv'
  <2>1. /\ Enter(a, w, Idle) /\ UNCHANGED <<data, commitments, bound>>
        /\ call[a][w].op \notin {"fix", "drop"}
    BY <1>11 DEF Interrupt, Return, history, EndsCommitments
  <2> QED
    BY <1>1, <1>4, <2>1, UnboundCall DEF Actors
<1> QED
  BY <1>2, <1>3, <1>5, <1>6, <1>7, <1>8, <1>10, <1>11 DEF Next

\* Only StoreCommitments binds a life and only StoreAnswered answers.
LEMMA NextKeeps ==
  ASSUME [Next]_vars
  PROVE  /\ bound' = bound \/ \E s \in Servers, w \in Workers : StoreCommitments(s, w)
         /\ uses' = uses \/ \E s \in Servers, w \in Workers : StoreAnswered(s, w)
<1>1. CASE UNCHANGED vars
  BY <1>1 DEF vars
<1>2. CASE StartSignaturePreprocessing \/ \E s \in Servers : StorePresigningData(s)
  BY <1>2 DEF StartSignaturePreprocessing, StorePresigningData, Prepare, history
<1>3. ASSUME NEW w \in Workers,
             \/ \E t \in Txs, i \in Indices, R \in Sums : ClientSignOffline(w, t, i, R)
             \/ ConsumeK(w)
      PROVE  UNCHANGED <<uses, bound>>
  BY <1>3 DEF ClientSignOffline, ConsumeK, history
<1>4. ASSUME NEW s \in Servers, NEW t \in Txs, NEW i \in Indices,
             EddsaSignOffline(s, t, i)
      PROVE  UNCHANGED <<uses, bound>>
  BY <1>4 DEF EddsaSignOffline
<1>5. ASSUME NEW s \in Servers, NEW w \in Workers, NEW t \in Txs,
             \/ \E v \in Vectors : DecommitR(s, w, t, v) \/ BroadcastR(s, w, t, v)
             \/ \E i \in Indices, R \in Sums : BroadcastSi(s, w, t, i, R)
             \/ GetEddsaSignature(s, w, t) \/ CancelSigning(s, w, t)
      PROVE  UNCHANGED <<uses, bound>>
  BY <1>5 DEF DecommitR, BroadcastR, BroadcastSi, GetEddsaSignature, CancelSigning, history
<1>6. ASSUME NEW s \in Servers, NEW w \in Workers, StoreCommitments(s, w)
      PROVE  uses' = uses
  BY <1>6 DEF StoreCommitments
<1>7. ASSUME NEW s \in Servers, NEW w \in Workers, StoreAnswered(s, w)
      PROVE  bound' = bound
  BY <1>7 DEF StoreAnswered
<1>8. ASSUME NEW s \in Servers, NEW w \in Workers,
             \/ LoadCommitments(s, w) \/ DeleteCommitments(s, w)
             \/ StoreSum(s, w) \/ ConsumeCommitment(s, w)
             \/ DeleteSigningData(s, w) \/ Extract(s, w) \/ CancelData(s, w)
      PROVE  UNCHANGED <<uses, bound>>
  BY <1>8 DEF LoadCommitments, DeleteCommitments, StoreSum, ConsumeCommitment,
     DeleteSigningData, Extract, CancelData, history
<1>9. ASSUME NEW a \in Actors, NEW w \in Workers, Interrupt(a, w)
      PROVE  UNCHANGED <<uses, bound>>
  BY <1>9 DEF Interrupt, history
<1> QED
  BY <1>1, <1>2, <1>3, <1>4, <1>5, <1>6, <1>7, <1>8, <1>9 DEF Next, Continue

\* The answers are for the sum the server has bound.
LEMMA StoreAnsweredUses ==
  ASSUME TypeInv, RecordInv, UsesBound, ~Pair, NEW s \in Servers, NEW w \in Workers,
         StoreAnswered(s, w)
  PROVE  UsesBound'
<1> DEFINE c == call[s][w]
<1>1. /\ c.op = "answer" /\ uses'[s] = uses[s] \cup Answers(c.data, c.tx)
      /\ \A q \in Servers \ {s} : uses'[q] = uses[q]
      /\ bound' = bound
  BY StoreAnsweredStep
<1>2. \A u \in Answers(c.data, c.tx) :
        u.tx = c.tx /\ u.life = c.data.life /\ u.R = c.data.R
  BY DEF Answers, Answer
<1>3. BindsIn(bound[s], c.tx, c.data.life, c.data.R)
  BY <1>1, AnswersSum
<1> HIDE DEF c
<1>4. PICK b \in bound[s] : b.tx = c.tx /\ b.life = c.data.life /\ b.Rs = c.data.R
  BY <1>3 DEF BindsIn
<1>5. \A u \in Answers(c.data, c.tx) :
        \E x \in bound'[s] : x.tx = u.tx /\ x.life = u.life /\ x.Rs = u.R
  <2> SUFFICES ASSUME NEW u \in Answers(c.data, c.tx)
               PROVE  \E x \in bound'[s] : x.tx = u.tx /\ x.life = u.life /\ x.Rs = u.R
    OBVIOUS
  <2>1. b \in bound'[s]
    BY <1>1, <1>4
  <2>2. b.tx = u.tx /\ b.life = u.life /\ b.Rs = u.R
    BY <1>2, <1>4
  <2> QED
    BY <2>1, <2>2
<1>6. \A q \in Servers : \A u \in uses[q] :
        \E x \in bound'[q] : x.tx = u.tx /\ x.life = u.life /\ x.Rs = u.R
  BY <1>1 DEF UsesBound, Binds
<1> QED
  BY <1>1, <1>5, <1>6 DEF UsesBound, Binds

\* A server of two or more answers the sum of lives it has bound.
LEMMA NextUsesBound ==
  ASSUME TypeInv, RecordInv, UsesBound, [Next]_vars
  PROVE  UsesBound'
<1>1. SUFFICES ASSUME ~Pair
               PROVE  UsesBound'
  BY DEF UsesBound
<1>2. \A s \in Servers : bound[s] \subseteq bound'[s]
  <2>1. bound' = bound \/ \E s \in Servers, w \in Workers : StoreCommitments(s, w)
    BY NextKeeps
  <2>2. ASSUME NEW s \in Servers, NEW w \in Workers, StoreCommitments(s, w)
        PROVE  \A q \in Servers : bound[q] \subseteq bound'[q]
    <3>1. \/ bound' = bound
          \/ \E y : bound' = [bound EXCEPT ![s] = @ \cup {y}]
      BY <2>2 DEF StoreCommitments
    <3>2. bound \in [Servers -> SUBSET [tx : Txs, life : Lives, index : Indices,
                                        Rs : Vectors]]
      BY DEF TypeInv, TypeOK
    <3> QED
      BY <3>1, <3>2
  <2> QED
    BY <2>1, <2>2
<1>3. ASSUME uses' = uses
      PROVE  UsesBound'
  BY <1>1, <1>2, <1>3 DEF UsesBound, Binds
<1>4. ASSUME NEW s \in Servers, NEW w \in Workers, StoreAnswered(s, w)
      PROVE  UsesBound'
  BY <1>1, <1>2, <1>4, StoreAnsweredUses
<1>5. uses' = uses \/ \E s \in Servers, w \in Workers : StoreAnswered(s, w)
  BY NextKeeps
<1> QED
  BY <1>3, <1>4, <1>5

\* When a host runs one handler of a player at a time and none stops between the
\* accesses that end the commitments of a life, a server opens its R of a life
\* once, to the commitments it held, and answers no sum but theirs: while the
\* record has the own R, the commitments are stored or were never bound.
THEOREM OpensBound ==
  ASSUME ConstantsOK, Serial, EndsCommitments
  PROVE  Spec => []OpensAsCommitted
<1>1. Init => BoundInv /\ UsesBound
  BY DEF Init, BoundInv, BoundOnce, Uncommitted, UsesBound
<1>2. OneThreadInv /\ BoundInv /\ [Next]_vars => BoundInv'
  BY NextBound DEF OneThreadInv
<1>3. OneThreadInv /\ UsesBound /\ [Next]_vars => UsesBound'
  BY NextUsesBound DEF OneThreadInv, NonceInv
<1>4. BoundInv /\ UsesBound => OpensAsCommitted
  <2>1. \A s, t, n, v : Binds(s, t, n, v) <=>
          \E b \in bound[s] : b.tx = t /\ b.life = n /\ b.Rs = v
    BY DEF Binds
  <2> QED
    BY <2>1 DEF BoundInv, BoundOnce, UsesBound, OpensAsCommitted
<1> QED
  BY <1>1, <1>2, <1>3, <1>4, OneThreadInvHolds, PTL DEF Spec
=============================================================================

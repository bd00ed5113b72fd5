-------------------------- MODULE EddsaOnlineProofs --------------------------
(* Type correctness of EddsaOnline, and that a player answers no challenge  *)
(* but the one of the commitments it opened its R against.                  *)
EXTENDS EddsaOnline, TLAPS

-----------------------------------------------------------------------------
(* Types                                                                    *)

LEMMA VectorsAreSums == Vectors \subseteq Sums
BY DEF Vectors, Sums

LEMMA OwnRType ==
  ASSUME NEW p \in Players, NEW n \in Lives
  PROVE  OwnR(p, n) \in Sums
<1>1. {p} \in SUBSET Players
  OBVIOUS
<1>2. OwnR(p, n) \in [{p} -> Lives]
  BY DEF OwnR
<1> HIDE DEF OwnR
<1> QED
  BY <1>1, <1>2 DEF Sums

\* A worker's record in call, by what it runs.
LEMMA CallFields ==
  ASSUME TypeOK, NEW p \in Players, NEW w \in Workers
  PROVE  /\ call[p][w].op \in {"update", "store", "open", "sign"} =>
              call[p][w] \in [op : {"update", "store", "open", "sign"},
                              data : Records, Rs : Vectors]
         /\ call[p][w].op = "delete" =>
              call[p][w] \in [op : {"delete"}, life : Lives]
BY DEF TypeOK, Calls, Idle

\* The records of a player, by themselves.
LEMMA StateTypes ==
  ASSUME TypeOK, NEW p \in Players
  PROVE  /\ starts[p] \in 0..MaxStarts /\ starts[p] \in Nat
         /\ data[p] # Absent => data[p] \in Records /\ data[p].life \in Nat
         /\ commitments[p] # Absent => commitments[p] \in Vectors
         /\ \A b \in bound[p] : b \in [life : Lives, Rs : Vectors] /\ b.life \in Nat
         /\ \A u \in uses[p] : u.life \in Lives /\ u.life \in Nat
<1>1. 0..MaxStarts \subseteq Nat /\ Lives \subseteq Nat
  BY ConstantsAssumption DEF Lives
<1>2. starts[p] \in 0..MaxStarts
  BY DEF TypeOK
<1>3. data[p] # Absent => data[p] \in Records /\ data[p].life \in Lives
  BY DEF TypeOK, Records
<1>4. commitments[p] # Absent => commitments[p] \in Vectors
  BY DEF TypeOK
<1>5. \A b \in bound[p] : b \in [life : Lives, Rs : Vectors]
  BY DEF TypeOK
<1>6. \A u \in uses[p] : u.life \in Lives
  BY DEF TypeOK
<1>7. \A b \in bound[p] : b.life \in Lives
  BY <1>5
<1> QED
  BY <1>1, <1>2, <1>3, <1>4, <1>5, <1>6, <1>7

LEMMA EnterType ==
  ASSUME TypeOK, NEW p \in Players, NEW w \in Workers, NEW c \in Calls,
         Enter(p, w, c)
  PROVE  call' \in [Players -> [Workers -> Calls]]
BY DEF TypeOK, Enter

LEMMA ReturnType ==
  ASSUME TypeOK, NEW p \in Players, NEW w \in Workers, Return(p, w)
  PROVE  call' \in [Players -> [Workers -> Calls]]
BY EnterType DEF Return, Calls

LEMMA InitType == Init => TypeOK
BY ConstantsAssumption DEF Init, TypeOK, Calls, Idle

LEMMA StartSigningType ==
  ASSUME TypeOK, NEW p \in Players, NEW m \in Messages, StartSigning(p, m)
  PROVE  TypeOK'
<1>1. starts[p] + 1 \in Lives
  BY ConstantsAssumption DEF TypeOK, StartSigning, Lives
<1> DEFINE d == [life |-> starts[p] + 1, msg |-> m, R |-> OwnR(p, starts[p] + 1),
                 s |-> Absent, version |-> OwnVersion]
<1>2. d \in Records
  BY <1>1, OwnRType DEF Records
<1>3. data' = [data EXCEPT ![p] = d]
  BY DEF StartSigning
<1>4. starts' \in [Players -> 0..MaxStarts]
  BY <1>1, ConstantsAssumption DEF TypeOK, StartSigning, Lives
<1> HIDE DEF d
<1>5. data' \in [Players -> Records \cup {Absent}]
  BY <1>2, <1>3 DEF TypeOK
<1> QED
  BY <1>4, <1>5 DEF TypeOK, StartSigning, history

LEMMA StoreCommitmentsType ==
  ASSUME TypeOK, NEW p \in Players, NEW w \in Workers, NEW v \in Vectors,
         NEW ver \in Versions, StoreCommitments(p, w, v, ver)
  PROVE  TypeOK'
<1> DEFINE d == data[p]
           c == [op |-> IF data[p].version = ver THEN "store" ELSE "update",
                 data |-> [data[p] EXCEPT !.version = ver], Rs |-> v]
<1>1. data[p] \in Records
  BY DEF TypeOK, StoreCommitments
<1>2. [data[p] EXCEPT !.version = ver] \in Records
  BY <1>1 DEF Records
<1>3. c \in Calls
  BY <1>2 DEF Calls
<1>4. call' = call \/ Enter(p, w, c)
  BY DEF StoreCommitments
<1>5. call' \in [Players -> [Workers -> Calls]]
  BY <1>3, <1>4, EnterType DEF TypeOK
<1> QED
  BY <1>5 DEF TypeOK, StoreCommitments, history

LEMMA UpdateVersionType ==
  ASSUME TypeOK, NEW p \in Players, NEW w \in Workers, UpdateVersion(p, w)
  PROVE  TypeOK'
<1> DEFINE c == call[p][w]
<1>1. c \in [op : {"update", "store", "open", "sign"}, data : Records, Rs : Vectors]
  BY CallFields DEF UpdateVersion
<1>2. [c EXCEPT !.op = "store"] \in Calls /\ c.data \in Records
  BY <1>1 DEF Calls
<1>3. Enter(p, w, [c EXCEPT !.op = "store"]) \/ Return(p, w)
  BY DEF UpdateVersion
<1>4. data' = data \/ data' = [data EXCEPT ![p] = c.data]
  BY DEF UpdateVersion
<1> HIDE DEF c
<1>5. call' \in [Players -> [Workers -> Calls]]
  BY <1>2, <1>3, EnterType, ReturnType
<1>6. data' \in [Players -> Records \cup {Absent}]
  BY <1>2, <1>4 DEF TypeOK
<1> QED
  BY <1>5, <1>6 DEF TypeOK, UpdateVersion, history

LEMMA StoreSigningCommitmentsType ==
  ASSUME TypeOK, NEW p \in Players, NEW w \in Workers,
         StoreSigningCommitments(p, w)
  PROVE  TypeOK'
<1> DEFINE c == call[p][w]
           b == [life |-> c.data.life, Rs |-> c.Rs]
<1>1. c \in [op : {"update", "store", "open", "sign"}, data : Records, Rs : Vectors]
  BY CallFields DEF StoreSigningCommitments
<1>2. c.Rs \in Vectors /\ c.data.life \in Lives
  BY <1>1 DEF Records
<1>3. b \in [life : Lives, Rs : Vectors]
  BY <1>2
<1>4. call' \in [Players -> [Workers -> Calls]]
  BY ReturnType DEF StoreSigningCommitments
<1>5. commitments' = commitments \/ commitments' = [commitments EXCEPT ![p] = c.Rs]
  BY DEF StoreSigningCommitments
<1>6. bound' = bound \/ bound' = [bound EXCEPT ![p] = @ \cup {b}]
  BY DEF StoreSigningCommitments
<1>7. revealed' = revealed \/ revealed' = [revealed EXCEPT ![p] = @ \cup {c.data.life}]
  BY DEF StoreSigningCommitments
<1> HIDE DEF b, c
<1>8. commitments' \in [Players -> Vectors \cup {Absent}]
  BY <1>2, <1>5 DEF TypeOK
<1>9. bound' \in [Players -> SUBSET [life : Lives, Rs : Vectors]]
  BY <1>3, <1>6 DEF TypeOK
<1>10. revealed' \in [Players -> SUBSET Lives]
  BY <1>2, <1>7 DEF TypeOK
<1> QED
  BY <1>4, <1>8, <1>9, <1>10 DEF TypeOK, StoreSigningCommitments

LEMMA BroadcastSiType ==
  ASSUME TypeOK, NEW p \in Players, NEW w \in Workers, NEW v \in Vectors,
         BroadcastSi(p, w, v)
  PROVE  TypeOK'
<1> DEFINE c == [op |-> "open", data |-> data[p], Rs |-> v]
<1>1. data[p] \in Records
  BY DEF TypeOK, BroadcastSi
<1>2. c \in Calls
  BY <1>1 DEF Calls
<1>3. Enter(p, w, c)
  BY DEF BroadcastSi
<1>4. call' \in [Players -> [Workers -> Calls]]
  BY <1>2, <1>3, EnterType
<1> QED
  BY <1>4 DEF TypeOK, BroadcastSi, history

LEMMA OpenCommitmentsType ==
  ASSUME TypeOK, NEW p \in Players, NEW w \in Workers, OpenCommitments(p, w)
  PROVE  TypeOK'
<1> DEFINE c == call[p][w]
           e == [op |-> "sign", data |-> [c.data EXCEPT !.R = c.Rs, !.s = c.Rs],
                 Rs |-> c.Rs]
<1>1. c \in [op : {"update", "store", "open", "sign"}, data : Records, Rs : Vectors]
  BY CallFields DEF OpenCommitments
<1>2. c.Rs \in Sums /\ c.data \in Records
  BY <1>1, VectorsAreSums
<1>3. [c.data EXCEPT !.R = c.Rs, !.s = c.Rs] \in Records
  BY <1>2 DEF Records
<1>4. e \in Calls
  BY <1>1, <1>3 DEF Calls
<1>5. Enter(p, w, e) \/ Return(p, w)
  BY DEF OpenCommitments, SumOfRs
<1> HIDE DEF c, e
<1>6. call' \in [Players -> [Workers -> Calls]]
  BY <1>4, <1>5, EnterType, ReturnType
<1> QED
  BY <1>6 DEF TypeOK, OpenCommitments, history

\* The answers of all blocks.
LEMMA ResponsesType ==
  ASSUME NEW p \in Players, NEW d \in Records
  PROVE  {Response(p, d, i) : i \in 1..Blocks} \subseteq
           [life : Lives, block : 1..Blocks, msg : Messages, R : Sums]
BY DEF Response, Records

LEMMA UpdateAnsweredType ==
  ASSUME TypeOK, NEW p \in Players, NEW w \in Workers, UpdateAnswered(p, w)
  PROVE  TypeOK'
<1> DEFINE d == call[p][w].data
           a == {Response(p, d, i) : i \in 1..Blocks}
<1>1. d \in Records
  BY CallFields DEF UpdateAnswered
<1>2. a \subseteq [life : Lives, block : 1..Blocks, msg : Messages, R : Sums]
  BY <1>1, ResponsesType
<1>3. data' = data \/ data' = [data EXCEPT ![p] = d]
  BY DEF UpdateAnswered
<1>4. uses' = uses \/ uses' = [uses EXCEPT ![p] = @ \cup a]
  BY DEF UpdateAnswered
<1>5. call' \in [Players -> [Workers -> Calls]]
  BY ReturnType DEF UpdateAnswered
<1> HIDE DEF d, a
<1>6. data' \in [Players -> Records \cup {Absent}]
  BY <1>1, <1>3 DEF TypeOK
<1>7. uses' \in [Players -> SUBSET [life : Lives, block : 1..Blocks,
                                    msg : Messages, R : Sums]]
  BY <1>2, <1>4 DEF TypeOK
<1> QED
  BY <1>5, <1>6, <1>7 DEF TypeOK, UpdateAnswered

LEMMA GetEddsaSignatureType ==
  ASSUME TypeOK, NEW p \in Players, NEW w \in Workers, GetEddsaSignature(p, w)
  PROVE  TypeOK'
<1> DEFINE c == [op |-> "delete", life |-> data[p].life]
<1>1. data[p] \in Records
  BY DEF TypeOK, GetEddsaSignature
<1>2. c \in Calls
  BY <1>1 DEF Calls, Records
<1>3. Enter(p, w, c)
  BY DEF GetEddsaSignature
<1>4. call' \in [Players -> [Workers -> Calls]]
  BY <1>2, <1>3, EnterType
<1> QED
  BY <1>4 DEF TypeOK, GetEddsaSignature, history

LEMMA DeleteSigningDataType ==
  ASSUME TypeOK, NEW p \in Players, NEW w \in Workers, DeleteSigningData(p, w)
  PROVE  TypeOK'
<1>1. call[p][w].life \in Lives
  BY CallFields DEF DeleteSigningData
<1>2. [op |-> "extract"] \in Calls
  BY DEF Calls
<1>3. call' \in [Players -> [Workers -> Calls]]
  BY <1>2, EnterType DEF DeleteSigningData
<1>4. data' \in [Players -> Records \cup {Absent}]
  BY DEF TypeOK, DeleteSigningData, Delete
<1>5. commitments' \in [Players -> Vectors \cup {Absent}]
  BY DEF TypeOK, DeleteSigningData, Delete
<1>6. signed' \in [Players -> SUBSET Lives]
  BY <1>1 DEF TypeOK, DeleteSigningData
<1> QED
  BY <1>3, <1>4, <1>5, <1>6 DEF TypeOK, DeleteSigningData

LEMMA ExtractType ==
  ASSUME TypeOK, NEW p \in Players, NEW w \in Workers, Extract(p, w)
  PROVE  TypeOK'
<1>1. call' \in [Players -> [Workers -> Calls]]
  BY ReturnType DEF Extract
<1> QED
  BY <1>1 DEF TypeOK, Extract, history

LEMMA InterruptType ==
  ASSUME TypeOK, NEW p \in Players, NEW w \in Workers, Interrupt(p, w)
  PROVE  TypeOK'
<1>1. call' \in [Players -> [Workers -> Calls]]
  BY ReturnType DEF Interrupt
<1> QED
  BY <1>1 DEF TypeOK, Interrupt, history

LEMMA NextType == TypeOK /\ [Next]_vars => TypeOK'
<1> SUFFICES ASSUME TypeOK, [Next]_vars
             PROVE  TypeOK'
  OBVIOUS
<1>1. CASE UNCHANGED vars
  BY <1>1 DEF vars, history, TypeOK
<1>2. CASE Next
  BY <1>2, StartSigningType, StoreCommitmentsType, UpdateVersionType,
     StoreSigningCommitmentsType, BroadcastSiType, OpenCommitmentsType,
     UpdateAnsweredType, GetEddsaSignatureType, DeleteSigningDataType,
     ExtractType, InterruptType DEF Next, Call, Continue
<1> QED
  BY <1>1, <1>2

\* Every reachable state has its type: no handler stores or returns a record,
\* vector of commitments or answer of another shape, whatever it was sent.
THEOREM TypeCorrect == Spec => []TypeOK
BY InitType, NextType, PTL DEF Spec

-----------------------------------------------------------------------------
(* A player answers the challenge of the commitments it opened against      *)

\* When one handler of a player runs at a time, a worker that enters one
\* leaves the others idle.
LEMMA EnteredAlone ==
  ASSUME TypeOK, Serial, OneHandler, NEW p \in Players, NEW w \in Workers,
         NEW c, Enter(p, w, c), MayEnter(p, w)
  PROVE  OneHandler'
BY DEF TypeOK, OneHandler, Enter, MayEnter

\* A worker that goes on in its handler is still the only one.
LEMMA ContinuesAlone ==
  ASSUME TypeOK, OneHandler, NEW p \in Players, NEW w \in Workers,
         NEW c, Enter(p, w, c), call[p][w].op # "idle"
  PROVE  OneHandler'
BY DEF TypeOK, OneHandler, Enter

\* The handler in progress is that of the only worker that is not idle.
LEMMA OthersIdle ==
  ASSUME OneHandler, NEW p \in Players, NEW w \in Workers,
         call[p][w].op # "idle"
  PROVE  \A v \in Workers : v # w => call[p][v].op = "idle"
BY DEF OneHandler

LEMMA InitOpens == Init => OpensInv
BY DEF Init, OpensInv, OpensAsCommitted, OneHandler, LoadedIsCurrent,
   CommitmentsOfLife, OneMessage, Idle

\* A new life begins: nothing of it is bound or answered yet.
LEMMA StartSigningOpens ==
  ASSUME TypeOK, OpensInv, Serial, NEW p \in Players, NEW m \in Messages,
         StartSigning(p, m)
  PROVE  OpensInv'
<1> DEFINE d == [life |-> starts[p] + 1, msg |-> m, R |-> OwnR(p, starts[p] + 1),
                 s |-> Absent, version |-> OwnVersion]
<1>1. /\ starts' = [starts EXCEPT ![p] = @ + 1]
      /\ data' = [data EXCEPT ![p] = d]
      /\ UNCHANGED <<commitments, call, bound, uses>>
  BY DEF StartSigning, history
<1>2. /\ d.life = starts[p] + 1 /\ d.life # 0 /\ starts[p] \in Nat
      /\ data[p] = Absent /\ commitments[p] = Absent
  <2>1. data[p] = Absent
    BY DEF StartSigning
  <2>2. commitments[p] = Absent
    BY <2>1 DEF OpensInv, CommitmentsOfLife
  <2>3. starts[p] \in Nat
    BY StateTypes
  <2> QED
    BY <2>1, <2>2, <2>3
<1>3. \A w \in Workers : call[p][w].op = "idle"
  BY DEF StartSigning, MayEnter
<1>4. starts[p] + 1 \in Lives
  BY ConstantsAssumption DEF TypeOK, StartSigning, Lives
<1>5. d \in Records
  BY <1>4, OwnRType DEF Records
<1>6. d # Absent
  BY <1>5, AbsentAssumption
<1>7. \A b \in bound[p] : b.life \in Nat /\ b.life <= starts[p]
  BY StateTypes DEF OpensInv, CommitmentsOfLife
<1>8. \A u \in uses[p] : u.life \in Nat /\ u.life <= starts[p]
  BY StateTypes DEF OpensInv, OneMessage
<1> HIDE DEF d
<1>9. LoadedIsCurrent'
  BY <1>1, <1>3 DEF TypeOK, OpensInv, LoadedIsCurrent
<1>10. CommitmentsOfLife'
  <2> SUFFICES ASSUME NEW q \in Players
               PROVE  CommitmentsOfLife!(q)'
    BY DEF CommitmentsOfLife
  <2>1. CASE q = p
    BY <1>1, <1>2, <1>6, <1>7, <2>1 DEF TypeOK, Lives
  <2>2. CASE q # p
    BY <1>1, <2>2 DEF TypeOK, OpensInv, CommitmentsOfLife
  <2> QED
    BY <2>1, <2>2
<1>11. OneMessage'
  <2> SUFFICES ASSUME NEW q \in Players
               PROVE  OneMessage!(q)'
    BY DEF OneMessage
  <2>1. CASE q = p
    BY <1>1, <1>2, <1>8, <2>1 DEF TypeOK, OpensInv, OneMessage, Lives
  <2>2. CASE q # p
    BY <1>1, <2>2 DEF TypeOK, OpensInv, OneMessage
  <2> QED
    BY <2>1, <2>2
<1> QED
  BY <1>1, <1>9, <1>10, <1>11 DEF OpensInv, OpensAsCommitted, OneHandler

\* A step that only enters a handler, goes on in it or leaves it.
LEMMA CallStepOpens ==
  ASSUME OpensInv, OneHandler', LoadedIsCurrent',
         UNCHANGED <<starts, data, commitments, bound, uses>>
  PROVE  OpensInv'
BY DEF OpensInv, OpensAsCommitted, CommitmentsOfLife, OneMessage

\* A handler that works on the life its player is in is current.
LEMMA EnterCurrent ==
  ASSUME TypeOK, LoadedIsCurrent, NEW p \in Players, NEW w \in Workers, NEW c,
         Enter(p, w, c), UNCHANGED <<data, commitments>>,
         c.op \in {"update", "store", "open"} =>
           /\ data[p] # Absent
           /\ c.data.life = data[p].life /\ c.data.msg = data[p].msg,
         c.op # "sign"
  PROVE  LoadedIsCurrent'
BY DEF TypeOK, LoadedIsCurrent, Enter

LEMMA StoreCommitmentsOpens ==
  ASSUME TypeOK, OpensInv, Serial, NEW p \in Players, NEW w \in Workers,
         NEW v \in Vectors, NEW ver \in Versions, StoreCommitments(p, w, v, ver)
  PROVE  OpensInv'
<1> DEFINE c == [op |-> IF data[p].version = ver THEN "store" ELSE "update",
                 data |-> [data[p] EXCEPT !.version = ver], Rs |-> v]
<1>1. UNCHANGED <<starts, data, commitments, bound, uses>>
  BY DEF StoreCommitments, history
<1>2. call' = call \/ Enter(p, w, c)
  BY DEF StoreCommitments
<1>3. data[p] # Absent /\ data[p] \in Records /\ MayEnter(p, w)
  BY StateTypes DEF StoreCommitments
<1>4. c.op # "sign" /\ c.data.life = data[p].life /\ c.data.msg = data[p].msg
  BY <1>3 DEF Records
<1> HIDE DEF c
<1>5. OneHandler'
  BY <1>2, <1>3, EnteredAlone DEF OpensInv, OneHandler
<1>6. LoadedIsCurrent'
  <2>1. CASE call' = call
    BY <1>1, <2>1 DEF OpensInv, LoadedIsCurrent
  <2>2. CASE Enter(p, w, c)
    BY <1>1, <1>3, <1>4, <2>2, EnterCurrent DEF OpensInv
  <2> QED
    BY <1>2, <2>1, <2>2
<1> QED
  BY <1>1, <1>5, <1>6, CallStepOpens

LEMMA BroadcastSiOpens ==
  ASSUME TypeOK, OpensInv, Serial, NEW p \in Players, NEW w \in Workers,
         NEW v \in Vectors, BroadcastSi(p, w, v)
  PROVE  OpensInv'
<1> DEFINE c == [op |-> "open", data |-> data[p], Rs |-> v]
<1>1. UNCHANGED <<starts, data, commitments, bound, uses>>
  BY DEF BroadcastSi, history
<1>2. Enter(p, w, c) /\ data[p] # Absent /\ MayEnter(p, w)
  BY DEF BroadcastSi
<1>3. c.op # "sign" /\ c.data.life = data[p].life /\ c.data.msg = data[p].msg
  OBVIOUS
<1> HIDE DEF c
<1>4. OneHandler'
  BY <1>2, EnteredAlone DEF OpensInv
<1>5. LoadedIsCurrent'
  BY <1>1, <1>2, <1>3, EnterCurrent DEF OpensInv
<1> QED
  BY <1>1, <1>4, <1>5, CallStepOpens

LEMMA GetEddsaSignatureOpens ==
  ASSUME TypeOK, OpensInv, Serial, NEW p \in Players, NEW w \in Workers,
         GetEddsaSignature(p, w)
  PROVE  OpensInv'
<1> DEFINE c == [op |-> "delete", life |-> data[p].life]
<1>1. UNCHANGED <<starts, data, commitments, bound, uses>>
  BY DEF GetEddsaSignature, history
<1>2. Enter(p, w, c) /\ MayEnter(p, w)
  BY DEF GetEddsaSignature
<1>3. c.op = "delete"
  OBVIOUS
<1> HIDE DEF c
<1>4. OneHandler'
  BY <1>2, EnteredAlone DEF OpensInv
<1>5. LoadedIsCurrent'
  BY <1>1, <1>2, <1>3, EnterCurrent DEF OpensInv
<1> QED
  BY <1>1, <1>4, <1>5, CallStepOpens

\* Leaving a handler.
LEMMA ReturnOpens ==
  ASSUME TypeOK, OpensInv, NEW p \in Players, NEW w \in Workers, Return(p, w),
         call[p][w].op # "idle",
         UNCHANGED <<starts, data, commitments, bound, uses>>
  PROVE  OpensInv'
<1>1. Enter(p, w, Idle) /\ Idle.op = "idle"
  BY DEF Return, Idle
<1>2. OneHandler'
  BY <1>1, ContinuesAlone DEF OpensInv
<1>3. LoadedIsCurrent'
  BY <1>1, EnterCurrent DEF OpensInv
<1> QED
  BY <1>2, <1>3, CallStepOpens

LEMMA ExtractOpens ==
  ASSUME TypeOK, OpensInv, NEW p \in Players, NEW w \in Workers, Extract(p, w)
  PROVE  OpensInv'
BY ReturnOpens DEF Extract, history

LEMMA InterruptOpens ==
  ASSUME TypeOK, OpensInv, NEW p \in Players, NEW w \in Workers, Interrupt(p, w)
  PROVE  OpensInv'
<1>1. call[p][w].op # "idle"
  BY ConstantsAssumption DEF Interrupt
<1> QED
  BY <1>1, ReturnOpens DEF Interrupt, history

LEMMA OpenCommitmentsOpens ==
  ASSUME TypeOK, OpensInv, NEW p \in Players, NEW w \in Workers,
         OpenCommitments(p, w)
  PROVE  OpensInv'
<1> DEFINE c == call[p][w]
           e == [op |-> "sign", data |-> [c.data EXCEPT !.R = c.Rs, !.s = c.Rs],
                 Rs |-> c.Rs]
<1>1. /\ c.op = "open"
      /\ UNCHANGED <<starts, data, commitments, bound, uses>>
      /\ (commitments[p] = c.Rs /\ Enter(p, w, e)) \/ Return(p, w)
  BY DEF OpenCommitments, OpensCommitments, SumOfRs, history
<1>2. CASE Return(p, w)
  BY <1>1, <1>2, ReturnOpens
<1>3. CASE commitments[p] = c.Rs /\ Enter(p, w, e)
  <2>1. c.data \in Records
    BY <1>1, CallFields
  <2>2. e.op = "sign" /\ e.Rs = c.Rs /\ e.data.R = c.Rs
        /\ e.data.life = c.data.life /\ e.data.msg = c.data.msg
    BY <2>1 DEF Records
  <2>3. data[p] # Absent /\ c.data.life = data[p].life /\ c.data.msg = data[p].msg
    BY <1>1 DEF OpensInv, LoadedIsCurrent
  <2>4. OneHandler'
    BY <1>1, <1>3, ContinuesAlone DEF OpensInv
  <2> HIDE DEF e
  <2>5. LoadedIsCurrent'
    BY <1>1, <1>3, <2>2, <2>3 DEF TypeOK, OpensInv, LoadedIsCurrent, Enter
  <2> QED
    BY <1>1, <2>4, <2>5, CallStepOpens
<1> QED
  BY <1>1, <1>2, <1>3

\* Overwriting a record by one of the same life disturbs no commitments.
LEMMA SameLife ==
  ASSUME TypeOK, CommitmentsOfLife, NEW p \in Players, NEW d \in Records,
         data[p] # Absent, d.life = data[p].life,
         data' = [data EXCEPT ![p] = d], UNCHANGED <<starts, commitments, bound>>
  PROVE  CommitmentsOfLife'
<1>1. d # Absent
  BY AbsentAssumption
<1> SUFFICES ASSUME NEW q \in Players
             PROVE  CommitmentsOfLife!(q)'
  BY DEF CommitmentsOfLife
<1>2. CASE q = p
  BY <1>1, <1>2 DEF TypeOK, CommitmentsOfLife
<1>3. CASE q # p
  BY <1>3 DEF TypeOK, CommitmentsOfLife
<1> QED
  BY <1>2, <1>3

\* The worker whose handler overwrites the record leaves no other behind.
LEMMA OverwriteCurrent ==
  ASSUME TypeOK, OneHandler, LoadedIsCurrent, NEW p \in Players,
         NEW w \in Workers, NEW d \in Records, NEW c,
         call[p][w].op # "idle", Enter(p, w, c),
         data' = [data EXCEPT ![p] = d], UNCHANGED commitments,
         c.op # "idle" => c.op = "store" /\ c.data = d
  PROVE  LoadedIsCurrent'
<1>1. \A v \in Workers : v # w => call[p][v].op = "idle"
  BY OthersIdle
<1>2. d # Absent
  BY AbsentAssumption
<1> SUFFICES ASSUME NEW q \in Players, NEW v \in Workers
             PROVE  LoadedIsCurrent!(q, v)'
  BY DEF LoadedIsCurrent
<1>3. CASE q # p
  BY <1>3 DEF TypeOK, LoadedIsCurrent, Enter
<1>4. CASE q = p /\ v # w
  BY <1>1, <1>4 DEF TypeOK, Enter
<1>5. CASE q = p /\ v = w
  BY <1>2, <1>5 DEF TypeOK, Enter
<1> QED
  BY <1>3, <1>4, <1>5

LEMMA UpdateVersionOpens ==
  ASSUME TypeOK, OpensInv, NEW p \in Players, NEW w \in Workers,
         UpdateVersion(p, w)
  PROVE  OpensInv'
<1> DEFINE c == call[p][w]
           d == call[p][w].data
           e == [c EXCEPT !.op = "store"]
<1>1. /\ c.op = "update"
      /\ UNCHANGED <<starts, commitments, bound, uses>>
      /\ \/ data[p] # Absent /\ data' = [data EXCEPT ![p] = d] /\ Enter(p, w, e)
         \/ Return(p, w) /\ UNCHANGED data
  BY DEF UpdateVersion, history
<1>2. CASE Return(p, w) /\ UNCHANGED data
  BY <1>1, <1>2, ReturnOpens
<1>3. CASE data[p] # Absent /\ data' = [data EXCEPT ![p] = d] /\ Enter(p, w, e)
  <2>1. d \in Records /\ e.op = "store" /\ e.data = d
    BY <1>1, CallFields
  <2>2. d.life = data[p].life /\ d.msg = data[p].msg
    BY <1>1 DEF OpensInv, LoadedIsCurrent
  <2> HIDE DEF d, e
  <2>3. CommitmentsOfLife'
    BY <1>1, <1>3, <2>1, <2>2, SameLife DEF OpensInv
  <2>4. OneHandler'
    BY <1>1, <1>3, ContinuesAlone DEF OpensInv
  <2>5. LoadedIsCurrent'
    BY <1>1, <1>3, <2>1, OverwriteCurrent DEF OpensInv
  <2>6. OneMessage'
    <3> SUFFICES ASSUME NEW q \in Players
                 PROVE  OneMessage!(q)'
      BY DEF OneMessage
    <3>1. CASE q = p
      BY <1>1, <1>3, <2>2, <3>1 DEF TypeOK, OpensInv, OneMessage
    <3>2. CASE q # p
      BY <1>1, <1>3, <3>2 DEF TypeOK, OpensInv, OneMessage
    <3> QED
      BY <3>1, <3>2
  <2> QED
    BY <1>1, <2>3, <2>4, <2>5, <2>6 DEF OpensInv, OpensAsCommitted
<1> QED
  BY <1>1, <1>2, <1>3

\* Binding a life: it was not bound before.
LEMMA StoreSigningCommitmentsOpens ==
  ASSUME TypeOK, OpensInv, NEW p \in Players, NEW w \in Workers,
         StoreSigningCommitments(p, w)
  PROVE  OpensInv'
<1> DEFINE c == call[p][w]
           n == call[p][w].data.life
           v == call[p][w].Rs
           b == [life |-> n, Rs |-> v]
<1>1. /\ c.op = "store" /\ Return(p, w)
      /\ UNCHANGED <<starts, data, uses>>
      /\ \/ /\ commitments[p] = Absent
            /\ commitments' = [commitments EXCEPT ![p] = v]
            /\ bound' = [bound EXCEPT ![p] = @ \cup {b}]
         \/ UNCHANGED <<commitments, bound>>
  BY DEF StoreSigningCommitments, NoCommitments
<1>2. CASE UNCHANGED <<commitments, bound>>
  BY <1>1, <1>2, ReturnOpens
<1>3. CASE /\ commitments[p] = Absent
           /\ commitments' = [commitments EXCEPT ![p] = v]
           /\ bound' = [bound EXCEPT ![p] = @ \cup {b}]
  <2>1. /\ data[p] # Absent /\ n = data[p].life /\ v \in Vectors
        /\ data[p].life = starts[p] /\ starts[p] \in Nat
        /\ \A a \in bound[p] : a.life # n
    <3>1. v \in Vectors
      BY <1>1, CallFields
    <3>2. data[p] # Absent /\ n = data[p].life
      BY <1>1 DEF OpensInv, LoadedIsCurrent
    <3>3. starts[p] \in Nat
      BY StateTypes
    <3>4. data[p].life = starts[p] /\ \A a \in bound[p] : a.life # n
      BY <1>3, <3>2 DEF OpensInv, CommitmentsOfLife
    <3> QED
      BY <3>1, <3>2, <3>3, <3>4
  <2>2. v # Absent
    BY <2>1, AbsentAssumption, VectorsAreSums
  <2>3. b.life = n /\ b.Rs = v /\ b = [life |-> data[p].life, Rs |-> v]
    BY <2>1
  <2>4. Enter(p, w, Idle) /\ Idle.op = "idle"
    BY <1>1 DEF Return, Idle
  <2>5. \A x \in Workers : x # w => call[p][x].op = "idle"
    BY <1>1, OthersIdle DEF OpensInv
  <2> HIDE DEF b, n, v
  <2>6. OneHandler'
    BY <1>1, <2>4, ContinuesAlone DEF OpensInv
  <2>7. LoadedIsCurrent'
    <3> SUFFICES ASSUME NEW q \in Players, NEW x \in Workers
                 PROVE  LoadedIsCurrent!(q, x)'
      BY DEF LoadedIsCurrent
    <3>1. CASE q = p
      BY <1>1, <1>3, <2>4, <2>5, <3>1 DEF TypeOK, Enter
    <3>2. CASE q # p
      BY <1>1, <1>3, <2>4, <3>2 DEF TypeOK, Enter, OpensInv, LoadedIsCurrent
    <3> QED
      BY <3>1, <3>2
  <2>8. CommitmentsOfLife'
    <3> SUFFICES ASSUME NEW q \in Players
                 PROVE  CommitmentsOfLife!(q)'
      BY DEF CommitmentsOfLife
    <3>1. CASE q = p
      <4>1. bound'[p] = bound[p] \cup {b} /\ commitments'[p] = v
        BY <1>3 DEF TypeOK
      <4>2. data'[p] = data[p] /\ starts'[p] = starts[p]
        BY <1>1
      <4>3. \A a \in bound[p] : a.life <= starts[p]
        BY DEF OpensInv, CommitmentsOfLife
      <4>4. \A a \in bound'[p] : a.life <= starts'[p]
        BY <2>1, <2>3, <4>1, <4>2, <4>3
      <4> QED
        BY <2>1, <2>2, <2>3, <3>1, <4>1, <4>2, <4>4
    <3>2. CASE q # p
      BY <1>1, <1>3, <3>2 DEF TypeOK, OpensInv, CommitmentsOfLife
    <3> QED
      BY <3>1, <3>2
  <2>9. OpensAsCommitted'
    <3> SUFFICES ASSUME NEW q \in Players
                 PROVE  OpensAsCommitted!(q)'
      BY DEF OpensAsCommitted
    <3>1. CASE q = p
      BY <1>1, <1>3, <2>1, <2>3, <3>1 DEF TypeOK, OpensInv, OpensAsCommitted
    <3>2. CASE q # p
      BY <1>1, <1>3, <3>2 DEF TypeOK, OpensInv, OpensAsCommitted
    <3> QED
      BY <3>1, <3>2
  <2> QED
    BY <1>1, <2>6, <2>7, <2>8, <2>9 DEF OpensInv, OneMessage
<1> QED
  BY <1>1, <1>2, <1>3

\* Answering: the challenge is that of the stored commitments.
LEMMA UpdateAnsweredOpens ==
  ASSUME TypeOK, OpensInv, NEW p \in Players, NEW w \in Workers,
         UpdateAnswered(p, w)
  PROVE  OpensInv'
<1> DEFINE d == call[p][w].data
           a == {Response(p, d, i) : i \in 1..Blocks}
<1>1. /\ call[p][w].op = "sign" /\ Return(p, w)
      /\ UNCHANGED <<starts, commitments, bound>>
      /\ \/ /\ data[p] # Absent
            /\ data' = [data EXCEPT ![p] = d]
            /\ uses' = [uses EXCEPT ![p] = @ \cup a]
         \/ UNCHANGED <<data, uses>>
  BY DEF UpdateAnswered
<1>2. CASE UNCHANGED <<data, uses>>
  BY <1>1, <1>2, ReturnOpens
<1>3. CASE /\ data[p] # Absent
           /\ data' = [data EXCEPT ![p] = d]
           /\ uses' = [uses EXCEPT ![p] = @ \cup a]
  <2>1. d \in Records /\ d # Absent
    BY <1>1, CallFields, AbsentAssumption
  <2>2. /\ d.life = data[p].life /\ d.msg = data[p].msg
        /\ d.R = commitments[p] /\ commitments[p] # Absent
        /\ data[p].life = starts[p] /\ starts[p] \in Nat
    <3>1. call[p][w].Rs \in Vectors
      BY <1>1, CallFields
    <3>2. /\ d.life = data[p].life /\ d.msg = data[p].msg
          /\ commitments[p] = call[p][w].Rs /\ d.R = call[p][w].Rs
      BY <1>1 DEF OpensInv, LoadedIsCurrent
    <3>3. commitments[p] # Absent
      BY <3>1, <3>2, VectorsAreSums, AbsentAssumption
    <3>4. data[p].life = starts[p] /\ starts[p] \in Nat
      BY <1>3, StateTypes DEF OpensInv, CommitmentsOfLife
    <3> QED
      BY <3>2, <3>3, <3>4
  <2>3. \A u \in a : u.life = d.life /\ u.msg = d.msg /\ u.R = d.R
    BY DEF Response
  <2>4. [life |-> d.life, Rs |-> d.R] \in bound[p]
    BY <2>2 DEF OpensInv, CommitmentsOfLife
  <2>5. Enter(p, w, Idle) /\ Idle.op = "idle"
    BY <1>1 DEF Return, Idle
  <2> HIDE DEF d, a
  <2>6. CommitmentsOfLife'
    BY <1>1, <1>3, <2>1, <2>2, SameLife DEF OpensInv
  <2>7. OneHandler'
    BY <1>1, <2>5, ContinuesAlone DEF OpensInv
  <2>8. LoadedIsCurrent'
    BY <1>1, <1>3, <2>1, <2>5, OverwriteCurrent DEF OpensInv
  <2>9. OneMessage'
    <3> SUFFICES ASSUME NEW q \in Players
                 PROVE  OneMessage!(q)'
      BY DEF OneMessage
    <3>1. CASE q = p
      <4>1. uses'[p] = uses[p] \cup a /\ data'[p] = d
        BY <1>3 DEF TypeOK
      <4>2. \A u \in uses'[p] :
              /\ u.life <= starts[p]
              /\ u.life = d.life => u.msg = d.msg
        BY <1>3, <2>2, <2>3, <4>1 DEF OpensInv, OneMessage
      <4>3. \A u, v \in uses'[p] : u.life = v.life => u.msg = v.msg
        BY <1>3, <2>2, <2>3, <4>1, <4>2 DEF OpensInv, OneMessage
      <4> QED
        BY <1>1, <3>1, <4>1, <4>2, <4>3
    <3>2. CASE q # p
      BY <1>1, <1>3, <3>2 DEF TypeOK, OpensInv, OneMessage
    <3> QED
      BY <3>1, <3>2
  <2>10. OpensAsCommitted'
    <3> SUFFICES ASSUME NEW q \in Players
                 PROVE  OpensAsCommitted!(q)'
      BY DEF OpensAsCommitted
    <3>1. CASE q = p
      BY <1>1, <1>3, <2>3, <2>4, <3>1 DEF TypeOK, OpensInv, OpensAsCommitted
    <3>2. CASE q # p
      BY <1>1, <1>3, <3>2 DEF TypeOK, OpensInv, OpensAsCommitted
    <3> QED
      BY <3>1, <3>2
  <2> QED
    BY <2>6, <2>7, <2>8, <2>9, <2>10 DEF OpensInv
<1> QED
  BY <1>1, <1>2, <1>3

\* Deleting: record and commitments go together, and no handler is left.
LEMMA DeleteSigningDataOpens ==
  ASSUME TypeOK, OpensInv, NEW p \in Players, NEW w \in Workers,
         DeleteSigningData(p, w)
  PROVE  OpensInv'
<1> DEFINE e == [op |-> "extract"]
<1>1. /\ call[p][w].op = "delete" /\ Enter(p, w, e)
      /\ data' = [data EXCEPT ![p] = Absent]
      /\ commitments' = [commitments EXCEPT ![p] = Absent]
      /\ UNCHANGED <<starts, bound, uses>>
  BY DEF DeleteSigningData, Delete
<1>2. \A v \in Workers : v # w => call[p][v].op = "idle"
  BY <1>1, OthersIdle DEF OpensInv
<1>3. e.op = "extract"
  OBVIOUS
<1> HIDE DEF e
<1>4. OneHandler'
  BY <1>1, ContinuesAlone DEF OpensInv
<1>5. LoadedIsCurrent'
  <2> SUFFICES ASSUME NEW q \in Players, NEW v \in Workers
               PROVE  LoadedIsCurrent!(q, v)'
    BY DEF LoadedIsCurrent
  <2>1. CASE q = p
    BY <1>1, <1>2, <1>3, <2>1 DEF TypeOK, Enter
  <2>2. CASE q # p
    BY <1>1, <2>2 DEF TypeOK, Enter, OpensInv, LoadedIsCurrent
  <2> QED
    BY <2>1, <2>2
<1>6. CommitmentsOfLife'
  BY <1>1 DEF TypeOK, OpensInv, CommitmentsOfLife
<1>7. OneMessage'
  BY <1>1 DEF TypeOK, OpensInv, OneMessage
<1> QED
  BY <1>1, <1>4, <1>5, <1>6, <1>7 DEF OpensInv, OpensAsCommitted

\* Every step keeps the invariant.
LEMMA NextOpens ==
  ASSUME Serial
  PROVE  TypeOK /\ OpensInv /\ [Next]_vars => OpensInv'
<1> SUFFICES ASSUME TypeOK, OpensInv, [Next]_vars
             PROVE  OpensInv'
  OBVIOUS
<1>1. CASE UNCHANGED vars
  BY <1>1 DEF vars, history, OpensInv, OpensAsCommitted, OneHandler,
     LoadedIsCurrent, CommitmentsOfLife, OneMessage
<1>2. CASE Next
  BY <1>2, StartSigningOpens, StoreCommitmentsOpens, UpdateVersionOpens,
     StoreSigningCommitmentsOpens, BroadcastSiOpens, OpenCommitmentsOpens,
     UpdateAnsweredOpens, GetEddsaSignatureOpens, DeleteSigningDataOpens,
     ExtractOpens, InterruptOpens DEF Next, Call, Continue
<1> QED
  BY <1>1, <1>2

LEMMA OpensInvHolds ==
  ASSUME Serial
  PROVE  Spec => [](TypeOK /\ OpensInv)
<1>1. Init => TypeOK /\ OpensInv
  BY InitType, InitOpens
<1>2. TypeOK /\ OpensInv /\ [Next]_vars => TypeOK' /\ OpensInv'
  BY NextType, NextOpens
<1> QED
  BY <1>1, <1>2, PTL DEF Spec

\* When a host runs one handler of a player at a time, a player answers no
\* challenge but that of the commitments it held when it opened its R:
\* whatever it is sent, for any number of players, lives and interruptions.
THEOREM OpensOnlyAsCommitted ==
  ASSUME Serial
  PROVE  Spec => []OpensAsCommitted
<1>1. OpensInv => OpensAsCommitted
  BY DEF OpensInv
<1> QED
  BY <1>1, OpensInvHolds, PTL

\* And when transactions have one block, a k answers one challenge.
THEOREM OneBlockOneChallenge ==
  ASSUME Serial, Blocks = 1
  PROVE  Spec => []OneChallenge
<1>1. TypeOK /\ OpensInv => OneChallenge
  <2> SUFFICES ASSUME TypeOK, OpensInv, NEW p \in Players,
                      NEW u \in uses[p], NEW v \in uses[p],
                      K(u.life, u.block) = K(v.life, v.block)
               PROVE  u = v
    BY DEF OneChallenge
  <2>1. /\ u \in [life : Lives, block : {1}, msg : Messages, R : Sums]
        /\ v \in [life : Lives, block : {1}, msg : Messages, R : Sums]
    <3>1. 1..Blocks = {1}
      OBVIOUS
    <3> QED
      BY <3>1 DEF TypeOK
  <2>2. u.life = v.life
    BY DEF K
  <2>3. u.msg = v.msg
    BY <2>2 DEF OpensInv, OneMessage
  <2>4. u.R = v.R
    <3>1. /\ [life |-> u.life, Rs |-> u.R] \in bound[p]
          /\ [life |-> v.life, Rs |-> v.R] \in bound[p]
      BY DEF OpensInv, OpensAsCommitted
    <3>2. [life |-> u.life, Rs |-> u.R] = [life |-> v.life, Rs |-> v.R]
      BY <2>2, <3>1 DEF OpensInv, OpensAsCommitted
    <3> QED
      BY <3>2
  <2> QED
    BY <2>1, <2>2, <2>3, <2>4
<1> QED
  BY <1>1, OpensInvHolds, PTL

-----------------------------------------------------------------------------
(* Nothing of a transaction is left                                         *)

\* The entry of the timing map outlives the record only until the handler
\* that deleted the record has extracted it, which nothing interrupts.
TimingOfLife ==
  \A p \in Players :
    (data[p] = Absent /\ timing[p]) => \E w \in Workers : call[p][w].op = "extract"

LEMMA InitTiming == Init => TimingOfLife
BY DEF Init, TimingOfLife

\* A handler that extracts goes on to do so, whatever the other workers do.
LEMMA ExtractStays ==
  ASSUME TypeOK, TimingOfLife, NEW p \in Players, NEW w \in Workers, NEW c,
         Enter(p, w, c), call[p][w].op # "extract",
         \A q \in Players : data'[q] = Absent => data[q] = Absent,
         \A q \in Players : data'[q] = Absent /\ timing'[q] => timing[q]
  PROVE  TimingOfLife'
<1> SUFFICES ASSUME NEW q \in Players, data'[q] = Absent, timing'[q]
             PROVE  \E v \in Workers : call'[q][v].op = "extract"
  BY DEF TimingOfLife
<1>1. PICK v \in Workers : call[q][v].op = "extract"
  BY DEF TimingOfLife
<1>2. q # p \/ v # w
  BY <1>1
<1>3. call'[q][v] = call[q][v]
  BY <1>2 DEF TypeOK, Enter
<1> QED
  BY <1>1, <1>3

\* A step that stores a record.
LEMMA StoreKeepsTiming ==
  ASSUME TypeOK, NEW p \in Players, NEW d \in Records,
         data' = [data EXCEPT ![p] = d] \/ data' = data
  PROVE  \A q \in Players : data'[q] = Absent => data[q] = Absent
BY AbsentAssumption DEF TypeOK

LEMMA StartSigningTiming ==
  ASSUME TypeOK, TimingOfLife, NEW p \in Players, NEW m \in Messages,
         StartSigning(p, m)
  PROVE  TimingOfLife'
<1> DEFINE d == [life |-> starts[p] + 1, msg |-> m, R |-> OwnR(p, starts[p] + 1),
                 s |-> Absent, version |-> OwnVersion]
<1>1. starts[p] + 1 \in Lives
  BY ConstantsAssumption DEF TypeOK, StartSigning, Lives
<1>2. d \in Records
  BY <1>1, OwnRType DEF Records
<1>3. data' = [data EXCEPT ![p] = d] /\ UNCHANGED <<timing, call>>
  BY DEF StartSigning
<1> HIDE DEF d
<1>4. \A q \in Players : data'[q] = Absent => data[q] = Absent
  BY <1>2, <1>3, StoreKeepsTiming
<1> QED
  BY <1>3, <1>4 DEF TimingOfLife

LEMMA StoreCommitmentsTiming ==
  ASSUME TypeOK, TimingOfLife, NEW p \in Players, NEW w \in Workers,
         NEW v \in Vectors, NEW ver \in Versions, StoreCommitments(p, w, v, ver)
  PROVE  TimingOfLife'
<1> DEFINE c == [op |-> IF data[p].version = ver THEN "store" ELSE "update",
                 data |-> [data[p] EXCEPT !.version = ver], Rs |-> v]
<1>1. /\ call[p][w].op = "idle" /\ data[p] # Absent /\ UNCHANGED data
      /\ timing' = [timing EXCEPT ![p] = TRUE]
      /\ Enter(p, w, c) \/ UNCHANGED call
  BY DEF StoreCommitments, MayEnter
<1>2. \A q \in Players : data'[q] = Absent /\ timing'[q] => timing[q]
  BY <1>1 DEF TypeOK
<1> HIDE DEF c
<1>3. CASE Enter(p, w, c)
  BY <1>1, <1>2, <1>3, ExtractStays
<1>4. CASE UNCHANGED call
  BY <1>1, <1>2, <1>4 DEF TimingOfLife
<1> QED
  BY <1>1, <1>3, <1>4

LEMMA DeleteSigningDataTiming ==
  ASSUME TypeOK, TimingOfLife, NEW p \in Players, NEW w \in Workers,
         DeleteSigningData(p, w)
  PROVE  TimingOfLife'
<1>1. /\ call[p][w].op = "delete" /\ Enter(p, w, [op |-> "extract"])
      /\ data' = [data EXCEPT ![p] = Absent] /\ UNCHANGED timing
  BY DEF DeleteSigningData, Delete
<1> SUFFICES ASSUME NEW q \in Players, data'[q] = Absent, timing'[q]
             PROVE  \E v \in Workers : call'[q][v].op = "extract"
  BY DEF TimingOfLife
<1>2. CASE q = p
  BY <1>1, <1>2 DEF TypeOK, Enter
<1>3. CASE q # p
  BY <1>1, <1>3 DEF TypeOK, Enter, TimingOfLife
<1> QED
  BY <1>2, <1>3

LEMMA ExtractTiming ==
  ASSUME TypeOK, TimingOfLife, NEW p \in Players, NEW w \in Workers,
         Extract(p, w)
  PROVE  TimingOfLife'
<1>1. /\ Enter(p, w, Idle) /\ UNCHANGED data
      /\ timing' = [timing EXCEPT ![p] = FALSE]
  BY DEF Extract, Return
<1> SUFFICES ASSUME NEW q \in Players, data'[q] = Absent, timing'[q]
             PROVE  \E v \in Workers : call'[q][v].op = "extract"
  BY DEF TimingOfLife
<1>2. q # p
  BY <1>1 DEF TypeOK
<1> QED
  BY <1>1, <1>2 DEF TypeOK, Enter, TimingOfLife

\* The steps that leave the timing map alone and delete no record.
LEMMA HandlerTiming ==
  ASSUME TypeOK, TimingOfLife, NEW p \in Players, NEW w \in Workers,
         \/ UpdateVersion(p, w) \/ StoreSigningCommitments(p, w)
         \/ \E v \in Vectors : BroadcastSi(p, w, v)
         \/ OpenCommitments(p, w) \/ UpdateAnswered(p, w)
         \/ GetEddsaSignature(p, w) \/ Interrupt(p, w)
  PROVE  TimingOfLife'
<1>1. UNCHANGED timing /\ call[p][w].op # "extract"
  BY ConstantsAssumption DEF UpdateVersion, StoreSigningCommitments, BroadcastSi,
     OpenCommitments, UpdateAnswered, GetEddsaSignature, Interrupt, MayEnter
<1>2. \E c : Enter(p, w, c)
  BY DEF UpdateVersion, StoreSigningCommitments, BroadcastSi, OpenCommitments,
     UpdateAnswered, GetEddsaSignature, Interrupt, Return
<1>3. \A q \in Players : data'[q] = Absent => data[q] = Absent
  <2>1. CASE UpdateVersion(p, w) \/ UpdateAnswered(p, w)
    <3>1. call[p][w].data \in Records
      BY <2>1, CallFields DEF UpdateVersion, UpdateAnswered
    <3>2. data' = [data EXCEPT ![p] = call[p][w].data] \/ data' = data
      BY <2>1 DEF UpdateVersion, UpdateAnswered
    <3> QED
      BY <3>1, <3>2, StoreKeepsTiming
  <2>2. CASE ~(UpdateVersion(p, w) \/ UpdateAnswered(p, w))
    BY <2>2 DEF StoreSigningCommitments, BroadcastSi, OpenCommitments,
       GetEddsaSignature, Interrupt
  <2> QED
    BY <2>1, <2>2
<1> QED
  BY <1>1, <1>2, <1>3, ExtractStays

LEMMA NextTiming == TypeOK /\ TimingOfLife /\ [Next]_vars => TimingOfLife'
<1> SUFFICES ASSUME TypeOK, TimingOfLife, [Next]_vars
             PROVE  TimingOfLife'
  OBVIOUS
<1>1. CASE UNCHANGED vars
  BY <1>1 DEF vars, TimingOfLife
<1>2. CASE Next
  BY <1>2, StartSigningTiming, StoreCommitmentsTiming, DeleteSigningDataTiming,
     ExtractTiming, HandlerTiming DEF Next, Call, Continue
<1> QED
  BY <1>1, <1>2

\* When a host runs one handler of a player at a time, a player that is done
\* with an id holds neither commitments nor an entry of the timing map of it:
\* a failed or repeated handler never leaves the id half deleted.
THEOREM DoneLeavesNothing ==
  ASSUME Serial
  PROVE  Spec => []NothingLeft
<1>1. Init => TypeOK /\ TimingOfLife
  BY InitType, InitTiming
<1>2. TypeOK /\ TimingOfLife /\ [Next]_vars => TypeOK' /\ TimingOfLife'
  BY NextType, NextTiming
<1>3. OpensInv /\ TimingOfLife => NothingLeft
  BY DEF OpensInv, CommitmentsOfLife, TimingOfLife, NothingLeft
<1> QED
  BY <1>1, <1>2, <1>3, OpensInvHolds, PTL DEF Spec
=============================================================================

---------------------------- MODULE KeySetupProofs ----------------------------
(* Type correctness of KeySetup, and what a created key is: players that    *)
(* created it agree on it, a copied key is the old one, and the nonces of   *)
(* the proofs answered one challenge and are forgotten.                     *)
EXTENDS KeySetup, TLAPS

-----------------------------------------------------------------------------
(* Types                                                                    *)

\* Between the steps of a handler the key it works on stays.
TypeInv ==
  /\ TypeOK
  /\ \A p \in Players :
       /\ call[p].op = "factors" => key[p] # Absent /\ key[p].info # Absent
       /\ call[p].op = "backup" => key[p] # Absent

LEMMA KeyKinds ==
  /\ Infinity # Copied
  /\ \A v : SumOf(v) # Infinity /\ SumOf(v) # Copied
<1>1. Infinity.is = "infinity" /\ Copied.is = "copied"
  BY DEF Infinity, Copied
<1>2. \A v : SumOf(v).is = "sum"
  BY DEF SumOf
<1> QED
  BY <1>1, <1>2

LEMMA IdleOp == Idle.op = "idle"
BY DEF Idle

\* What a player has stored and proved.
LEMMA Fields ==
  ASSUME TypeInv, NEW p \in Players
  PROVE  /\ starts[p] \in Nat /\ MaxStarts \in Nat /\ Lives \subseteq Nat
         /\ key[p] # Absent =>
              /\ key[p] \in Records /\ key[p].life \in Lives
              /\ key[p].pub \in PublicKeys
              /\ key[p].info # Absent => key[p].info \in Vectors
         /\ setup[p] # Absent => setup[p] \in Lives
         /\ commitments[p] # Absent => commitments[p] \in Vectors
         /\ call[p].op = "metadata" => call[p].key \in Records
         /\ \A a \in proofs[p] : a \in [life : Lives, seed : Vectors] /\ a.seed # Absent
         /\ \A f \in factors[p] : f \in [life : Lives, seed : Vectors]
         /\ \A c \in created[p] : c \in Records /\ c.life \in Lives
<1>1. MaxStarts \in Nat /\ Absent \notin Vectors
  BY DEF TypeInv, TypeOK, ConstantsOK
<1>2. Lives \subseteq Nat /\ 0 .. MaxStarts \subseteq Nat
  BY <1>1 DEF Lives
<1>3. starts[p] \in 0 .. MaxStarts
  BY DEF TypeInv, TypeOK
<1>4. key[p] # Absent => key[p] \in Records
  BY DEF TypeInv, TypeOK
<1>5. /\ setup[p] # Absent => setup[p] \in Lives
      /\ commitments[p] # Absent => commitments[p] \in Vectors
  BY DEF TypeInv, TypeOK
<1>6. call[p].op = "metadata" => call[p].key \in Records
  <2>1. call[p] \in {Idle} \cup [op : {"factors", "backup"}]
                     \cup [op : {"metadata"}, key : Records]
    BY DEF TypeInv, TypeOK
  <2> QED
    BY <2>1, IdleOp
<1>7. /\ \A a \in proofs[p] : a \in [life : Lives, seed : Vectors]
      /\ \A f \in factors[p] : f \in [life : Lives, seed : Vectors]
      /\ \A c \in created[p] : c \in Records
  BY DEF TypeInv, TypeOK
<1>8. \A a \in proofs[p] : a.seed # Absent
  BY <1>1, <1>7
<1>9. \A k \in Records : k.life \in Lives /\ k.pub \in PublicKeys
        /\ (k.info # Absent => k.info \in Vectors)
  BY DEF Records
<1> QED
  BY <1>1, <1>2, <1>3, <1>4, <1>5, <1>6, <1>7, <1>8, <1>9

LEMMA InitType == ConstantsOK /\ Init => TypeInv
BY DEF Init, TypeInv, TypeOK, ConstantsOK, Idle

LEMMA AddUserRequestType ==
  ASSUME TypeInv, NEW o \in OldPlayers, AddUserRequest(o)
  PROVE  TypeInv'
<1>1. requests' \in [OldPlayers -> 0 .. MaxRequests]
  BY DEF TypeInv, TypeOK, ConstantsOK, AddUserRequest
<1> QED
  BY <1>1 DEF TypeInv, TypeOK, ConstantsOK, AddUserRequest, history

LEMMA BeginType ==
  ASSUME TypeInv, NEW p \in Players, NEW from \in Requests \cup {Absent},
         NEW pub \in PublicKeys, Begin(p, from, pub)
  PROVE  TypeInv'
<1> DEFINE n == starts[p] + 1
           k == [life |-> n, info |-> Absent, pub |-> pub]
<1>1. /\ n <= MaxStarts /\ call[p].op = "idle"
      /\ starts' = [starts EXCEPT ![p] = n]
      /\ source' = [source EXCEPT ![p][n] = from]
      /\ key' = [key EXCEPT ![p] = k]
      /\ setup' = [setup EXCEPT ![p] = n] \/ UNCHANGED setup
      /\ UNCHANGED <<requests, commitments, call, history>>
  BY DEF Begin, MayEnter
<1>2. n \in Lives /\ n \in 0 .. MaxStarts
  BY <1>1, Fields DEF Lives
<1>3. k \in Records
  BY <1>2 DEF Records
<1> HIDE DEF n, k
<1>4. /\ starts' \in [Players -> 0 .. MaxStarts]
      /\ source' \in [Players -> [Lives -> Requests \cup {Absent}]]
      /\ key' \in [Players -> Records \cup {Absent}]
      /\ setup' \in [Players -> Lives \cup {Absent}]
  BY <1>1, <1>2, <1>3 DEF TypeInv, TypeOK
<1>5. TypeOK'
  BY <1>1, <1>4 DEF TypeInv, TypeOK, ConstantsOK, history
<1> QED
  BY <1>1, <1>5 DEF TypeInv, TypeOK

LEMMA StoreSetupCommitmentsType ==
  ASSUME TypeInv, NEW p \in Players, NEW v \in Vectors,
         StoreSetupCommitments(p, v)
  PROVE  TypeInv'
<1> DEFINE o == [life |-> setup[p], ack |-> v]
<1>1. /\ setup[p] # Absent
      /\ commitments' = [commitments EXCEPT ![p] = v]
      /\ opened' = [opened EXCEPT ![p] = @ \cup {o}] \/ UNCHANGED opened
      /\ UNCHANGED <<starts, requests, source, key, setup, call, proofs, factors, created>>
  BY DEF StoreSetupCommitments
<1>2. o \in [life : Lives, ack : Vectors]
  BY <1>1, Fields
<1> HIDE DEF o
<1>3. /\ commitments' \in [Players -> Vectors \cup {Absent}]
      /\ opened' \in [Players -> SUBSET [life : Lives, ack : Vectors]]
  BY <1>1, <1>2 DEF TypeInv, TypeOK
<1> QED
  BY <1>1, <1>3 DEF TypeInv, TypeOK, ConstantsOK

\* The seed the proofs are for is that of the stored commitments.
LEMMA GenerateSetupProofsStep ==
  ASSUME TypeInv, NEW p \in Players, NEW ds \in Choices(opened),
         GenerateSetupProofs(p, ds)
  PROVE  /\ key[p] # Absent /\ setup[p] # Absent /\ commitments[p] # Absent
         /\ call[p].op = "idle"
         /\ proofs' = [proofs EXCEPT ![p] =
              @ \cup {[life |-> setup[p], seed |-> commitments[p]]}]
         /\ Enter(p, [op |-> "metadata", key |-> [key[p] EXCEPT !.info = commitments[p]]])
         /\ UNCHANGED <<starts, requests, source, key, setup, commitments, opened,
                        factors, created>>
<1>1. commitments[p] \in Vectors
  BY Fields DEF GenerateSetupProofs, Opens
<1>2. [q \in Players |-> ds[q].life] = commitments[p]
  BY <1>1 DEF GenerateSetupProofs, Opens, Vectors
<1> QED
  BY <1>2 DEF GenerateSetupProofs, Opens, MayEnter

LEMMA GenerateSetupProofsType ==
  ASSUME TypeInv, NEW p \in Players, NEW ds \in Choices(opened),
         GenerateSetupProofs(p, ds)
  PROVE  TypeInv'
<1> DEFINE a == [life |-> setup[p], seed |-> commitments[p]]
           k == [key[p] EXCEPT !.info = commitments[p]]
           c == [op |-> "metadata", key |-> k]
<1>1. /\ key[p] # Absent /\ setup[p] # Absent /\ commitments[p] # Absent
      /\ proofs' = [proofs EXCEPT ![p] = @ \cup {a}]
      /\ call' = [call EXCEPT ![p] = c]
      /\ UNCHANGED <<starts, requests, source, key, setup, commitments, opened,
                     factors, created>>
  BY GenerateSetupProofsStep DEF Enter
<1>2. a \in [life : Lives, seed : Vectors]
  BY <1>1, Fields
<1>3. k \in Records
  BY <1>1, Fields DEF Records
<1> HIDE DEF a, k
<1>4. proofs' \in [Players -> SUBSET [life : Lives, seed : Vectors]]
  BY <1>1, <1>2 DEF TypeInv, TypeOK
<1>5. call' \in [Players -> {Idle} \cup [op : {"factors", "backup"}]
                   \cup [op : {"metadata"}, key : Records]]
  BY <1>1, <1>3 DEF TypeInv, TypeOK
<1>6. TypeOK'
  BY <1>1, <1>4, <1>5 DEF TypeInv, TypeOK, ConstantsOK
<1> QED
  BY <1>1, <1>6 DEF TypeInv, TypeOK

LEMMA StoreMetadataType ==
  ASSUME TypeInv, NEW p \in Players, StoreMetadata(p)
  PROVE  TypeInv'
<1>1. /\ call[p].op = "metadata" /\ call' = [call EXCEPT ![p] = Idle]
      /\ key' = [key EXCEPT ![p] = call[p].key]
      /\ UNCHANGED <<starts, requests, source, setup, commitments, history>>
  BY DEF StoreMetadata, Return, Enter
<1>2. key' \in [Players -> Records \cup {Absent}]
  BY <1>1, Fields DEF TypeInv, TypeOK
<1>3. TypeOK'
  BY <1>1, <1>2 DEF TypeInv, TypeOK, ConstantsOK, history
<1> QED
  BY <1>1, <1>3, IdleOp DEF TypeInv, TypeOK

\* What verify_setup_proofs does to the key.
VerifiedRecord(k) == [k EXCEPT !.pub = IF k.pub = Infinity THEN SumOf(k.info) ELSE k.pub]

LEMMA VerifySetupProofsStep ==
  ASSUME TypeInv, NEW p \in Players, NEW ps, VerifySetupProofs(p, ps)
  PROVE  /\ call[p].op = "idle"
         /\ key[p] # Absent /\ setup[p] # Absent /\ key[p].info # Absent
         /\ VerifiedRecord(key[p]) \in Records
         /\ key' = [key EXCEPT ![p] = VerifiedRecord(key[p])]
         /\ Enter(p, [op |-> "factors"])
         /\ UNCHANGED <<starts, requests, source, setup, commitments, history>>
<1>1. key[p] \in Records /\ key[p].info \in Vectors
  BY Fields DEF VerifySetupProofs
<1>2. SumOf(key[p].info) \in PublicKeys
  BY <1>1 DEF PublicKeys
<1>3. VerifiedRecord(key[p]) \in Records
  BY <1>1, <1>2 DEF VerifiedRecord, Records
<1>4. key' = [key EXCEPT ![p] = VerifiedRecord(key[p])]
  BY DEF VerifySetupProofs, VerifiedRecord, TypeInv, TypeOK
<1> QED
  BY <1>3, <1>4 DEF VerifySetupProofs, MayEnter

LEMMA VerifySetupProofsType ==
  ASSUME TypeInv, NEW p \in Players, NEW ps, VerifySetupProofs(p, ps)
  PROVE  TypeInv'
<1> DEFINE k == VerifiedRecord(key[p])
<1>1. /\ k \in Records /\ key' = [key EXCEPT ![p] = k]
      /\ call' = [call EXCEPT ![p] = [op |-> "factors"]]
      /\ UNCHANGED <<starts, requests, source, setup, commitments, history>>
  BY VerifySetupProofsStep DEF Enter
<1>2. k.info # Absent /\ k # Absent
  <2>1. key[p] \in Records /\ key[p].info # Absent
    BY VerifySetupProofsStep, Fields
  <2> QED
    BY <1>1, <2>1 DEF VerifiedRecord, Records, TypeInv, TypeOK, ConstantsOK
<1> HIDE DEF k
<1>3. /\ key' \in [Players -> Records \cup {Absent}]
      /\ call' \in [Players -> {Idle} \cup [op : {"factors", "backup"}]
                      \cup [op : {"metadata"}, key : Records]]
  BY <1>1 DEF TypeInv, TypeOK
<1>4. TypeOK'
  BY <1>1, <1>3 DEF TypeInv, TypeOK, ConstantsOK, history
<1> QED
  BY <1>1, <1>2, <1>4 DEF TypeInv, TypeOK

LEMMA ProveFactorsType ==
  ASSUME TypeInv, NEW p \in Players, ProveFactors(p)
  PROVE  TypeInv'
<1> DEFINE f == [life |-> key[p].life, seed |-> key[p].info]
<1>1. /\ call[p].op = "factors" /\ call' = [call EXCEPT ![p] = Idle]
      /\ factors' = [factors EXCEPT ![p] = @ \cup {f}]
      /\ UNCHANGED <<starts, requests, source, key, setup, commitments, opened,
                     proofs, created>>
  BY DEF ProveFactors, Return, Enter
<1>2. f \in [life : Lives, seed : Vectors]
  BY <1>1, Fields DEF TypeInv
<1> HIDE DEF f
<1>3. factors' \in [Players -> SUBSET [life : Lives, seed : Vectors]]
  BY <1>1, <1>2 DEF TypeInv, TypeOK
<1>4. TypeOK'
  BY <1>1, <1>3 DEF TypeInv, TypeOK, ConstantsOK
<1> QED
  BY <1>1, <1>4, IdleOp DEF TypeInv, TypeOK

LEMMA CreateSecretType ==
  ASSUME TypeInv, NEW p \in Players, NEW fs, CreateSecret(p, fs)
  PROVE  TypeInv'
<1>1. /\ key[p] # Absent /\ call' = [call EXCEPT ![p] = [op |-> "backup"]]
      /\ commitments' = [commitments EXCEPT ![p] = Absent]
      /\ setup' = [setup EXCEPT ![p] = Absent]
      /\ UNCHANGED <<starts, requests, source, key, history>>
  BY DEF CreateSecret, DropTemporary, Enter
<1>2. /\ commitments' \in [Players -> Vectors \cup {Absent}]
      /\ setup' \in [Players -> Lives \cup {Absent}]
      /\ call' \in [Players -> {Idle} \cup [op : {"factors", "backup"}]
                      \cup [op : {"metadata"}, key : Records]]
  BY <1>1 DEF TypeInv, TypeOK
<1>3. TypeOK'
  BY <1>1, <1>2 DEF TypeInv, TypeOK, ConstantsOK, history
<1> QED
  BY <1>1, <1>3 DEF TypeInv, TypeOK

LEMMA BackupKeyType ==
  ASSUME TypeInv, NEW p \in Players, BackupKey(p)
  PROVE  TypeInv'
<1>1. /\ call[p].op = "backup" /\ call' = [call EXCEPT ![p] = Idle]
      /\ key' = key \/ key' = [key EXCEPT ![p] = Absent]
      /\ setup' = setup \/ setup' = [setup EXCEPT ![p] = Absent]
      /\ commitments' = commitments \/ commitments' = [commitments EXCEPT ![p] = Absent]
      /\ created' = created \/ created' = [created EXCEPT ![p] = @ \cup {key[p]}]
      /\ UNCHANGED <<starts, requests, source, opened, proofs, factors>>
  BY DEF BackupKey, DropTemporary, Return, Enter
<1>2. key[p] \in Records
  BY <1>1, Fields DEF TypeInv
<1>3. created' \in [Players -> SUBSET Records]
  BY <1>1, <1>2 DEF TypeInv, TypeOK
<1>4. TypeOK'
  BY <1>1, <1>3 DEF TypeInv, TypeOK, ConstantsOK
<1> QED
  BY <1>1, <1>4, IdleOp DEF TypeInv, TypeOK

LEMMA InterruptType ==
  ASSUME TypeInv, NEW p \in Players, Interrupt(p)
  PROVE  TypeInv'
<1>1. /\ call' = [call EXCEPT ![p] = Idle]
      /\ UNCHANGED <<starts, requests, source, key, setup, commitments, history>>
  BY DEF Interrupt, Return, Enter
<1>2. TypeOK'
  BY <1>1 DEF TypeInv, TypeOK, ConstantsOK, history
<1> QED
  BY <1>1, <1>2, IdleOp DEF TypeInv, TypeOK

LEMMA BeginningType ==
  ASSUME TypeInv, NEW p \in Players,
         GenerateSetupCommitments(p) \/ \E v \in Requests : AddUser(p, v)
  PROVE  TypeInv'
BY BeginType DEF GenerateSetupCommitments, AddUser, PublicKeys

LEMMA NextType == TypeInv /\ [Next]_vars => TypeInv'
<1> SUFFICES ASSUME TypeInv, [Next]_vars
             PROVE  TypeInv'
  OBVIOUS
<1>1. CASE UNCHANGED vars
  BY <1>1 DEF vars, history, TypeInv, TypeOK, ConstantsOK
<1>2. CASE Next
  BY <1>2, AddUserRequestType, BeginningType, StoreSetupCommitmentsType,
     GenerateSetupProofsType, StoreMetadataType, VerifySetupProofsType,
     ProveFactorsType, CreateSecretType, BackupKeyType, InterruptType
  DEF Next, Call, Continue
<1> QED
  BY <1>1, <1>2

\* Every reachable state has its type: no proof is computed, and no key is
\* created, from a record without the public data of the players.
THEOREM TypeCorrect ==
  ASSUME ConstantsOK
  PROVE  Spec => []TypeOK
<1>1. Init => TypeInv
  BY InitType
<1>2. TypeInv => TypeOK
  BY DEF TypeInv
<1> QED
  BY <1>1, <1>2, NextType, PTL DEF Spec

-----------------------------------------------------------------------------
(* What a life proves, and what a created key is                            *)

\* The invariant, player by player.
InvOf(p) ==
  /\ SchnorrAnswersOnce!(p) /\ StoredIsCurrent!(p)
  /\ SeedOfLife!(p) /\ CreatedIsVerified!(p)

LEMMA InvByPlayer == SetupInv <=> \A p \in Players : InvOf(p)
BY DEF SetupInv, InvOf, SchnorrAnswersOnce, StoredIsCurrent, SeedOfLife,
   CreatedIsVerified

\* VerifiedKey and AllProved with the lives and the proofs they look at.
VerifiedFrom(k, src) ==
  /\ k # Absent /\ k.info # Absent
  /\ \/ k.pub = Copied /\ \E r \in Requests : \A q \in Players : src[q][k.info[q]] = r
     \/ k.pub = SumOf(k.info)

ProvedBy(k, fs) ==
  \A q \in Players : [life |-> k.info[q], seed |-> k.info] \in fs[q]

LEMMA Unfold ==
  /\ \A k : VerifiedKey(k) <=> VerifiedFrom(k, source)
  /\ \A k : AllProved(k) <=> ProvedBy(k, factors)
BY DEF VerifiedKey, VerifiedFrom, SumsToOld, AllProved, ProvedBy

\* A step of player p: what others drew, proved and stored stays, and of p
\* what it drew in a life and the proofs it returned.
StepOf(p) ==
  /\ \A q \in Players \ {p} :
       /\ starts'[q] = starts[q] /\ key'[q] = key[q] /\ setup'[q] = setup[q]
       /\ commitments'[q] = commitments[q] /\ call'[q] = call[q]
       /\ source'[q] = source[q] /\ proofs'[q] = proofs[q]
       /\ factors'[q] = factors[q] /\ created'[q] = created[q]
  /\ \A q \in Players : factors[q] \subseteq factors'[q]
  /\ \A q \in Players, n \in Lives :
       source[q][n] # Absent => source'[q][n] = source[q][n]

\* Such a step takes no verification back.
LEMMA VerifiedStays ==
  ASSUME TypeInv, NEW p \in Players, StepOf(p), NEW k \in Records
  PROVE  /\ VerifiedFrom(k, source) => VerifiedFrom(k, source')
         /\ ProvedBy(k, factors) => ProvedBy(k, factors')
<1>1. Absent \notin Requests
  BY DEF TypeInv, TypeOK, ConstantsOK
<1>2. ASSUME VerifiedFrom(k, source)
      PROVE  VerifiedFrom(k, source')
  <2>1. CASE k.pub = SumOf(k.info)
    BY <1>2, <2>1 DEF VerifiedFrom
  <2>2. CASE k.pub # SumOf(k.info)
    <3>1. PICK r \in Requests : \A q \in Players : source[q][k.info[q]] = r
      BY <1>2, <2>2 DEF VerifiedFrom
    <3>2. k.info \in Vectors
      BY <1>2 DEF VerifiedFrom, Records
    <3>3. \A q \in Players : source'[q][k.info[q]] = r
      BY <1>1, <3>1, <3>2 DEF StepOf, Vectors
    <3> QED
      BY <1>2, <2>2, <3>3 DEF VerifiedFrom
  <2> QED
    BY <2>1, <2>2
<1>3. ProvedBy(k, factors) => ProvedBy(k, factors')
  BY DEF ProvedBy, StepOf
<1> QED
  BY <1>2, <1>3

\* The keys a player created stay verified.
LEMMA CreatedStays ==
  ASSUME TypeInv, SetupInv, NEW p \in Players, StepOf(p), NEW q \in Players,
         NEW c \in created[q]
  PROVE  VerifiedFrom(c, source') /\ ProvedBy(c, factors')
<1>1. c \in Records
  BY Fields
<1>2. VerifiedFrom(c, source) /\ ProvedBy(c, factors)
  BY Unfold DEF SetupInv, CreatedIsVerified
<1> QED
  BY <1>1, <1>2, VerifiedStays

\* So does the key it holds.
LEMMA HeldStays ==
  ASSUME TypeInv, NEW p \in Players, StepOf(p), NEW q \in Players, key[q] # Absent
  PROVE  /\ VerifiedFrom(key[q], source) => VerifiedFrom(key[q], source')
         /\ ProvedBy(key[q], factors) => ProvedBy(key[q], factors')
<1>1. key[q] \in Records
  BY Fields
<1> QED
  BY <1>1, VerifiedStays

\* The other players keep the invariant.
LEMMA OthersKeep ==
  ASSUME TypeInv, SetupInv, NEW p \in Players, StepOf(p), NEW q \in Players, q # p
  PROVE  InvOf(q)'
<1>1. /\ starts'[q] = starts[q] /\ key'[q] = key[q] /\ setup'[q] = setup[q]
      /\ commitments'[q] = commitments[q] /\ call'[q] = call[q]
      /\ source'[q] = source[q] /\ proofs'[q] = proofs[q]
      /\ factors'[q] = factors[q] /\ created'[q] = created[q]
  BY DEF StepOf
<1>2. SchnorrAnswersOnce!(q)' /\ StoredIsCurrent!(q)' /\ SeedOfLife!(q)'
  BY <1>1 DEF SetupInv, SchnorrAnswersOnce, StoredIsCurrent, SeedOfLife
<1>3. /\ call[q].op = "factors" => VerifiedFrom(key[q], source)
      /\ \A f \in factors[q] :
           key[q] # Absent /\ f.life = key[q].life => VerifiedFrom(key[q], source)
      /\ call[q].op = "backup" =>
           setup[q] = Absent /\ VerifiedFrom(key[q], source) /\ ProvedBy(key[q], factors)
  BY Unfold DEF SetupInv, CreatedIsVerified
<1>4. VerifiedFrom(key[q], source) => key[q] # Absent
  BY DEF VerifiedFrom
<1>5. /\ call'[q].op = "factors" => VerifiedFrom(key'[q], source')
      /\ \A f \in factors'[q] :
           key'[q] # Absent /\ f.life = key'[q].life => VerifiedFrom(key'[q], source')
      /\ call'[q].op = "backup" =>
           /\ setup'[q] = Absent
           /\ VerifiedFrom(key'[q], source') /\ ProvedBy(key'[q], factors')
  BY <1>1, <1>3, <1>4, HeldStays
<1>6. \A c \in created'[q] :
        /\ VerifiedFrom(c, source') /\ ProvedBy(c, factors')
        /\ [life |-> c.life, seed |-> c.info] \in proofs'[q]
  BY <1>1, CreatedStays DEF SetupInv, CreatedIsVerified
<1>7. CreatedIsVerified!(q)'
  BY <1>5, <1>6 DEF VerifiedKey, VerifiedFrom, SumsToOld, AllProved, ProvedBy
<1> QED
  BY <1>2, <1>7 DEF InvOf

\* A step of p keeps the invariant when it keeps p's.
LEMMA StepKeeps ==
  ASSUME TypeInv, SetupInv, NEW p \in Players, StepOf(p), InvOf(p)'
  PROVE  SetupInv'
<1>1. \A q \in Players : InvOf(q)'
  BY OthersKeep
<1> QED
  BY <1>1 DEF SetupInv, InvOf, SchnorrAnswersOnce, StoredIsCurrent, SeedOfLife,
     CreatedIsVerified

\* What p created so far, after a step that creates nothing.
LEMMA CreatedBefore ==
  ASSUME TypeInv, SetupInv, NEW p \in Players, StepOf(p),
         proofs[p] \subseteq proofs'[p]
  PROVE  \A c \in created[p] :
           /\ VerifiedFrom(c, source') /\ ProvedBy(c, factors')
           /\ [life |-> c.life, seed |-> c.info] \in proofs'[p]
BY CreatedStays DEF SetupInv, CreatedIsVerified

\* CreatedIsVerified of p after a step.
LEMMA Assembled ==
  ASSUME NEW p \in Players,
         call'[p].op = "factors" => VerifiedFrom(key'[p], source'),
         \A f \in factors'[p] :
           key'[p] # Absent /\ f.life = key'[p].life => VerifiedFrom(key'[p], source'),
         call'[p].op = "backup" =>
           /\ setup'[p] = Absent
           /\ VerifiedFrom(key'[p], source') /\ ProvedBy(key'[p], factors'),
         \A c \in created'[p] :
           /\ VerifiedFrom(c, source') /\ ProvedBy(c, factors')
           /\ [life |-> c.life, seed |-> c.info] \in proofs'[p]
  PROVE  CreatedIsVerified!(p)'
BY DEF VerifiedKey, VerifiedFrom, SumsToOld, AllProved, ProvedBy

LEMMA InitSetup == Init => SetupInv
BY DEF Init, SetupInv, SchnorrAnswersOnce, StoredIsCurrent, SeedOfLife,
   CreatedIsVerified, Idle

\* A new life has proved nothing.
LEMMA BeginSetup ==
  ASSUME TypeInv, SetupInv, NEW p \in Players,
         NEW from \in Requests \cup {Absent}, NEW pub \in PublicKeys,
         Begin(p, from, pub)
  PROVE  SetupInv'
<1> DEFINE n == starts[p] + 1
           k == [life |-> n, info |-> Absent, pub |-> pub]
<1>1. /\ n <= MaxStarts /\ call[p].op = "idle" /\ key[p] = Absent
      /\ starts' = [starts EXCEPT ![p] = n]
      /\ source' = [source EXCEPT ![p][n] = from]
      /\ key' = [key EXCEPT ![p] = k]
      /\ setup' = [setup EXCEPT ![p] = n] \/ UNCHANGED setup
      /\ UNCHANGED <<requests, commitments, call, proofs, factors, created>>
  BY DEF Begin, MayEnter, history
<1>2. n \in Lives /\ starts[p] \in Nat /\ Lives \subseteq Nat
  BY <1>1, Fields DEF Lives
<1>3. k.life = n /\ k.info = Absent
  OBVIOUS
<1>4. k \in Records
  BY <1>2 DEF Records
<1>5. k # Absent /\ n # Absent
  BY <1>2, <1>4 DEF TypeInv, TypeOK, ConstantsOK
<1>6. n = starts[p] + 1
  OBVIOUS
<1> HIDE DEF n, k
<1>7. \A m \in Lives : m > starts[p] => source[p][m] = Absent
  BY DEF SetupInv, StoredIsCurrent
<1>8. StepOf(p)
  <2>1. \A m \in Lives : m # n => source'[p][m] = source[p][m]
    BY <1>1, <1>2 DEF TypeInv, TypeOK
  <2>2. source[p][n] = Absent
    BY <1>2, <1>6, <1>7
  <2>3. \A q \in Players \ {p} : source'[q] = source[q]
    BY <1>1 DEF TypeInv, TypeOK
  <2> QED
    BY <1>1, <2>1, <2>2, <2>3 DEF StepOf, TypeInv, TypeOK
<1>9. /\ setup[p] = Absent /\ commitments[p] = Absent
      /\ \A a \in proofs[p] : a.life <= starts[p] /\ a.seed[p] = a.life /\ a.life \in Lives
      /\ \A f \in factors[p] : f \in proofs[p]
      /\ \A c \in created[p] : c.life <= starts[p] /\ c.life \in Lives
  BY <1>1, Fields DEF SetupInv, StoredIsCurrent, SeedOfLife
<1>10. /\ starts'[p] = n /\ key'[p] = k /\ commitments'[p] = Absent
       /\ setup'[p] \in {n, Absent} /\ call'[p] = call[p]
       /\ proofs'[p] = proofs[p] /\ factors'[p] = factors[p]
       /\ created'[p] = created[p]
  BY <1>1, <1>9 DEF TypeInv, TypeOK
<1>11. /\ \A a \in proofs[p] : a.life <= n /\ a.life # n
       /\ \A c \in created[p] : c.life <= n /\ c.life # n
  <2>1. \A m \in Lives : m <= starts[p] => m <= n /\ m # n
    BY <1>2, <1>6
  <2> QED
    BY <1>9, <2>1
<1>12. SchnorrAnswersOnce!(p)'
  BY <1>10 DEF SetupInv, SchnorrAnswersOnce
<1>13. StoredIsCurrent!(p)'
  <2>1. \A m \in Lives : m > n => source'[p][m] = Absent
    <3> SUFFICES ASSUME NEW m \in Lives, m > n
                 PROVE  source'[p][m] = Absent
      OBVIOUS
    <3>1. m > starts[p] /\ m # n
      BY <1>2, <1>6
    <3> QED
      BY <1>1, <1>7, <3>1 DEF TypeInv, TypeOK
  <2> QED
    BY <1>3, <1>5, <1>10, <1>11, <2>1
<1>14. SeedOfLife!(p)'
  BY <1>1, <1>3, <1>9, <1>10, <1>11 DEF SetupInv, SeedOfLife
<1>15. CreatedIsVerified!(p)'
  <2>1. \A c \in created'[p] :
          /\ VerifiedFrom(c, source') /\ ProvedBy(c, factors')
          /\ [life |-> c.life, seed |-> c.info] \in proofs'[p]
    BY <1>8, <1>10, CreatedBefore
  <2>2. \A f \in factors'[p] : f.life # key'[p].life
    BY <1>3, <1>9, <1>10, <1>11
  <2>3. call'[p].op = "idle"
    BY <1>1, <1>10
  <2> QED
    BY <2>1, <2>2, <2>3, Assembled
<1> QED
  BY <1>8, <1>12, <1>13, <1>14, <1>15, StepKeeps DEF InvOf

\* The steps that leave key, lives and sources alone.
LEMMA QuietStep ==
  ASSUME TypeInv, NEW p \in Players, UNCHANGED <<starts, source, created>>,
         \A q \in Players \ {p} :
           /\ key'[q] = key[q] /\ setup'[q] = setup[q]
           /\ commitments'[q] = commitments[q] /\ call'[q] = call[q]
           /\ proofs'[q] = proofs[q] /\ factors'[q] = factors[q],
         factors[p] \subseteq factors'[p]
  PROVE  StepOf(p)
BY DEF StepOf

\* The commitments of a life are stored before it proves anything.
LEMMA StoreSetupCommitmentsSetup ==
  ASSUME TypeInv, SetupInv, NEW p \in Players, NEW v \in Vectors,
         StoreSetupCommitments(p, v)
  PROVE  SetupInv'
<1>1. /\ setup[p] # Absent /\ v[p] = setup[p] /\ commitments[p] = Absent
      /\ call[p].op = "idle"
      /\ commitments' = [commitments EXCEPT ![p] = v]
      /\ UNCHANGED <<starts, source, key, setup, call, proofs, factors, created>>
  BY DEF StoreSetupCommitments, NoCommitments, MayEnter
<1>2. StepOf(p)
  BY <1>1, QuietStep DEF TypeInv, TypeOK
<1>3. commitments'[p] = v
  BY <1>1 DEF TypeInv, TypeOK
<1>4. \A a \in proofs[p] : a.life # setup[p]
  BY <1>1, Fields DEF SetupInv, SeedOfLife
<1>5. SchnorrAnswersOnce!(p)' /\ StoredIsCurrent!(p)'
  BY <1>1, <1>3 DEF SetupInv, SchnorrAnswersOnce, StoredIsCurrent
<1>6. SeedOfLife!(p)'
  BY <1>1, <1>3, <1>4 DEF SetupInv, SeedOfLife
<1>7. CreatedIsVerified!(p)'
  <2>1. \A c \in created'[p] :
          /\ VerifiedFrom(c, source') /\ ProvedBy(c, factors')
          /\ [life |-> c.life, seed |-> c.info] \in proofs'[p]
    BY <1>1, <1>2, CreatedBefore
  <2>2. \A f \in factors[p] :
          key[p] # Absent /\ f.life = key[p].life => VerifiedFrom(key[p], source)
    BY Unfold DEF SetupInv, CreatedIsVerified
  <2> QED
    BY <1>1, <2>1, <2>2, Assembled
<1> QED
  BY <1>2, <1>5, <1>6, <1>7, StepKeeps DEF InvOf

\* The seed of a life does not change.
LEMMA GenerateSetupProofsSetup ==
  ASSUME TypeInv, SetupInv, NEW p \in Players, NEW ds \in Choices(opened),
         GenerateSetupProofs(p, ds)
  PROVE  SetupInv'
<1> DEFINE a == [life |-> setup[p], seed |-> commitments[p]]
           k == [key[p] EXCEPT !.info = commitments[p]]
           c == [op |-> "metadata", key |-> k]
<1>1. /\ key[p] # Absent /\ setup[p] # Absent /\ commitments[p] # Absent
      /\ proofs' = [proofs EXCEPT ![p] = @ \cup {a}]
      /\ call' = [call EXCEPT ![p] = c]
      /\ UNCHANGED <<starts, source, key, setup, commitments, factors, created>>
  BY GenerateSetupProofsStep DEF Enter
<1>2. a.life = setup[p] /\ a.seed = commitments[p] /\ c.op = "metadata" /\ c.key = k
  OBVIOUS
<1>3. \A b \in proofs[p] : b.life = setup[p] => b = a
  <2>1. \A b \in proofs[p] : b.life = setup[p] => b.seed = commitments[p]
    BY <1>1 DEF SetupInv, SeedOfLife
  <2> QED
    BY <2>1, Fields
<1>4. setup[p] = starts[p] /\ commitments[p][p] = setup[p] /\ starts[p] \in Nat
  BY <1>1, Fields DEF SetupInv, StoredIsCurrent
<1> HIDE DEF a, c
<1>5. StepOf(p)
  BY <1>1, QuietStep DEF TypeInv, TypeOK
<1>6. proofs'[p] = proofs[p] \cup {a} /\ call'[p] = c
  BY <1>1 DEF TypeInv, TypeOK
<1>7. SchnorrAnswersOnce!(p)' /\ StoredIsCurrent!(p)'
  BY <1>1, <1>2, <1>3, <1>6 DEF SetupInv, SchnorrAnswersOnce, StoredIsCurrent
<1>8. SeedOfLife!(p)'
  <2>1. \A b \in proofs'[p] :
          /\ b.life <= starts[p] /\ b.seed[p] = b.life
          /\ b.life = setup[p] => b.seed = commitments[p]
    <3>1. \A b \in proofs[p] :
            /\ b.life <= starts[p] /\ b.seed[p] = b.life
            /\ b.life = setup[p] => b.seed = commitments[p]
      BY <1>1 DEF SetupInv, SeedOfLife
    <3>2. a.life <= starts[p] /\ a.seed[p] = a.life /\ a.seed = commitments[p]
      BY <1>2, <1>4
    <3> QED
      BY <1>6, <3>1, <3>2
  <2>2. [life |-> setup[p], seed |-> commitments[p]] \in proofs'[p]
    BY <1>6 DEF a
  <2>3. key[p].info # Absent =>
          [life |-> key[p].life, seed |-> key[p].info] \in proofs'[p]
    BY <1>1, <1>6 DEF SetupInv, SeedOfLife
  <2>4. factors'[p] \subseteq proofs'[p]
    BY <1>1, <1>6 DEF SetupInv, SeedOfLife
  <2> QED
    BY <1>1, <1>2, <1>6, <2>1, <2>2, <2>3, <2>4
<1>9. CreatedIsVerified!(p)'
  <2>1. \A d \in created'[p] :
          /\ VerifiedFrom(d, source') /\ ProvedBy(d, factors')
          /\ [life |-> d.life, seed |-> d.info] \in proofs'[p]
    BY <1>1, <1>5, <1>6, CreatedBefore
  <2>2. \A f \in factors[p] :
          key[p] # Absent /\ f.life = key[p].life => VerifiedFrom(key[p], source)
    BY Unfold DEF SetupInv, CreatedIsVerified
  <2> QED
    BY <1>1, <1>2, <1>6, <2>1, <2>2, Assembled
<1> QED
  BY <1>5, <1>7, <1>8, <1>9, StepKeeps DEF InvOf

\* A key that has been given the public data gets the same again.
LEMMA StoreMetadataSetup ==
  ASSUME TypeInv, SetupInv, NEW p \in Players, StoreMetadata(p)
  PROVE  SetupInv'
<1> DEFINE k == call[p].key
<1>1. /\ call[p].op = "metadata" /\ call' = [call EXCEPT ![p] = Idle]
      /\ key' = [key EXCEPT ![p] = k]
      /\ UNCHANGED <<starts, source, setup, commitments, proofs, factors, created>>
  BY DEF StoreMetadata, Return, Enter, history
<1>2. /\ setup[p] # Absent /\ commitments[p] # Absent
      /\ [life |-> setup[p], seed |-> commitments[p]] \in proofs[p]
      /\ k = [key[p] EXCEPT !.info = commitments[p]]
  BY <1>1 DEF SetupInv, SeedOfLife
<1>3. /\ key[p] # Absent /\ key[p] \in Records /\ key[p].life = setup[p]
      /\ setup[p] = starts[p]
  BY <1>2, Fields DEF SetupInv, StoredIsCurrent
<1>4. k.life = key[p].life /\ k.info = commitments[p] /\ k.pub = key[p].pub
  BY <1>2, <1>3 DEF Records
<1>5. k # Absent
  BY <1>1, Fields DEF TypeInv, TypeOK, ConstantsOK
<1>6. key[p].info # Absent => k = key[p]
  <2>1. key[p].info # Absent => key[p].info = commitments[p]
    <3> SUFFICES ASSUME key[p].info # Absent
                 PROVE  key[p].info = commitments[p]
      OBVIOUS
    <3> DEFINE a == [life |-> key[p].life, seed |-> key[p].info]
    <3>1. a \in proofs[p]
      BY <1>3 DEF SetupInv, SeedOfLife
    <3>2. a.life = setup[p] /\ a.seed = key[p].info
      BY <1>3
    <3> HIDE DEF a
    <3> QED
      BY <1>2, <3>1, <3>2 DEF SetupInv, SeedOfLife
  <2> QED
    BY <1>2, <1>3, <2>1 DEF Records
<1> HIDE DEF k
<1>7. StepOf(p)
  BY <1>1, QuietStep DEF TypeInv, TypeOK
<1>8. key'[p] = k /\ call'[p] = Idle
  BY <1>1 DEF TypeInv, TypeOK
<1>9. SchnorrAnswersOnce!(p)' /\ StoredIsCurrent!(p)'
  BY <1>1, <1>3, <1>4, <1>5, <1>8 DEF SetupInv, SchnorrAnswersOnce, StoredIsCurrent
<1>10. SeedOfLife!(p)'
  BY <1>1, <1>2, <1>3, <1>4, <1>8, IdleOp DEF SetupInv, SeedOfLife
<1>11. CreatedIsVerified!(p)'
  <2>1. \A d \in created'[p] :
          /\ VerifiedFrom(d, source') /\ ProvedBy(d, factors')
          /\ [life |-> d.life, seed |-> d.info] \in proofs'[p]
    BY <1>1, <1>7, CreatedBefore
  <2>2. \A f \in factors[p] : f.life = key[p].life => VerifiedFrom(key[p], source)
    BY <1>3, Unfold DEF SetupInv, CreatedIsVerified
  <2>3. VerifiedFrom(key[p], source) => VerifiedFrom(k, source)
    BY <1>6 DEF VerifiedFrom
  <2> QED
    BY <1>1, <1>4, <1>8, <2>1, <2>2, <2>3, IdleOp, Assembled
<1> QED
  BY <1>7, <1>9, <1>10, <1>11, StepKeeps DEF InvOf

LEMMA VerifySetupProofsSetup ==
  ASSUME TypeInv, SetupInv, NEW p \in Players, NEW ps, VerifySetupProofs(p, ps)
  PROVE  SetupInv'
<1> DEFINE k == VerifiedRecord(key[p])
           c == [op |-> "factors"]
<1>1. /\ key[p] # Absent /\ setup[p] # Absent /\ key[p].info # Absent
      /\ k \in Records /\ key' = [key EXCEPT ![p] = k]
      /\ call' = [call EXCEPT ![p] = c]
      /\ UNCHANGED <<starts, source, setup, commitments, proofs, factors, created>>
  BY VerifySetupProofsStep DEF Enter, history
<1>2. key[p] \in Records /\ k # Absent
  BY <1>1, Fields DEF TypeInv, TypeOK, ConstantsOK
<1>3. /\ k.life = key[p].life /\ k.info = key[p].info
      /\ k.pub = IF key[p].pub = Infinity THEN SumOf(key[p].info) ELSE key[p].pub
  BY <1>2 DEF VerifiedRecord, Records
<1>4. c.op = "factors"
  OBVIOUS
<1> HIDE DEF k, c
<1>5. VerifiedFrom(k, source)
  BY <1>1, <1>2, <1>3, KeyKinds
  DEF VerifySetupProofs, SumVerifies, SumsToOld, VerifiedFrom
<1>6. StepOf(p)
  BY <1>1, QuietStep DEF TypeInv, TypeOK
<1>7. key'[p] = k /\ call'[p] = c
  BY <1>1 DEF TypeInv, TypeOK
<1>8. SchnorrAnswersOnce!(p)' /\ StoredIsCurrent!(p)'
  BY <1>1, <1>2, <1>3, <1>7 DEF SetupInv, SchnorrAnswersOnce, StoredIsCurrent
<1>9. SeedOfLife!(p)'
  BY <1>1, <1>3, <1>4, <1>7 DEF SetupInv, SeedOfLife
<1>10. CreatedIsVerified!(p)'
  <2>1. \A d \in created'[p] :
          /\ VerifiedFrom(d, source') /\ ProvedBy(d, factors')
          /\ [life |-> d.life, seed |-> d.info] \in proofs'[p]
    BY <1>1, <1>6, CreatedBefore
  <2> QED
    BY <1>1, <1>4, <1>5, <1>7, <2>1, Assembled
<1> QED
  BY <1>6, <1>8, <1>9, <1>10, StepKeeps DEF InvOf

LEMMA ProveFactorsSetup ==
  ASSUME TypeInv, SetupInv, NEW p \in Players, ProveFactors(p)
  PROVE  SetupInv'
<1> DEFINE f == [life |-> key[p].life, seed |-> key[p].info]
<1>1. /\ call[p].op = "factors" /\ call' = [call EXCEPT ![p] = Idle]
      /\ factors' = [factors EXCEPT ![p] = @ \cup {f}]
      /\ UNCHANGED <<starts, source, key, setup, commitments, proofs, created>>
  BY DEF ProveFactors, Return, Enter
<1>2. VerifiedFrom(key[p], source)
  BY <1>1, Unfold DEF SetupInv, CreatedIsVerified
<1>3. f \in proofs[p]
  BY <1>1 DEF TypeInv, SetupInv, SeedOfLife
<1> HIDE DEF f
<1>4. StepOf(p)
  BY <1>1, QuietStep DEF TypeInv, TypeOK
<1>5. factors'[p] = factors[p] \cup {f} /\ call'[p] = Idle
  BY <1>1 DEF TypeInv, TypeOK
<1>6. SchnorrAnswersOnce!(p)' /\ StoredIsCurrent!(p)'
  BY <1>1 DEF SetupInv, SchnorrAnswersOnce, StoredIsCurrent
<1>7. SeedOfLife!(p)'
  BY <1>1, <1>3, <1>5, IdleOp DEF SetupInv, SeedOfLife
<1>8. CreatedIsVerified!(p)'
  <2>1. \A d \in created'[p] :
          /\ VerifiedFrom(d, source') /\ ProvedBy(d, factors')
          /\ [life |-> d.life, seed |-> d.info] \in proofs'[p]
    BY <1>1, <1>4, CreatedBefore
  <2> QED
    BY <1>1, <1>2, <1>5, <2>1, IdleOp, Assembled
<1> QED
  BY <1>4, <1>6, <1>7, <1>8, StepKeeps DEF InvOf

\* The key whose setup data is dropped has the proofs of all players, its own
\* too: it was verified.
LEMMA CreateSecretSetup ==
  ASSUME TypeInv, SetupInv, NEW p \in Players, NEW fs \in Choices(factors),
         CreateSecret(p, fs)
  PROVE  SetupInv'
<1> DEFINE c == [op |-> "backup"]
           v == key[p].info
<1>1. /\ key[p] # Absent /\ v # Absent
      /\ \A q \in Players : fs[q] \in factors[q]
      /\ \A q \in Players : fs[q].life = v[q] /\ fs[q].seed = v
      /\ commitments' = [commitments EXCEPT ![p] = Absent]
      /\ setup' = [setup EXCEPT ![p] = Absent]
      /\ call' = [call EXCEPT ![p] = c]
      /\ UNCHANGED <<starts, source, key, proofs, factors, created>>
  BY DEF CreateSecret, DropTemporary, Enter, history
<1>2. c.op = "backup"
  OBVIOUS
<1>3. ProvedBy(key[p], factors)
  <2> SUFFICES ASSUME NEW q \in Players
               PROVE  [life |-> v[q], seed |-> v] \in factors[q]
    BY DEF ProvedBy
  <2>1. fs[q] \in [life : Lives, seed : Vectors]
    BY <1>1, Fields
  <2>2. fs[q] = [life |-> v[q], seed |-> v]
    BY <1>1, <2>1
  <2> QED
    BY <1>1, <2>2
<1>4. VerifiedFrom(key[p], source)
  <2> DEFINE a == [life |-> key[p].life, seed |-> v]
  <2>1. a \in proofs[p]
    BY <1>1 DEF SetupInv, SeedOfLife
  <2>2. a.life = key[p].life /\ a.seed = v
    OBVIOUS
  <2> HIDE DEF a
  <2>3. v[p] = key[p].life
    BY <2>1, <2>2 DEF SetupInv, SeedOfLife
  <2>4. fs[p] \in factors[p] /\ fs[p].life = key[p].life
    BY <1>1, <2>3
  <2> QED
    BY <1>1, <2>4, Unfold DEF SetupInv, CreatedIsVerified
<1> HIDE DEF c, v
<1>5. StepOf(p)
  BY <1>1, QuietStep DEF TypeInv, TypeOK
<1>6. commitments'[p] = Absent /\ setup'[p] = Absent /\ call'[p] = c
  BY <1>1 DEF TypeInv, TypeOK
<1>7. SchnorrAnswersOnce!(p)' /\ StoredIsCurrent!(p)'
  BY <1>1, <1>6 DEF SetupInv, SchnorrAnswersOnce, StoredIsCurrent
<1>8. SeedOfLife!(p)'
  BY <1>1, <1>2, <1>6 DEF SetupInv, SeedOfLife
<1>9. CreatedIsVerified!(p)'
  <2>1. \A d \in created'[p] :
          /\ VerifiedFrom(d, source') /\ ProvedBy(d, factors')
          /\ [life |-> d.life, seed |-> d.info] \in proofs'[p]
    BY <1>1, <1>5, CreatedBefore
  <2> QED
    BY <1>1, <1>2, <1>3, <1>4, <1>6, <2>1, Assembled
<1> QED
  BY <1>5, <1>7, <1>8, <1>9, StepKeeps DEF InvOf

LEMMA BackupKeySetup ==
  ASSUME TypeInv, SetupInv, NEW p \in Players, BackupKey(p)
  PROVE  SetupInv'
<1>1. /\ call[p].op = "backup" /\ call' = [call EXCEPT ![p] = Idle]
      /\ \/ /\ created' = [created EXCEPT ![p] = @ \cup {key[p]}]
            /\ UNCHANGED <<key, setup, commitments>>
         \/ /\ key' = [key EXCEPT ![p] = Absent]
            /\ commitments' = [commitments EXCEPT ![p] = Absent]
            /\ setup' = [setup EXCEPT ![p] = Absent]
            /\ UNCHANGED created
      /\ UNCHANGED <<starts, source, proofs, factors>>
  BY DEF BackupKey, DropTemporary, Return, Enter
<1>2. /\ setup[p] = Absent /\ key[p] # Absent
      /\ VerifiedFrom(key[p], source) /\ ProvedBy(key[p], factors)
  BY <1>1, Unfold DEF TypeInv, SetupInv, CreatedIsVerified
<1>3. /\ key[p].life = starts[p] /\ starts[p] \in Nat
      /\ [life |-> key[p].life, seed |-> key[p].info] \in proofs[p]
  BY <1>2, Fields DEF SetupInv, StoredIsCurrent, SeedOfLife, VerifiedFrom
<1>4. StepOf(p)
  BY <1>1 DEF StepOf, TypeInv, TypeOK
<1>5. /\ call'[p].op = "idle" /\ setup'[p] = Absent
      /\ key'[p] = key[p] \/ key'[p] = Absent
      /\ created'[p] \subseteq created[p] \cup {key[p]}
      /\ commitments'[p] = Absent
  <2>1. commitments[p] = Absent
    BY <1>2 DEF SetupInv, StoredIsCurrent
  <2> QED
    BY <1>1, <1>2, <2>1, IdleOp DEF TypeInv, TypeOK
<1>6. SchnorrAnswersOnce!(p)' /\ SeedOfLife!(p)'
  BY <1>1, <1>5 DEF SetupInv, SchnorrAnswersOnce, SeedOfLife
<1>7. StoredIsCurrent!(p)'
  <2>1. \A c \in created'[p] : c.life <= starts[p]
    BY <1>3, <1>5 DEF SetupInv, StoredIsCurrent
  <2> QED
    BY <1>1, <1>5, <2>1 DEF SetupInv, StoredIsCurrent
<1>8. CreatedIsVerified!(p)'
  <2>1. \A d \in created'[p] :
          /\ VerifiedFrom(d, source') /\ ProvedBy(d, factors')
          /\ [life |-> d.life, seed |-> d.info] \in proofs'[p]
    <3>1. \A d \in created[p] :
            /\ VerifiedFrom(d, source') /\ ProvedBy(d, factors')
            /\ [life |-> d.life, seed |-> d.info] \in proofs'[p]
      BY <1>1, <1>4, CreatedBefore
    <3>2. /\ VerifiedFrom(key[p], source') /\ ProvedBy(key[p], factors')
          /\ [life |-> key[p].life, seed |-> key[p].info] \in proofs'[p]
      BY <1>1, <1>2, <1>3
    <3> QED
      BY <1>5, <3>1, <3>2
  <2> QED
    BY <1>1, <1>2, <1>5, <2>1, Assembled
<1> QED
  BY <1>4, <1>6, <1>7, <1>8, StepKeeps DEF InvOf

LEMMA InterruptSetup ==
  ASSUME TypeInv, SetupInv, NEW p \in Players, Interrupt(p)
  PROVE  SetupInv'
<1>1. /\ call' = [call EXCEPT ![p] = Idle]
      /\ UNCHANGED <<starts, source, key, setup, commitments, proofs, factors, created>>
  BY DEF Interrupt, Return, Enter, history
<1>2. StepOf(p)
  BY <1>1, QuietStep DEF TypeInv, TypeOK
<1>3. call'[p].op = "idle"
  BY <1>1, IdleOp DEF TypeInv, TypeOK
<1>4. SchnorrAnswersOnce!(p)' /\ StoredIsCurrent!(p)' /\ SeedOfLife!(p)'
  BY <1>1, <1>3 DEF SetupInv, SchnorrAnswersOnce, StoredIsCurrent, SeedOfLife
<1>5. CreatedIsVerified!(p)'
  <2>1. \A d \in created'[p] :
          /\ VerifiedFrom(d, source') /\ ProvedBy(d, factors')
          /\ [life |-> d.life, seed |-> d.info] \in proofs'[p]
    BY <1>1, <1>2, CreatedBefore
  <2>2. \A f \in factors[p] :
          key[p] # Absent /\ f.life = key[p].life => VerifiedFrom(key[p], source)
    BY Unfold DEF SetupInv, CreatedIsVerified
  <2> QED
    BY <1>1, <1>3, <2>1, <2>2, Assembled
<1> QED
  BY <1>2, <1>4, <1>5, StepKeeps DEF InvOf

\* A step of no player.
LEMMA StillSetup ==
  ASSUME SetupInv,
         UNCHANGED <<starts, source, key, setup, commitments, call, proofs,
                     factors, created>>
  PROVE  SetupInv'
<1>1. SchnorrAnswersOnce' /\ StoredIsCurrent' /\ SeedOfLife'
  BY DEF SetupInv, SchnorrAnswersOnce, StoredIsCurrent, SeedOfLife
<1>2. CreatedIsVerified'
  BY DEF SetupInv, CreatedIsVerified, VerifiedKey, SumsToOld, AllProved
<1> QED
  BY <1>1, <1>2 DEF SetupInv

LEMMA BeginningSetup ==
  ASSUME TypeInv, SetupInv, NEW p \in Players,
         GenerateSetupCommitments(p) \/ \E v \in Requests : AddUser(p, v)
  PROVE  SetupInv'
BY BeginSetup DEF GenerateSetupCommitments, AddUser, PublicKeys

LEMMA NextSetup == TypeInv /\ SetupInv /\ [Next]_vars => SetupInv'
<1> SUFFICES ASSUME TypeInv, SetupInv, [Next]_vars
             PROVE  SetupInv'
  OBVIOUS
<1>1. CASE UNCHANGED vars
  BY <1>1, StillSetup DEF vars, history
<1>2. ASSUME NEW o \in OldPlayers, AddUserRequest(o)
      PROVE  SetupInv'
  BY <1>2, StillSetup DEF AddUserRequest, history
<1>3. CASE Next
  BY <1>2, <1>3, BeginningSetup, StoreSetupCommitmentsSetup,
     GenerateSetupProofsSetup, StoreMetadataSetup, VerifySetupProofsSetup,
     ProveFactorsSetup, CreateSecretSetup, BackupKeySetup, InterruptSetup
  DEF Next, Call, Continue
<1> QED
  BY <1>1, <1>3

LEMMA SetupInvHolds ==
  ASSUME ConstantsOK
  PROVE  Spec => [](TypeInv /\ SetupInv)
<1>1. Init => TypeInv /\ SetupInv
  BY InitType, InitSetup
<1>2. TypeInv /\ SetupInv /\ [Next]_vars => TypeInv' /\ SetupInv'
  BY NextType, NextSetup
<1> QED
  BY <1>1, <1>2, PTL DEF Spec

-----------------------------------------------------------------------------
(* Whether a key is a copied one                                            *)

\* What a step does that only drops keys, creates those that are stored and
\* makes no copied key a new one or the other way round.
LEMMA SourceKept ==
  ASSUME SourceOfKey, UNCHANGED source,
         \A q \in Players : key'[q] # Absent =>
           /\ key[q] # Absent /\ key'[q].life = key[q].life
           /\ key'[q].pub = Copied <=> key[q].pub = Copied,
         \A q \in Players : \A c \in created'[q] :
           c \in created[q] \/ (c = key[q] /\ key[q] # Absent)
  PROVE  SourceOfKey'
<1> SUFFICES ASSUME NEW q \in Players
             PROVE  SourceOfKey!(q)'
  BY DEF SourceOfKey
<1>1. key'[q] # Absent => (key'[q].pub = Copied <=> source'[q][key'[q].life] # Absent)
  BY DEF SourceOfKey
<1>2. ASSUME NEW c \in created'[q]
      PROVE  c.pub = Copied <=> source'[q][c.life] # Absent
  BY DEF SourceOfKey
<1> QED
  BY <1>1, <1>2

\* The source of a life is set when the key of the life begins.
LEMMA BeginSource ==
  ASSUME TypeInv, SetupInv, SourceOfKey, NEW p \in Players,
         NEW from \in Requests \cup {Absent}, NEW pub, Begin(p, from, pub),
         pub = Copied <=> from # Absent
  PROVE  SourceOfKey'
<1> DEFINE n == starts[p] + 1
           k == [life |-> n, info |-> Absent, pub |-> pub]
<1>1. /\ n <= MaxStarts
      /\ source' = [source EXCEPT ![p][n] = from] /\ key' = [key EXCEPT ![p] = k]
      /\ created' = created
  BY DEF Begin, history
<1>2. n \in Lives /\ starts[p] \in Nat
  BY <1>1, Fields DEF Lives
<1>3. \A c \in created[p] : c.life # n
  BY <1>2, Fields DEF SetupInv, StoredIsCurrent
<1>4. k.life = n /\ k.pub = pub
  OBVIOUS
<1> HIDE DEF n, k
<1>5. /\ key'[p] = k /\ source'[p] = [source[p] EXCEPT ![n] = from]
      /\ source[p] \in [Lives -> Requests \cup {Absent}]
      /\ \A q \in Players \ {p} : key'[q] = key[q] /\ source'[q] = source[q]
  BY <1>1 DEF TypeInv, TypeOK
<1>6. source'[p][n] = from /\ \A c \in created[p] : source'[p][c.life] = source[p][c.life]
  BY <1>2, <1>3, <1>5, Fields
<1>7. SourceOfKey!(p)'
  BY <1>1, <1>4, <1>5, <1>6 DEF SourceOfKey
<1>8. \A q \in Players \ {p} : SourceOfKey!(q)'
  BY <1>1, <1>5 DEF SourceOfKey
<1> QED
  BY <1>7, <1>8 DEF SourceOfKey

LEMMA BeginningSource ==
  ASSUME TypeInv, SetupInv, SourceOfKey, NEW p \in Players,
         GenerateSetupCommitments(p) \/ \E v \in Requests : AddUser(p, v)
  PROVE  SourceOfKey'
<1>1. CASE GenerateSetupCommitments(p)
  BY <1>1, BeginSource, KeyKinds DEF GenerateSetupCommitments
<1>2. ASSUME NEW v \in Requests, AddUser(p, v)
      PROVE  SourceOfKey'
  <2>1. v # Absent
    BY DEF TypeInv, TypeOK, ConstantsOK
  <2> QED
    BY <1>2, <2>1, BeginSource DEF AddUser
<1> QED
  BY <1>1, <1>2

LEMMA StoreMetadataSource ==
  ASSUME TypeInv, SetupInv, SourceOfKey, NEW p \in Players, StoreMetadata(p)
  PROVE  SourceOfKey'
<1>1. /\ call[p].op = "metadata" /\ key' = [key EXCEPT ![p] = call[p].key]
      /\ source' = source /\ created' = created
  BY DEF StoreMetadata, history
<1>2. setup[p] # Absent /\ call[p].key = [key[p] EXCEPT !.info = commitments[p]]
  BY <1>1 DEF SetupInv, SeedOfLife
<1>3. key[p] # Absent /\ key[p] \in Records
  BY <1>2, Fields DEF SetupInv, StoredIsCurrent
<1>4. call[p].key.life = key[p].life /\ call[p].key.pub = key[p].pub
  BY <1>2, <1>3 DEF Records
<1>5. key'[p] = call[p].key /\ \A q \in Players \ {p} : key'[q] = key[q]
  BY <1>1 DEF TypeInv, TypeOK
<1> QED
  BY <1>1, <1>3, <1>4, <1>5, SourceKept

LEMMA VerifySetupProofsSource ==
  ASSUME TypeInv, SourceOfKey, NEW p \in Players, NEW ps, VerifySetupProofs(p, ps)
  PROVE  SourceOfKey'
<1> DEFINE k == VerifiedRecord(key[p])
<1>1. /\ key[p] # Absent /\ key' = [key EXCEPT ![p] = k]
      /\ source' = source /\ created' = created
  BY VerifySetupProofsStep DEF history
<1>2. k.life = key[p].life /\ (k.pub = Copied <=> key[p].pub = Copied)
  <2>1. key[p] \in Records
    BY <1>1, Fields
  <2>2. k.life = key[p].life
        /\ k.pub = IF key[p].pub = Infinity THEN SumOf(key[p].info) ELSE key[p].pub
    BY <2>1 DEF VerifiedRecord, Records
  <2> QED
    BY <2>2, KeyKinds
<1> HIDE DEF k
<1>3. key'[p] = k /\ \A q \in Players \ {p} : key'[q] = key[q]
  BY <1>1 DEF TypeInv, TypeOK
<1> QED
  BY <1>1, <1>2, <1>3, SourceKept

LEMMA BackupKeySource ==
  ASSUME TypeInv, SourceOfKey, NEW p \in Players, BackupKey(p)
  PROVE  SourceOfKey'
<1>1. /\ key' = key \/ key' = [key EXCEPT ![p] = Absent]
      /\ created' = created \/ created' = [created EXCEPT ![p] = @ \cup {key[p]}]
      /\ source' = source /\ key[p] # Absent
  BY DEF BackupKey, TypeInv
<1>2. /\ key'[p] # Absent => key'[p] = key[p]
      /\ created'[p] \subseteq created[p] \cup {key[p]}
      /\ \A q \in Players \ {p} : key'[q] = key[q] /\ created'[q] = created[q]
  BY <1>1 DEF TypeInv, TypeOK
<1> QED
  BY <1>1, <1>2, SourceKept

\* The other steps change neither keys nor where their shares are from.
LEMMA OtherSource ==
  ASSUME SourceOfKey, UNCHANGED <<source, key, created>>
  PROVE  SourceOfKey'
BY DEF SourceOfKey

LEMMA NextSource == TypeInv /\ SetupInv /\ SourceOfKey /\ [Next]_vars => SourceOfKey'
<1> SUFFICES ASSUME TypeInv, SetupInv, SourceOfKey, [Next]_vars
             PROVE  SourceOfKey'
  OBVIOUS
<1>1. CASE UNCHANGED vars
  BY <1>1, OtherSource DEF vars, history
<1>2. ASSUME NEW o \in OldPlayers, AddUserRequest(o)
      PROVE  SourceOfKey'
  BY <1>2, OtherSource DEF AddUserRequest, history
<1>3. ASSUME NEW p \in Players, Call(p)
      PROVE  SourceOfKey'
  <2>1. CASE \E v \in Vectors : StoreSetupCommitments(p, v)
    BY <2>1, OtherSource DEF StoreSetupCommitments
  <2>2. CASE \E ds \in Choices(opened) : GenerateSetupProofs(p, ds)
    BY <2>2, OtherSource DEF GenerateSetupProofs
  <2>3. CASE \E fs \in Choices(factors) : CreateSecret(p, fs)
    BY <2>3, OtherSource DEF CreateSecret, history
  <2> QED
    BY <1>3, <2>1, <2>2, <2>3, VerifySetupProofsSource DEF Call
<1>4. ASSUME NEW p \in Players, ProveFactors(p) \/ Interrupt(p)
      PROVE  SourceOfKey'
  BY <1>4, OtherSource DEF ProveFactors, Interrupt, history
<1>5. CASE Next
  BY <1>2, <1>3, <1>4, <1>5, BeginningSource, StoreMetadataSource, BackupKeySource
  DEF Next, Continue
<1> QED
  BY <1>1, <1>5

LEMMA SourceHolds ==
  ASSUME ConstantsOK
  PROVE  Spec => [](TypeInv /\ SetupInv /\ SourceOfKey)
<1>1. Init => TypeInv /\ SetupInv /\ SourceOfKey
  BY InitType, InitSetup DEF Init, SourceOfKey
<1>2. TypeInv /\ SetupInv /\ SourceOfKey /\ [Next]_vars => TypeInv' /\ SetupInv' /\ SourceOfKey'
  BY NextType, NextSetup, NextSource
<1> QED
  BY <1>1, <1>2, PTL DEF Spec

-----------------------------------------------------------------------------
(* The theorems                                                             *)

\* The k of a share's Schnorr proof answers the challenge of one seed: for
\* any number of players, lives and calls of the handlers.
THEOREM ShareProvedOnce ==
  ASSUME ConstantsOK
  PROVE  Spec => []SchnorrAnswersOnce
<1>1. SetupInv => SchnorrAnswersOnce
  BY DEF SetupInv
<1> QED
  BY <1>1, SetupInvHolds, PTL

\* Players that created a key from each other's shares agree on the public
\* shares and on the public key, and on whether it is the one that was
\* copied, wherever handlers of setup stopped.
THEOREM PlayersAgree ==
  ASSUME ConstantsOK
  PROVE  Spec => []CreatedAgree
<1>1. TypeInv /\ SetupInv /\ SourceOfKey => CreatedAgree
  <2> SUFFICES ASSUME TypeInv, SetupInv, SourceOfKey,
                      NEW p \in Players, NEW q \in Players,
                      NEW c \in created[p], NEW d \in created[q],
                      c.info[q] = d.life
               PROVE  c.info = d.info /\ c.pub = d.pub
    BY DEF CreatedAgree
  <2>1. [life |-> d.life, seed |-> c.info] \in proofs[q]
    BY DEF SetupInv, CreatedIsVerified, AllProved, SeedOfLife
  <2>2. [life |-> d.life, seed |-> d.info] \in proofs[q]
    BY DEF SetupInv, CreatedIsVerified
  <2>3. [life |-> d.life, seed |-> c.info] = [life |-> d.life, seed |-> d.info]
    BY <2>1, <2>2 DEF SetupInv, SchnorrAnswersOnce
  <2>4. c.info = d.info
    BY <2>3
  <2>5. VerifiedKey(c) /\ VerifiedKey(d)
    BY DEF SetupInv, CreatedIsVerified
  <2>6. c.info[p] = c.life
    <3> DEFINE a == [life |-> c.life, seed |-> c.info]
    <3>1. a \in proofs[p] /\ a.life = c.life /\ a.seed = c.info
      BY DEF SetupInv, CreatedIsVerified
    <3> HIDE DEF a
    <3> QED
      BY <3>1 DEF SetupInv, SeedOfLife
  <2>7. SumsToOld(c.info) => source[p][c.life] # Absent /\ source[q][d.life] # Absent
    BY <2>6 DEF SumsToOld, TypeInv, TypeOK, ConstantsOK
  <2>8. c.pub = Copied <=> d.pub = Copied
    <3>1. c.pub = Copied => SumsToOld(c.info)
      BY <2>5, KeyKinds DEF VerifiedKey
    <3>2. d.pub = Copied => SumsToOld(c.info)
      BY <2>4, <2>5, KeyKinds DEF VerifiedKey
    <3> QED
      BY <2>7, <3>1, <3>2 DEF SourceOfKey
  <2> QED
    BY <2>4, <2>5, <2>8 DEF VerifiedKey
<1> QED
  BY <1>1, SourceHolds, PTL

\* The shares add_user hands out sum to the key of the old players, for any
\* number of them and of their requests.
THEOREM CopiedKeyIsTheOld ==
  ASSUME ConstantsOK
  PROVE  Spec => []AddedKeyIsTheOld
<1>1. ASSUME SetupInv, NEW p \in Players, NEW c \in created[p], c.pub = Copied
      PROVE  SumsToOld(c.info)
  <2>1. VerifiedKey(c)
    BY <1>1 DEF SetupInv, CreatedIsVerified
  <2>2. c.pub # SumOf(c.info)
    BY <1>1, KeyKinds
  <2> QED
    BY <2>1, <2>2 DEF VerifiedKey
<1>2. SetupInv => AddedKeyIsTheOld
  BY <1>1 DEF AddedKeyIsTheOld
<1> QED
  BY <1>2, SetupInvHolds, PTL

\* No nonce of the proofs and no commitments outlive a key that was created
\* or whose creation failed.
THEOREM SetupForgotten ==
  ASSUME ConstantsOK
  PROVE  Spec => []TemporaryForgotten
<1>1. SetupInv => TemporaryForgotten
  BY DEF SetupInv, StoredIsCurrent, TemporaryForgotten
<1> QED
  BY <1>1, SetupInvHolds, PTL
=============================================================================

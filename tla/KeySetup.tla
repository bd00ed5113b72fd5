------------------------------ MODULE KeySetup ------------------------------
(***************************************************************************)
(* cmp_setup_service: the players of a key id create their shares of a new *)
(* key, or receive shares of an existing key from the players that have it *)
(* (add_user), and prove to each other that they know what they publish.   *)
(* Persistency: that of test/cosigner/setup_test.cpp, but that a load of   *)
(* what is not stored fails, where that one inserts and gives an empty     *)
(* value: generate_setup_proofs with no decommitments, before any          *)
(* commitments are stored, then succeeds for the seed 0.                   *)
(*                                                                         *)
(* A player that failed to back its share up forgets the key, and the id   *)
(* can be used again.  A life, one use of the id at a player, names what   *)
(* the player draws in it: the share, the auxiliary keys, the seed and the *)
(* k of its Schnorr proof.  The XOR of the seeds of all players is named   *)
(* by the lives they are of.  The host runs one handler of a player at a   *)
(* time, as that persistency requires.                                     *)
(***************************************************************************)
EXTENDS Naturals, FiniteSets

CONSTANTS
  Players,      \* the players of the key id
  OldPlayers,   \* the players of the key that add_user copies
  MaxStarts,    \* bound: lives of the key id at a player
  MaxRequests,  \* bound: calls of add_user_request of an old player
  Interrupts,   \* the steps before which a handler may stop
  Absent        \* nothing stored

Lives == 1..MaxStarts
Vectors == [Players -> Lives]
Requests == [OldPlayers -> 1..MaxRequests]

VARIABLES
  starts,       \* per player: lives begun
  requests,     \* per old player: calls of add_user_request
  source,       \* per player and life: the requests its share is from, or none
  key,          \* per player: the key, its metadata and its auxiliary keys
  setup,        \* per player: setup_data
  commitments,  \* per player: the stored commitments of all players
  call,         \* per player: the handler it runs and its locals
  opened,       \* per player: the decommitments it returned
  proofs,       \* per player: the proofs it computed
  factors,      \* per player: the proofs of large factors it returned
  created       \* per player: the keys create_secret succeeded for

vars == <<starts, requests, source, key, setup, commitments, call, opened,
          proofs, factors, created>>
history == <<opened, proofs, factors, created>>

-----------------------------------------------------------------------------
Infinity == [is |-> "infinity"]
Copied == [is |-> "copied"]
SumOf(v) == [is |-> "sum", of |-> v]
PublicKeys == {Infinity, Copied} \cup {SumOf(v) : v \in Vectors}

\* info: the lives whose public data players_info and the seed are of; pub:
\* the lives whose shares sum to the public key, or the key that is copied,
\* or the point at infinity.
Records == [life : Lives, info : Vectors \cup {Absent},
            pub : PublicKeys]

\* What the constants are; nothing stored is none of what can be.
ConstantsOK ==
  /\ MaxStarts \in Nat /\ MaxRequests \in Nat
  /\ Interrupts \subseteq {"data", "metadata", "factors", "backup", "fail", "reply"}
  /\ Absent \notin Records /\ Absent \notin Vectors
  /\ Absent \notin Lives /\ Absent \notin Requests

Idle == [op |-> "idle"]
Enter(p, c) == call' = [call EXCEPT ![p] = c]
Return(p) == Enter(p, Idle)
MayEnter(p) == call[p].op = "idle"

Init ==
  /\ starts = [p \in Players |-> 0]
  /\ requests = [o \in OldPlayers |-> 0]
  /\ source = [p \in Players |-> [n \in Lives |-> Absent]]
  /\ key = [p \in Players |-> Absent]
  /\ setup = [p \in Players |-> Absent]
  /\ commitments = [p \in Players |-> Absent]
  /\ call = [p \in Players |-> Idle]
  /\ opened = [p \in Players |-> {}]
  /\ proofs = [p \in Players |-> {}]
  /\ factors = [p \in Players |-> {}]
  /\ created = [p \in Players |-> {}]

-----------------------------------------------------------------------------
(* The share.                                                               *)

\* Each call splits the share of the old player anew.
AddUserRequest(o) ==
  /\ requests[o] < MaxRequests
  /\ requests' = [requests EXCEPT ![o] = @ + 1]
  /\ UNCHANGED <<starts, source, key, setup, commitments, call, history>>

\* Both entries refuse an id that exists.  The metadata is stored first: a
\* handler that stops then leaves an id that exists and cannot be set up.
Begin(p, from, pub) ==
  LET n == starts[p] + 1 IN
  /\ MayEnter(p)
  /\ n <= MaxStarts
  /\ key[p] = Absent
  /\ starts' = [starts EXCEPT ![p] = n]
  /\ source' = [source EXCEPT ![p][n] = from]
  /\ key' = [key EXCEPT ![p] = [life |-> n, info |-> Absent, pub |-> pub]]
  /\ \/ setup' = [setup EXCEPT ![p] = n]
     \/ "data" \in Interrupts /\ UNCHANGED setup
  /\ UNCHANGED <<requests, commitments, call, history>>

\* The public key begins at infinity.
GenerateSetupCommitments(p) == Begin(p, Absent, Infinity)

\* v: which request of each old player reached this one.
AddUser(p, v) ==
  /\ OldPlayers # {}
  /\ \A o \in OldPlayers : v[o] <= requests[o]
  /\ Begin(p, v, Copied)

-----------------------------------------------------------------------------
(* Commitments and proofs.                                                  *)

\* The own commitment opens; store_setup_commitments refuses a key that has
\* some.  And one that overwrites them.
Overwrites(p) == TRUE
NoCommitments(p) == commitments[p] = Absent

StoreSetupCommitments(p, v) ==
  /\ MayEnter(p)
  /\ key[p] # Absent /\ setup[p] # Absent
  /\ \A q \in Players : v[q] <= starts[q]
  /\ v[p] = setup[p]
  /\ NoCommitments(p)
  /\ commitments' = [commitments EXCEPT ![p] = v]
  /\ \/ opened' = [opened EXCEPT ![p] = @ \cup {[life |-> setup[p], ack |-> v]}]
     \/ "reply" \in Interrupts /\ UNCHANGED opened
  /\ UNCHANGED <<starts, requests, source, key, setup, call, proofs, factors, created>>

\* ds[q] opens the stored commitment of q, and q acknowledged the same ones.
Opens(p, ds) ==
  /\ commitments[p] # Absent
  /\ \A q \in Players : ds[q].life = commitments[p][q] /\ ds[q].ack = commitments[p]

\* The k of the setup data answers the challenge of the seeds.  The setup
\* data is stored, then the metadata, then the proofs are returned.
GenerateSetupProofs(p, ds) ==
  /\ MayEnter(p)
  /\ key[p] # Absent /\ setup[p] # Absent
  /\ \A q \in Players : ds[q] \in opened[q]
  /\ Opens(p, ds)
  /\ LET v == [q \in Players |-> ds[q].life] IN
     /\ proofs' = [proofs EXCEPT ![p] = @ \cup {[life |-> setup[p], seed |-> v]}]
     /\ Enter(p, [op |-> "metadata", key |-> [key[p] EXCEPT !.info = v]])
  /\ UNCHANGED <<starts, requests, source, key, setup, commitments, opened,
                 factors, created>>

StoreMetadata(p) ==
  /\ call[p].op = "metadata"
  /\ key' = [key EXCEPT ![p] = call[p].key]
  /\ Return(p)
  /\ UNCHANGED <<starts, requests, source, setup, commitments, history>>

\* The proofs of the others are for the own seed and their public shares.
ForSeed(p, ps) ==
  \A q \in Players \ {p} : ps[q].life = key[p].info[q] /\ ps[q].seed = key[p].info

\* The public shares of v sum to the key that is copied: all of them come
\* from one request of each old player.
SumsToOld(v) ==
  \E r \in Requests : \A q \in Players : source[q][v[q]] = r

\* And sums that are taken as they are, or that only a second check accepts.
AnySum(p) == TRUE
SumIsKnown(p) == key[p].pub # Infinity /\ SumsToOld(key[p].info)
SumVerifies(p) ==
  \/ key[p].pub = Infinity
  \/ key[p].pub = Copied /\ SumsToOld(key[p].info)
  \/ key[p].pub = SumOf(key[p].info)

\* The public key is set or compared and stored; the proofs of large factors
\* are computed after that.
VerifySetupProofs(p, ps) ==
  /\ MayEnter(p)
  /\ key[p] # Absent /\ setup[p] # Absent
  /\ key[p].info # Absent
  /\ \A q \in Players : ps[q] \in proofs[q]
  /\ ForSeed(p, ps)
  /\ SumVerifies(p)
  /\ key' = [key EXCEPT ![p].pub = IF @ = Infinity THEN SumOf(key[p].info) ELSE @]
  /\ Enter(p, [op |-> "factors"])
  /\ UNCHANGED <<starts, requests, source, setup, commitments, history>>

ProveFactors(p) ==
  /\ call[p].op = "factors"
  /\ factors' = [factors EXCEPT ![p] = @ \cup {[life |-> key[p].life, seed |-> key[p].info]}]
  /\ Return(p)
  /\ UNCHANGED <<starts, requests, source, key, setup, commitments, opened,
                 proofs, created>>

-----------------------------------------------------------------------------
(* create_secret                                                            *)

\* delete_temporary_key_data.  And one that keeps the setup data.
DropCommitments(p) ==
  /\ commitments' = [commitments EXCEPT ![p] = Absent]
  /\ UNCHANGED setup
DropTemporary(p) ==
  /\ commitments' = [commitments EXCEPT ![p] = Absent]
  /\ setup' = [setup EXCEPT ![p] = Absent]

\* Of the own proofs only the presence is checked: it is what the host got
\* from verify_setup_proofs for this seed.
CreateSecret(p, fs) ==
  /\ MayEnter(p)
  /\ key[p] # Absent /\ key[p].info # Absent
  /\ \A q \in Players : fs[q] \in factors[q]
  /\ \A q \in Players : fs[q].life = key[p].info[q] /\ fs[q].seed = key[p].info
  /\ DropTemporary(p)
  /\ Enter(p, [op |-> "backup"])
  /\ UNCHANGED <<starts, requests, source, key, history>>

\* The host cannot back the share up: everything of the key is deleted.
BackupKey(p) ==
  /\ call[p].op = "backup"
  /\ \/ /\ created' = [created EXCEPT ![p] = @ \cup {key[p]}]
        /\ UNCHANGED <<key, setup, commitments>>
     \/ /\ "fail" \in Interrupts
        /\ key' = [key EXCEPT ![p] = Absent]
        /\ DropTemporary(p)
        /\ UNCHANGED created
  /\ Return(p)
  /\ UNCHANGED <<starts, requests, source, opened, proofs, factors>>

\* An exception out of a handler before one of its persistency calls.
Interrupt(p) ==
  /\ call[p].op \in Interrupts
  /\ Return(p)
  /\ UNCHANGED <<starts, requests, source, key, setup, commitments, history>>

-----------------------------------------------------------------------------
Choices(returned) ==
  {f \in [Players -> UNION {returned[q] : q \in Players}] :
     \A q \in Players : f[q] \in returned[q]}

Continue(p) == StoreMetadata(p) \/ ProveFactors(p) \/ BackupKey(p)

Call(p) ==
  \/ \E v \in Vectors : StoreSetupCommitments(p, v)
  \/ \E ds \in Choices(opened) : GenerateSetupProofs(p, ds)
  \/ \E ps \in Choices(proofs) : VerifySetupProofs(p, ps)
  \/ \E fs \in Choices(factors) : CreateSecret(p, fs)

Next ==
  \/ \E o \in OldPlayers : AddUserRequest(o)
  \/ \E p \in Players :
       \/ GenerateSetupCommitments(p)
       \/ \E v \in Requests : AddUser(p, v)
       \/ Call(p) \/ Continue(p) \/ Interrupt(p)

Spec == Init /\ [][Next]_vars

\* A host that goes on and makes every call that can succeed.
NotProved(p) == key[p] # Absent /\ key[p].info = Absent

Fairness ==
  \A p \in Players :
    /\ WF_vars(GenerateSetupCommitments(p))
    /\ WF_vars(Continue(p))
    /\ WF_vars(\E v \in Vectors : StoreSetupCommitments(p, v))
    /\ SF_vars(\E ds \in Choices(opened) :
                 NotProved(p) /\ GenerateSetupProofs(p, ds))
    /\ SF_vars(\E ps \in Choices(proofs) : VerifySetupProofs(p, ps))
    /\ SF_vars(\E fs \in Choices(factors) : CreateSecret(p, fs))

FairSpec == Spec /\ Fairness

-----------------------------------------------------------------------------
(* Properties                                                               *)

\* The type invariant.
TypeOK ==
  /\ ConstantsOK
  /\ starts \in [Players -> 0..MaxStarts]
  /\ requests \in [OldPlayers -> 0..MaxRequests]
  /\ source \in [Players -> [Lives -> Requests \cup {Absent}]]
  /\ key \in [Players -> Records \cup {Absent}]
  /\ setup \in [Players -> Lives \cup {Absent}]
  /\ commitments \in [Players -> Vectors \cup {Absent}]
  /\ call \in [Players -> {Idle} \cup [op : {"factors", "backup"}]
                 \cup [op : {"metadata"}, key : Records]]
  /\ opened \in [Players -> SUBSET [life : Lives, ack : Vectors]]
  /\ proofs \in [Players -> SUBSET [life : Lives, seed : Vectors]]
  /\ factors \in [Players -> SUBSET [life : Lives, seed : Vectors]]
  /\ created \in [Players -> SUBSET Records]

\* The k of a share's Schnorr proof answers one challenge: two would give the
\* share away.  generate_setup_proofs can be repeated and does not count; it
\* is the commitments of the others that cannot be exchanged.
SchnorrAnswersOnce ==
  \A p \in Players : \A a, b \in proofs[p] : a.life = b.life => a = b

\* Players that created keys from each other's shares created the same key;
\* none of them takes for a new key what another takes for the copied one.
CreatedAgree ==
  \A p, q \in Players : \A c \in created[p], d \in created[q] :
    c.info[q] = d.life => c.info = d.info /\ c.pub = d.pub

\* The shares of a key created by add_user sum to the key that was copied,
\* although old players may have split their shares more than once and the
\* pieces that arrive may be of different calls.
AddedKeyIsTheOld ==
  \A p \in Players : \A c \in created[p] :
    c.pub = Copied => SumsToOld(c.info)

\* After create_secret, and after it failed, the k of the life is forgotten.
TemporaryForgotten ==
  \A p \in Players :
    (key[p] = Absent \/ key[p] \in created[p])
      => setup[p] = Absent /\ commitments[p] = Absent

\* What keeps them true.  All that is stored is of the last life; its setup
\* data goes with its commitments, and no created key has any.
StoredIsCurrent ==
  \A p \in Players :
    /\ key[p] = Absent => setup[p] = Absent
    /\ setup[p] = Absent => commitments[p] = Absent
    /\ key[p] # Absent => key[p].life = starts[p]
    /\ setup[p] # Absent => setup[p] = starts[p]
    /\ commitments[p] # Absent => commitments[p][p] = setup[p]
    /\ \A n \in Lives : n > starts[p] => source[p][n] = Absent
    /\ \A c \in created[p] :
         c.life <= starts[p] /\ (setup[p] # Absent => c.life # setup[p])

\* What a life proved is the seed of the commitments it stored, and what the
\* key is from then on.
SeedOfLife ==
  \A p \in Players :
    /\ \A a \in proofs[p] :
         /\ a.life <= starts[p] /\ a.seed[p] = a.life
         /\ setup[p] # Absent /\ a.life = setup[p] => a.seed = commitments[p]
    /\ key[p] # Absent /\ key[p].info # Absent =>
         [life |-> key[p].life, seed |-> key[p].info] \in proofs[p]
    /\ call[p].op = "metadata" =>
         /\ setup[p] # Absent /\ commitments[p] # Absent
         /\ [life |-> setup[p], seed |-> commitments[p]] \in proofs[p]
         /\ call[p].key = [key[p] EXCEPT !.info = commitments[p]]
    /\ factors[p] \subseteq proofs[p]

\* A key for which the proofs of large factors were computed was verified;
\* one that is created has those of all players.
VerifiedKey(k) ==
  /\ k # Absent /\ k.info # Absent
  /\ (k.pub = Copied /\ SumsToOld(k.info)) \/ k.pub = SumOf(k.info)

AllProved(k) ==
  \A q \in Players : [life |-> k.info[q], seed |-> k.info] \in factors[q]

CreatedIsVerified ==
  \A p \in Players :
    /\ call[p].op = "factors" => VerifiedKey(key[p])
    /\ \A f \in factors[p] :
         key[p] # Absent /\ f.life = key[p].life => VerifiedKey(key[p])
    /\ call[p].op = "backup" =>
         setup[p] = Absent /\ VerifiedKey(key[p]) /\ AllProved(key[p])
    /\ \A c \in created[p] :
         /\ VerifiedKey(c) /\ AllProved(c)
         /\ [life |-> c.life, seed |-> c.info] \in proofs[p]

SetupInv ==
  /\ SchnorrAnswersOnce /\ StoredIsCurrent /\ SeedOfLife /\ CreatedIsVerified

\* A key is a copied one exactly when the share of its life was received.
SourceOfKey ==
  \A p \in Players :
    /\ key[p] # Absent => (key[p].pub = Copied <=> source[p][key[p].life] # Absent)
    /\ \A c \in created[p] : c.pub = Copied <=> source[p][c.life] # Absent

\* Every setup that was started creates the key.
EverySetupCompletes ==
  \A p \in Players : (key[p] # Absent) ~> (created[p] # {})
=============================================================================

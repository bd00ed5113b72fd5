------------------------------ MODULE EddsaOnline ------------------------------
(***************************************************************************)
(* eddsa_online_signing_service: all players sign the blocks of one        *)
(* transaction id.  A player commits to its R, opens it when it holds the  *)
(* commitments of all, and answers the challenge of the sum of the Rs.     *)
(* Persistency: that of test/cosigner/eddsa_online_test.cpp.               *)
(*                                                                         *)
(* A transaction id can be used again once its signature is out: `life`    *)
(* numbers the uses of the id at a player.  The player draws its secrets   *)
(* once a life, so the life names its R, its commitments (which bind R)    *)
(* and its k.  A sum of Rs is the function from the summed players to the  *)
(* lives of their Rs.  Every handler treats all blocks alike: what happens *)
(* to one is stored for all.                                               *)
(***************************************************************************)
EXTENDS Naturals, FiniteSets

CONSTANTS
  Players,     \* the signers
  Workers,     \* host threads of a player
  Messages,    \* what the id can be asked to sign
  Blocks,      \* blocks of a transaction
  Versions,    \* protocol versions the hosts may agree on
  OwnVersion,  \* MPC_PROTOCOL_VERSION
  MaxStarts,   \* bound: lives of the id at a player
  Serial,      \* the host runs one handler of a player at a time
  Honest,      \* players get what the others returned, or else anything
  Interrupts,  \* the steps before which a handler may stop
  Absent       \* no record in the persistency

Lives == 1..MaxStarts
Sums == UNION {[S -> Lives] : S \in SUBSET Players}
Vectors == [Players -> Lives]

ASSUME ConstantsAssumption ==
  /\ MaxStarts \in Nat /\ Blocks \in Nat \ {0}
  /\ Serial \in BOOLEAN /\ Honest \in BOOLEAN
  /\ Interrupts \subseteq {"update", "store", "reply", "open", "sign", "delete"}

VARIABLES
  starts,       \* per player: lives begun
  data,         \* per player: eddsa_signing_metadata of the id
  commitments,  \* per player: the stored commitments of all players
  timing,       \* per player: the timing map has an entry of the id
  call,         \* per player and worker: the handler it runs and its locals
  revealed,     \* per player: the lives whose R it has returned
  bound,        \* per player: what it stored as commitments in which life
  uses,         \* per player: the answers it returned
  signed        \* per player: the lives it returned a signature of

vars == <<starts, data, commitments, timing, call, revealed, bound, uses, signed>>
history == <<revealed, bound, uses, signed>>

-----------------------------------------------------------------------------
Others(p) == Players \ {p}

\* eddsa_signing_metadata.  s: the sum of Rs in the challenge it answers.
Records == [life : Lives, msg : Messages, R : Sums, s : Sums \cup {Absent},
            version : Versions \cup {OwnVersion}]

\* No record is no record.
ASSUME AbsentAssumption ==
  Absent \notin Records /\ Absent \notin Sums

OwnR(p, n) == [q \in {p} |-> n]

\* The k of block i.  start_signing draws until one drawing has succeeded,
\* and asks that of all blocks together: block 1 draws, the others do not.
K(n, i) == <<n, 1>>

\* s of block i: k + hash(R, key of the block, message of the block) * x.
\* And one that hashes the own R.
ResponseToOwnR(p, d, i) ==
  [life |-> d.life, block |-> i, msg |-> d.msg, R |-> OwnR(p, d.life)]
Response(p, d, i) ==
  [life |-> d.life, block |-> i, msg |-> d.msg, R |-> d.R]

Idle == [op |-> "idle"]
Enter(p, w, c) == call' = [call EXCEPT ![p][w] = c]
Return(p, w) == Enter(p, w, Idle)

MayEnter(p, w) ==
  /\ call[p][w].op = "idle"
  /\ Serial => \A v \in Workers : call[p][v].op = "idle"

-----------------------------------------------------------------------------
Init ==
  /\ starts = [p \in Players |-> 0]
  /\ data = [p \in Players |-> Absent]
  /\ commitments = [p \in Players |-> Absent]
  /\ timing = [p \in Players |-> FALSE]
  /\ call = [p \in Players |-> [w \in Workers |-> Idle]]
  /\ revealed = [p \in Players |-> {}]
  /\ bound = [p \in Players |-> {}]
  /\ uses = [p \in Players |-> {}]
  /\ signed = [p \in Players |-> {}]

\* start_signing stores nothing before store_signing_data, which refuses an
\* id it has a record of.
StartSigning(p, m) ==
  /\ \E w \in Workers : MayEnter(p, w)
  /\ starts[p] < MaxStarts
  /\ data[p] = Absent
  /\ starts' = [starts EXCEPT ![p] = @ + 1]
  /\ data' = [data EXCEPT ![p] =
       [life |-> starts[p] + 1, msg |-> m, R |-> OwnR(p, starts[p] + 1),
        s |-> Absent, version |-> OwnVersion]]
  /\ UNCHANGED <<commitments, timing, call, history>>

-----------------------------------------------------------------------------
(* store_commitments                                                        *)

\* The stored R opens the commitment that came back as the own one.
OwnCommitment(p, v) == data[p].R = OwnR(p, v[p])

\* Loads the record.  The timing map is written before anything is checked.
StoreCommitments(p, w, v, ver) ==
  /\ MayEnter(p, w)
  /\ data[p] # Absent
  /\ Honest => \A q \in Players : v[q] <= starts[q]
  /\ timing' = [timing EXCEPT ![p] = TRUE]
  /\ \/ /\ OwnCommitment(p, v)
        /\ Enter(p, w, [op |-> IF data[p].version = ver THEN "store" ELSE "update",
                        data |-> [data[p] EXCEPT !.version = ver], Rs |-> v])
     \/ ~OwnCommitment(p, v) /\ UNCHANGED call
  /\ UNCHANGED <<starts, data, commitments, history>>

\* update_signing_data throws when there is no record.
UpdateVersion(p, w) ==
  LET c == call[p][w] IN
  /\ c.op = "update"
  /\ \/ /\ data[p] # Absent
        /\ data' = [data EXCEPT ![p] = c.data]
        /\ Enter(p, w, [c EXCEPT !.op = "store"])
     \/ data[p] = Absent /\ Return(p, w) /\ UNCHANGED data
  /\ UNCHANGED <<starts, commitments, timing, history>>

\* store_signing_commitments throws when there are some: nothing is stored
\* or returned.  And one that overwrites them.
AnyCommitments(p) == TRUE
NoCommitments(p) == commitments[p] = Absent

\* The own R is returned once the commitments of all are stored.
StoreSigningCommitments(p, w) ==
  LET c == call[p][w] IN
  /\ c.op = "store"
  /\ \/ /\ NoCommitments(p)
        /\ commitments' = [commitments EXCEPT ![p] = c.Rs]
        /\ bound' = [bound EXCEPT ![p] = @ \cup {[life |-> c.data.life, Rs |-> c.Rs]}]
        /\ \/ revealed' = [revealed EXCEPT ![p] = @ \cup {c.data.life}]
           \/ "reply" \in Interrupts /\ UNCHANGED revealed
     \/ ~NoCommitments(p) /\ UNCHANGED <<commitments, bound, revealed>>
  /\ Return(p, w)
  /\ UNCHANGED <<starts, data, timing, uses, signed>>

-----------------------------------------------------------------------------
(* broadcast_si                                                             *)

BroadcastSi(p, w, v) ==
  /\ MayEnter(p, w)
  /\ data[p] # Absent
  /\ Honest => \A q \in Players : v[q] \in revealed[q]
  /\ Enter(p, w, [op |-> "open", data |-> data[p], Rs |-> v])
  /\ UNCHANGED <<starts, data, commitments, timing, history>>

\* The sum starts with a copy of the first R, whatever was stored before.
\* And one that adds on.
SumOntoR(old, v) == <<old, v>>
SumOfRs(old, v) == v

\* Every R opens the commitment stored for its player; and no check.
OpensAny(p, v) == commitments[p] # Absent
OpensCommitments(p, v) == commitments[p] = v

\* Loads the commitments, a second access of the persistency.
OpenCommitments(p, w) ==
  LET c == call[p][w]
      R == SumOfRs(c.data.R, c.Rs)
  IN
  /\ c.op = "open"
  /\ \/ /\ OpensCommitments(p, c.Rs)
        /\ Enter(p, w, [op |-> "sign", data |-> [c.data EXCEPT !.R = R, !.s = R],
                        Rs |-> c.Rs])
     \/ ~OpensCommitments(p, c.Rs) /\ Return(p, w)
  /\ UNCHANGED <<starts, data, commitments, timing, history>>

\* Stores the sums of Rs and the answers, then returns the answers.
UpdateAnswered(p, w) ==
  LET c == call[p][w] IN
  /\ c.op = "sign"
  /\ \/ /\ data[p] # Absent
        /\ data' = [data EXCEPT ![p] = c.data]
        /\ uses' = [uses EXCEPT ![p] =
             @ \cup {Response(p, c.data, i) : i \in 1..Blocks}]
     \/ data[p] = Absent /\ UNCHANGED <<data, uses>>
  /\ Return(p, w)
  /\ UNCHANGED <<starts, commitments, timing, revealed, bound, signed>>

-----------------------------------------------------------------------------
(* get_eddsa_signature                                                      *)

\* The sum of the s is a signature: every player answered the challenge,
\* with the k of the R it is summed with.
Verifies(p, d) ==
  \A q \in Others(p), i \in 1..Blocks :
    [life |-> d.R[q], block |-> i, msg |-> d.msg, R |-> d.R] \in uses[q]

\* Before broadcast_si the stored s was never written, and the stored R is
\* the own one: whatever it is compared with, no signature verifies.
GetEddsaSignature(p, w) ==
  /\ MayEnter(p, w)
  /\ data[p] # Absent /\ data[p].s # Absent
  /\ Honest => Verifies(p, data[p])
  /\ Enter(p, w, [op |-> "delete", life |-> data[p].life])
  /\ UNCHANGED <<starts, data, commitments, timing, history>>

\* delete_signing_data; and one that forgets the commitments.
DeleteMetadata(p) ==
  /\ data' = [data EXCEPT ![p] = Absent]
  /\ UNCHANGED commitments
Delete(p) ==
  /\ data' = [data EXCEPT ![p] = Absent]
  /\ commitments' = [commitments EXCEPT ![p] = Absent]

DeleteSigningData(p, w) ==
  LET c == call[p][w] IN
  /\ c.op = "delete"
  /\ Delete(p)
  /\ signed' = [signed EXCEPT ![p] = @ \cup {c.life}]
  /\ Enter(p, w, [op |-> "extract"])
  /\ UNCHANGED <<starts, timing, revealed, bound, uses>>

\* TimingMap::extract erases the entry.
Extract(p, w) ==
  /\ call[p][w].op = "extract"
  /\ timing' = [timing EXCEPT ![p] = FALSE]
  /\ Return(p, w)
  /\ UNCHANGED <<starts, data, commitments, history>>

\* An exception out of a handler before one of its persistency calls.
Interrupt(p, w) ==
  /\ call[p][w].op \in Interrupts
  /\ Return(p, w)
  /\ UNCHANGED <<starts, data, commitments, timing, history>>

-----------------------------------------------------------------------------
Continue(p, w) ==
  \/ UpdateVersion(p, w) \/ StoreSigningCommitments(p, w)
  \/ OpenCommitments(p, w) \/ UpdateAnswered(p, w)
  \/ DeleteSigningData(p, w) \/ Extract(p, w)

Call(p, w) ==
  \/ \E v \in Vectors, ver \in Versions : StoreCommitments(p, w, v, ver)
  \/ \E v \in Vectors : BroadcastSi(p, w, v)
  \/ GetEddsaSignature(p, w)

Next ==
  \E p \in Players :
    \/ \E m \in Messages : StartSigning(p, m)
    \/ \E w \in Workers : Call(p, w) \/ Continue(p, w) \/ Interrupt(p, w)

Spec == Init /\ [][Next]_vars

\* A host whose threads go on, and that repeats every call until it succeeds.
Fairness ==
  \A p \in Players :
    /\ \A m \in Messages : WF_vars(StartSigning(p, m))
    /\ \A w \in Workers : WF_vars(Continue(p, w))
    /\ SF_vars(\E w \in Workers, v \in Vectors, ver \in Versions :
                 NoCommitments(p) /\ StoreCommitments(p, w, v, ver))
    /\ SF_vars(\E w \in Workers, v \in Vectors : BroadcastSi(p, w, v))
    /\ SF_vars(\E w \in Workers : GetEddsaSignature(p, w))

FairSpec == Spec /\ Fairness

-----------------------------------------------------------------------------
(* Properties                                                               *)

Calls ==
  {Idle, [op |-> "extract"]}
    \cup [op : {"update", "store", "open", "sign"}, data : Records, Rs : Vectors]
    \cup [op : {"delete"}, life : Lives]

\* The type invariant.
TypeOK ==
  /\ starts \in [Players -> 0..MaxStarts]
  /\ data \in [Players -> Records \cup {Absent}]
  /\ commitments \in [Players -> Vectors \cup {Absent}]
  /\ timing \in [Players -> BOOLEAN]
  /\ call \in [Players -> [Workers -> Calls]]
  /\ revealed \in [Players -> SUBSET Lives]
  /\ bound \in [Players -> SUBSET [life : Lives, Rs : Vectors]]
  /\ uses \in [Players -> SUBSET [life : Lives, block : 1..Blocks,
                                  msg : Messages, R : Sums]]
  /\ signed \in [Players -> SUBSET Lives]

\* The point of the commitments: when a player opens its R of a life, it
\* holds the commitments to the Rs of all others, and it answers no challenge
\* but the one they determine, whatever the others send, however often its
\* handlers are called, wherever they stop and however often the id is used.
OpensAsCommitted ==
  \A p \in Players :
    /\ \A a, b \in bound[p] : a.life = b.life => a = b
    /\ \A u \in uses[p] : [life |-> u.life, Rs |-> u.R] \in bound[p]

\* What keeps it true when a host runs one handler of a player at a time.
\* The handler in progress works on the life the player is in,
OneHandler ==
  \A p \in Players : \A v, w \in Workers :
    (call[p][v].op # "idle" /\ call[p][w].op # "idle") => v = w

LoadedIsCurrent ==
  \A p \in Players, w \in Workers :
    /\ call[p][w].op \in {"update", "store", "open", "sign"} =>
         /\ data[p] # Absent
         /\ call[p][w].data.life = data[p].life
         /\ call[p][w].data.msg = data[p].msg
    /\ call[p][w].op = "sign" =>
         /\ commitments[p] = call[p][w].Rs
         /\ call[p][w].data.R = call[p][w].Rs

\* the stored commitments are those of the life the player is in, its last,
\* and a life without commitments has not been bound,
CommitmentsOfLife ==
  \A p \in Players :
    /\ data[p] # Absent => data[p].life = starts[p]
    /\ commitments[p] # Absent =>
         /\ data[p] # Absent
         /\ [life |-> data[p].life, Rs |-> commitments[p]] \in bound[p]
    /\ (data[p] # Absent /\ commitments[p] = Absent) =>
         \A b \in bound[p] : b.life # data[p].life
    /\ \A b \in bound[p] : b.life <= starts[p]

\* and a life is for one message.
OneMessage ==
  \A p \in Players :
    /\ \A u, v \in uses[p] : u.life = v.life => u.msg = v.msg
    /\ \A u \in uses[p] :
         /\ u.life <= starts[p]
         /\ data[p] # Absent /\ u.life = data[p].life => u.msg = data[p].msg

OpensInv ==
  /\ OpensAsCommitted /\ OneHandler /\ LoadedIsCurrent
  /\ CommitmentsOfLife /\ OneMessage

\* A k answers one challenge.
OneChallenge ==
  \A p \in Players : \A u, v \in uses[p] :
    K(u.life, u.block) = K(v.life, v.block) => u = v

\* A player that is done with the id keeps nothing of it, neither in the
\* persistency nor in the timing map, so that the id can be used again.
NothingLeft ==
  \A p \in Players :
    (data[p] = Absent /\ \A w \in Workers : call[p][w].op = "idle")
      => commitments[p] = Absent /\ ~timing[p]

\* Every transaction that was started is signed at its player.
EveryTransactionIsSigned ==
  \A p \in Players, n \in Lives :
    (data[p] # Absent /\ data[p].life = n) ~> (n \in signed[p])
=============================================================================

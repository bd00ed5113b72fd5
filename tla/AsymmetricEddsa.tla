--------------------------- MODULE AsymmetricEddsa ---------------------------
(***************************************************************************)
(* asymmetric_eddsa_cosigner: a client that is online once, and servers.   *)
(* The client commits in advance to the R of every index of its key.  To   *)
(* sign, the servers exchange Rs (committed first, when there are two or   *)
(* more), the client answers the sum of all Rs with the k of an index, and *)
(* the servers answer it too.  Persistency: that of                        *)
(* test/cosigner/eddsa_offline_test.cpp.                                   *)
(*                                                                         *)
(* As in EddsaOnline a life, one eddsa_sign_offline of a txid at a server, *)
(* names the R and k it draws, and a sum of Rs is the function from the    *)
(* summed servers to their lives.  An index names the R and k the client   *)
(* drew for it.  What is signed is part of the txid.                       *)
(***************************************************************************)
EXTENDS Naturals, FiniteSets

CONSTANTS
  Client,      \* the player that is_client_id holds for
  Servers,     \* the other players of the key
  Txs,         \* transaction ids
  Blocks,      \* blocks of a transaction
  Total,       \* total_count of the key
  Workers,     \* host threads of a player
  MaxStarts,   \* bound: lives of a txid at a server
  Serial,      \* a host runs one handler of a player at a time
  Interrupts,  \* the steps before which a handler may stop
  Absent       \* no record in the persistency

Actors == Servers \cup {Client}
Lives == 1..MaxStarts
Indices == 0..(Total - 1)
Vectors == [Servers -> Lives]

\* A sum of one R or of all, and what a server has that added the others' Rs to
\* a sum of all: no other server has it.
OwnR(s, n) == [q \in {s} |-> n]
Twice(s) == OwnR(s, 0)
Sums ==
  (UNION {[S -> Lives] : S \in SUBSET Servers}) \cup {Twice(s) : s \in Servers}

\* R is a sum of servers' Rs; `client`: the client's R has been added to it.
Records == [life : Lives, index : Indices, R : Sums, client : BOOLEAN]

\* What the constants are; nothing stored is none of what can be.
ConstantsOK ==
  /\ Client \notin Servers /\ IsFiniteSet(Servers) /\ Servers # {}
  /\ MaxStarts \in Nat /\ Total \in Nat /\ Blocks \in Nat \ {0}
  /\ Serial \in BOOLEAN
  /\ Interrupts \subseteq {"prepare", "decommit", "forget", "fix", "consume",
                           "answer", "delete", "cancel", "drop", "reply"}
  /\ Absent \notin Records /\ Absent \notin Vectors
  /\ \A I \in SUBSET Indices : I # Absent

VARIABLES
  pool,         \* per player: the indices with a k (client) or a commitment
  starts,       \* per server and txid: lives begun
  data,         \* per server and txid: asymmetric_eddsa_signing_metadata
  commitments,  \* per server and txid: the stored commitments of the servers
  timing,       \* per server and txid: the timing map has an entry
  call,         \* per player and worker: the handler it runs and its locals
  bound,        \* per server: the commitments it held when it opened its R
  sent,         \* per server: the sums it returned to the client
  answered,     \* the answers the client returned
  uses,         \* per server: the answers it returned
  signed        \* per server: the lives whose signature it returned

vars == <<pool, starts, data, commitments, timing, call, bound, sent, answered,
          uses, signed>>
history == <<bound, sent, answered, uses, signed>>

-----------------------------------------------------------------------------
Pair == Cardinality(Servers) = 1    \* metadata.n == 2

\* The k of a block: one drawing is asked of all blocks together.
K(n, i) == <<n, 1>>

Idle == [op |-> "idle"]
Enter(a, w, c) == call' = [call EXCEPT ![a][w] = c]
Return(a, w) == Enter(a, w, Idle)

MayEnter(a, w) ==
  /\ call[a][w].op = "idle"
  /\ Serial => \A v \in Workers : call[a][v].op = "idle"

Init ==
  /\ pool = [a \in Actors |-> Absent]
  /\ starts = [s \in Servers |-> [t \in Txs |-> 0]]
  /\ data = [s \in Servers |-> [t \in Txs |-> Absent]]
  /\ commitments = [s \in Servers |-> [t \in Txs |-> Absent]]
  /\ timing = [s \in Servers |-> [t \in Txs |-> FALSE]]
  /\ call = [a \in Actors |-> [w \in Workers |-> Idle]]
  /\ bound = [s \in Servers |-> {}]
  /\ sent = [s \in Servers |-> {}]
  /\ answered = {}
  /\ uses = [s \in Servers |-> {}]
  /\ signed = [s \in Servers |-> {}]

-----------------------------------------------------------------------------
(* Preprocessing.                                                           *)

\* create_preprocessed_data refuses a key that has an array; each index is
\* stored once, so that a call that stops has stored the first of them.
Prepare(a) ==
  /\ \E w \in Workers : MayEnter(a, w)
  /\ pool[a] = Absent
  /\ \E n \in 0..Total :
       /\ n < Total => "prepare" \in Interrupts
       /\ pool' = [pool EXCEPT ![a] = 0..(n - 1)]
  /\ UNCHANGED <<starts, data, commitments, timing, call, history>>

StartSignaturePreprocessing == Prepare(Client)

\* The server gets the commitments the client returned.
StorePresigningData(s) == pool[Client] # Absent /\ Prepare(s)

Held(a, j) == pool[a] # Absent /\ j \in pool[a]

\* load_preprocessed_data of an index.  And one that leaves it in the array.
Peek(a, j) == Held(a, j) /\ UNCHANGED pool
Load(a, j) ==
  /\ Held(a, j)
  /\ pool' = [pool EXCEPT ![a] = @ \ {j}]

-----------------------------------------------------------------------------
(* The servers' Rs.                                                         *)

\* The timing map is written first, the record last; store_signing_data
\* refuses an id it has a record of.  A pair needs no commitments.
EddsaSignOffline(s, t, i) ==
  /\ \E w \in Workers : MayEnter(s, w)
  /\ starts[s][t] < MaxStarts
  /\ timing' = [timing EXCEPT ![s][t] = TRUE]
  /\ data[s][t] = Absent
  /\ LET n == starts[s][t] + 1 IN
     /\ starts' = [starts EXCEPT ![s][t] = n]
     /\ data' = [data EXCEPT ![s][t] =
          [life |-> n, index |-> i, R |-> OwnR(s, n), client |-> FALSE]]
     /\ sent' = [sent EXCEPT ![s] =
          IF Pair THEN @ \cup {[tx |-> t, R |-> OwnR(s, n)]} ELSE @]
  /\ UNCHANGED <<pool, commitments, call, bound, answered, uses, signed>>

\* The own commitment opens to the R that is stored.
OwnCommitment(s, d, v) == d.R = OwnR(s, v[s]) /\ ~d.client

\* v: the life whose commitment came back from each server.
DecommitR(s, w, t, v) ==
  /\ MayEnter(s, w)
  /\ ~Pair /\ data[s][t] # Absent
  /\ \A q \in Servers : v[q] <= starts[q][t]
  /\ OwnCommitment(s, data[s][t], v)
  /\ Enter(s, w, [op |-> "decommit", tx |-> t, data |-> data[s][t], Rs |-> v])
  /\ UNCHANGED <<pool, starts, data, commitments, timing, history>>

\* store_commitments refuses a txid that has some.  And one that overwrites.
Overwritable(s, t) == TRUE
NoCommitments(s, t) == commitments[s][t] = Absent

StoreCommitments(s, w) ==
  LET c == call[s][w] IN
  /\ c.op = "decommit"
  /\ \/ /\ NoCommitments(s, c.tx)
        /\ commitments' = [commitments EXCEPT ![s][c.tx] = c.Rs]
        /\ bound' = [bound EXCEPT ![s] =
             @ \cup {[tx |-> c.tx, life |-> c.data.life, index |-> c.data.index,
                     Rs |-> c.Rs]}]
     \/ ~NoCommitments(s, c.tx) /\ UNCHANGED <<commitments, bound>>
  /\ Return(s, w)
  /\ UNCHANGED <<pool, starts, data, timing, sent, answered, uses, signed>>

\* decommit_r of q returned its R, which opens the commitment q made to it with
\* the index q was given.  And one that is asked for no index.
OpenedAtAny(q, t, n, i) == \E b \in bound[q] : b.tx = t /\ b.life = n
Opened(q, t, n, i) == \E b \in bound[q] : b.tx = t /\ b.life = n /\ b.index = i

\* The others' Rs are added to what is stored.
Sum(s, d, v) == IF d.R = OwnR(s, d.life) THEN [v EXCEPT ![s] = d.life] ELSE Twice(s)

\* v: the life whose R came back from each server.  The record is loaded here
\* and the commitments later, when another thread may have ended that life.
BroadcastR(s, w, t, v) ==
  /\ MayEnter(s, w)
  /\ data[s][t] # Absent
  /\ \A q \in Servers : Opened(q, t, v[q], data[s][t].index)
  /\ Enter(s, w, [op |-> "sum", tx |-> t, data |-> data[s][t], Rs |-> v])
  /\ UNCHANGED <<pool, starts, data, commitments, timing, history>>

\* The Rs open the stored commitments, with the index of the record.
LoadCommitments(s, w) ==
  LET c == call[s][w] IN
  /\ c.op = "sum"
  /\ \/ /\ commitments[s][c.tx] = c.Rs
        /\ Enter(s, w, [op |-> "forget", tx |-> c.tx,
                        data |-> [c.data EXCEPT !.R = Sum(s, c.data, c.Rs)]])
     \/ commitments[s][c.tx] # c.Rs /\ Return(s, w)
  /\ UNCHANGED <<pool, starts, data, commitments, timing, history>>

DeleteCommitments(s, w) ==
  LET c == call[s][w] IN
  /\ c.op = "forget"
  /\ commitments' = [commitments EXCEPT ![s][c.tx] = Absent]
  /\ Enter(s, w, [c EXCEPT !.op = "fix"])
  /\ UNCHANGED <<pool, starts, data, timing, history>>

\* store_signing_data with update writes whether or not there is a record.
StoreSum(s, w) ==
  LET c == call[s][w] IN
  /\ c.op = "fix"
  /\ data' = [data EXCEPT ![s][c.tx] = c.data]
  /\ sent' = [sent EXCEPT ![s] = @ \cup {[tx |-> c.tx, R |-> c.data.R]}]
  /\ Return(s, w)
  /\ UNCHANGED <<pool, starts, commitments, timing, bound, answered, uses, signed>>

-----------------------------------------------------------------------------
(* The answers.                                                             *)

\* The client got the same Rs from every server.
FromAll(t, R) == \A s \in Servers : [tx |-> t, R |-> R] \in sent[s]

ClientSignOffline(w, t, i, R) ==
  /\ MayEnter(Client, w)
  /\ FromAll(t, R)
  /\ Enter(Client, w, [op |-> "consume", tx |-> t, index |-> i, R |-> R, block |-> 1])
  /\ UNCHANGED <<pool, starts, data, commitments, timing, history>>

\* One block: its k is loaded, and gone.  The answers are returned together.
ConsumeK(w) ==
  LET c == call[Client][w]
      j == c.index + c.block - 1
  IN
  /\ c.op = "consume"
  /\ \/ /\ Load(Client, j)
        /\ \/ /\ c.block < Blocks
              /\ Enter(Client, w, [c EXCEPT !.block = @ + 1])
              /\ UNCHANGED answered
           \/ /\ c.block = Blocks
              /\ Return(Client, w)
              /\ \/ answered' = answered \cup
                      {[tx |-> c.tx, index |-> c.index + i - 1, block |-> i, R |-> c.R]
                         : i \in 1..Blocks}
                 \/ "reply" \in Interrupts /\ UNCHANGED answered
     \/ ~Held(Client, j) /\ Return(Client, w) /\ UNCHANGED <<pool, answered>>
  /\ UNCHANGED <<starts, data, commitments, timing, bound, sent, uses, signed>>

\* `from` is where the client's answer that arrives begins, `R` what it is for.
BroadcastSi(s, w, t, from, R) ==
  /\ MayEnter(s, w)
  /\ data[s][t] # Absent
  /\ \A i \in 1..Blocks :
       [tx |-> t, index |-> from + i - 1, block |-> i, R |-> R] \in answered
  /\ Enter(s, w, [op |-> "consume", tx |-> t, data |-> data[s][t], from |-> from,
                  R |-> R, block |-> 1])
  /\ UNCHANGED <<pool, starts, data, commitments, timing, history>>

\* The client's R opens the commitment of the index; its s answers the sum
\* of the stored R and its R.
ClientAnswerVerifies(c) == c.from = c.data.index /\ c.R = c.data.R /\ ~c.data.client

\* One block: the commitment is loaded, and gone, before anything is verified.
ConsumeCommitment(s, w) ==
  LET c == call[s][w]
      j == c.data.index + c.block - 1
  IN
  /\ c.op = "consume"
  /\ \/ /\ Load(s, j) /\ ClientAnswerVerifies(c)
        /\ Enter(s, w, IF c.block < Blocks THEN [c EXCEPT !.block = @ + 1]
                       ELSE [op |-> "answer", tx |-> c.tx,
                             data |-> [c.data EXCEPT !.client = TRUE]])
     \/ /\ Load(s, j) /\ ~ClientAnswerVerifies(c)
        /\ Return(s, w)
     \/ ~Held(s, j) /\ Return(s, w) /\ UNCHANGED pool
  /\ UNCHANGED <<starts, data, commitments, timing, history>>

\* What answers a block, and one that takes the presignature of the next.
AnswerFromNext(d, t, i) ==
  [tx |-> t, life |-> d.life, block |-> i, R |-> d.R, index |-> d.index + i]
Answer(d, t, i) ==
  [tx |-> t, life |-> d.life, block |-> i, R |-> d.R, index |-> d.index + i - 1]

\* A server of a pair has the signature and deletes the record; the others
\* store the sum that includes the client's R.
StoreAnswered(s, w) ==
  LET c == call[s][w] IN
  /\ c.op = "answer"
  /\ uses' = [uses EXCEPT ![s] = @ \cup {Answer(c.data, c.tx, i) : i \in 1..Blocks}]
  /\ \/ /\ Pair
        /\ data' = [data EXCEPT ![s][c.tx] = Absent]
        /\ signed' = [signed EXCEPT ![s] = @ \cup {[tx |-> c.tx, life |-> c.data.life]}]
        /\ Enter(s, w, [op |-> "extract", tx |-> c.tx])
     \/ /\ ~Pair
        /\ data' = [data EXCEPT ![s][c.tx] = c.data]
        /\ Return(s, w) /\ UNCHANGED signed
  /\ UNCHANGED <<pool, starts, commitments, timing, bound, sent, answered>>

\* Every partial signature carries the stored R, and their sum verifies: all
\* servers answered the challenge of the stored R, in the life it sums.  The
\* least of them added the client's s.
Verifies(d, t) ==
  /\ d.client
  /\ DOMAIN d.R = Servers
  /\ \A q \in Servers, i \in 1..Blocks :
       Answer([d EXCEPT !.life = d.R[q]], t, i) \in uses[q]

GetEddsaSignature(s, w, t) ==
  /\ MayEnter(s, w)
  /\ ~Pair /\ data[s][t] # Absent
  /\ Verifies(data[s][t], t)
  /\ Enter(s, w, [op |-> "delete", tx |-> t, life |-> data[s][t].life])
  /\ UNCHANGED <<pool, starts, data, commitments, timing, history>>

DeleteSigningData(s, w) ==
  LET c == call[s][w] IN
  /\ c.op = "delete"
  /\ data' = [data EXCEPT ![s][c.tx] = Absent]
  /\ signed' = [signed EXCEPT ![s] = @ \cup {[tx |-> c.tx, life |-> c.life]}]
  /\ Enter(s, w, [op |-> "extract", tx |-> c.tx])
  /\ UNCHANGED <<pool, starts, commitments, timing, bound, sent, answered, uses>>

Extract(s, w) ==
  /\ call[s][w].op = "extract"
  /\ timing' = [timing EXCEPT ![s][call[s][w].tx] = FALSE]
  /\ Return(s, w)
  /\ UNCHANGED <<pool, starts, data, commitments, history>>

\* Deletes the commitments, then the record.  The timing map keeps its entry.
KeepCommitments(s, t) == UNCHANGED commitments
CancelCommitments(s, t) == commitments' = [commitments EXCEPT ![s][t] = Absent]

CancelSigning(s, w, t) ==
  /\ MayEnter(s, w)
  /\ "cancel" \in Interrupts
  /\ data[s][t] # Absent
  /\ CancelCommitments(s, t)
  /\ Enter(s, w, [op |-> "drop", tx |-> t])
  /\ UNCHANGED <<pool, starts, data, timing, history>>

CancelData(s, w) ==
  LET c == call[s][w] IN
  /\ c.op = "drop"
  /\ data' = [data EXCEPT ![s][c.tx] = Absent]
  /\ Return(s, w)
  /\ UNCHANGED <<pool, starts, commitments, timing, history>>

\* An exception out of a handler before one of its persistency calls.
Interrupt(a, w) ==
  /\ call[a][w].op \in Interrupts
  /\ Return(a, w)
  /\ UNCHANGED <<pool, starts, data, commitments, timing, history>>

-----------------------------------------------------------------------------
Continue(s, w) ==
  \/ StoreCommitments(s, w) \/ LoadCommitments(s, w)
  \/ DeleteCommitments(s, w) \/ StoreSum(s, w)
  \/ ConsumeCommitment(s, w) \/ StoreAnswered(s, w)
  \/ DeleteSigningData(s, w) \/ Extract(s, w) \/ CancelData(s, w)

Next ==
  \/ StartSignaturePreprocessing
  \/ \E w \in Workers :
       \/ \E t \in Txs, i \in Indices, R \in Sums : ClientSignOffline(w, t, i, R)
       \/ ConsumeK(w)
  \/ \E s \in Servers :
       \/ StorePresigningData(s)
       \/ \E t \in Txs, i \in Indices : EddsaSignOffline(s, t, i)
       \/ \E w \in Workers :
            \/ \E t \in Txs, v \in Vectors : DecommitR(s, w, t, v)
            \/ \E t \in Txs, v \in Vectors : BroadcastR(s, w, t, v)
            \/ \E t \in Txs, i \in Indices, R \in Sums : BroadcastSi(s, w, t, i, R)
            \/ \E t \in Txs : GetEddsaSignature(s, w, t) \/ CancelSigning(s, w, t)
            \/ Continue(s, w)
  \/ \E a \in Actors, w \in Workers : Interrupt(a, w)

Spec == Init /\ [][Next]_vars

\* Hosts whose threads go on and that repeat a call that can still succeed.
\* The host passes the index the servers were given.
Fairness ==
  /\ SF_vars(StartSignaturePreprocessing)
  /\ \A w \in Workers : WF_vars(ConsumeK(w))
  /\ \A t \in Txs, i \in Indices :
       SF_vars(\E w \in Workers, R \in Sums :
         /\ \A s \in Servers : data[s][t] # Absent /\ data[s][t].index = i
         /\ ClientSignOffline(w, t, i, R))
  /\ \A s \in Servers :
       /\ SF_vars(StorePresigningData(s))
       /\ \A w \in Workers : WF_vars(Continue(s, w))
       /\ \A t \in Txs :
            /\ WF_vars(\E i \in Indices : EddsaSignOffline(s, t, i))
            /\ SF_vars(\E w \in Workers, v \in Vectors :
                         NoCommitments(s, t) /\ DecommitR(s, w, t, v))
            /\ SF_vars(\E w \in Workers, v \in Vectors :
                         commitments[s][t] = v /\ BroadcastR(s, w, t, v))
            /\ SF_vars(\E w \in Workers, i \in Indices, R \in Sums :
                         /\ data[s][t] # Absent /\ ~data[s][t].client
                         /\ BroadcastSi(s, w, t, i, R))
            /\ SF_vars(\E w \in Workers : GetEddsaSignature(s, w, t))

FairSpec == Spec /\ Fairness

-----------------------------------------------------------------------------
(* Properties                                                               *)

ServerCalls ==
  {Idle}
    \cup [op : {"decommit", "sum"}, tx : Txs, data : Records, Rs : Vectors]
    \cup [op : {"forget", "fix", "answer"}, tx : Txs, data : Records]
    \cup [op : {"consume"}, tx : Txs, data : Records, from : Indices, R : Sums,
          block : 1..Blocks]
    \cup [op : {"delete"}, tx : Txs, life : Lives]
    \cup [op : {"extract", "drop"}, tx : Txs]
ClientCalls ==
  {Idle}
    \cup [op : {"consume"}, tx : Txs, index : Indices, R : Sums, block : 1..Blocks]

\* The type invariant.
TypeOK ==
  /\ ConstantsOK
  /\ pool \in [Actors -> (SUBSET Indices) \cup {Absent}]
  /\ starts \in [Servers -> [Txs -> 0..MaxStarts]]
  /\ data \in [Servers -> [Txs -> Records \cup {Absent}]]
  /\ commitments \in [Servers -> [Txs -> Vectors \cup {Absent}]]
  /\ timing \in [Servers -> [Txs -> BOOLEAN]]
  /\ call \in [Actors -> [Workers -> ServerCalls \cup ClientCalls]]
  /\ call[Client] \in [Workers -> ClientCalls]
  /\ \A s \in Servers : call[s] \in [Workers -> ServerCalls]
  /\ bound \in [Servers -> SUBSET [tx : Txs, life : Lives, index : Indices,
                                   Rs : Vectors]]
  /\ sent \in [Servers -> SUBSET [tx : Txs, R : Sums]]
  /\ answered \subseteq [tx : Txs, index : Indices, block : 1..Blocks, R : Sums]
  /\ uses \in [Servers -> SUBSET [tx : Txs, life : Lives, block : 1..Blocks,
                                  R : Sums, index : Indices]]
  /\ signed \in [Servers -> SUBSET [tx : Txs, life : Lives]]

\* The k the client drew for an index answers one challenge, whichever
\* transactions are given the index, and however many threads call.
ClientKAnswersOnce ==
  \A a, b \in answered : a.index = b.index => a = b

\* A k of a server answers one challenge, and a client's R is used in one
\* transaction: the commitment of the index is gone after the first answer.
ServerKAnswersOnce ==
  \A s \in Servers : \A u, v \in uses[s] :
    (\/ u.tx = v.tx /\ K(u.life, u.block) = K(v.life, v.block)
     \/ u.index = v.index)
      => u = v

\* Every k answers one challenge; those of the servers in transactions of one
\* block, since the blocks of a transaction share a k.
NoncesAnswerOnce == ClientKAnswersOnce /\ (Blocks = 1 => ServerKAnswersOnce)

\* The servers never answer different challenges in the lives one sum names,
\* although each is told the index by its host: a commitment to an R is one to
\* the index as well, and the client answers one sum with an index.
AnswersAgree ==
  \A s, q \in Servers : \A u \in uses[s], v \in uses[q] :
    (/\ u.tx = v.tx /\ u.block = v.block
     /\ q \in DOMAIN u.R /\ u.R[q] = v.life)
      => u.R = v.R /\ u.index = v.index

\* A server of two or more opens its R of a life when it holds the others'
\* commitments, once, and answers no sum but the one they determine.
OpensAsCommitted ==
  Pair \/ \A s \in Servers :
    /\ \A a, b \in bound[s] : a.tx = b.tx /\ a.life = b.life => a = b
    /\ \A u \in uses[s] : \E b \in bound[s] :
         b.tx = u.tx /\ b.life = u.life /\ b.Rs = u.R

\* A server without a record of a txid holds no commitments of it, which
\* would make decommit_r refuse when the txid is used again.
NothingLeft ==
  \A s \in Servers, t \in Txs :
    (data[s][t] = Absent /\ \A w \in Workers : call[s][w].op = "idle")
      => commitments[s][t] = Absent

\* What keeps them true.  The indices a worker has taken out of the pool, and
\* those an actor has used, are gone; no two workers have one, none comes back.
Taken(a, c) ==
  LET first == IF a = Client THEN c.index ELSE c.data.index
      count == IF c.op = "consume" THEN c.block - 1
               ELSE IF c.op = "answer" THEN Blocks ELSE 0
  IN {j \in Indices : count # 0 /\ first <= j /\ j < first + count}

Used(a) ==
  IF a = Client THEN {b.index : b \in answered} ELSE {u.index : u \in uses[a]}

IndicesTaken ==
  \A a \in Actors :
    /\ \A w \in Workers : \A j \in Taken(a, call[a][w]) :
         pool[a] # Absent /\ j \notin pool[a] /\ j \notin Used(a)
    /\ \A j \in Used(a) : pool[a] # Absent /\ j \notin pool[a]
    /\ \A v, w \in Workers :
         v # w => Taken(a, call[a][v]) \cap Taken(a, call[a][w]) = {}

ServerIndexOnce ==
  \A s \in Servers : \A u, v \in uses[s] : u.index = v.index => u = v

\* A server answers what the client answered, with the same index and sum.
ReturnedAnswers(t, from, R) ==
  \A i \in 1..Blocks :
    [tx |-> t, index |-> from + i - 1, block |-> i, R |-> R] \in answered

UsesAnswered ==
  \A s \in Servers :
    /\ \A u \in uses[s] :
         [tx |-> u.tx, index |-> u.index, block |-> u.block, R |-> u.R] \in answered
    /\ \A w \in Workers :
         LET c == call[s][w] IN
         /\ c.op = "consume" => ReturnedAnswers(c.tx, c.from, c.R)
         /\ c.op = "answer" => ReturnedAnswers(c.tx, c.data.index, c.data.R)

\* A life has one index, and the lives a sum names have the index of the life
\* that holds it.
OnRecord == {"decommit", "sum", "forget", "fix", "consume", "answer"}

Began(f, s, t, n, i) == n <= starts[s][t] /\ f[s][t][n] = i
Names(f, t, R, i) == \A q \in DOMAIN R : R[q] \in Lives => Began(f, q, t, R[q], i)
Holds(f, s, t, d) == Began(f, s, t, d.life, d.index) /\ Names(f, t, d.R, d.index)
CallHolds(f, s, c) ==
  Holds(f, s, c.tx, c.data) /\ (c.op = "sum" => Names(f, c.tx, c.Rs, c.data.index))

IndicesBy(f) ==
  \A s \in Servers :
    /\ \A t \in Txs : data[s][t] # Absent => Holds(f, s, t, data[s][t])
    /\ \A w \in Workers : call[s][w].op \in OnRecord => CallHolds(f, s, call[s][w])
    /\ \A b \in bound[s] : Began(f, s, b.tx, b.life, b.index)
    /\ \A u \in uses[s] :
         /\ Began(f, s, u.tx, u.life, u.index - u.block + 1)
         /\ Names(f, u.tx, u.R, u.index - u.block + 1)

IndexOfLife ==
  \E f \in [Servers -> [Txs -> [Lives -> Indices \cup {Absent}]]] : IndicesBy(f)

\* When handlers do not interleave: what a handler loaded is what is stored.
OneHandler ==
  \A a \in Actors : \A v, w \in Workers :
    v = w \/ call[a][v].op = "idle" \/ call[a][w].op = "idle"

LoadedIsCurrent ==
  \A s \in Servers, w \in Workers :
    LET c == call[s][w] IN
    c.op \in OnRecord =>
      /\ data[s][c.tx] # Absent /\ c.data.life = data[s][c.tx].life
      /\ c.op \in {"decommit", "sum", "consume", "answer"} =>
           c.data.R = data[s][c.tx].R

\* The own R is stored until the commitments are deleted, then the sum of the
\* Rs that open them.
Binds(s, t, n, v) == \E b \in bound[s] : b.tx = t /\ b.life = n /\ b.Rs = v

HeldSum(s, t, d) ==
  \/ d.R = OwnR(s, d.life)
  \/ d.R \in Vectors /\ (Pair \/ Binds(s, t, d.life, d.R))

RecordOfLife ==
  \A s \in Servers, t \in Txs :
    /\ data[s][t] # Absent => HeldSum(s, t, data[s][t])
    /\ commitments[s][t] # Absent =>
         /\ ~Pair /\ data[s][t] # Absent
         /\ data[s][t].R = OwnR(s, data[s][t].life)
         /\ commitments[s][t][s] = data[s][t].life
         /\ Binds(s, t, data[s][t].life, commitments[s][t])

CommitmentsOfLife ==
  \A s \in Servers, w \in Workers :
    LET c == call[s][w] IN
    /\ c.op = "decommit" =>
         ~Pair /\ c.data.R = OwnR(s, c.data.life) /\ c.Rs[s] = c.data.life
    /\ c.op \in {"forget", "fix"} =>
         ~Pair /\ c.data.R \in Vectors /\ Binds(s, c.tx, c.data.life, c.data.R)
    /\ c.op = "consume" => c.R \in Vectors
    /\ c.op = "answer" => c.data.R \in Vectors
    /\ c.op \in {"fix", "delete", "drop"} => commitments[s][c.tx] = Absent

\* All that is returned to the client and by it is a sum of all servers' Rs.
SumsOfAll ==
  /\ \A s \in Servers : \A a \in sent[s] : a.R \in Vectors
  /\ \A a \in answered : a.R \in Vectors
  /\ \A w \in Workers : call[Client][w].op = "consume" => call[Client][w].R \in Vectors

\* When moreover no handler stops between the two accesses that end the
\* commitments of a life, a life is bound once, and what a server of two or more
\* answers is what it bound.
BoundOnce ==
  \A s \in Servers : \A a, b \in bound[s] : a.tx = b.tx /\ a.life = b.life => a = b

UsesBound ==
  Pair \/ \A s \in Servers : \A u \in uses[s] : Binds(s, u.tx, u.life, u.R)

\* Every transaction that was started is signed at its server.
EveryTransactionIsSigned ==
  \A s \in Servers, t \in Txs, n \in Lives :
    (data[s][t] # Absent /\ data[s][t].life = n)
      ~> [tx |-> t, life |-> n] \in signed[s]
=============================================================================

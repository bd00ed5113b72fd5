---------------------------- MODULE OnlineSigning ----------------------------
(***************************************************************************)
(* cmp_ecdsa_online_signing_service: all players sign a transaction id,    *)
(* without preprocessing.  A player sends a request (the encrypted k),     *)
(* answers the requests of all, verifies the answers to its own, and       *)
(* answers the message with its k.  One record of the persistency holds    *)
(* all of it and every handler rewrites it; persistency: that of           *)
(* test/cosigner/ecdsa_online_test.cpp.                                    *)
(*                                                                         *)
(* A life, one start_signing of the id at a player, names the request, the *)
(* k and the gamma it draws.  R is gamma_1 + ... + gamma_n over the sum of *)
(* the k * gamma products: the lives of all players name it.  A response   *)
(* is named by what it answers and a number, for the betas are drawn anew. *)
(***************************************************************************)
EXTENDS Naturals, FiniteSets

CONSTANTS
  Players,       \* the signers
  Workers,       \* host threads of a player
  MaxStarts,     \* bound: lives of the id at a player
  MaxResponses,  \* bound: responses of a life
  Serial,        \* the host runs one handler of a player at a time
  Interrupts,    \* the steps before which a handler may stop
  Absent         \* no record, no ack, no response

Lives == 1..MaxStarts
Vectors == [Players -> Lives]

VARIABLES
  starts,     \* per player: lives begun
  data,       \* per player: cmp_signing_metadata of the id
  timing,     \* per player: the timing map has an entry of the id
  call,       \* per player and worker: the handler it runs and its locals
  acked,      \* per player: the requests it acknowledged, in which life
  responses,  \* per player: the responses it returned
  deltas,     \* per player: the deltas it returned
  uses,       \* per player: the s it returned
  signed      \* per player: the lives whose signature it returned

vars == <<starts, data, timing, call, acked, responses, deltas, uses, signed>>
history == <<acked, responses, deltas, uses, signed>>

-----------------------------------------------------------------------------
\* cmp_mta_responses: to the requests of the lives `ack`, from life `life`.
Responses == [life : Lives, ack : Vectors, n : 1..MaxResponses]
\* Which response of each player a player took its alphas from.
Taken == [Players -> Responses]

\* cmp_signing_metadata.  beta: the response that subtracted from delta and
\* chi; alpha: the responses that added to them; done: get_si replaced delta
\* by its inverse and cleared the public data.
Records == [life : Lives, ack : Vectors \cup {Absent},
            beta : Responses \cup {Absent}, alpha : Taken \cup {Absent},
            done : BOOLEAN]

\* What the constants are; no record, ack or response is none of them.
ConstantsOK ==
  /\ MaxStarts \in Nat /\ MaxResponses \in Nat
  /\ Serial \in BOOLEAN
  /\ Interrupts \subseteq {"ack", "respond", "verify", "publish", "delete",
                           "cancel", "reply"}
  /\ Absent \notin Records /\ Absent \notin Vectors
  /\ Absent \notin Responses /\ Absent \notin Taken

Idle == [op |-> "idle"]
Enter(p, w, c) == call' = [call EXCEPT ![p][w] = c]
Return(p, w) == Enter(p, w, Idle)

MayEnter(p, w) ==
  /\ call[p][w].op = "idle"
  /\ Serial => \A v \in Workers : call[p][v].op = "idle"

\* A handler that stored everything may still fail to deliver its result.
Delivered == TRUE
Lost == "reply" \in Interrupts

Init ==
  /\ starts = [p \in Players |-> 0]
  /\ data = [p \in Players |-> Absent]
  /\ timing = [p \in Players |-> FALSE]
  /\ call = [p \in Players |-> [w \in Workers |-> Idle]]
  /\ acked = [p \in Players |-> {}]
  /\ responses = [p \in Players |-> {}]
  /\ deltas = [p \in Players |-> {}]
  /\ uses = [p \in Players |-> {}]
  /\ signed = [p \in Players |-> {}]

\* start_signing stores nothing before store_cmp_signing_data, which refuses
\* an id it has a record of.
StartSigning(p) ==
  /\ \E w \in Workers : MayEnter(p, w)
  /\ starts[p] < MaxStarts
  /\ data[p] = Absent
  /\ starts' = [starts EXCEPT ![p] = @ + 1]
  /\ data' = [data EXCEPT ![p] =
       [life |-> starts[p] + 1, ack |-> Absent, beta |-> Absent,
        alpha |-> Absent, done |-> FALSE]]
  /\ UNCHANGED <<timing, call, history>>

-----------------------------------------------------------------------------
(* mta_response                                                             *)

\* "Can't change mta message ack".  And one that can.
AnyAck(d) == TRUE
NoAck(d) == d.ack = Absent

MtaResponse(p, w, v) ==
  /\ MayEnter(p, w)
  /\ data[p] # Absent
  /\ NoAck(data[p])
  /\ \A q \in Players : v[q] <= starts[q]
  /\ timing' = [timing EXCEPT ![p] = TRUE]
  /\ Enter(p, w, [op |-> "ack", data |-> [data[p] EXCEPT !.ack = v]])
  /\ UNCHANGED <<starts, data, history>>

\* update_cmp_signing_data throws when there is no record.
Update(p, d) == data[p] # Absent /\ data' = [data EXCEPT ![p] = d]

\* The ack is stored before the proofs of the requests are verified: when one
\* fails the handler stops here, and the ack stays.
StoreAck(p, w) ==
  LET c == call[p][w] IN
  /\ c.op = "ack"
  /\ \/ /\ Update(p, c.data)
        /\ acked' = [acked EXCEPT ![p] = @ \cup {[life |-> c.data.life, ack |-> c.data.ack]}]
        /\ Enter(p, w, [c EXCEPT !.op = "respond"])
     \/ data[p] = Absent /\ Return(p, w) /\ UNCHANGED <<data, acked>>
  /\ UNCHANGED <<starts, timing, responses, deltas, uses, signed>>

\* Every response has betas of its own.
Respond(p, w) ==
  LET c == call[p][w]
      n == Cardinality({r \in responses[p] : r.life = c.data.life}) + 1
      r == [life |-> c.data.life, ack |-> c.data.ack, n |-> n]
  IN
  /\ c.op = "respond"
  /\ n <= MaxResponses
  /\ \/ /\ Update(p, [c.data EXCEPT !.beta = r])
        /\ responses' = [responses EXCEPT ![p] = @ \cup {r}]
     \/ data[p] = Absent /\ UNCHANGED <<data, responses>>
  /\ Return(p, w)
  /\ UNCHANGED <<starts, timing, acked, deltas, uses, signed>>

-----------------------------------------------------------------------------
(* mta_verify                                                               *)

\* All acks are the own one, and the others answered the own request, which
\* mta_verify clears: it is verified once.  Of the own response only the ack
\* is looked at.
ResponsesVerify(p, d, rs) ==
  /\ d.ack # Absent /\ d.alpha = Absent
  /\ \A q \in Players : rs[q].ack = d.ack
  /\ d.ack[p] = d.life
  /\ \A q \in Players \ {p} : rs[q].life = d.ack[q]

MtaVerify(p, w, rs) ==
  /\ MayEnter(p, w)
  /\ data[p] # Absent
  /\ \A q \in Players : rs[q] \in responses[q]
  /\ ResponsesVerify(p, data[p], rs)
  /\ Enter(p, w, [op |-> "verify", data |-> [data[p] EXCEPT !.alpha = rs]])
  /\ UNCHANGED <<starts, data, timing, history>>

\* cmp_mta_deltas: the own delta, with the proof of DELTA.
Delta(d) == [life |-> d.life, ack |-> d.ack, beta |-> d.beta, alpha |-> d.alpha]

StoreVerified(p, w) ==
  LET c == call[p][w] IN
  /\ c.op = "verify"
  /\ \/ /\ Update(p, c.data)
        /\ \/ Delivered /\ deltas' = [deltas EXCEPT ![p] = @ \cup {Delta(c.data)}]
           \/ Lost /\ UNCHANGED deltas
     \/ data[p] = Absent /\ UNCHANGED <<data, deltas>>
  /\ Return(p, w)
  /\ UNCHANGED <<starts, timing, acked, responses, uses, signed>>

-----------------------------------------------------------------------------
(* get_si                                                                   *)

\* The DELTAs are proved for the As, Bs and Zs of the acknowledged requests
\* and for the sum of the gammas of the own ones.
DeltasProved(p, d, ds) ==
  \A q \in Players \ {p} : ds[q].life = d.ack[q] /\ ds[q].ack = d.ack

\* g^delta = DELTA: every alpha that was added has its beta subtracted.
DeltaVerifies(p, d, ds) ==
  LET D(q) == IF q = p THEN Delta(d) ELSE ds[q] IN
  \A q, o \in Players : q # o => D(q).alpha[o] = D(o).beta

\* Without alphas there is a delta of its own products only, and with the
\* inverse in its place nothing verifies.
GetSi(p, w, ds) ==
  /\ MayEnter(p, w)
  /\ data[p] # Absent
  /\ data[p].alpha # Absent /\ ~data[p].done
  /\ \A q \in Players \ {p} : ds[q] \in deltas[q]
  /\ DeltasProved(p, data[p], ds)
  /\ DeltaVerifies(p, data[p], ds)
  /\ Enter(p, w, [op |-> "publish", data |-> [data[p] EXCEPT !.done = TRUE]])
  /\ UNCHANGED <<starts, data, timing, history>>

\* s = k * (m + r * x) in parts: chi is what the alphas and betas made it.
S(d) == [life |-> d.life, R |-> d.ack, beta |-> d.beta, alpha |-> d.alpha]

StoreR(p, w) ==
  LET c == call[p][w] IN
  /\ c.op = "publish"
  /\ \/ /\ Update(p, c.data)
        /\ \/ Delivered /\ uses' = [uses EXCEPT ![p] = @ \cup {S(c.data)}]
           \/ Lost /\ UNCHANGED uses
     \/ data[p] = Absent /\ UNCHANGED <<data, uses>>
  /\ Return(p, w)
  /\ UNCHANGED <<starts, timing, acked, responses, deltas, signed>>

-----------------------------------------------------------------------------
(* get_cmp_signature and cancel_signing                                     *)

\* The sum of the s of all players verifies.
Verifies(d, ss) ==
  /\ \A q \in Players : ss[q].R = d.ack /\ ss[q].life = d.ack[q]
  /\ \A q, o \in Players : q # o => ss[q].alpha[o] = ss[o].beta

GetCmpSignature(p, w, ss) ==
  /\ MayEnter(p, w)
  /\ data[p] # Absent /\ data[p].done
  /\ \A q \in Players : ss[q] \in uses[q]
  /\ Verifies(data[p], ss)
  /\ Enter(p, w, [op |-> "delete", life |-> data[p].life])
  /\ UNCHANGED <<starts, data, timing, history>>

DeleteSigningData(p, w) ==
  LET c == call[p][w] IN
  /\ c.op = "delete"
  /\ data' = [data EXCEPT ![p] = Absent]
  /\ signed' = [signed EXCEPT ![p] = @ \cup {c.life}]
  /\ Enter(p, w, [op |-> "extract"])
  /\ UNCHANGED <<starts, timing, acked, responses, deltas, uses>>

\* TimingMap::extract erases the entry.
Extract(p, w) ==
  /\ call[p][w].op = "extract"
  /\ timing' = [timing EXCEPT ![p] = FALSE]
  /\ Return(p, w)
  /\ UNCHANGED <<starts, data, history>>

\* Deletes the record; the entry of the timing map stays.
CancelSigning(p) ==
  /\ "cancel" \in Interrupts
  /\ \E w \in Workers : MayEnter(p, w)
  /\ data[p] # Absent
  /\ data' = [data EXCEPT ![p] = Absent]
  /\ UNCHANGED <<starts, timing, call, history>>

\* An exception out of a handler before one of its persistency calls.
Interrupt(p, w) ==
  /\ call[p][w].op \in Interrupts
  /\ Return(p, w)
  /\ UNCHANGED <<starts, data, timing, history>>

-----------------------------------------------------------------------------
Continue(p, w) ==
  \/ StoreAck(p, w) \/ Respond(p, w) \/ StoreVerified(p, w) \/ StoreR(p, w)
  \/ DeleteSigningData(p, w) \/ Extract(p, w)

\* What the host can pass: what each player returned.
Choices(returned) ==
  {f \in [Players -> UNION {returned[q] : q \in Players}] :
     \A q \in Players : f[q] \in returned[q]}
Received(p, returned) ==
  {f \in [Players \ {p} -> UNION {returned[q] : q \in Players}] :
     \A q \in Players \ {p} : f[q] \in returned[q]}

Call(p, w) ==
  \/ \E v \in Vectors : MtaResponse(p, w, v)
  \/ \E rs \in Choices(responses) : MtaVerify(p, w, rs)
  \/ \E ds \in Received(p, deltas) : GetSi(p, w, ds)
  \/ \E ss \in Choices(uses) : GetCmpSignature(p, w, ss)

Next ==
  \E p \in Players :
    \/ StartSigning(p) \/ CancelSigning(p)
    \/ \E w \in Workers : Call(p, w) \/ Continue(p, w) \/ Interrupt(p, w)

Spec == Init /\ [][Next]_vars

\* A host whose threads go on, and that makes every call that can succeed.
Fairness ==
  \A p \in Players :
    /\ WF_vars(StartSigning(p))
    /\ \A w \in Workers : WF_vars(Continue(p, w)) /\ WF_vars(Call(p, w))

FairSpec == Spec /\ Fairness

-----------------------------------------------------------------------------
(* Properties                                                               *)

Deltas == [life : Lives, ack : Vectors, beta : Responses \cup {Absent}, alpha : Taken]
Calls ==
  {Idle, [op |-> "extract"]}
    \cup [op : {"ack", "respond", "verify", "publish"}, data : Records]
    \cup [op : {"delete"}, life : Lives]

\* The type invariant.
TypeOK ==
  /\ ConstantsOK
  /\ starts \in [Players -> 0..MaxStarts]
  /\ timing \in [Players -> BOOLEAN]
  /\ data \in [Players -> Records \cup {Absent}]
  /\ call \in [Players -> [Workers -> Calls]]
  /\ acked \in [Players -> SUBSET [life : Lives, ack : Vectors]]
  /\ responses \in [Players -> SUBSET Responses]
  /\ deltas \in [Players -> SUBSET Deltas]
  /\ uses \in [Players -> SUBSET [life : Lives, R : Vectors,
                 beta : Responses \cup {Absent}, alpha : Taken]]
  /\ signed \in [Players -> SUBSET Lives]

\* The k of a life is used in one signature, with the R of the requests the
\* player acknowledged first, although the ack is stored before those are
\* verified and the handler may stop in between: wherever handlers stop,
\* however often they are called and with whose results.
OneSignature ==
  \A p \in Players :
    /\ \A a, b \in acked[p] : a.life = b.life => a = b
    /\ \A u, v \in uses[p] : u.life = v.life => u = v
    /\ \A u \in uses[p] : [life |-> u.life, ack |-> u.R] \in acked[p]

\* No alphas are added before the ack they answer is stored, and a handler
\* that answers an ack, or with alphas, has them.
AlphasAnswerAck ==
  \A p \in Players :
    /\ data[p] # Absent /\ data[p].alpha # Absent => data[p].ack # Absent
    /\ \A w \in Workers :
         /\ call[p][w].op \in {"ack", "respond", "verify", "publish"} =>
              call[p][w].data.ack # Absent
         /\ call[p][w].op \in {"verify", "publish"} =>
              call[p][w].data.alpha # Absent

\* What keeps OneSignature true when a host runs one handler of a player at a
\* time.  The handler in progress works on the record the player holds,
OneHandler ==
  \A p \in Players : \A v, w \in Workers :
    (call[p][v].op # "idle" /\ call[p][w].op # "idle") => v = w

LoadedIsCurrent ==
  \A p \in Players, w \in Workers :
    /\ call[p][w].op \in {"ack", "respond", "verify", "publish"} =>
         data[p] # Absent /\ call[p][w].data.life = data[p].life
    /\ call[p][w].op = "ack" => data[p].ack = Absent
    /\ call[p][w].op \in {"respond", "verify", "publish"} =>
         call[p][w].data.ack = data[p].ack
    /\ call[p][w].op \in {"ack", "respond", "verify"} =>
         call[p][w].data.done = data[p].done
    /\ call[p][w].op = "publish" => ~data[p].done /\ call[p][w].data.done

\* its ack is the one that was acknowledged in its life, which is the last,
AckOfLife ==
  \A p \in Players :
    /\ data[p] # Absent =>
         /\ data[p].life = starts[p]
         /\ data[p].ack # Absent =>
              [life |-> data[p].life, ack |-> data[p].ack] \in acked[p]
         /\ data[p].ack = Absent => \A a \in acked[p] : a.life # data[p].life
    /\ \A a \in acked[p] : a.life <= starts[p]

\* and before the record is done, the k of its life has signed nothing.
UseOfLife ==
  \A p \in Players :
    /\ data[p] # Absent /\ ~data[p].done => \A u \in uses[p] : u.life # data[p].life
    /\ \A u \in uses[p] : u.life <= starts[p]

SignatureInv ==
  /\ OneSignature /\ OneHandler /\ LoadedIsCurrent /\ AckOfLife /\ UseOfLife

\* The s that players return for one R fit together: each is of the k that R
\* has of its player, and the response whose alphas one of them added is the
\* one the other subtracted the betas of, although each player compared only
\* deltas, in its own get_si, and never an s.  So get_cmp_signature, given the
\* s of one R, never finds that they do not verify.
SignaturesFit ==
  \A p \in Players : \A u \in uses[p] :
    /\ u.life = u.R[p]
    /\ \A q \in Players \ {p} : \A v \in uses[q] : u.R = v.R => u.alpha[q] = v.beta

\* Every transaction that was started is signed at its player.
EveryTransactionIsSigned ==
  \A p \in Players, n \in Lives :
    (data[p] # Absent /\ data[p].life = n) ~> (n \in signed[p])
=============================================================================

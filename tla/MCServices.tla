------------------------------ MODULE MCServices ------------------------------
(***************************************************************************)
(* Small instances of AsymmetricEddsa, OnlineSigning and KeySetup in one   *)
(* state space.  The services share no state: `part` is the instance that  *)
(* runs, chosen at the start, and the variables of the others stay as they *)
(* are.  The module itself is AsymmetricEddsa with the constants of the    *)
(* .cfg, two servers that commit to their Rs first; what the instances     *)
(* keep under a name of its variables is in the variables that end in 2.   *)
(***************************************************************************)
EXTENDS AsymmetricEddsa, TLC

CONSTANTS p1, p2, c1, s1, o1, o2, t1, t2, w1, w2

VARIABLES
  part, pool2, starts2, data2, commitments2, timing2, call2, bound2, sent2,
  answered2, uses2, signed2, acked, responses, deltas, requests, source, key,
  setup, opened, proofs, factors, created

-----------------------------------------------------------------------------
\* Two bounds keep the servers of the .cfg small, one at a time.  The hosts
\* name one index of arrays that were stored completely, and a txid may be
\* used again:
OneIndex ==
  /\ \A a \in Actors : pool[a] # Absent => 1 \in pool[a]
  /\ \A s \in Servers, t \in Txs : data[s][t] # Absent => data[s][t].index = 0
  /\ \A w \in Workers : call[Client][w].op = "consume" => call[Client][w].index = 0

\* A txid is used once, and the hosts may name different indices:
OneLife == \A s \in Servers, t \in Txs : starts[s][t] <= 1

\* The steps before which handlers may stop.
Anywhere == {"prepare", "decommit", "forget", "fix", "consume", "answer",
             "delete", "cancel", "drop", "reply"}

\* One server and two txids; two threads a player; transactions of two blocks.
One == INSTANCE AsymmetricEddsa WITH Client <- c1, Servers <- {s1},
  Txs <- {t1, t2}, Blocks <- 1, Total <- 2, Workers <- {w1}, MaxStarts <- 1,
  Serial <- TRUE, Interrupts <- Anywhere,
  pool <- pool2, starts <- starts2, data <- data2, commitments <- commitments2,
  timing <- timing2, call <- call2, bound <- bound2, sent <- sent2,
  answered <- answered2, uses <- uses2, signed <- signed2

Threads == INSTANCE AsymmetricEddsa WITH Client <- c1, Servers <- {s1},
  Txs <- {t1, t2}, Blocks <- 1, Total <- 1, Workers <- {w1, w2}, MaxStarts <- 1,
  Serial <- FALSE, Interrupts <- {"cancel"},
  pool <- pool2, starts <- starts2, data <- data2, commitments <- commitments2,
  timing <- timing2, call <- call2, bound <- bound2, sent <- sent2,
  answered <- answered2, uses <- uses2, signed <- signed2

TwoBlocks == INSTANCE AsymmetricEddsa WITH Client <- c1, Servers <- {p1, p2},
  Txs <- {t1}, Blocks <- 2, Total <- 2, Workers <- {w1}, MaxStarts <- 1,
  Serial <- TRUE, Interrupts <- Anywhere,
  pool <- pool2, starts <- starts2, data <- data2, commitments <- commitments2,
  timing <- timing2, call <- call2, bound <- bound2, sent <- sent2,
  answered <- answered2, uses <- uses2, signed <- signed2

\* Two players, an id used twice.
Online == INSTANCE OnlineSigning WITH Players <- {p1, p2}, Workers <- {w1},
  MaxStarts <- 2, MaxResponses <- 1, Serial <- TRUE,
  Interrupts <- {"ack", "respond", "verify", "publish", "delete", "cancel", "reply"},
  starts <- starts2, data <- data2, timing <- timing2, call <- call2,
  uses <- uses2, signed <- signed2

\* Two old players hand their key to two players, who may also create one of
\* their own, and use its id twice.
Setup == INSTANCE KeySetup WITH Players <- {p1, p2}, OldPlayers <- {o1, o2},
  MaxStarts <- 2, MaxRequests <- 2,
  Interrupts <- {"data", "metadata", "factors", "backup", "fail", "reply"},
  starts <- starts2, commitments <- commitments2, call <- call2

\* What the theorems about the modules assume of their constants.
ASSUME InstancesOK ==
  /\ One!ConstantsOK /\ Threads!ConstantsOK /\ TwoBlocks!ConstantsOK
  /\ Online!ConstantsOK /\ Setup!ConstantsOK

-----------------------------------------------------------------------------
onlyAsym == <<pool2, bound2, sent2, answered2>>
onlyOnline == <<acked, responses, deltas>>
onlySetup == <<requests, source, key, setup, opened, proofs, factors, created>>
signing == <<data2, timing2, uses2, signed2>>
others == <<starts2, commitments2, call2, onlyAsym, onlyOnline, onlySetup, signing>>

Unused(v) == v = Absent
NoAsym == Unused(pool2) /\ Unused(bound2) /\ Unused(sent2) /\ Unused(answered2)
NoOnline == Unused(acked) /\ Unused(responses) /\ Unused(deltas)
NoSetup ==
  /\ Unused(requests) /\ Unused(source) /\ Unused(key) /\ Unused(setup)
  /\ Unused(opened) /\ Unused(proofs) /\ Unused(factors) /\ Unused(created)
NoSigning == Unused(data2) /\ Unused(timing2) /\ Unused(uses2) /\ Unused(signed2)

ServicesInit ==
  /\ Init
  /\ \/ /\ part \in {"one index", "one life"}
        /\ NoAsym /\ NoOnline /\ NoSetup /\ NoSigning
        /\ Unused(starts2) /\ Unused(commitments2) /\ Unused(call2)
     \/ /\ NoOnline /\ NoSetup
        /\ \/ part = "one server" /\ One!Init
           \/ part = "threads" /\ Threads!Init
           \/ part = "blocks" /\ TwoBlocks!Init
     \/ /\ NoAsym /\ NoSetup /\ Unused(commitments2)
        /\ part = "online" /\ Online!Init
     \/ /\ NoAsym /\ NoOnline /\ NoSigning
        /\ part = "setup" /\ Setup!Init

\* A step of the servers of the .cfg, within the bound of the part.
BoundedNext ==
  /\ \/ part = "one index" /\ Next /\ OneIndex'
     \/ part = "one life" /\ Next /\ OneLife'
  /\ UNCHANGED others

AsymNext ==
  /\ \/ part = "one server" /\ One!Next
     \/ part = "threads" /\ Threads!Next
     \/ part = "blocks" /\ TwoBlocks!Next
  /\ UNCHANGED <<vars, onlyOnline, onlySetup>>

OnlineNext ==
  /\ part = "online" /\ Online!Next
  /\ UNCHANGED <<vars, onlyAsym, onlySetup, commitments2>>

SetupNext ==
  /\ part = "setup" /\ Setup!Next
  /\ UNCHANGED <<vars, onlyAsym, onlyOnline, signing>>

ServicesNext ==
  /\ UNCHANGED part
  /\ BoundedNext \/ AsymNext \/ OnlineNext \/ SetupNext

ServicesSpec == ServicesInit /\ [][ServicesNext]_<<part, vars, others>>

Symmetry == Permutations({p1, p2}) \cup Permutations({o1, o2})

-----------------------------------------------------------------------------
\* What must never be answered with twice.  asymmetric_eddsa_cosigner, at the
\* other sizes too: the k of a client, and in transactions of one block that
\* of a server.  cmp_ecdsa_online_signing_service: a k, which signs with one
\* R and one message.  cmp_setup_service: the k of a share's Schnorr proof.
KAnswersOnce ==
  /\ part = "one server" => One!NoncesAnswerOnce
  /\ part = "threads" => Threads!NoncesAnswerOnce
  /\ part = "blocks" => TwoBlocks!NoncesAnswerOnce
  /\ part = "online" => Online!OneSignature
  /\ part = "setup" => Setup!SchnorrAnswersOnce

\* What players end with, who compared only parts of it.  cmp_setup_service:
\* those that created a key together agree on it.
\* cmp_ecdsa_online_signing_service: the s of one R fit together.
ResultsAgree ==
  /\ part = "setup" => Setup!CreatedAgree
  /\ part = "online" => Online!SignaturesFit

\* cmp_setup_service: the shares add_user hands out sum to the old key.
AddedKeyIsTheOld == part = "setup" => Setup!AddedKeyIsTheOld

\* cmp_setup_service: the temporary data of a created key is gone.
TemporaryForgotten == part = "setup" => Setup!TemporaryForgotten
=============================================================================

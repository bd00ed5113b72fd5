-------------------------------- MODULE MCLive --------------------------------
(***************************************************************************)
(* Liveness of the six services: a small instance of each, with one host   *)
(* that keeps calling, in one state space.  The services share no state:   *)
(* `part` is the instance that runs, and the variables of the others keep  *)
(* the values they start with.                                             *)
(***************************************************************************)
EXTENDS Naturals, FiniteSets, TLC

CONSTANTS p1, p2, c1, r1, r2, t1, w1, w2, m1, Absent, Zero, Misfit

VARIABLES
  part,
  pMetadata, pData, pSlots, pCall, pStarts, pAnswered, pRequests, pResponses,
  pDeltas, pUses,
  rShare, rPublic, rSlots, rSeeds, rSent, rTemp, rTempKey, rCall, rUses,
  eStarts, eData, eCommitments, eTiming, eCall, eRevealed, eBound, eUses, eSigned,
  aPool, aStarts, aData, aCommitments, aTiming, aCall, aBound, aSent, aAnswered,
  aUses, aSigned,
  oStarts, oData, oTiming, oCall, oAcked, oResponses, oDeltas, oUses, oSigned,
  sStarts, sRequests, sSource, sKey, sSetup, sCommitments, sCall, sOpened,
  sProofs, sFactors, sCreated

presigning == <<pMetadata, pData, pSlots, pCall, pStarts, pAnswered, pRequests,
                pResponses, pDeltas, pUses>>
refresh == <<rShare, rPublic, rSlots, rSeeds, rSent, rTemp, rTempKey, rCall,
             rUses>>
eddsa == <<eStarts, eData, eCommitments, eTiming, eCall, eRevealed, eBound,
           eUses, eSigned>>
asym == <<aPool, aStarts, aData, aCommitments, aTiming, aCall, aBound, aSent,
          aAnswered, aUses, aSigned>>
online == <<oStarts, oData, oTiming, oCall, oAcked, oResponses, oDeltas, oUses,
            oSigned>>
keys == <<sStarts, sRequests, sSource, sKey, sSetup, sCommitments, sCall,
          sOpened, sProofs, sFactors, sCreated>>
vars == <<part, presigning, refresh, eddsa, asym, online, keys>>

-----------------------------------------------------------------------------
\* One request of two blocks.
Presigning == INSTANCE OfflinePresigning WITH
  Players <- {p1, p2}, Requests <- {r1}, Txs <- {t1}, Workers <- {w1},
  First <- [r \in {r1} |-> 0], Count <- [r \in {r1} |-> 2],
  TxBlocks <- [t \in {t1} |-> 1], Total <- 2, MinBatch <- 6, MaxStarts <- 1,
  MaxResponses <- 1, Serial <- TRUE, Interrupts <- {},
  metadata <- pMetadata, data <- pData, slots <- pSlots, call <- pCall,
  starts <- pStarts, answered <- pAnswered, requests <- pRequests,
  responses <- pResponses, deltas <- pDeltas, uses <- pUses

\* Two refreshes one after the other.
Refresh == INSTANCE KeyRefresh WITH
  Players <- {p1, p2}, Requests <- {r1, r2}, Txs <- {}, Workers <- {w1},
  Indices <- {0}, MaxRefreshes <- 2, Serial <- TRUE, Quiet <- TRUE,
  Interrupts <- {},
  share <- rShare, public <- rPublic, slots <- rSlots, seeds <- rSeeds,
  sent <- rSent, temp <- rTemp, tempKey <- rTempKey, call <- rCall, uses <- rUses

\* Two threads at p1, one at p2.
Eddsa == INSTANCE EddsaOnline WITH
  Players <- {p1, p2}, Workers <- {w1, w2}, Messages <- {m1}, Blocks <- 1,
  Versions <- {6}, OwnVersion <- 7, MaxStarts <- 1, Serial <- FALSE,
  Honest <- TRUE, Interrupts <- {},
  starts <- eStarts, data <- eData, commitments <- eCommitments,
  timing <- eTiming, call <- eCall, revealed <- eRevealed, bound <- eBound,
  uses <- eUses, signed <- eSigned

Asym == INSTANCE AsymmetricEddsa WITH
  Client <- c1, Servers <- {p1, p2}, Txs <- {t1}, Blocks <- 1, Total <- 1,
  Workers <- {w1}, MaxStarts <- 1, Serial <- TRUE, Interrupts <- {},
  pool <- aPool, starts <- aStarts, data <- aData, commitments <- aCommitments,
  timing <- aTiming, call <- aCall, bound <- aBound, sent <- aSent,
  answered <- aAnswered, uses <- aUses, signed <- aSigned

Online == INSTANCE OnlineSigning WITH
  Players <- {p1, p2}, Workers <- {w1}, MaxStarts <- 1, MaxResponses <- 1,
  Serial <- TRUE, Interrupts <- {},
  starts <- oStarts, data <- oData, timing <- oTiming, call <- oCall,
  acked <- oAcked, responses <- oResponses, deltas <- oDeltas, uses <- oUses,
  signed <- oSigned

Setup == INSTANCE KeySetup WITH
  Players <- {p1, p2}, OldPlayers <- {}, MaxStarts <- 1, MaxRequests <- 0,
  Interrupts <- {},
  starts <- sStarts, requests <- sRequests, source <- sSource, key <- sKey,
  setup <- sSetup, commitments <- sCommitments, call <- sCall,
  opened <- sOpened, proofs <- sProofs, factors <- sFactors, created <- sCreated

-----------------------------------------------------------------------------
Init ==
  /\ part \in {"presigning", "refresh", "eddsa", "asymmetric", "online", "setup"}
  /\ Presigning!Init /\ Refresh!Init /\ Eddsa!Init
  /\ Asym!Init /\ Online!Init /\ Setup!Init

Next ==
  /\ UNCHANGED part
  /\ \/ /\ part = "presigning" /\ Presigning!Calls
        /\ UNCHANGED <<refresh, eddsa, asym, online, keys>>
     \/ /\ part = "refresh" /\ Refresh!Calling
        /\ UNCHANGED <<presigning, eddsa, asym, online, keys>>
     \/ /\ part = "eddsa" /\ Eddsa!Next /\ eCall'[p2][w2] = eCall[p2][w2]
        /\ UNCHANGED <<presigning, refresh, asym, online, keys>>
     \/ /\ part = "asymmetric" /\ Asym!Next
        /\ UNCHANGED <<presigning, refresh, eddsa, online, keys>>
     \/ /\ part = "online" /\ Online!Next
        /\ UNCHANGED <<presigning, refresh, eddsa, asym, keys>>
     \/ /\ part = "setup" /\ Setup!Next
        /\ UNCHANGED <<presigning, refresh, eddsa, asym, online>>

Fairness ==
  \/ part = "presigning" /\ Presigning!Fairness
  \/ part = "refresh" /\ Refresh!Fairness
  \/ part = "eddsa" /\ Eddsa!Fairness
  \/ part = "asymmetric" /\ Asym!Fairness
  \/ part = "online" /\ Online!Fairness
  \/ part = "setup" /\ Setup!Fairness

FairSpec == Init /\ [][Next]_vars /\ Fairness

-----------------------------------------------------------------------------
\* cmp_ecdsa_offline_signing_service: every presigning request a player
\* started is stored for signing in the end.
EveryRequestCompletes == Presigning!EveryRequestCompletes

\* cmp_offline_refresh_service: every refresh that was started is committed by
\* every player.
EveryRefreshCompletes == Refresh!EveryRefreshCompletes

\* The three signing services: every transaction a player started is signed
\* at that player.
EveryTransactionIsSigned ==
  /\ Eddsa!EveryTransactionIsSigned
  /\ Asym!EveryTransactionIsSigned
  /\ Online!EveryTransactionIsSigned

\* cmp_setup_service: every player creates the key whose setup it started.
EverySetupCompletes == Setup!EverySetupCompletes
=============================================================================

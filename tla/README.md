# A TLA+ verification of the MPC-CMP cosigner library

The library (`src/src/common/cosigner`, `src/src/common/crypto`) lets several
*players* hold additive shares of one ECDSA or EdDSA private key and sign without
ever bringing the shares together. This directory holds TLA+ models of its
services, the TLC configurations that check them, and TLAPS proofs about them.

* [1. The system](#1-the-system)
* [2. What is modelled, and how](#2-what-is-modelled-and-how)
* [3. What TLC checks](#3-what-tlc-checks)
* [4. What is proved](#4-what-is-proved)
* [5. What is only model-checked, and what is not modelled](#5-what-is-only-model-checked-and-what-is-not-modelled)
* [6. Plan](#6-plan)

## 1. The system

The library runs no thread and sends no message. A *host* (a server, a mobile
device) calls its *services*, possibly from many threads; it carries what a
handler returns to the other players, and it implements the *persistency*
interfaces in which all state is kept, and the `platform_service` callbacks
(random numbers, encryption to a player, backup, policy). The tests hold the only
implementations of these interfaces in the repository (in-memory maps under one
mutex per object), and the models take them from there. Errors are C++
exceptions: a handler that throws leaves behind everything it has persisted.

So each persistency call is atomic and nothing larger is. The behaviours that
make this code hard are the interleavings of handlers of one player (threads), of
players (messages), handlers that stop halfway (exceptions, crashes), handlers
that are repeated, and request ids that are cancelled and used again.

| Component | State | Operations | Interacts with | What makes it correct |
|---|---|---|---|---|
| **ECDSA offline signing** `cmp_ecdsa_offline_signing_service.cpp`, `cmp_ecdsa_signing_service.cpp` | per request: metadata with an *ack*, one `ecdsa_signing_data` a block; per key: an array of presignatures | `start_ecdsa_signature_preprocessing`, `offline_mta_response`, `offline_mta_verify`, `store_presigning_data`, `ecdsa_sign`, `ecdsa_offline_signature`, `cancel_preprocessing` | MtA verifiers, preprocessing persistency, key refresh (same presignatures) | a secret k signs one message; shares under one R fit together; an ack does not change; requests complete |
| **MtA** `mta.cpp` | running sums of a batch verification | `request`, `answer_mta_request`, `decrypt_mta_response`, single and batch `process`, `verify` | called by both ECDSA services | batch and single verification accept the same answers; the answer of one player and the decryption of the other are shares of a product |
| **Key setup** `cmp_setup_service.cpp` | key, metadata, auxiliary keys, temporary setup data, commitments | five rounds `generate_setup_commitments` ... `create_secret`; `add_user_request`, `add_user` | key persistency, `backup_key`, VSS, proofs | shares sum to the key; a failed creation leaves no key; adding users keeps the key |
| **Key refresh** `cmp_offline_refresh_service.cpp` | seeds, temporary key, temporary presignatures | `refresh_key_request`, `refresh_key`, `refresh_key_fast_ack`, `cancel_refresh_key` | key persistency, the presignatures of offline signing | the sum of the shares is kept; presignatures stay valid and single-use |
| **ECDSA online signing** `cmp_ecdsa_online_signing_service.cpp` | per transaction `cmp_signing_metadata` | `start_signing`, `mta_response`, `mta_verify`, `get_si`, `get_cmp_signature`, `cancel_signing` | MtA, timing map | one set of requests is answered per transaction; signatures verify; repeats are harmless |
| **EdDSA online signing** `eddsa_online_signing_service.cpp` | per transaction k, R, commitments | `start_signing`, `store_commitments`, `broadcast_si`, `get_eddsa_signature` | timing map | a k signs one message; R is opened after all committed |
| **Asymmetric EdDSA** `asymmetric_eddsa_cosigner*.cpp` | client: presampled k; servers: k, R, commitments per transaction | client `start_signature_preprocessing`, `eddsa_sign_offline`; server `store_presigning_data`, `eddsa_sign_offline`, `decommit_r`, `broadcast_r`, `broadcast_si`, `get_eddsa_signature`, `cancel_signing` | each other | a k signs one message; the client never signs for an R it was not shown a commitment of |
| **Timing map** `timing_map.cpp` | transaction to start time | `insert`, `erase`, `extract` | online services | one entry a live transaction |
| **Paillier** `paillier.c`, `paillier_zkp.c` | none | key generation, encryption, decryption, `add`/`sub`/`mul` on ciphertexts, factorization, coprime and Blum proofs | MtA, range proofs, setup | plaintext arithmetic modulo n; only good moduli have proofs |
| **Commitments** `ring_pedersen.c`, `commitments.c` | a hash context | ring Pedersen commit, open (one, batch), proof of the parameters; hash commitments at once and in pieces | range proofs, setup, EdDSA | every way to open accepts the same |
| **Zero-knowledge proofs** `range_proofs.c`, `schnorr.c`, `diffie_hellman_log.c` | none | generate and verify | setup, MtA, signing | honest proofs verify up to the border of their range, others do not |
| **Curves** `GFp_curve_algebra.c`, `ed25519_algebra.c`, `curve25519.c` | none | the function table `elliptic_curve256_algebra_ctx_t`, signature verification | everything | both tables are the group of the order |
| **Secret sharing** `verifiable_secret_sharing.c` | none | split, reconstruct, verify a share | hosts | t shares give the secret, fewer do not |
| **DRNG, Keccak** `drng.c`, `keccak1600.c` | position in a block | read | hosts, tests | reading in pieces is reading at once |
| **HD derivation** `hd_derive.cpp` | none | `derive_public_key_generic` and others | signing | private and public derivation agree |

`PROJECT.json` lists all components with their status, and under `hazards` the
places of this code where a test hardly reaches, each with the properties that
watch it.

## 2. What is modelled, and how

### `OfflinePresigning`: ECDSA presigning and signing of one key

All players of one key, each with several worker threads. `call[p][w]` is the
handler a worker is in, with its locals (loop index, the block it has loaded, the
messages it was called with). A worker enters a handler in the action that does
the handler's checks up to the first thing it persists (`StartPreprocessing`,
`MtaResponse`, `OfflineMtaVerify`, `StorePresigningData`, `EcdsaSign`); the
following actions each do one persistency call (`CreateMtaRequest`, `StoreAck`,
`LoadBlock`, `CreateMtaResponse`, `MtaVerify`, `PublishBlock`, `SignBlock`, ...);
the `...Return` actions hand the result to the host. A failed check is the handler
returning with no result. `Interrupt` ends a handler between two persistency calls.
`CancelPreprocessing` may happen at any moment, also while handlers run.

| TLA+ | Code |
|---|---|
| `metadata[p][r]` | `preprocessing_metadata`: `Absent`, `Zero` (ack all zero bytes) or the ack |
| `data[p][r][i]` | `ecdsa_signing_data` of block i |
| `slots[p][x]` | the presignature array of the key |
| `requests`, `responses`, `deltas` | everything handlers ever returned: the host delivers any of it, in any order, any number of times, or never |
| `starts`, `answered` | generations of secrets drawn, runs of `offline_mta_response`: the names of fresh random values, and the bounds |
| `uses[p]` | what `ecdsa_sign` used for which message (history) |

Data is abstracted to what the properties tell apart. All secrets of a block are
drawn together, so a *generation* number k names them; MtA requests are the
generation they encrypt; `ack_mta_request` hashes the requests of all players, so
an ack is that *view* (a generation for each player). Every run of
`offline_mta_response` has its own randomness, so an *answer* is who ran it, its
number, and the view it answers. delta and chi are sums of MtA terms: `betas` (own
answers, subtracted) and `alphas` (decrypted answers of the others, added; a
sequence, because `offline_mta_verify` may run twice over a block and adds again).
A proof verifies exactly for what it was made about: `GammaProven` and `AnswersMe`
say, clause by clause, what the gamma proof and the range proofs bind. `CalcR` is
`calc_R`: the Diffie-Hellman proof of each player binds its k and its GAMMA, and
g^delta = the product of the DELTAs is the statement that all MtA terms cancel
(`SharesCancel`). The unlikely coincidences (a sum that vanishes by chance) are
left out, as in the usual symbolic reading of the protocol.

`Serial` says that the host runs one presigning handler at a time per player and
request. `WholeSpec` is `Spec` without the steps in which a worker leaves
`store_presigning_data` after its first store and before its delete.

### `PresignaturePool`: what the presignature store promises

Per player a pool of presignatures and the spent ones: publishing adds one that
was never spent (and may overwrite others), spending takes one out. Its `Next` is
what the persistency interface says of `store_preprocessed_data` and
`load_preprocessed_data` together with its note that a presignature must not be
used twice. `OfflinePresigning` implements it (`ImplementsPool`) under the mapping
that reads the pool off the slots and the spent ones off `uses`.

### `KeyRefresh`: new shares and presignatures of the same key

The players of a key replace their shares while `ecdsa_sign` consumes presignatures.
`RefreshKeyRequest` stores the seeds and hands their encryptions out; `RefreshKey`
loads seeds and share; `Transform` is the persistency's snapshot of the presignature
array with the lambda of `refresh_key` applied (`Refreshed`); `StoreTemporaryKey`
ends the handler; `RefreshKeyFastAck` commits share and array together;
`CancelRefreshKey`, `Interrupt` as above. `EcdsaSign` loads the share and `SignBlock`
consumes the presignature and signs, as two steps.

| TLA+ | Code |
|---|---|
| `share[p]` | the private key share |
| `public[p]` | `public_share` in the key metadata |
| `slots[p]` | the presignature array |
| `seeds[p]`, `sent` | seeds stored per request, encrypted seeds the host has |
| `temp[p]`, `tempKey[p][r]` | `_temp_preprocessed_data` of the key, temporary key of a request |
| `uses[p]` | share and presignature each signature was made with (history) |

What a player adds in a refresh is a sum, over the other players, of terms that the
two derive from exchanged seeds with opposite signs. Seeds are stored once per
request, so a share is the *sequence of requests* it went through, and players whose
shares are the same sequence hold an additive sharing of the key. k of a
presignature likewise. `fits` is the share its chi goes with: the lambda computes
chi' from the loaded share, so a chi that fits that share fits the new one, and any
other fits none (`Misfit`). `Serial` says that the host runs one refresh handler of a
player at a time, `Quiet` that it refreshes only while nothing is signed and signs
only when all players committed the same refreshes. Presigning during a refresh and
refreshes by a part of the players are left out.

### `AtomicRefresh`: what a refresh looks like from outside

Per player its share, the presignatures it offers and what signed. `Refresh` appends to the
share and changes nothing else, while all players have signed with the same presignatures;
`Sign` takes a presignature off the offer and signs with it and the share, which all players
have. `KeyRefresh` with `Serial` and `Quiet` implements it (`RefreshIsAtomic`): a slot that is
not empty is on offer, the commit is the refresh, `SignBlock` is the signature, and all the
other steps stutter, although the array the commit brings is a snapshot taken by `Transform`
and the share one that `RefreshKey` loaded.

### `EddsaOnline`: EdDSA signing of one transaction id

All players sign the blocks of one transaction. `StartSigning` draws the secrets;
`StoreCommitments`, `UpdateVersion`, `StoreSigningCommitments` are `store_commitments`
between its persistency calls; `BroadcastSi`, `OpenCommitments`, `UpdateAnswered` are
`broadcast_si`; `GetEddsaSignature`, `DeleteSigningData`, `Extract` are
`get_eddsa_signature`. A failed check is a handler that returns.

| TLA+ | Code |
|---|---|
| `data[p]` | `eddsa_signing_metadata` (its R is the own one, then the sum) |
| `commitments[p]` | what `store_signing_commitments` stored |
| `timing[p]` | the transaction has an entry in the timing map |
| `starts[p]` | lives of the id: how often it was started |
| `revealed`, `bound`, `uses`, `signed` | Rs returned, commitments stored, answers returned, signatures returned (history) |

The id may be used again after `get_eddsa_signature` deleted it, so its *lives* are
counted. Secrets are drawn once a life, which therefore names R, the commitment to
it, and k: `K(n, i)` is the k of block i, and its definition says what the drawing
loop does. A sum of Rs is a function from the summed players to their lives. An answer
s is known by what it hashes and by its k. With `Honest` the players get what the
others returned; without it, anything. The timing map is inserted into by
`store_commitments` before anything is checked, as in the builds that are not
`MOBILE`; the times, and the `DEBUG` variant that keeps the first one, are left out.
Before `broadcast_si` the stored s is never written; `get_eddsa_signature` compares it
and then verifies a signature under the own R alone, which does not verify whatever
the s is, so that state is a call that fails.

### `AsymmetricEddsa`: a client that is online once, and servers

`StartSignaturePreprocessing`, `ClientSignOffline` and `ConsumeK` are the client;
`StorePresigningData`, `EddsaSignOffline`, `DecommitR`, `BroadcastR`, `BroadcastSi`,
`GetEddsaSignature` and `CancelSigning`, with a step for each further persistency
call (`StoreCommitments`, `LoadCommitments`, `DeleteCommitments`, `StoreSum`, `ConsumeCommitment`,
`StoreAnswered`, `DeleteSigningData`, `CancelData`), are a server.

| TLA+ | Code |
|---|---|
| `pool[a]` | the client's stored k, a server's stored commitments to the client's R, by index |
| `data[s][t]`, `commitments[s][t]`, `timing[s][t]` | `asymmetric_eddsa_signing_metadata`, stored commitments, timing entry of a txid |
| `bound`, `sent`, `answered`, `uses`, `signed` | commitments at the opening of R, sums sent to the client, the client's and the servers' answers, signatures (history) |

Lives and sums are those of `EddsaOnline`; what the client draws for an index is
named by the index. With one server (`Pair`) there is no round of commitments. What is
signed is part of the txid. The host of each server names the index, and a commitment to
R covers it (`Opened`), so that Rs of servers with different indices do not open. A
thread that opens commitments after another one has stored the sum of Rs adds the Rs to
that sum (`Sum`, `Twice`): no other server has such a sum. `BroadcastR` loads the record
and `LoadCommitments` the commitments, between which another thread may end the life.

### `OnlineSigning`: ECDSA without presigning

One record per transaction, which every handler loads, checks, rewrites and stores
(`MtaResponse`/`StoreAck`/`Respond`, `MtaVerify`/`StoreVerified`, `GetSi`/`StoreR`,
`GetCmpSignature`/`DeleteSigningData`/`Extract`, `CancelSigning`). As in
`OfflinePresigning` a life names what is drawn with `start_signing`, an ack is the
vector of lives it acknowledges, a response is named by what it answers and a number,
and delta fits exactly when every alpha that was added has its beta subtracted
(`DeltaVerifies`). Everything handlers ever returned may be passed to any later call.

### `KeySetup`: creating a key, and adding users to one

`GenerateSetupCommitments` or `AddUser` begin a life of the key id;
`StoreSetupCommitments`, `GenerateSetupProofs`, `StoreMetadata`, `VerifySetupProofs`,
`ProveFactors`, `CreateSecret` and `BackupKey` are the rounds. A life names the share,
the auxiliary keys, the seed and the Schnorr k. The public key of a record is the point
at infinity, the sum of the shares of some lives, or (for `add_user`) the copied one;
the pieces of an old share that an `add_user_request` hands out are named by the number
of that call (`requests`, `source`), and shares sum to the old key exactly when all
players got pieces of the same calls (`SumsToOld`). A failed backup forgets everything,
so the id can be used again.

### The algorithms

Operators over small numbers, each computing what the function of the same name
computes, with randomness and challenges as parameters:

| Module | What it holds |
|---|---|
| `ModularArithmetic` | the big-number operations the library takes from OpenSSL, and `is_coprime_fast` |
| `Paillier` | keys, encryption, decryption with its status, ciphertext arithmetic, the three proofs about keys |
| `RingPedersen` | commitments, opening with the trapdoor, batch opening, the proof of the parameters |
| `RangeProofs` | exponent proof (one and batch), Diffie-Hellman proof, large factors proof with its serialized sizes |
| `Mta` | answer, decryption, proof, the single and the batch verifier |
| `EllipticCurve` | points and scalars through the function table of the short Weierstrass curves; low s, recovery id, verification of signatures |
| `Ed25519` | the same table over a group with cofactor 8; scalars in both byte orders, reduction, sign and verify |
| `GroupProtocols` | secret sharing, Schnorr and Diffie-Hellman proofs, HD derivation, over any such table |
| `Streams` | the generator and the hash commitments, over an opaque hash |

A point of a proof with no curve of its own is an exponent modulo q. `Alpha`, the table
of the product of small primes, is the product of the primes up to a bound.

Things the models show that a reader of the code may not expect: the prover of a range
proof does not look at the size of its own response, so an unlucky one fails at the
verifier; non-zero coefficients mean that t - 1 shares of a secret do exclude some
secrets (another one always fits as well, which is what `SharesReconstruct` says); a
signature whose R has an x not below the order is refused; a large factors proof whose
v is negative does not verify, for its sign is not written; a factorization proof whose
response wraps at half of n does not verify; an empty path leaves the public key of
`derive_private_and_public_keys` unwritten; a batch of no points is an error. The batch
verifier of exponent proofs sets its status before the loop and not again for each item. An
item whose point equation fails does not end the loop, so the status is that of the item
compared last. An item that leaves the loop by a bare `goto cleanup`, because its z2 shares a
factor with n (range_proofs.c:642) or its bytes are no points (672-677), returns the status of
the item before it, and what stands behind it is not looked at (`BatchVerifies`); the verifier
of single proofs refuses such an item. Nothing in the repository states what a batch is to do
then, so no run refutes a claim; `RangeProofsVerify` states when the batch verifies.

### Modules

| Module | Role |
|---|---|
| `OfflinePresigning`, `KeyRefresh`, `EddsaOnline`, `AsymmetricEddsa`, `OnlineSigning`, `KeySetup` | the services: models and properties |
| `ModularArithmetic`, `Paillier`, `RingPedersen`, `RangeProofs`, `Mta`, `EllipticCurve`, `Ed25519`, `GroupProtocols`, `Streams` | the algorithms |
| `PresignaturePool`, `AtomicRefresh` | abstract specifications of the presignature store and of a refresh |
| `MCOfflinePresigning`, `MCKeyRefresh`, `MCRefresh`, `MCEddsaOnline` | values for TLC, symmetry |
| `MCServices`, `MCLive` | several instances in one state space, told apart by `part`, which is chosen at the start; the services they put together share no state |
| `MCAlgorithms` | inputs and reference definitions for the algorithms |
| `OfflinePresigningProofs` | type correctness, single use |
| `AgreementProofs` | acks do not change; presignatures of one R fit together |
| `PoolRefinementProofs` | refinement, the pool's invariant |
| `KeyRefreshProofs` | type correctness; presignatures fit the share; single use, fitting signatures and refinement of `AtomicRefresh` when kept apart |
| `EddsaOnlineProofs` | type correctness, commitments before answers, nothing left of a finished id |
| `AsymmetricEddsaProofs` | type correctness, nonces, agreement of the answers, commitments |
| `OnlineSigningProofs` | type correctness, one signature a k, fitting s of one R |
| `KeySetupProofs` | type correctness, the properties of setup and `add_user` |

The services meet in their data: the shares of `KeySetup` are what `KeyRefresh` refreshes
and the signing services use, the presignatures of `OfflinePresigning` are what
`KeyRefresh` transforms (`EcdsaSign` is an action of both modules), and `Mta` is the
arithmetic behind `AnswersMe`, `GammaProven` and `SharesCancel`.

Some definitions come in two or three versions (`Consume`, `ConsumeNothing`,
`ConsumeFirst`): the later one is the code, the earlier ones are plausible mistakes
that the checks must notice.

## 3. What TLC checks

| Run | Instance | Properties |
|---|---|---|
| `store` | 2 players, 1 request of 2 blocks, 2 transactions (2 messages and 1), 2 workers, signing and publishing interruptible, `StoreSpec`: `WholeSpec`, and no more than one player has two threads in handlers | `TypeOK`, `SingleUse`, `ImplementsPool` |
| `restart` | 2 players, 1 block, 2 lives of the request id, 2 responses, batch verifier; starting and verifying interruptible | `EqualRSignaturesVerify`, `NonceInOneR`, `AckFixed` |
| `reuse` | `store_presigning_data` may be interrupted, `Spec` | `SingleUse` is violated |
| `refresh` | 2 players, 2 requests, 2 refreshes, 2 threads, 2 slots, 1 transaction, `Serial` and `Quiet`, everything interruptible | `TypeOK`, `SlotsFit`, `SignaturesVerify`, `RefreshIsAtomic` |
| `refresh_reuse` | signing while a refresh waits for its commit | `SingleUse` is violated |
| `refresh_public` | a refresh that every player commits | `PublicSharesCurrent` is violated |
| `eddsa_serial` | 2 players, 2 lives, 2 messages, 2 versions, any message from the peers, storing, updating, signing and deleting interruptible, `Serial` | `TypeOK`, `OpensAsCommitted`, `OneChallenge`, `NothingLeft` |
| `eddsa_blocks` | a transaction of 2 blocks | `OneChallenge` is violated |
| `services` | the seven parts below | `TypeOK`, `NoncesAnswerOnce`, `AnswersAgree`, `OpensAsCommitted`, `NothingLeft`, `KAnswersOnce`, `ResultsAgree`, `AddedKeyIsTheOld`, `TemporaryForgotten` |
| `live` | one instance of each service, `FairSpec` | `EveryRequestCompletes`, `EveryRefreshCompletes`, `EveryTransactionIsSigned`, `EverySetupCompletes` |
| `algorithms` | 9,300 inputs | thirteen properties, below |
| `decrypt` | the same inputs | `OnlyCoprimeDecrypts` is violated |

The parts of `services`:

| Part | Instance |
|---|---|
| `one index`, `one life` | asymmetric EdDSA, 2 servers, 1 txid of 1 block, stops everywhere but between the two accesses that end the commitments of a life (`"fix"`, `"drop"`): 2 lives of one index of complete arrays, or 1 life in which the hosts may name different ones of 2 indices |
| `one server` | 1 server, 2 txids of 1 life, 2 indices, stops anywhere |
| `threads` | 1 server, 2 txids and 1 index, 2 threads a player and not `Serial` |
| `blocks` | 2 servers, transactions of 2 blocks, stops anywhere |
| `online` | online ECDSA, 2 players, 2 lives, stops anywhere, cancel |
| `setup` | 2 old players, called twice each, and 2 players that use an id twice to copy a key or to create one; stops anywhere, failing backups |

What they show: a k of the client and of a server answers one challenge
(`NoncesAnswerOnce`), and so do the ks of the other parts (`KAnswersOnce`: the same in `one
server`, `threads` and `blocks`; in `online` a k signs once, although the ack is stored
before the proofs are verified; in `setup` the k of a Schnorr proof), whoever is given an
index and whatever is repeated; the servers never answer different challenges
(`AnswersAgree`); commitments come before Rs (`OpensAsCommitted`) and do not outlive their
record (`NothingLeft`); players that created a key from each other's shares created the
same, and the s they return for one R in `online` fit together (`ResultsAgree`); for
`add_user` the key is the old one (`AddedKeyIsTheOld`); and its
temporary data is gone, also when the id is used again (`TemporaryForgotten`). In
`refresh`, presignatures fit the share (`SlotsFit`), what is signed under one R fits
together (`SignaturesVerify`), and a refresh neither loses a presignature nor brings back one
that signed (`RefreshIsAtomic`, which implies `SingleUse`); that the first holds also on a host
that signs at any moment is proved (`PresignaturesFit`), and that the last does not is
`refresh_reuse`.

The thirteen properties of `algorithms` compare the code's computation with a definition
without its shortcuts. `PaillierArithmetic`: operations on ciphertexts against integers
modulo n. `OnlyGoodModuli`: for every odd composite below 58, the coprime and the Blum
proof can be answered exactly when the modulus is one that key generation makes.
`KeyProofs`, `RangeProofsVerify`, `LogarithmProofs`: honest proofs against their
statements, with responses at both sides of the border of their ranges and of the fields they
are written to, for range proofs also with parts from which nothing can be computed, alone and
in a batch with what comes before and behind. `CommitmentsOpen`,
`VerifiersAgree`: openings and MtA answers, right or with one part changed, through the
single and the batch verifier. `MtaSharesAddUp`: the two shares against the product.
`AlgebraIsTheGroup`: both function tables against the integers modulo the order, for
scalars reduced or not and bytes that are points or not. `SignaturesVerify`: what the
services assemble against key recovery and verification. `SharesReconstruct`: every
polynomial and set of shares. `KeysDeriveTogether`: private against public derivation.
`StreamsAgree`: pieces against the whole.

**Bounds.** Two players are enough for every pairwise disagreement the messages can
express: acks, views and proofs are compared with the own ones, player by player.
Two blocks give every handler a state between blocks; two lives of a request id
(`MaxStarts`) let old and new messages, acks and orphan blocks meet; two responses
(`MaxResponses`) let a block be answered twice, the case in which an old answer
fits an ack but not the betas. Two workers and two transactions let `ecdsa_sign`
calls race for a slot. `MinBatch` is above or below the number of blocks to choose
the verifier: `store` uses the single one, `restart` the batch one, whose behaviours
include those of the single one (a block with a bad range proof is stored and the
handler fails later, or it is interrupted before the block, where the single one
fails). The bounds are in the guards of `StartPreprocessing` and `StoreAck`.
Two refreshes are the fewest in which one can overtake, cancel or lock out another,
and two players the fewest between which shares differ. Two lives of a transaction id
let commitments, records and answers of an earlier use meet a later one; two messages
tell an answer for the wrong one. `MaxRefreshes` is in the guard of `RefreshKey`,
`MaxStarts` in that of `StartSigning`.
Asymmetric and online signing and setup need two lives of an id for
messages of an earlier use to meet a later one. The handlers that may stop (`Interrupts`) are in each run those whose stops bear on
its properties: `store` leaves out the ones before a presignature exists, `restart` those of
an answer, after which the request can only be started again, and `eddsa_serial` the
reply and the opening, which store nothing. The theorems of section 4 allow every stop.
Two old players called twice are the fewest whose pieces can mix. What a third player or
server, more threads or several indices over several lives would add is left to the
theorems of section 4, which have no bounds. Keys of 10 bits (19 * 23, 19 * 31 and their like), a
ring of 7 * 11, the curve y^2 = x^3 + 14 modulo 19 of order 13 (which has points whose x
exceeds the order, and an order 3 below a power of two) and a group of order 19 with
cofactor 8 are small enough to enumerate and have all the cases: numbers that share a
factor with n, sums that wrap, scalars that are not reduced, points outside of the group.
Deadlock is not checked: a host may stop calling, and within the bounds every
request ends.

**Fairness.** `FairSpec` is a host that keeps calling. `WF` on `Continue`: a thread in
a handler goes on, since nothing in the library blocks. `SF` on each of the four
handlers per request: a call that is possible again and again is made; calls that
come too early fail and are repeated, so they are enabled intermittently, as a host
that polls or reacts to messages makes them. No fairness is asked of `ecdsa_sign`,
nothing is interrupted or cancelled. `EveryRequestCompletes` then says that the
guards never lock a request up, although every handler may be called too early,
while another player is in the middle of the one before. `KeyRefresh` and
`EddsaOnline` assume the same: `WF` on going on in a handler, `SF` on each call that
has not succeeded yet (a refresh that is not `Done`, commitments that are not stored).
`EveryRefreshCompletes` is about requests that lock each other out, since only one
refreshed array of a key can wait for its commit; `EveryTransactionIsSigned` about
threads that overwrite each other's records, after which calls have to be repeated.
For asymmetric EdDSA the `SF` conjuncts ask for calls with the index the servers started
with, and with the Rs that open the stored commitments; for setup and online signing, whose records admit a call until it succeeded once,
`WF` is enough for most. In `live` nothing is interrupted, cancelled or lost. Each
conjunct is a host that repeats a call until it succeeds, which is how the tests drive
the services.

**The violations.** `reuse` shows why `WholeSpec` is needed: `store_presigning_data`
stores the presignatures one by one and deletes the blocks they came from at the
end. Stopped in between and called again, it stores a presignature anew that
`ecdsa_sign` has already consumed, and the same k signs a second message, which the
comment on `load_preprocessed_data` says must not happen. The same follows when a
later block fails to verify or when `start_index + count` runs over the array.

`refresh_reuse`: `refresh_key` takes a snapshot of the array and the commit puts it in
place, so a presignature consumed in between is offered again, with the same R.
`refresh_public`: nothing changes `public_share` in the metadata when the shares are
refreshed, while `mta_verify` checks range proofs against it. `eddsa_blocks`: the loop
that draws k asks for a status that is set before the loop over the blocks, so all
blocks of a transaction share one k; `OneChallenge` holds of transactions of one block (`eddsa_serial`, `OneBlockOneChallenge`).
The server of the asymmetric cosigner has the same loop; where transactions have more than
one block `NoncesAnswerOnce` says only what the client does. `decrypt`: the cleanup of
`paillier_decrypt_openssl_internal` tests for the wrong value, so that its refusal of a
ciphertext that is not coprime to n is returned as success. The verifiers of MtA test that
themselves before `decrypt_mta_response` is called.

**Known to go wrong, and left out of the runs.** `delete_refresh_key_seeds` of the
tests erases from the map of arrays by the request id instead of the key id: after
`cancel_refresh_key` the array stays, and every later refresh of the key is refused
(the model does the same; `EveryRefreshCompletes` is about hosts that do not cancel).
`store_commitments` refuses to be repeated and nothing else returns the own Rs, so a
transaction whose reply was lost stays for ever, `cancel_signing` being declared and
not defined (`"reply"` in `Interrupts` of `EddsaOnline` gives that behaviour).
`Begin` of `KeySetup`: the metadata is stored first, and a handler that stops after it
leaves a key id that can neither be set up nor started again. A stop between
`delete_commitments` and `store_signing_data` in `broadcast_r` leaves a record with the own
R and no commitments, for which `decommit_r` binds a second set: with `"fix"` in
`Interrupts` `OpensAsCommitted` of `AsymmetricEddsa` fails. `cancel_signing` of online
ECDSA leaves the entry of the timing map, which nothing then removes.

**What `Serial` hides.** In `KeyRefresh`, a worker that loaded the share before a
commit stores shares and presignatures derived from the old one after it. In
`EddsaOnline`, a handler that loaded the record of one life may write it over the
record of the next, or store commitments after the delete: with two threads and two
lives `OneChallenge`, `OpensAsCommitted` and `NothingLeft` fail. In `OfflinePresigning` and
`OnlineSigning` two threads pass the check of the ack together, and `AckFixed` and
`OneSignature` fail. `KeySetup` has one handler a player at a time throughout. The asymmetric
cosigner keeps `NoncesAnswerOnce` and `AnswersAgree` with two threads (`threads` has one server; the theorems have any number). Nothing in the library
serializes handlers, so a host has to.

## 4. What is proved

All for any number of players, requests, blocks, transactions, threads, slots, and
any bounds.

* `TypeCorrect` (`OfflinePresigningProofs`): `Spec => []TypeOK`. `TypeOK` is more
  than shapes: a worker past the last block holds no block, the blocks a handler has
  produced are as many as its loop index says, and messages carry one entry for
  every block, so that no handler indexes beyond a message.
* `NoReuse` (`OfflinePresigningProofs`): with `Serial`, `WholeSpec => []SingleUse`.
  `SingleUse` is not inductive. `SingleUseInv` adds, part by part: one worker at a
  time is in a request (`OnePerRequest`); nothing carries a generation not drawn yet
  (`KnownGenerations`); a presignature sits only in the slot of its block
  (`InItsSlot`); what signed is not on offer (`UsedIsGone`); and the one that does the
  work, `AllRetired`: once a presignature exists, the block it was made from is gone,
  or belongs to a later generation, or the worker that made it is still behind it in
  `store_presigning_data`. So nobody can publish it again. One lemma per action.
* `PoolRefinement` (`PoolRefinementProofs`): with `Serial`,
  `WholeSpec => ImplementsPool`. Publishing and signing map to the pool's steps, all
  else stutters; `AllRetired` shows that what is published was never spent.
* `AckIsFixed` (`AgreementProofs`): with `Serial`, `Spec => AckFixed`. The check that no
  ack is stored and the store are two steps; the invariant says that while a worker
  is between them the ack is `Zero` or the request has been cancelled.
* `EqualRVerifies` and `OneR` (`AgreementProofs`): with `Serial`,
  `Spec => []EqualRSignaturesVerify` and `Spec => []NonceInOneR`; stores may be abandoned
  here. A block of a player keeps its k and only gains answers, so two *versions* of it
  that left the player, in a delta or in a presignature, and have the same k are ordered by
  the answers subtracted in them. That is `BetasGrow`, and what it takes: a worker holds
  what is stored, unless the request was cancelled meanwhile (`HeldIsStored`), and nothing
  was ever made of a k that is still to be stored (`DrawnIsKnown`, `DrawsAnew`; this is
  what an id that is cancelled and started again needs). `PublishedFits` is what `calc_R`
  gives: a presignature was made from one answer of each player, to the k of the others in
  its R, and the delta it was checked with was sent. Two singletons, one of which contains
  the other, are equal: players that share one k of an R were answered, and answered, the
  same, and hence have the same R. Without `Serial` a worker that loaded a block before
  another one wrote it may write it back with fewer answers, which `BetasGrow` excludes.
* `SpentStaysGone` (`PoolRefinementProofs`): whatever implements the pool never offers
  what was spent, `ImplementsPool => []Pool!SpentIsGone`.
* `TypeCorrect` (`KeyRefreshProofs`), and `PresignaturesFit`: with `Serial`,
  `Spec => []SlotsFit`. `SlotsFit` says nothing of what waits for a commit;
  `SlotsFitInv` adds that a temporary share always waits together with an array that
  fits it (`WaitingFits`), that only one waits or is about to (`OneWaits`), and that
  the handler in progress works on the share the player has (`LoadedIsCurrent`,
  `OneRefresh`). An interrupted or cancelled refresh leaves an array without a share,
  which no commit can reach; the check of `ArrayMayWait` keeps the next refresh from
  pairing its share with it.
* `SpentOnce` and `PartialSignaturesFit` (`KeyRefreshProofs`): with `Serial` and `Quiet`,
  `Spec => []SingleUse` and `Spec => []SignaturesVerify`. `ApartInv` adds to `SlotsFitInv`
  that a thread that signs finds all players settled on the share it loaded
  (`SigningIsSettled`); that what signed is neither in the stored array nor in one that
  waits (`SpentIsGone`); that what signed is of one share and fits it (`UsesFit`); and that
  a player that has not signed what another one signed still has the share the other
  signed with, as all players have (`UsedByAll`). `refresh_reuse`
  shows that `Quiet` is needed.
* `RefreshRefinement` (`KeyRefreshProofs`): with `Serial` and `Quiet`, `Spec =>
  RefreshIsAtomic`. `AtomicInv` adds to the invariants above that a share that waits is the
  current one, refreshed once (`WaitsForCurrent`), and that an array that waits has its
  presignatures where the stored one has them (`WaitingOffersAll`), which holds since nobody
  signs while one waits (`SigningIsSettled`). So the commit appends one request to the share and
  leaves the offer as it is, and by `UsedByAll` all players have signed the same when it comes;
  a signature is made with the presignature `SlotsFit` says is in the slot.
* `TypeCorrect` (`EddsaOnlineProofs`), and `OpensOnlyAsCommitted`: with `Serial`,
  `Spec => []OpensAsCommitted`, for peers that send anything. `OpensInv` adds that the
  handler in progress works on the current life (`LoadedIsCurrent`), that stored
  commitments are those of the current life and a life without them was never bound
  (`CommitmentsOfLife`: this is where the delete of record and commitments in one
  step is needed), and that a life is for one message (`OneMessage`).
* `OneBlockOneChallenge`: with `Serial` and one block, `Spec => []OneChallenge`: a k
  names a life, a life has one set of commitments, and the answer is a function of
  these and of the message.

* `DoneLeavesNothing` (`EddsaOnlineProofs`): with `Serial`, `Spec => []NothingLeft`. The
  commitments go with their record; the entry of the timing map outlives it only while the
  handler that deleted the record is about to extract it (`TimingOfLife`).
* `TypeCorrect` (`OnlineSigningProofs`): a handler that answers with alphas has an ack,
  and one that verifies has alphas (`AlphasAnswerAck`), without which no delta and no s
  would have their type; and no response is numbered beyond the bound.
* `KSignsOnce` (`OnlineSigningProofs`): with `Serial`, `Spec => []OneSignature`.
  `SignatureInv` adds that the handler in progress holds the ack and the `done` flag that
  are stored (`LoadedIsCurrent`), that a stored ack is the one that was acknowledged in
  the life of the record, and one that is missing was never acknowledged in it
  (`AckOfLife`), and that before a record is done its k has signed nothing (`UseOfLife`).
* `SignaturesOfOneRFit` (`OnlineSigningProofs`): with `Serial`, `Spec => []SignaturesFit`.
  Players compare deltas, not s, so `FitInv` ties the two: a life has one delta
  (`DeltaOfLife`), which is that of its record (`DeltaOfRecord`, since alphas are added
  once); a handler that is about to sign has the products of that delta and found them in
  those of the others (`LoadedIsStored`); and so has every s that was returned (`UsesFit`).
* `KeySetupProofs`, with no assumption on the host beyond the model's one handler a player
  at a time: `TypeCorrect`; `ShareProvedOnce` (`SchnorrAnswersOnce`); `PlayersAgree`
  (`CreatedAgree`); `CopiedKeyIsTheOld` (`AddedKeyIsTheOld`); `SetupForgotten`
  (`TemporaryForgotten`). One invariant, `SetupInv`, gives three of them and most of
  `PlayersAgree`: what is stored is of
  the last life, and goes together (`StoredIsCurrent`); what a life proved is the seed of
  the commitments it stored, and what its key is from then on (`SeedOfLife`: since the
  commitments cannot be overwritten within a life, a repeat proves the same); and a key
  that is created was verified and has the factor proofs of all players, each of them
  made for the same seed (`CreatedIsVerified`), which is why two players agree that
  never compared their keys. That neither takes for a new key what the other takes for the
  copied one needs `SourceOfKey`: a key is a copied one exactly when the share of its life was
  received. The pieces then sum to the old key for both (`SumsToOld`) or for neither.
* `TypeCorrect` (`AsymmetricEddsaProofs`), and, for any number of threads and stops
  anywhere:
  * `EachKAnswersOnce`, `Spec => []NoncesAnswerOnce`. An index is in at most one place
    (`IndicesTaken`): the pool of a player, the hands of one thread (`Taken`: the blocks a
    handler has loaded so far), or the answers of the player. So the step that loads an index settles who answers with it, although
    the answer comes steps later.
  * `AnswersAreToOneSum`, `Spec => []AnswersAgree`. It needs to know the index of a life
    after its record is gone, which no variable keeps; `IndexOfLife` says that *there is* an
    assignment of indices to lives with which all records, handlers, bound commitments and
    answers agree, and each step extends the assignment or keeps it. A thread between
    the two loads of `broadcast_r` has Rs with the index of the record it loaded
    (`CallHolds`), whatever has become of that record. Then a sum has
    one index, the client answered one sum with it, and the servers answer what it did.
* With `Serial`, `NoCommitmentsLeft`: `Spec => []NothingLeft`. `RecordInv` says of every
  record and every handler what it has of the commitments of its life: the stored
  ones open the record's R, the sum of a record was bound, and nothing is left where a
  handler is about to delete or rewrite the record.
* With `Serial`, and no stop before `"fix"` or `"drop"` (`EndsCommitments`), `OpensBound`:
  `Spec => []OpensAsCommitted`. `BoundInv` says that a record with the own R has its
  commitments stored, or on their way out, or was never bound. That invariant fails
  at the very stops that are excluded, which section 3 shows to be a real loss.

Assumptions on the constants are `ConstantsAssumption` (finite players, at least one
block a request, natural bounds) and `AbsentAssumption` (the empty slot, or no record,
is not a presignature or record); modules that are instantiated say the same in
`ConstantsOK`, which their theorems assume and their runs evaluate in `TypeOK`
or, for instances, as an assumption (`InstancesOK`). `Serial`,
`WholeSpec` and `EndsCommitments` are assumptions on the host and on failures, and all
are needed: for `WholeSpec` the run `reuse` shows it; without `Serial` a second worker may hold a
block that the first one has published.

What proving changed: a commitment to R in `AsymmetricEddsa` did not cover the
index, which the code hashes (`commit_to_r`), and with it `AnswersAgree` had no proof,
nor, once two indices were checked, was it true; repeated sums (`Twice`) and an empty
set of indices were missing.

## 5. What is only model-checked, and what is not modelled

Every property of `algorithms` is checked on the instances above and not proved. What `services` checks of online
signing and setup through instances (`KAnswersOnce` and the last three properties) are
definitions of `OnlineSigning` and `KeySetup`,
which their theorems state of every instance. The liveness properties stay with TLC, as does
`ENABLED`. The algorithm modules use recursion over data (sums, products, iterated
doubling), which is out of reach of the prover; TLC compares them with their reference
definitions on bounded inputs. The inductive invariants of the proofs (`SingleUseInv`, `AgreementInv`,
`SlotsFitInv`, `ApartInv`, `OpensInv`, `SignatureInv`, `FitInv`, `SetupInv`, `SourceOfKey` and those of `AsymmetricEddsaProofs`)
are proved, which makes runs of them unnecessary.

Not in the models:

* failure probabilities of the cryptography, and that challenges are a hash of the whole
  statement: a challenge is a parameter, in the service models a proof verifies for what it
  was made about;
* serialization, except for sizes that refuse a proof; `ring_pedersen` parameters that a peer
  sends are accepted up to s = t = n by the deserialization, and in `Mta` and `RangeProofs` they are
  those of a generated key;
* `curve25519.c` and `keccak1600.c`: vendored field arithmetic and a permutation on bits, of
  which the group and an opaque hash stand in;
* logging, exceptions (a handler that ends), tenant and policy checks, `players_ids` checks (every
  request is for all players of the key), the `MOBILE` and `DEBUG` builds;
* key derivation inside the services (`GroupProtocols` has the algorithm), the positive-R loop,
  `ecdsa_offline_signature` (it changes no state; what it relies on is `EqualRSignaturesVerify`);
* presigning during a refresh, and refreshes by a part of the players;
* loads of what is not stored in `KeySetup`: they fail, while the persistency of the tests gives
  an empty value and keeps it. `generate_setup_proofs` with no decommitments, before any
  commitments are stored, then returns proofs for the seed 0, and the empty commitments that
  stay make `store_setup_commitments` refuse the id from then on;
* memory that runs out.

Arrays are created before the models begin: `create_preprocessed_data` does nothing on an
existing array of the same size. `security-agent/`, `docker/` and vendored tables are not part
of the library.

## 6. Plan

The services and the algorithms are modelled, and the safety properties of the services
are proved. What would say more:

1. A refinement like `AtomicRefresh` for presigning (`OfflinePresigning`): a request is one
   step that gives every player the same slots of its store.
2. Presigning during a refresh: `KeyRefresh` and `OfflinePresigning` over one store.

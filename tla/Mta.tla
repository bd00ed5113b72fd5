-------------------------------- MODULE Mta --------------------------------
(***************************************************************************)
(* mta.cpp: the multiplication of two secrets into two summands, the proof *)
(* that comes with an answer, and the two verifiers of it.  The keys are   *)
(* those of the player who asks (k: its Paillier key, ring: its parameters)*)
(* and of the one who answers (o).  q is the order of the group, as in     *)
(* RangeProofs; the challenge e and all randomness are parameters.         *)
(***************************************************************************)
EXTENDS RangeProofs, FiniteSetsExt

\* K: a request for the product with the secret a.  The answer carries the
\* encrypted a * x + beta, and beta encrypted to the answerer; rand: beta and
\* the randomness rho, rhoy of the two ciphertexts.  beta stays secret.
Answer(k, o, K, x, rand) ==
  [message |-> Add(k.n, Mul(k.n, K, x), EncryptInternal(k.n, rand.beta, rand.rho)),
   commitment |-> EncryptInternal(o.n, rand.beta, rand.rhoy)]

AnswerersShare(q, rand) == rand.beta % q

\* A mutant of DecryptResponse: no number is negative.
DecryptUnsigned(k, q, message) == DecryptInternal(k, message, 0).plain % q

\* What exceeds half of n is taken for a negative number.
DecryptResponse(k, q, message) ==
  LET alpha == DecryptInternal(k, message, 0).plain IN
  IF alpha > k.n \div 2 THEN (alpha - k.n) % q ELSE alpha % q

\* mta_range_generate_zkp.  nonce: alpha, beta, r, ry, gamma, delta, mu, nu.
Proof(ring, k, o, q, K, x, rand, nonce, e) ==
  [A |-> MulMod(EncryptInternal(k.n, nonce.beta, nonce.r),
                PowMod(K, nonce.alpha, k.n2), k.n2),
   Bx |-> nonce.alpha % q,
   By |-> EncryptInternal(o.n, nonce.beta, nonce.ry),
   E |-> RP!Commitment(ring, nonce.alpha, nonce.gamma),
   S |-> RP!Commitment(ring, x, nonce.mu),
   F |-> RP!Commitment(ring, nonce.beta, nonce.delta),
   T |-> RP!Commitment(ring, rand.beta, nonce.nu),
   z1 |-> e * x + nonce.alpha,
   z2 |-> e * rand.beta + nonce.beta,
   z3 |-> e * nonce.mu + nonce.gamma,
   z4 |-> e * nonce.nu + nonce.delta,
   w |-> MulMod(PowMod(rand.rho, e, k.n), nonce.r, k.n),
   wy |-> MulMod(PowMod(rand.rhoy, e, o.n), nonce.ry, o.n)]

-----------------------------------------------------------------------------
(* What both verifiers look at first.  bits: ell, eps and the BETA_HIDING_- *)
(* FACTOR; X: the point of the secret that was multiplied.                  *)

InRanges(proof, bits) ==
  /\ Bits(proof.z1) <= bits.ell + bits.eps
  /\ Bits(proof.z2) <= bits.factor * bits.ell + bits.eps

Units4(k, o, answer, proof) ==
  /\ Coprime(answer.message, k.n) /\ Coprime(proof.A, k.n)
  /\ Coprime(answer.commitment, o.n) /\ Coprime(proof.By, o.n)

\* g^z1 = Bx * X^e
SecretVerifies(q, X, proof, e) == proof.z1 % q = (X * e + proof.Bx) % q

First(k, o, q, bits, X, answer, proof, e) ==
  /\ InRanges(proof, bits)
  /\ SecretVerifies(q, X, proof, e)
  /\ Units4(k, o, answer, proof)

-----------------------------------------------------------------------------
(* single_response_verifier::process.                                       *)

\* K^z1 * Enc(z2; w) = A * D^e, for the asking and for the answering player;
\* the encryption refuses randomness that is not coprime to n.
SinglePaillier(k, o, K, answer, proof, e) ==
  /\ Coprime(proof.w, k.n)
  /\ MulMod(PowMod(K, proof.z1, k.n2), EncryptInternal(k.n, proof.z2, proof.w), k.n2)
       = MulMod(PowMod(answer.message, e, k.n2), proof.A, k.n2)
  /\ Coprime(proof.wy, o.n)
  /\ EncryptInternal(o.n, proof.z2, proof.wy)
       = MulMod(proof.By, PowMod(answer.commitment, e, o.n2), o.n2)

SinglePedersen(ring, proof, e) ==
  /\ RP!VerifyCommitment(ring, proof.z1, proof.z3,
       MulMod(PowMod(proof.S, e, ring.n), proof.E, ring.n))
  /\ RP!VerifyCommitment(ring, proof.z2, proof.z4,
       MulMod(PowMod(proof.T, e, ring.n), proof.F, ring.n))

SingleVerifies(ring, k, o, q, bits, item) ==
  /\ First(k, o, q, bits, item.X, item.answer, item.proof, item.e)
  /\ SinglePaillier(k, o, item.K, item.answer, item.proof, item.e)
  /\ SinglePedersen(ring, item.proof, item.e)

-----------------------------------------------------------------------------
(* batch_response_verifier.  items: what process is called with; for every  *)
(* item and round weights[i].mta, .commitment are random bytes, and         *)
(* weights[i].ring two of them: the mask of 40 bits is put on bytes.        *)

\* What w^n has to be: D^e * A * K^(-z1) * (1 + n)^(-z2).
MtaB(k, item) ==
  MulMod(MulMod(MulMod(PowMod(InvMod(item.K, k.n2), item.proof.z1, k.n2),
                       PowMod(item.answer.message, item.e, k.n2), k.n2),
                item.proof.A, k.n2),
         (k.n2 - k.n * item.proof.z2 + 1) % k.n2, k.n2)

\* A mutant of CommitmentB: without z2.
CommitmentBOnly(o, item) ==
  MulMod(PowMod(item.answer.commitment, item.e, o.n2), item.proof.By, o.n2)

CommitmentB(o, item) ==
  MulMod(MulMod(PowMod(item.answer.commitment, item.e, o.n2), item.proof.By, o.n2),
         (o.n2 - o.n * item.proof.z2 + 1) % o.n2, o.n2)

\* The products over the items, each to its weight.
Weighted(items, weight(_), base(_), m) ==
  FoldSet(LAMBDA i, b : MulMod(b, PowMod(base(items[i]), weight(i), m), m),
          1, DOMAIN items)

Sum(items, term(_)) == FoldSet(LAMBDA i, s : s + term(i), 0, DOMAIN items)

BatchPaillier(k, o, items, weights, round) ==
  LET mta(i) == weights[i].mta[round]
      commitment(i) == weights[i].commitment[round]
  IN
  /\ PowMod(Weighted(items, mta, LAMBDA it : it.proof.w, k.n2), k.n, k.n2)
       = Weighted(items, mta, LAMBDA it : MtaB(k, it), k.n2)
  /\ PowMod(Weighted(items, commitment, LAMBDA it : it.proof.wy, o.n2), o.n, o.n2)
       = Weighted(items, commitment, LAMBDA it : CommitmentB(o, it), o.n2)

BatchPedersen(ring, items, weights) ==
  LET g(i, j) == weights[i].ring[j]
      exponent(i) ==
        LET p == items[i].proof IN
        RP!Exponent(ring, p.z1, p.z3) * g(i, 1) + RP!Exponent(ring, p.z2, p.z4) * g(i, 2)
      Opens(C, D, gamma, e) ==
        MulMod(PowMod(D, gamma, ring.n), PowMod(C, (gamma * e) % ring.phi, ring.n), ring.n)
      product ==
        FoldSet(LAMBDA i, b :
                  MulMod(b, MulMod(Opens(items[i].proof.S, items[i].proof.E, g(i, 1), items[i].e),
                                   Opens(items[i].proof.T, items[i].proof.F, g(i, 2), items[i].e),
                                   ring.n), ring.n),
                1, DOMAIN items)
  IN PowMod(ring.t, Sum(items, exponent) % ring.phi, ring.n) = product

BatchResponsesVerify(ring, k, o, q, bits, items, weights, rounds) ==
  /\ \A i \in DOMAIN items :
       First(k, o, q, bits, items[i].X, items[i].answer, items[i].proof, items[i].e)
  /\ \A round \in 1..rounds : BatchPaillier(k, o, items, weights, round)
  /\ BatchPedersen(ring, items, weights)
=============================================================================

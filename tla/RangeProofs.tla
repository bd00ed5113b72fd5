---------------------------- MODULE RangeProofs ----------------------------
(***************************************************************************)
(* range_proofs.c: the encrypted exponent of a point, the same with a      *)
(* Diffie-Hellman commitment of the point, and the large factors of a      *)
(* Paillier modulus.  The group of the curve is the integers modulo its    *)
(* order q: a point is the multiple of the generator it is, and bytes that *)
(* encode none are NoPoint, which the operations on points refuse.  The    *)
(* challenge e, hashed from what the proof opens with, and the prover's    *)
(* randomness are parameters; bits[ell] and bits[eps] are the sizes of a   *)
(* scalar and of the slack, in bits.  Memory does not run out.             *)
(***************************************************************************)
EXTENDS Paillier

RP == INSTANCE RingPedersen

NoPoint == -1

-----------------------------------------------------------------------------
(* range_proof_exponent_zkpok: rand = [alpha, mu, r, gamma].                *)

\* n: the prover's Paillier modulus; ring: the verifier's parameters;
\* rho: the randomness of the ciphertext that encrypts the secret.
ExponentProof(ring, n, q, secret, rho, rand, e) ==
  [S |-> RP!Commitment(ring, secret, rand.mu),
   D |-> EncryptInternal(n, rand.alpha, rand.r),
   Y |-> rand.alpha % q,
   T |-> RP!Commitment(ring, rand.alpha, rand.gamma),
   z1 |-> e * secret + rand.alpha,
   z2 |-> MulMod(PowMod(rho, e, n), rand.r, n),
   z3 |-> e * rand.mu + rand.gamma]

\* What is refused before anything is computed from it.
AreUnits(n, c, proof) == Coprime(proof.D, n) /\ Coprime(c, n)

\* Encryption refuses a z2 that is no randomness.
Encrypts(n, proof) == Coprime(proof.z2, n)

BaseEquations(ring, n, c, proof, e) ==
  /\ EncryptInternal(n, proof.z1, proof.z2)
       = MulMod(PowMod(c, e, n * n), proof.D, n * n)
  /\ RP!Commitment(ring, proof.z1, proof.z3)
       = MulMod(PowMod(proof.S, e, ring.n), proof.T, ring.n)

\* The checks both proofs share, but for the range of z1.
BaseVerifies(ring, n, c, proof, e) ==
  AreUnits(n, c, proof) /\ Encrypts(n, proof) /\ BaseEquations(ring, n, c, proof, e)

\* A mutant of InRange: one bit less.
InNarrowRange(proof, bits) == Bits(proof.z1) < bits.ell + bits.eps

\* The range is checked on the length of z1.
InRange(proof, bits) == Bits(proof.z1) <= bits.ell + bits.eps

ArePoints(points) == NoPoint \notin points

\* z1 * G = e * X + Y
PointVerifies(q, X, proof, e) == proof.z1 % q = (X * e + proof.Y) % q

ExponentVerifies(ring, n, q, bits, X, c, proof, e) ==
  /\ InRange(proof, bits)
  /\ BaseVerifies(ring, n, c, proof, e)
  /\ ArePoints({X, proof.Y}) /\ PointVerifies(q, X, proof, e)

\* batch: a sequence of [X, c, proof, e].  An item whose points are compared
\* sets the status, and the loop goes on if they differ.  One that fails a
\* check ends it with a status of its own; one of which something cannot be
\* computed ends it with the status of the item before, if there is one.  So
\* the batch verifies when the item compared last does, and what follows it
\* is nothing, or an item that cannot be computed and whatever is behind it.
BatchVerifies(ring, n, q, bits, batch) ==
  LET Begins(it) == InRange(it.proof, bits) /\ AreUnits(n, it.c, it.proof)
      Equal(it) == BaseEquations(ring, n, it.c, it.proof, it.e)
      Points(it) == ArePoints({it.X, it.proof.Y})
      Compared(it) == Begins(it) /\ Encrypts(n, it.proof) /\ Equal(it) /\ Points(it)
      Stuck(it) ==
        Begins(it) /\ (~Encrypts(n, it.proof) \/ (Equal(it) /\ ~Points(it)))
  IN \E last \in DOMAIN batch :
       /\ \A i \in 1..last : Compared(batch[i])
       /\ PointVerifies(q, batch[last].X, batch[last].proof, batch[last].e)
       /\ last < Len(batch) => Stuck(batch[last + 1])

-----------------------------------------------------------------------------
(* range_proof_diffie_hellman_zkpok: the point is g^(a * b + secret).       *)

\* rand has beta as well; Y is that of the base, Z the one of the extension.
DiffieHellmanProof(ring, n, q, secret, a, b, rho, rand, e) ==
  [base |-> [ExponentProof(ring, n, q, secret, rho, rand, e)
               EXCEPT !.Y = rand.beta % q],
   Z |-> (a * rand.beta + rand.alpha) % q,
   w |-> (b * e + rand.beta) % q]

\* The range is checked on the value of z1, its bound included.
DiffieHellmanVerifies(ring, n, q, bits, A, B, X, c, proof, e) ==
  /\ proof.base.z1 <= 2 ^ (bits.ell + bits.eps)
  /\ BaseVerifies(ring, n, c, proof.base, e)
  /\ ArePoints({A, B, X, proof.base.Y, proof.Z})
  /\ (A * proof.w + proof.base.z1) % q = (X * e + proof.Z) % q
  /\ (B * e + proof.base.Y) % q = proof.w % q

-----------------------------------------------------------------------------
(* range_proof_paillier_large_factors_zkp.                                  *)

\* bits: ell, eps, and n and ring for the lengths of the two moduli.
Sizes(bits) ==
  [lambda |-> bits.ell + bits.ring + bits.n,
   z |-> bits.ell + bits.eps + bits.n \div 2,
   w |-> bits.ell + bits.eps + bits.ring,
   v |-> bits.ell + bits.eps + bits.ring + bits.n]

\* BN_bn2binpad writes the absolute value.
Written(i) == IF i < 0 THEN -i ELSE i

\* rand: alpha, beta, mu, sigma, lambda, r, x, y.
LargeFactorsProof(ring, key, rand, e) ==
  LET Q == RP!Commitment(ring, key.q, rand.sigma) IN
  [P |-> RP!Commitment(ring, key.p, rand.mu),
   Q |-> Q,
   A |-> RP!Commitment(ring, rand.alpha, rand.x),
   B |-> RP!Commitment(ring, rand.beta, rand.y),
   T |-> MulMod(PowMod(Q, rand.alpha, ring.n), PowMod(ring.t, rand.r, ring.n), ring.n),
   lambda |-> rand.lambda,
   z1 |-> e * key.p + rand.alpha,
   z2 |-> e * key.q + rand.beta,
   w1 |-> e * rand.mu + rand.x,
   w2 |-> e * rand.sigma + rand.y,
   v |-> Written(e * (rand.lambda - rand.sigma * key.p) + rand.r)]

\* A number that does not fit its field makes the prover fail.
Serializable(proof, bits) ==
  /\ Bits(proof.lambda) <= Sizes(bits).lambda
  /\ Bits(proof.z1) <= Sizes(bits).z /\ Bits(proof.z2) <= Sizes(bits).z
  /\ Bits(proof.w1) <= Sizes(bits).w /\ Bits(proof.w2) <= Sizes(bits).w
  /\ Bits(proof.v) <= Sizes(bits).v

LargeFactorsVerify(ring, n, bits, proof, e) ==
  LET R == RP!Commitment(ring, n, proof.lambda)
      Opens(C, D) == MulMod(PowMod(C, e, ring.n), D, ring.n)
  IN
  /\ RP!Commitment(ring, proof.z1, proof.w1) = Opens(proof.P, proof.A)
  /\ RP!Commitment(ring, proof.z2, proof.w2) = Opens(proof.Q, proof.B)
  /\ MulMod(PowMod(proof.Q, proof.z1, ring.n), PowMod(ring.t, proof.v, ring.n), ring.n)
       = Opens(R, proof.T)
  /\ Bits(proof.z1) <= Sizes(bits).z /\ Bits(proof.z2) <= Sizes(bits).z
=============================================================================

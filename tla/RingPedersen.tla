---------------------------- MODULE RingPedersen ----------------------------
(***************************************************************************)
(* ring_pedersen.c: commitments s^x * t^r mod n, which the owner of the    *)
(* parameters opens with the trapdoor lamda and phi(n), alone or in a      *)
(* batch, and the proof that s is a power of t.                            *)
(***************************************************************************)
EXTENDS ModularArithmetic, Sequences, FiniteSetsExt

\* p and q: the safe primes; lamda < phi and r, coprime to n, are random.
KeyPair(p, q, lamda, r) ==
  LET n == p * q
      t == MulMod(r, r, n)
  IN [n |-> n, t |-> t, s |-> PowMod(t, lamda, n),
      lamda |-> lamda, phi |-> n - p - q + 1]

Commitment(key, x, r) ==
  MulMod(PowMod(key.s, x, key.n), PowMod(key.t, r, key.n), key.n)

\* A mutant of Exponent: reduced by the modulus.
ExponentModN(key, x, r) == (MulMod(key.lamda, x, key.n) + r) % key.n

\* t^(lamda * x + r): one exponentiation, with an exponent below phi.
Exponent(key, x, r) == (MulMod(key.lamda, x, key.phi) + r) % key.phi

VerifyCommitment(key, x, r, commitment) ==
  PowMod(key.t, Exponent(key, x, r), key.n) = commitment

\* opened: a sequence of [x, r, c]; gamma: the random weights.
VerifyBatch(key, opened, gamma) ==
  LET exponent == FoldSet(LAMBDA i, e : e + gamma[i] * Exponent(key, opened[i].x, opened[i].r),
                          0, DOMAIN opened)
      product == FoldSet(LAMBDA i, b : MulMod(b, PowMod(opened[i].c, gamma[i], key.n), key.n),
                         1, DOMAIN opened)
  IN PowMod(key.t, exponent % key.phi, key.n) = product

\* zs: random numbers below phi; es: the challenge, one bit for each of them.
ParametersProof(key, zs, es) ==
  [A |-> [i \in DOMAIN zs |-> PowMod(key.t, zs[i], key.n)],
   z |-> [i \in DOMAIN zs |->
            IF es[i] = 1 THEN (zs[i] + key.lamda) % key.phi ELSE zs[i]]]

ParametersVerify(key, proof, es) ==
  /\ ~Prime(key.n)
  /\ Coprime(key.n, key.t)
  /\ \A i \in DOMAIN es :
       PowMod(key.t, proof.z[i], key.n)
         = IF es[i] = 1 THEN MulMod(proof.A[i], key.s, key.n) ELSE proof.A[i]
=============================================================================

------------------------------ MODULE Paillier ------------------------------
(***************************************************************************)
(* paillier.c and paillier_zkp.c: the keys, the ciphertexts and what is    *)
(* computed on them, and the three proofs a player gives about its key.    *)
(* Numbers are small; what a hash yields (the challenge e, the numbers y   *)
(* that deterministic_rand unfolds a seed to) is a parameter that prover   *)
(* and verifier share, because they hash the same data.                    *)
(***************************************************************************)
EXTENDS ModularArithmetic, Sequences

Success == 0
Failed == -1      \* any of the PAILLIER_ERROR_ codes

-----------------------------------------------------------------------------
(* Keys.                                                                    *)

Lambda(p, q) == p * q - p - q + 1

\* The generation loop ends with such primes.  When the lengths differ, its
\* `continue` evaluates the condition for the n and lambda of an earlier
\* round, which did not fulfil it.
GeneratedKeys(bits) ==
  {k \in (2 ^ (bits \div 2 - 1) .. 2 ^ (bits \div 2) - 1)
       \X (2 ^ (bits \div 2 - 1) .. 2 ^ (bits \div 2) - 1) :
     /\ k[1] % 8 = 3 /\ k[2] % 8 = 7
     /\ Prime(k[1]) /\ Prime(k[2])
     /\ Coprime(Lambda(k[1], k[2]), k[1] * k[2])}

\* The private key, as paillier_private_key_deserialize rebuilds it from p, q.
PrivateKey(p, q) ==
  [p |-> p, q |-> q, n |-> p * q, n2 |-> (p * q) * (p * q),
   lambda |-> Lambda(p, q), mu |-> InvMod(Lambda(p, q), p * q)]

-----------------------------------------------------------------------------
(* Ciphertexts.                                                             *)

\* g = n + 1: the ciphertext is (1 + n * m) * r^n mod n^2.
EncryptInternal(n, m, r) == MulMod(1 + n * m, PowMod(r, n, n * n), n * n)

\* Randomness that is not coprime to n is drawn again.
Ciphertexts(n, m) == {EncryptInternal(n, m, r) : r \in Units(n)}

L(x, n) == (x - 1) \div n

\* The cleanup of paillier_decrypt_openssl_internal replaces the result by
\* what OpenSSL's error queue holds, and by success when it is empty; the
\* plaintext of a ciphertext that is not coprime to n stays 0.
DecryptInternal(key, c, queued) ==
  [ret |-> -queued,
   plain |-> IF Coprime(c, key.n)
             THEN MulMod(L(PowMod(c, key.lambda, key.n2), key.n), key.mu, key.n)
             ELSE 0]

\* A plaintext of no bytes is an error: 0 cannot be decrypted.
Decrypt(key, c) ==
  LET d == DecryptInternal(key, c, 0) IN
  IF c >= key.n2 \/ d.ret # Success \/ d.plain = 0
  THEN [ret |-> Failed, plain |-> 0]
  ELSE d

\* word: what fits into a uint64_t.
DecryptInteger(key, c, word) ==
  LET d == DecryptInternal(key, c, 0) IN
  IF c >= key.n2 \/ d.ret # Success \/ d.plain > word
  THEN [ret |-> Failed, plain |-> 0]
  ELSE d

\* a + b, a - b and a * b, for ciphertexts coprime to n; the _integer
\* functions encrypt b first.
Add(n, a, b) == MulMod(a, b, n * n)
\* A mutant of Sub: the inverse modulo n.
SubModN(n, a, b) == MulMod(a, InvMod(b, n), n * n)
Sub(n, a, b) == MulMod(a, InvMod(b, n * n), n * n)
Mul(n, a, b) == PowMod(a, b, n * n)

-----------------------------------------------------------------------------
(* Proof of knowledge of the factorization.  zs: the bases.                 *)

\* y is not reduced by the order of the group but by n / 2.
FactorizationProof(key, zs, e, r) ==
  LET A == key.n \div 2 IN
  [x |-> [i \in DOMAIN zs |-> PowMod(zs[i], r, key.n)],
   y |-> ((key.n - key.lambda) * e + r) % A]

FactorizationVerifies(n, zs, e, proof) ==
  /\ 2 * proof.y + 1 < n
  /\ \A i \in DOMAIN zs :
       LET z == PowMod(zs[i], n * e - proof.y, n) IN
       Coprime(z, n) /\ InvMod(z, n) = proof.x[i]

-----------------------------------------------------------------------------
(* Proof that n and phi(n) are coprime.  xs: the challenges, coprime to n.  *)

\* The product of the primes under 2^16, of those under `bound` here.
RECURSIVE Product(_)
Product(S) ==
  IF S = {} THEN 1 ELSE LET x == CHOOSE x \in S : TRUE IN x * Product(S \ {x})
Alpha(bound) == Product({p \in 2..(bound - 1) : Prime(p)})

CoprimeProof(key, xs) ==
  [i \in DOMAIN xs |-> PowMod(xs[i], InvMod(key.n, key.lambda), key.n)]

CoprimeVerifies(n, xs, ys, bound) ==
  /\ ~Prime(n)
  /\ Coprime(Alpha(bound), n)
  /\ \A i \in DOMAIN xs : PowMod(ys[i], n, n) = xs[i] % n

-----------------------------------------------------------------------------
(* Proof that n is a Paillier-Blum modulus.                                 *)

\* A mutant of Root4: square roots.
Root2(a, p) == PowMod(a, (p + 1) \div 4, p)

\* The exponent ((p + 1) / 4)^2 takes fourth roots modulo p, up to the sign.
Root4(a, p) == PowMod(a, MulMod((p + 1) \div 4, (p + 1) \div 4, p - 1), p)

\* From residues modulo p and q to one modulo n.
CRT(key, a, b) ==
  (MulMod(MulMod(InvMod(key.q, key.p), key.q, key.n), a, key.n)
     + MulMod(MulMod(InvMod(key.p, key.q), key.p, key.n), b, key.n)) % key.n

\* ys: the challenges; signs[i]: which of the four roots, two random bits.
\* w = 2^n is a square modulo q and none modulo p.
BlumProof(key, ys, signs) ==
  LET n == key.n
      w == PowMod(2, n, n)
      correction == CRT(key, (-Root4(w, key.p)) % key.p, Root4(w, key.q))
      NonResidue(y, p) == PowMod(Root4(y % p, p), 4, p) # y % p
      b(y) == NonResidue(y, key.q) # NonResidue(y, key.p)
      x(y, s) ==
        CRT(key, (IF s \in {2, 3} THEN -1 ELSE 1) * Root4(y % key.p, key.p) % key.p,
                 (IF s \in {1, 3} THEN -1 ELSE 1) * Root4(y % key.q, key.q) % key.q)
  IN
  [w |-> w,
   z |-> [i \in DOMAIN ys |-> PowMod(ys[i], InvMod(n, key.lambda), n)],
   a |-> [i \in DOMAIN ys |-> NonResidue(ys[i], key.q)],
   b |-> [i \in DOMAIN ys |-> b(ys[i])],
   x |-> [i \in DOMAIN ys |->
            IF b(ys[i]) THEN MulMod(x(ys[i], signs[i]), correction, n)
            ELSE x(ys[i], signs[i])]]

\* A mutant of BlumAnswer: the factor w is forgotten.
AnswerWithoutW(n, w, y, a, b, x) == PowMod(x, 4, n) = IF a THEN n - y ELSE y

\* x^4 = (-1)^a * w^b * y
BlumAnswer(n, w, y, a, b, x) ==
  LET wy == IF b THEN MulMod(w, y, n) ELSE y IN
  PowMod(x, 4, n) = IF a THEN n - wy ELSE wy

\* The first `minimal` of the challenges are looked at, and the first z.
BlumVerifies(n, ys, proof, minimal) ==
  /\ n % 2 = 1 /\ (n \div 2) % 2 = 0
  /\ ~Prime(n)
  /\ Coprime(proof.w, n)
  /\ PowMod(proof.z[1], n, n) = ys[1] /\ ys[1] \notin {1, n - 1}
  /\ \A i \in 1..minimal :
       /\ Coprime(ys[i], n)
       /\ BlumAnswer(n, proof.w, ys[i], proof.a[i], proof.b[i], proof.x[i])
=============================================================================

---------------------------- MODULE MCAlgorithms ----------------------------
(***************************************************************************)
(* The algorithms on small numbers for TLC.  A behaviour picks one input   *)
(* and stops; the property of its kind compares what the code computes     *)
(* from it with a definition that does without the code's shortcuts.       *)
(***************************************************************************)
EXTENDS Mta

VARIABLE input
vars == <<input>>

\* The curve y^2 = x^3 + 14 modulo 19 has the prime order 13, and points
\* whose x is 13 or more; its order is below a power of two by 3.
EC == INSTANCE EllipticCurve WITH
  FieldP <- 19, CurveA <- 0, CurveB <- 14, Order <- 13, Generator <- <<5, 5>>,
  WordCount <- 3, WordBits <- 2, KeptBits <- 4
ED == INSTANCE Ed25519 WITH Order <- 19, High <- 4, Middle <- 2, TopBits <- 7

Tweak(chain, data, child, width) ==
  [left |-> (5 * chain + 3 * data[1] + 11 * child.index) % width,
   right |-> (chain + data[1] + child.index) % 3]

\* Any function will do for the HMAC; left exceeds both orders at times.
ECHash(chain, data, child) ==
  Tweak(chain, IF data[1] = 0 THEN <<data[2]>> ELSE <<data[2][1] + data[2][2]>>, child, 64)
EDHash(chain, data, child) == Tweak(chain, <<data[2]>>, child, 128)

ECP == INSTANCE GroupProtocols WITH
  Order <- 13, NoPoint <- EC!NoPoint, generator_mul <- EC!generator_mul_data,
  add_points <- EC!add_points, point_mul <- EC!point_mul,
  verify_linear_combination <- EC!verify_linear_combination, Hash <- ECHash
EDP == INSTANCE GroupProtocols WITH
  Order <- 19, NoPoint <- ED!NoPoint, generator_mul <- ED!generator_mul_data,
  add_points <- ED!add_points, point_mul <- ED!point_mul,
  verify_linear_combination <- ED!verify_linear_combination, Hash <- EDHash
ST == INSTANCE Streams WITH BlockSize <- 4

-----------------------------------------------------------------------------
(* Keys and parameters.                                                     *)

Keys == {PrivateKey(k[1], k[2]) : k \in GeneratedKeys(10)}
KeyA == PrivateKey(19, 23)
KeyB == PrivateKey(19, 31)
Ring == RP!KeyPair(7, 11, 17, 5)     \* n = 77, phi = 60
q == 5                               \* the order, where a point is a number
Size == [ell |-> 3, eps |-> 3, n |-> 9, ring |-> 7, factor |-> 2]

Edges(n) == {0, 1, 2, n \div 2, n \div 2 + 1, n - 1}
Some == {2, 3, 100}                  \* randomness, coprime to both n

-----------------------------------------------------------------------------
(* The inputs.                                                              *)

PaillierInput ==
  \E k \in Keys : \E a, b \in Edges(k.n), r, s \in Some :
    input' = [kind |-> "paillier", key |-> k, a |-> a, b |-> b, r |-> r, s |-> s]

CiphertextInput ==
  \E k \in Keys : \E c \in {1, k.p, 3 * k.q, k.n, k.n + 1, k.p * k.p, k.n2 - 1, k.n2, k.n2 + 1} :
    input' = [kind |-> "ciphertext", key |-> k, c |-> c]

Moduli == {n \in 9..57 : n % 2 = 1 /\ ~Prime(n)} \cup {69, 77}
ModulusInput == \E n \in Moduli : input' = [kind |-> "modulus", n |-> n]

KeyProofInput ==
  \E k \in Keys, z \in {2, 38, 101}, e \in 1..6, r \in {0, 50, 150}, sign \in 0..3 :
    input' = [kind |-> "keyproof", key |-> k, z |-> z, e |-> e, r |-> r, sign |-> sign]

CommitmentInput ==
  \E x, y \in {0, 1, 16, 59, 61, 400}, r, wrong \in {0, 7, 60} :
    input' = [kind |-> "commitment", x |-> x, y |-> y, r |-> r, wrong |-> wrong]

RangeInput ==
  \E secret \in 0..4, X \in 0..4, alpha \in {0, 1, 30, 47, 48, 60, 61, 63}, e \in 0..4 :
    input' = [kind |-> "range", secret |-> secret, X |-> X, alpha |-> alpha, e |-> e]

FactorsInput ==
  \E alpha \in {100, 947, 948, 1023}, lambda \in {0, 3000, 2 ^ 19 - 1, 2 ^ 19},
     sigma \in {0, 3, 2045, 2046}, r \in {0, 5, 2 ^ 22 - 1}, e \in 0..4 :
    input' = [kind |-> "factors", alpha |-> alpha, lambda |-> lambda, sigma |-> sigma,
              r |-> r, e |-> e]

\* wrong: what is changed in the answer or its proof.
Wrongs == {"none", "message", "commitment", "z1", "z3", "z4", "w", "wy", "X"}
MtaInput ==
  \E a, x \in {0, 1, 7}, beta \in {0, 1, 30, 200}, e \in {0, 1, 4}, wrong \in Wrongs :
    input' = [kind |-> "mta", a |-> a, x |-> x, beta |-> beta, e |-> e, wrong |-> wrong]

Scalars == 0..63
ScalarInput == \E a \in Scalars, b \in {0, 1, 5, 12, 13, 14, 26, 40, 63} : input' = [kind |-> "scalar", a |-> a, b |-> b]

SignatureInput ==
  \E k, private \in 1..12, m \in {0, 1, 6, 12, 13, 15} :
    input' = [kind |-> "signature", k |-> k, private |-> private, m |-> m]

LogInput ==
  \E secret, k \in {0, 1, 5, 12}, c \in {0, 1, 9, 13, 40, 63}, other \in 0..3 :
    input' = [kind |-> "log", secret |-> secret, k |-> k, c |-> c, other |-> other]

SharingInput ==
  \E t \in 1..3, ids \in {<<1, 2, 3>>, <<5, 2, 12>>, <<4, 4, 1>>, <<0, 1, 2>>, <<7, 9>>} :
    \E polynom \in {f \in ECP!Polynoms(t) : t = 3 => f[2] \in {1, 12} /\ f[3] < 4} :
      input' = [kind |-> "sharing", polynom |-> polynom, ids |-> ids]

Children == [index : 0..2, hardened : BOOLEAN]
DerivationInput ==
  \E private \in 0..12, chain \in 0..2, path \in UNION {[1..l -> Children] : l \in 0..2} :
    input' = [kind |-> "derivation", private |-> private, chain |-> chain, path |-> path]

StreamInput ==
  \E a, b, c \in 0..6 :
    input' = [kind |-> "stream", reads |-> SelectSeq(<<a, b, c>>, LAMBDA l : l > 0)]

Pick ==
  \/ PaillierInput \/ CiphertextInput \/ ModulusInput \/ KeyProofInput \/ CommitmentInput
  \/ RangeInput \/ FactorsInput \/ MtaInput
  \/ ScalarInput \/ SignatureInput \/ LogInput
  \/ SharingInput \/ DerivationInput \/ StreamInput

None == [kind |-> "none"]
Init == input = None
Next == input = None /\ Pick
Spec == Init /\ [][Next]_vars

-----------------------------------------------------------------------------
(* Paillier and ring Pedersen.                                              *)

\* Decrypting what was added, subtracted and multiplied gives the sum, the
\* difference and the product modulo n, at 0 and at n - 1 too; decryption
\* to bytes fails for 0, and to a word for what is larger than the word.
PaillierArithmetic ==
  input.kind = "paillier" =>
    LET k == input.key
        A == EncryptInternal(k.n, input.a, input.r)
        B == EncryptInternal(k.n, input.b, input.s)
        Yields(c, value) ==
          /\ DecryptInternal(k, c, 0) = [ret |-> Success, plain |-> value]
          /\ (Decrypt(k, c).ret = Success) = (value # 0)
          /\ (DecryptInteger(k, c, 200).ret = Success) = (value <= 200)
    IN
    /\ Yields(Add(k.n, A, B), (input.a + input.b) % k.n)
    /\ Yields(Sub(k.n, A, B), (input.a - input.b) % k.n)
    /\ Yields(Mul(k.n, A, input.b), (input.a * input.b) % k.n)

\* Only a ciphertext that is coprime to n can be decrypted, as the comment in
\* paillier_decrypt_openssl_internal says.  It does not hold: a cleanup that
\* tests for the wrong value returns success with the plaintext 0.
OnlyCoprimeDecrypts ==
  input.kind = "ciphertext" =>
    (DecryptInteger(input.key, input.c, 200).ret = Success => Coprime(input.c, input.key.n))

Phi(n) == Cardinality(Units(n))

\* The two proofs about a modulus together can be answered for every
\* challenge exactly when it is the product of two primes that are 3 modulo
\* 4 and it is coprime to phi(n): those are the keys that are generated.
OnlyGoodModuli ==
  input.kind = "modulus" =>
    LET n == input.n
        Good == \E p, r \in {d \in 3..(n \div 3) : Prime(d) /\ d % 4 = 3} :
                  n = p * r /\ p # r /\ Coprime(n, Phi(n))
        Root(y) == {z \in 0..(n - 1) : PowMod(z, n, n) = y}
        Answers(w, y) ==
          \E z \in Root(y), a, b \in BOOLEAN, x \in 1..(n - 1) :
            BlumVerifies(n, <<y>>, [w |-> w, z |-> <<z>>, a |-> <<a>>,
                                    b |-> <<b>>, x |-> <<x>>], 1)
    IN
    /\ (\A x \in Units(n) : \E y \in 1..(n - 1) : CoprimeVerifies(n, <<x>>, <<y>>, 3))
         = Coprime(n, Phi(n))
    /\ (\E w \in Units(n) : \A y \in Units(n) \ {1, n - 1} : Answers(w, y)) = Good

\* Honest proofs about a key verify, whichever root is given, with the one
\* exception that the code does not rule out: a response that wraps at half
\* of n.  A base or a challenge that shares a factor with n is refused.
KeyProofs ==
  input.kind = "keyproof" =>
    LET k == input.key
        z == input.z
        unit == Coprime(z, k.n)
        wraps == (k.n - k.lambda) * input.e + input.r >= k.n \div 2
        verifies == FactorizationVerifies(k.n, <<z, 2>>, input.e,
                      FactorizationProof(k, <<z, 2>>, input.e, input.r))
    IN
    /\ unit /\ ~wraps => verifies
    /\ ~unit => ~verifies
    /\ unit => /\ CoprimeVerifies(k.n, <<z>>, CoprimeProof(k, <<z>>), 16)
               /\ BlumVerifies(k.n, <<z, 2>>, BlumProof(k, <<z, 2>>, <<input.sign, 0>>), 2)

\* The trapdoor opens a commitment exactly as the two exponentiations do,
\* alone and in a batch (of which some weights refuse what one opening
\* refuses); the proof of the parameters binds s.
CommitmentsOpen ==
  input.kind = "commitment" =>
    LET C(x, r) == RP!Commitment(Ring, x, r)
        c == (C(input.x, input.r) + input.wrong) % Ring.n
        right == c = C(input.x, input.r)
        opened == <<[x |-> input.x, r |-> input.r, c |-> c],
                    [x |-> input.y, r |-> 9, c |-> C(input.y, 9)]>>
        claimed == [Ring EXCEPT !.s = (@ + input.wrong) % Ring.n]
        zs == <<input.x % Ring.phi, input.y % Ring.phi>>
    IN
    /\ RP!VerifyCommitment(Ring, input.x, input.r, c) = right
    /\ (\A gamma \in [1..2 -> 1..3] : RP!VerifyBatch(Ring, opened, gamma)) = right
    /\ \A es \in [1..2 -> {0, 1}] :
         RP!ParametersVerify(claimed, RP!ParametersProof(Ring, zs, es), es)
           = (input.wrong = 0 \/ es = <<0, 0>>)
-----------------------------------------------------------------------------
(* The range proofs and the answers to a request for a product.             *)

\* An honest proof about an encrypted number verifies exactly when its
\* response fits its range, and one about another point only when the
\* challenge hides the difference.  Nothing verifies with a z2 that shares a
\* factor with n (19 does) or with bytes that are no point.  Of a batch the
\* point counts that was compared last, and what stands behind an item that
\* cannot be computed is not looked at.
EncryptedNumberVerifies(in) ==
  LET rand == [alpha |-> in.alpha, mu |-> 5, r |-> 3, gamma |-> 7, beta |-> 2]
      c == EncryptInternal(KeyA.n, in.secret, 2)
      e == in.e
      proof == ExponentProof(Ring, KeyA.n, q, in.secret, 2, rand, e)
      dh == DiffieHellmanProof(Ring, KeyA.n, q, in.secret, 2, 3, 2, rand, e)
      hidden == (e * (in.X - in.secret)) % q = 0
      z1 == e * in.secret + in.alpha
      item == [X |-> in.X, c |-> c, proof |-> proof, e |-> e]
      uncomputable == {[item EXCEPT !.proof.z2 = KeyA.p], [item EXCEPT !.proof.Y = NoPoint],
                       [item EXCEPT !.X = NoPoint]}
      Other(X) == [X |-> X, c |-> EncryptInternal(KeyA.n, 1, 2), e |-> 2,
                   proof |-> ExponentProof(Ring, KeyA.n, q, 1, 2, [rand EXCEPT !.alpha = 9], 2)]
      Verifies(i) == ExponentVerifies(Ring, KeyA.n, q, Size, i.X, i.c, i.proof, i.e)
      Batch(items) == BatchVerifies(Ring, KeyA.n, q, Size, items)
      DHVerifies(B, X, p) == DiffieHellmanVerifies(Ring, KeyA.n, q, Size, 2, B, X, c, p, e)
      DHPoint == (2 * 3 + in.X) % q
  IN
  /\ Verifies(item) = (z1 <= 63 /\ hidden)
  /\ DHVerifies(3, DHPoint, dh) = (z1 <= 64 /\ hidden)
  /\ ~DHVerifies(NoPoint, DHPoint, dh) /\ ~DHVerifies(3, NoPoint, dh)
  /\ ~DHVerifies(3, DHPoint, [dh EXCEPT !.base.z2 = KeyA.p])
  /\ Batch(<<item>>) = Verifies(item)
  /\ \A X \in {1, 2} : Batch(<<Other(X), item>>) = Verifies(item)
  /\ Batch(<<item, Other(1)>>) = (z1 <= 63)
  /\ \A bad \in uncomputable :
       /\ ~Verifies(bad) /\ ~Batch(<<bad>>) /\ ~Batch(<<bad, Other(1)>>)
       /\ ~Batch(<<Other(1), Other(2), bad>>)
       /\ \A X, Y \in {1, 2} :
            \A behind \in {<<>>, <<Other(Y)>>, <<[Other(Y) EXCEPT !.proof.z1 = 64]>>} :
              Batch(<<Other(X), bad>> \o behind) = (X = 1 /\ z1 <= 63)

\* A proof of the large factors holds when v is not negative or its sign does
\* not show (the verifier sees the absolute value), and z1 and z2 fit their
\* field.  The prover fails when any of the six numbers does not fit its own.
FactorsVerify(in) ==
  LET rand == [alpha |-> in.alpha, beta |-> 50, mu |-> 3, x |-> 7, y |-> 11,
               lambda |-> in.lambda, sigma |-> in.sigma, r |-> in.r]
      proof == LargeFactorsProof(Ring, KeyA, rand, in.e)
      v == in.e * (in.lambda - in.sigma * KeyA.p) + in.r
      fits == in.e * KeyA.p + in.alpha <= 1023 /\ in.e * KeyA.q + 50 <= 1023
  IN
  /\ Serializable(proof, Size)
       = (/\ fits /\ in.lambda < 2 ^ 19
          /\ in.e * 3 + 7 < 2 ^ 13 /\ in.e * in.sigma + 11 < 2 ^ 13
          /\ -(2 ^ 22) < v /\ v < 2 ^ 22)
  /\ LargeFactorsVerify(Ring, KeyA.n, Size, proof, in.e)
       = (fits /\ (v >= 0 \/ PowMod(Ring.t, -2 * v, Ring.n) = 1))

\* The three range proofs verify for honest provers, up to the borders of
\* the ranges and no further.
RangeProofsVerify ==
  /\ input.kind = "range" => EncryptedNumberVerifies(input)
  /\ input.kind = "factors" => FactorsVerify(input)

\* Who asked and who answered hold summands of the product exactly when the
\* encrypted sum stays below half of n.
MtaSharesAddUp ==
  input.kind = "mta" =>
    LET rand == [beta |-> input.beta, rho |-> 2, rhoy |-> 3]
        K == EncryptInternal(KeyA.n, input.a, 5)
        message == Answer(KeyA, KeyB, K, input.x, rand).message
    IN ((DecryptResponse(KeyA, q, message) - AnswerersShare(q, rand)) % q
          = (input.a * input.x) % q)
         = (input.a * input.x + input.beta <= KeyA.n \div 2)

\* The answer with its proof, and one of its parts changed.
Changed ==
  LET rand == [beta |-> input.beta, rho |-> 2, rhoy |-> 3]
      nonce == [alpha |-> 20, beta |-> 10, r |-> 5, ry |-> 7,
                gamma |-> 8, delta |-> 4, mu |-> 6, nu |-> 9]
      K == EncryptInternal(KeyA.n, input.a, 5)
      answer == Answer(KeyA, KeyB, K, input.x, rand)
      proof == Proof(Ring, KeyA, KeyB, q, K, input.x, rand, nonce, input.e)
      If(part, to, value) == IF input.wrong = part THEN to ELSE value
  IN
  [K |-> K, X |-> If("X", input.x + 1, input.x) % q, e |-> input.e,
   answer |-> [message |-> If("message", MulMod(answer.message, KeyA.n + 1, KeyA.n2),
                                         answer.message),
               commitment |-> If("commitment", MulMod(answer.commitment, KeyB.n + 1, KeyB.n2),
                                               answer.commitment)],
   proof |-> [proof EXCEPT !.z1 = If("z1", @ + q, @), !.z3 = If("z3", @ + 1, @),
                           !.z4 = If("z4", @ + 1, @), !.w = If("w", 2 * @, @),
                           !.wy = If("wy", 2 * @, @)]]

Weights(g, h) == [mta |-> <<g>>, commitment |-> <<h>>, ring |-> <<g, h>>]

\* The verifier of single answers and the one of batches accept the same
\* answers: what the one accepts the other accepts whatever its weights are,
\* what it refuses some weights refuse.  Both accept exactly the unchanged
\* answers whose responses fit their ranges.
VerifiersAgree ==
  input.kind = "mta" =>
    LET item == Changed
        accepted ==
          /\ InRanges(item.proof, Size)
          /\ \/ input.wrong = "none"
             \/ input.e = 0 /\ input.wrong \in {"message", "commitment", "X"}
    IN
    /\ SingleVerifies(Ring, KeyA, KeyB, q, Size, item) = accepted
    /\ (\A g, h \in 1..3 :
          BatchResponsesVerify(Ring, KeyA, KeyB, q, Size, <<item, item>>,
                               <<Weights(g, h), Weights(1, 2)>>, 1)) = accepted

-----------------------------------------------------------------------------
(* The curves.                                                              *)

\* Through the function table both curves are the integers modulo the order
\* (scalars are reduced or not, points are infinity or not), whatever else
\* comes as a point or as a reduced scalar is refused.
AlgebraIsTheGroup ==
  input.kind = "scalar" =>
    LET a == input.a
        b == input.b
        P(n) == EC!generator_mul_data(n)
        bytes == <<a % 5, b % 20>>
        G(n) == ED!generator_mul_data(n)
        p == 2 * a + 1 + (b % 2)
    IN
    /\ EC!add_points(P(a), P(b)) = P(EC!add_scalars(a, b))
    /\ EC!point_mul(P(a), b) = P(EC!mul_scalars(a, b))
    /\ EC!add_points(P(EC!sub_scalars(a, b)), P(b)) = P(a)
    /\ EC!verify(a, P(b)) = (a % 13 = b % 13)
    /\ EC!verify_linear_combination(P(b), <<P(a), P(2)>>, <<3, 5>>) = ((3 * a + 10 - b) % 13 = 0)
    /\ EC!verify_sum(P(b), <<P(a), P(a), P(2)>>) = ((2 * a + 2 - b) % 13 = 0)
    /\ EC!inverse(a) # EC!NoScalar => EC!mul_scalars(EC!inverse(a), a) = 1
    /\ EC!ec_reduce(a) = (IF a < 13 THEN a ELSE EC!NoScalar)
    /\ EC!ec_reduce_stark(a) = (IF a % 16 < 13 THEN a % 16 ELSE EC!NoScalar)
    /\ (\E n \in 0..12 : EC!add_points(bytes, P(0)) = P(n)) = EC!IsPoint(bytes)
    /\ ED!add_points(G(a), G(b)) = G(ED!add_scalars(a, b))
    /\ ED!point_mul(G(a), b + 64) = G(ED!mul_scalars(a, b + 64))
    /\ ED!verify_linear_combination(G(b), <<G(a), G(2)>>, <<3, 5>>) = ((3 * a + 10 - b) % 19 = 0)
    /\ (ED!add_points(p, G(b)) # ED!NoPoint) = (\E n \in 0..18 : p = G(n))
    /\ ED!reduce(a) = (IF a % 32 < 19 THEN a % 32 ELSE ED!NoScalar)
    /\ ED!Reduced(a) = (a < 19)

\* The public key that the signature and its recovery id give: 1/r (sR - mG).
Recovered(sig, m) ==
  LET x == sig.r + 13 * sig.overflow
      R == EC!Decode(<<2 + sig.odd, x>>)
  IN EC!EcMul(EC!inverse(sig.r),
              EC!EcAdd(EC!EcMul(sig.s, R), EC!EcMul((-m) % 13, <<5, 5>>)))

\* What the services assemble from R and the summed s recovers the key, its s
\* is low but for the gap between half of the order and the power of two, and
\* verification accepts it for its own message only, unless x of R is not
\* below the order: then it refuses a right signature.  An ed25519 signature
\* verifies for its own hash only, and with s reduced only.
SignaturesVerify ==
  input.kind = "signature" =>
    LET m == input.m
        R == EC!generator_mul_data(input.k)
        public == EC!generator_mul_data(input.private)
        r == EC!get_point_projection(R)
        s == EC!mul_scalars(EC!inverse(input.k), m + r * input.private)
        sig == EC!recoverable_signature(R, s)
        key == ED!generator_mul_data(input.private)
        edsig == ED!sign(input.private, input.k, m)
    IN
    /\ r # 0 /\ s # 0 =>
         /\ EC!Encode(Recovered(sig, m)) = public
         /\ 2 * sig.s < 13 \/ sig.s = 7
         /\ \A n \in 0..15 :
              EC!verify_signature(public, n, sig.r, sig.s)
                = (/\ EC!Decode(R)[1] < 13 /\ 2 * sig.s < 13
                   /\ (n - m) % 13 = 0 \/ (n + m + 2 * r * input.private) % 13 = 0)
    /\ \A n \in 0..18 : ED!ed25519_verify(key, edsig, n) = ((n - m) % 19 = 0)
    /\ ~ED!ed25519_verify(key, [edsig EXCEPT !.s = @ + 19], m)

\* Honest logarithm proofs verify on both curves, with any randomness and
\* challenge, reduced or not; a proof for another point is accepted only
\* where the challenge hides the difference.
LogarithmProofs ==
  input.kind = "log" =>
    LET x == input.secret
        y == x + input.other
        e == input.c % 13
        Hidden(c, order) == (input.other * c) % order = 0
        G(n) == EC!generator_mul_data(n)
        base == G(3)
        public == [A |-> G(4), B |-> G(input.k), X |-> EC!point_mul(base, x),
                   C |-> G(4 * input.k + y)]
    IN
    /\ ECP!SchnorrVerify(G(y), ECP!SchnorrGenerate(x, input.k, input.c), input.c)
         = Hidden(input.c, 13)
    /\ \A torsion \in 0..7 :
         EDP!SchnorrVerify((ED!generator_mul_data(y) + 19 * torsion) % 152,
                           EDP!SchnorrGenerate(x, input.k, input.c), input.c)
           = (torsion = 0 /\ Hidden(input.c, 19))
    /\ ECP!DiffieHellmanVerify(base, public,
         ECP!DiffieHellmanGenerate(base, x, 4, input.k, 6, 11, e), e) = Hidden(e, 13)

\* Shares are made when the ids are distinct, not 0 and enough.  Then every
\* set of at least t shares gives the secret (0 as an error), each share is
\* verified by its own id and no other share's value, and t - 1 shares fit
\* another secret as well.
SharesReconstruct ==
  input.kind = "sharing" =>
    LET f == input.polynom
        ids == input.ids
        t == Len(f)
        split == ECP!SplitWithCustomIds(f, ids)
        Of(shares, S) == SelectSeq(shares, LAMBDA s : s.id \in S)
        public == split.coefficient_proofs
    IN
    /\ (split # ECP!NoShares) = (ids \in {<<1, 2, 3>>, <<5, 2, 12>>} \/ (ids = <<7, 9>> /\ t < 3))
    /\ ids = <<1, 2, 3>> => split = ECP!Split(f, 3)
    /\ split # ECP!NoShares =>
         /\ \A S \in SUBSET {ids[i] : i \in DOMAIN ids} : Cardinality(S) >= t =>
              ECP!Reconstruct(Of(split.shares, S)) = IF f[1] = 0 THEN ECP!Error ELSE f[1]
         /\ \A i, j \in DOMAIN ids :
              ECP!VerifyShare(ids[i], split.proofs[j], public)
                = (split.shares[i].data = split.shares[j].data)
         /\ \E g \in ECP!Polynoms(t) :
              /\ g[1] # f[1]
              /\ \A i \in 1..(t - 1) : ECP!SplitWithCustomIds(g, ids).shares[i] = split.shares[i]

\* Whoever derives with the private key and whoever derives with the public
\* one get the same child, on both curves; the public one refuses exactly the
\* paths with a hardened child.
KeysDeriveTogether ==
  input.kind = "derivation" =>
    LET x == input.private
        path == input.path
        hardened == \E i \in DOMAIN path : path[i].hardened
        Together(derived, shared, Point(_)) ==
          /\ shared.ok = ~hardened
          /\ path # <<>> => derived.ok /\ derived.pub = Point(derived.priv)
          /\ path # <<>> /\ ~hardened =>
               shared.pub = derived.pub /\ shared.chain = derived.chain
        P(n) == EC!generator_mul_data(n)
        G(n) == ED!generator_mul_data(n)
    IN
    /\ Together(ECP!DerivePrivateAndPublicKeys(P(x), x, input.chain, path),
                ECP!DerivePublicKey(P(x), input.chain, path), P)
    /\ Together(EDP!DerivePrivateAndPublicKeys(G(x), x, input.chain, path),
                EDP!DerivePublicKey(G(x), input.chain, path), G)

\* What is read piece by piece from the generator is what one read gives; a
\* commitment of pieces is the one of the whole, and verifies it only.
StreamsAgree ==
  (input.kind = "stream" /\ input.reads # <<>>) =>
    LET Total(n) == FoldSet(LAMBDA i, t : t + input.reads[i], 0, 1..n)
        total == Total(Len(input.reads))
        state[i \in 0..Len(input.reads)] ==
          IF i = 0 THEN [rng |-> ST!drng_new, bytes |-> <<>>]
          ELSE LET r == ST!Read(state[i - 1].rng, input.reads[i])
               IN [rng |-> r.rng, bytes |-> state[i - 1].bytes \o r.bytes]
        data == [i \in 1..total |-> i % 3]
        pieces == [i \in DOMAIN input.reads |-> SubSeq(data, Total(i - 1) + 1, Total(i))]
        whole == ST!CreateCommitment(7, data)
    IN
    /\ state[Len(input.reads)] = ST!Read(ST!drng_new, total)
    /\ ST!CtxFinal(ST!Feed(ST!CtxNew(7), FALSE, pieces)) = whole
    /\ ST!VerifyCommitment(data, whole) /\ ~ST!VerifyCommitment(Tail(data), whole)
    /\ ST!CtxVerifyFinal(ST!Feed(ST!CtxVerifyNew(whole), TRUE, pieces))
    /\ ~ST!CtxVerifyFinal(ST!Feed(ST!CtxVerifyNew(whole), TRUE, Tail(pieces)))
    /\ ST!Feed(ST!CtxVerifyNew(whole), FALSE, pieces) = ST!CtxVerifyNew(whole)
=============================================================================

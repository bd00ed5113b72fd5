---------------------------- MODULE GroupProtocols ----------------------------
(***************************************************************************)
(* What the code computes with a function table, whatever curve is behind  *)
(* it: secret sharing, the Schnorr and the Diffie-Hellman logarithm proof  *)
(* and the derivation of child keys.  What a hash yields is a parameter of *)
(* the prover and the verifier, who hash the same data, or the function    *)
(* Hash; what is drawn at random is a parameter.                           *)
(***************************************************************************)
EXTENDS ModularArithmetic, Sequences

CONSTANTS
  Order, NoPoint,              \* the order; what an error yields for a point
  generator_mul(_),            \* the function table
  add_points(_, _), point_mul(_, _), verify_linear_combination(_, _, _),
  Hash(_, _, _)                \* HMAC of chain code, key or point, child

Error == -1

add_scalars(a, b) == (a + b) % Order
sub_scalars(a, b) == (a - b) % Order
mul_scalars(a, b) == (a * b) % Order

-----------------------------------------------------------------------------
(* Verifiable secret sharing.                                               *)

\* polynom[1] is the secret; the others are random and not 0.
Polynoms(t) == {f \in [1..t -> 0..(Order - 1)] : \A i \in 2..t : f[i] # 0}

\* A row of the access matrix: the powers of the id.
Row(id, t) == [j \in 1..t |-> (id ^ (j - 1)) % Order]

RECURSIVE Dot(_, _, _)
Dot(a, b, n) == IF n = 0 THEN 0 ELSE (Dot(a, b, n - 1) + a[n] * b[n]) % Order

CreateShares(polynom, ids) ==
  LET share(i) == Dot(Row(ids[i], Len(polynom)), polynom, Len(polynom)) IN
  [shares |-> [i \in DOMAIN ids |-> [id |-> ids[i], data |-> share(i)]],
   proofs |-> [i \in DOMAIN ids |-> generator_mul(share(i))],
   coefficient_proofs |-> [j \in DOMAIN polynom |-> generator_mul(polynom[j])]]

\* A mutant of Distinct: an id may occur twice.
NotZero(ids) == \A i \in DOMAIN ids : ids[i] # 0

Distinct(ids) ==
  /\ \A i \in DOMAIN ids : ids[i] # 0
  /\ \A i, j \in DOMAIN ids : ids[i] = ids[j] => i = j

\* No shares: an error.
NoShares == [shares |-> <<>>, proofs |-> <<>>, coefficient_proofs |-> <<>>]
Splits(t, n) == t >= 1 /\ t <= n

SplitWithCustomIds(polynom, ids) ==
  IF Splits(Len(polynom), Len(ids)) /\ polynom[1] < Order /\ Distinct(ids)
  THEN CreateShares(polynom, ids) ELSE NoShares

\* The ids are 1..n.
Split(polynom, n) ==
  IF Splits(Len(polynom), n) /\ polynom[1] < Order
  THEN CreateShares(polynom, [i \in 1..n |-> i]) ELSE NoShares

RECURSIVE Times(_, _)
Times(term(_), S) ==
  IF S = {} THEN 1
  ELSE LET i == CHOOSE i \in S : TRUE IN (term(i) * Times(term, S \ {i})) % Order

LagrangeInterpolate(shares, index) ==
  LET factor(i) ==
        mul_scalars(InvMod(shares[i].id - shares[index].id, Order), shares[i].id)
  IN Times(factor, DOMAIN shares \ {index})

\* A secret of no bytes, which 0 has, is reported as an error.
Reconstruct(shares) ==
  LET lambda == [i \in DOMAIN shares |-> LagrangeInterpolate(shares, i)]
      data == [i \in DOMAIN shares |-> shares[i].data]
      sum == Dot(data, lambda, Len(shares))
  IN
  IF shares = <<>> \/ ~Distinct([i \in DOMAIN shares |-> shares[i].id]) \/ sum = 0
  THEN Error ELSE sum

VerifyShare(id, share_proof, coefficient_proofs) ==
  verify_linear_combination(share_proof, coefficient_proofs,
                            Row(id, Len(coefficient_proofs)))

-----------------------------------------------------------------------------
(* Schnorr proof of the logarithm of public.  c: the hash of the prover, R  *)
(* and public, not reduced.                                                 *)

\* A mutant of SchnorrGenerate: the sign of the challenge.
SchnorrAdds(secret, k, c) ==
  [R |-> generator_mul(k), s |-> add_scalars(k, mul_scalars(secret, c))]

SchnorrGenerate(secret, k, c) ==
  [R |-> generator_mul(k), s |-> sub_scalars(k, mul_scalars(secret, c))]

\* Custom randomness must not be 0.
SchnorrAccepts(randomness) == randomness # 0

SchnorrVerify(public, proof, c) ==
  LET points == <<point_mul(public, c), generator_mul(proof.s)>> IN
  /\ points[1] # NoPoint /\ points[2] # NoPoint
  /\ verify_linear_combination(proof.R, points, <<1, 1>>)

-----------------------------------------------------------------------------
(* Diffie-Hellman logarithm: B = G^b, X = base^secret, C = A^b * G^secret.  *)

\* Scalars are read from the hash until one is below the order.
Challenges == 0..(Order - 1)

DiffieHellmanGenerate(base, secret, a, b, d, y, e) ==
  [D |-> generator_mul(d),
   Y |-> point_mul(base, y),
   V |-> generator_mul(add_scalars(mul_scalars(a, d), y)),
   z |-> add_scalars(mul_scalars(e, b), d),
   w |-> add_scalars(mul_scalars(e, secret), y)]

\* public: [A, B, C, X].  An error anywhere refuses.
DiffieHellmanVerify(base, public, proof, e) ==
  LET Same(p, q) == p # NoPoint /\ p = q IN
  /\ Same(generator_mul(proof.z), add_points(point_mul(public.B, e), proof.D))
  /\ Same(point_mul(base, proof.w), add_points(point_mul(public.X, e), proof.Y))
  /\ Same(add_points(point_mul(public.A, proof.z), generator_mul(proof.w)),
          add_points(point_mul(public.C, e), proof.V))

-----------------------------------------------------------------------------
(* Derivation of child keys.  A key: [pub, priv, chain, ok].  A child is    *)
(* [index, hardened]; a hardened one hashes the private key.                *)

\* A mutant of DeriveNextKeyLevel: hardened children of a public key.
DeriveHardened(key, child, private) ==
  LET hash == Hash(key.chain, <<1, key.pub>>, child) IN
  [pub |-> add_points(key.pub, generator_mul(hash.left)), chain |-> hash.right, ok |-> TRUE,
   priv |-> IF private THEN add_scalars(key.priv, hash.left) ELSE key.priv]

DeriveNextKeyLevel(key, child, private) ==
  LET hash == Hash(key.chain,
                   IF child.hardened THEN <<0, key.priv>> ELSE <<1, key.pub>>, child)
      tweak == generator_mul(hash.left)
      pub == add_points(key.pub, tweak)
  IN
  IF (child.hardened /\ ~private) \/ tweak = NoPoint \/ pub = NoPoint
  THEN [key EXCEPT !.ok = FALSE]
  ELSE [pub |-> pub, chain |-> hash.right, ok |-> TRUE,
        priv |-> IF private THEN add_scalars(key.priv, hash.left) ELSE key.priv]

\* Stops at the first level that fails.
RECURSIVE Derive(_, _, _)
Derive(key, path, private) ==
  IF path = <<>> \/ ~key.ok THEN key
  ELSE Derive(DeriveNextKeyLevel(key, Head(path), private), Tail(path), private)

DerivePublicKey(pub, chain, path) ==
  Derive([pub |-> pub, priv |-> 0, chain |-> chain, ok |-> TRUE], path, FALSE)

\* With an empty path derived_pubkey is not written: NoPoint.
DerivePrivateAndPublicKeys(pub, priv, chain, path) ==
  LET derived == Derive([pub |-> pub, priv |-> priv, chain |-> chain, ok |-> TRUE], path, TRUE)
  IN IF path = <<>> THEN [derived EXCEPT !.pub = NoPoint] ELSE derived
=============================================================================

-------------------------- MODULE ModularArithmetic --------------------------
(***************************************************************************)
(* The big number functions of OpenSSL that the code calls, on numbers of  *)
(* at most 20 bits.                                                        *)
(***************************************************************************)
EXTENDS Integers, FiniteSets

\* BN_mod_mul.  b is split so that no product leaves TLC's integers.
MulMod(a, b, m) ==
  LET x == a % m
      y == b % m
  IN (((x * (y \div 512)) % m) * 512 + x * (y % 512)) % m

\* BN_mod_exp.
RECURSIVE PowMod(_, _, _)
PowMod(a, e, m) ==
  IF e = 0 THEN 1 % m
  ELSE LET h == PowMod(MulMod(a, a, m), e \div 2, m)
       IN IF e % 2 = 1 THEN MulMod(a, h, m) ELSE h

\* BN_gcd and is_coprime_fast.
RECURSIVE GCD(_, _)
GCD(a, b) == IF b = 0 THEN a ELSE GCD(b, a % b)
Coprime(a, b) == GCD(a, b) = 1

\* BN_mod_inverse of a number coprime to m.
RECURSIVE Bezout(_, _)
Bezout(a, b) ==
  IF b = 0 THEN <<1, 0>>
  ELSE LET s == Bezout(b, a % b) IN <<s[2], s[1] - (a \div b) * s[2]>>
InvMod(a, m) == Bezout(a % m, m)[1] % m

\* BN_is_prime_ex.
Prime(n) == n > 1 /\ \A d \in 2..n : d * d > n \/ n % d # 0

\* BN_num_bits.
RECURSIVE Bits(_)
Bits(n) == IF n = 0 THEN 0 ELSE 1 + Bits(n \div 2)

Units(n) == {a \in 1..(n - 1) : Coprime(a, n)}
=============================================================================

---------------------------- MODULE EllipticCurve ----------------------------
(***************************************************************************)
(* GFp_curve_algebra.c: the function table of the curves y^2 = x^3 + ax + b *)
(* over OpenSSL, on a curve of prime order with small numbers.  A point    *)
(* travels as the bytes <<first, x>> of its compressed form; a scalar is a *)
(* number of WordCount words of WordBits bits, larger than Order or not.   *)
(* An operation that returns an error yields NoPoint or NoScalar; one that *)
(* verifies is true when it succeeds and accepts.                          *)
(***************************************************************************)
EXTENDS ModularArithmetic, Sequences

CONSTANTS
  FieldP, CurveA, CurveB,  \* the field and the equation
  Order, Generator,        \* the prime order, and the point <<x, y>>
  WordCount, WordBits,     \* the size of a scalar
  KeptBits                 \* what is kept of a STARK scalar's bits

NoPoint == <<>>
NoScalar == -1

-----------------------------------------------------------------------------
(* OpenSSL: points <<x, y>>.                                                *)

Infinity == <<>>

OnCurve(x, y) == (y * y) % FieldP = ((x * x + CurveA) * x + CurveB) % FieldP

\* EC_POINT_add.
EcAdd(a, b) ==
  LET Slope == IF a = b
               THEN (3 * a[1] * a[1] + CurveA) * InvMod(2 * a[2], FieldP)
               ELSE (b[2] - a[2]) * InvMod(b[1] - a[1], FieldP)
      x == (Slope * Slope - a[1] - b[1]) % FieldP
  IN
  CASE a = Infinity -> b
    [] b = Infinity -> a
    [] a # Infinity /\ b # Infinity /\ a[1] = b[1] /\ (a[2] + b[2]) % FieldP = 0 -> Infinity
    [] OTHER -> <<x, (Slope * (a[1] - x) - a[2]) % FieldP>>

\* EC_POINT_mul.
RECURSIVE EcMul(_, _)
EcMul(k, a) ==
  IF k = 0 THEN Infinity
  ELSE LET h == EcMul(k \div 2, EcAdd(a, a)) IN
       IF k % 2 = 1 THEN EcAdd(a, h) ELSE h

\* EC_POINT_oct2point of a point that is not infinity.
Decompresses(e) ==
  e[1] \in {2, 3} /\ e[2] < FieldP /\ \E y \in 0..(FieldP - 1) : OnCurve(e[2], y)

-----------------------------------------------------------------------------
(* Points.                                                                  *)

\* SIZEOF_POINT: when the first byte is 0 nothing else is looked at.
IsPoint(e) == e # NoPoint /\ (e[1] = 0 \/ Decompresses(e))
Decode(e) ==
  IF e[1] = 0 THEN Infinity
  ELSE <<e[2], CHOOSE y \in 0..(FieldP - 1) : OnCurve(e[2], y) /\ y % 2 = e[1] % 2>>

\* The buffer was zeroed before, and infinity takes one byte.
Encode(a) == IF a = Infinity THEN <<0, 0>> ELSE <<2 + (a[2] % 2), a[1]>>

generator_mul_data(data) == Encode(EcMul(data, Generator))

\* Compares bytes.
verify(data, point) == generator_mul_data(data) = point

add_points(p1, p2) ==
  IF IsPoint(p1) /\ IsPoint(p2) THEN Encode(EcAdd(Decode(p1), Decode(p2))) ELSE NoPoint

point_mul(p, exp) == IF IsPoint(p) THEN Encode(EcMul(exp, Decode(p))) ELSE NoPoint

\* Sums of what `term` makes of the indices 1..n.
RECURSIVE EcSum(_, _)
EcSum(term(_), n) == IF n = 0 THEN Infinity ELSE EcAdd(EcSum(term, n - 1), term(n))

verify_sum(sum, points) ==
  /\ points # <<>> /\ IsPoint(sum)
  /\ \A i \in DOMAIN points : IsPoint(points[i])
  /\ LET Point(i) == Decode(points[i]) IN EcSum(Point, Len(points)) = Decode(sum)

verify_linear_combination(sum, points, coefficients) ==
  /\ points # <<>> /\ IsPoint(sum)
  /\ \A i \in DOMAIN points : IsPoint(points[i])
  /\ LET Point(i) == EcMul(coefficients[i], Decode(points[i])) IN
     EcSum(Point, Len(points)) = Decode(sum)

\* X - order is X % order because of Hasse's theorem.
get_point_projection(p) ==
  IF ~IsPoint(p) \/ (IsPoint(p) /\ Decode(p) = Infinity) THEN NoScalar
  ELSE LET X == Decode(p)[1] IN IF X >= Order THEN X - Order ELSE X

-----------------------------------------------------------------------------
(* Scalars.                                                                 *)

add_scalars(a, b) == (a + b) % Order
sub_scalars(a, b) == (a - b) % Order
mul_scalars(a, b) == (a * b) % Order
inverse(a) == IF a % Order = 0 THEN NoScalar ELSE InvMod(a, Order)

\* What is larger than Order stays as it is.
abs(a) == IF a > Order \div 2 /\ Order - a >= 0 THEN Order - a ELSE a

\* The borrow of the subtraction, word by word from the least significant.
Word(v, i) == (v \div 2 ^ (WordBits * (i - 1))) % 2 ^ WordBits
in_field(v, field) ==
  LET cc[i \in 0..WordCount] ==
        IF i = 0 THEN 0
        ELSE ((Word(v, i) - Word(field, i) - cc[i - 1]) \div 2 ^ WordBits) % 2
  IN cc[WordCount] = 1

ec_reduce(v) == IF in_field(v, Order) THEN v ELSE NoScalar
ec_reduce_stark(v) == ec_reduce(v % 2 ^ KeptBits)

-----------------------------------------------------------------------------
(* What the services make of the R and the s of a signature.                *)

\* The recovery id as two flags: what the projection took off, and the
\* parity of R.  is_positive looks at the most significant bit of s.
is_positive(s) == s < 2 ^ (Bits(Order) - 1)

\* A mutant of make_sig_s_positive: the recovery id stays.
make_only_s_positive(sig) ==
  IF is_positive(sig.s) THEN sig ELSE [sig EXCEPT !.s = abs(sig.s)]

make_sig_s_positive(sig) ==
  IF is_positive(sig.s) THEN sig
  ELSE [sig EXCEPT !.s = abs(sig.s),
                   !.odd = IF abs(sig.s) % 2 = sig.s % 2 THEN @ ELSE 1 - @]

recoverable_signature(R, s) ==
  make_sig_s_positive([r |-> get_point_projection(R), s |-> s, odd |-> R[1] % 2,
                       overflow |-> IF Decode(R)[1] >= Order THEN 1 ELSE 0])

-----------------------------------------------------------------------------
(* ECDSA.  The coordinate of the point is not reduced: the subtraction has  *)
(* its operands the wrong way round, fails when the coordinate is above the *)
(* order and yields 0, which is no r, when they are equal.                  *)

verify_signature(public, message, r, s) ==
  /\ r \in 1..(Order - 1) /\ s \in 1..(Order - 1)
  /\ Decompresses(public)
  /\ LET u1 == mul_scalars(message, inverse(s))
         u2 == mul_scalars(r, inverse(s))
         point == EcAdd(EcMul(u1, Generator), EcMul(u2, Decode(public)))
     IN point # Infinity /\ point[1] < Order /\ point[1] = r
  /\ 2 * s < Order
=============================================================================

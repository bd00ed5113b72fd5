------------------------------- MODULE Ed25519 -------------------------------
(***************************************************************************)
(* ed25519_algebra.c.  The curve is the cyclic group of 8 * Order points   *)
(* that it is, Order prime: a point is the number of the element it is,    *)
(* the generator 8 spans the Order points of the subgroup; other bytes are *)
(* no point.  Order = 2^High + a lower part; a scalar has TopBits bits.    *)
(***************************************************************************)
EXTENDS ModularArithmetic, Sequences

CONSTANTS
  Order,    \* L, the order of the generator
  High,     \* the upper power of two in Order
  Middle,   \* the bits below it that are 0 in Order start here
  TopBits   \* the size of a scalar

NoPoint == -1
NoScalar == -1
Points == 0..(8 * Order - 1)
Generator == 8
KeptBits == High + 1

-----------------------------------------------------------------------------
(* Points.                                                                  *)

is_point_on_curve(p) == p \in Points

\* ge_double_scalarmult_vartime does not reduce the scalar.
scalar_mult(exp, p) == IF is_point_on_curve(p) THEN (exp * p) % (8 * Order) ELSE NoPoint

\* A mutant of is_valid_point: any point of the curve.
is_any_point(p) == is_point_on_curve(p)

\* 8 * (1/8 * P) = P: no component of the order 2, 4 or 8.
is_valid_point(p) ==
  is_point_on_curve(p) /\ scalar_mult(8, scalar_mult(InvMod(8, Order), p)) = p

\* The most significant bit must not be set.
to_scalar(n) == IF n >= 2 ^ (TopBits - 1) THEN NoScalar ELSE n
to_ed25519_scalar(n) == n % Order

generator_mul_internal(exp) == (exp * Generator) % (8 * Order)

\* generator_mul of the function table as well.
generator_mul_data(data) == generator_mul_internal(to_ed25519_scalar(data))

\* ed25519_algebra_generator_mul.
generator_mul(exp) ==
  IF to_scalar(exp) = NoScalar THEN NoPoint ELSE generator_mul_internal(exp)

verify(data, point) == generator_mul_data(data) = point

add_points(p1, p2) ==
  IF is_valid_point(p1) /\ is_valid_point(p2) THEN (p1 + p2) % (8 * Order) ELSE NoPoint

\* point_mul of the function table; the one of ed25519_algebra_ refuses the
\* scalars that to_scalar refuses.
point_mul(p, exp) ==
  IF is_valid_point(p) THEN scalar_mult(to_ed25519_scalar(exp), p) ELSE NoPoint
ed25519_algebra_point_mul(p, exp) ==
  IF is_valid_point(p) /\ to_scalar(exp) # NoScalar THEN scalar_mult(exp, p) ELSE NoPoint

verify_linear_combination(sum, points, coefficients) ==
  LET partial[i \in 0..Len(points)] ==
        IF i = 0 THEN 0
        ELSE (partial[i - 1] + scalar_mult(coefficients[i], points[i])) % (8 * Order)
  IN
  /\ points # <<>> /\ is_valid_point(sum)
  /\ \A i \in DOMAIN points :
       is_valid_point(points[i]) /\ to_scalar(coefficients[i]) # NoScalar
  /\ partial[Len(points)] = sum

-----------------------------------------------------------------------------
(* Scalars.                                                                 *)

add_scalars(a, b) == (a + b) % Order
sub_scalars(a, b) == (a - b) % Order
mul_scalars(a, b) == (a * b) % Order
inverse(a) == IF a % Order = 0 THEN NoScalar ELSE InvMod(a, Order)
mul_add(a, b, c) == (a * b + c) % Order

\* Does not reduce what it is given.
add_le_scalars(a, b) == IF a >= Order \/ b >= Order THEN NoScalar ELSE (a + b) % Order

\* The bits above the order's are cut off.
reduce(v) ==
  LET tmp == v % 2 ^ KeptBits IN IF tmp < Order THEN tmp ELSE NoScalar

-----------------------------------------------------------------------------
(* Signatures.  k: the reduced hash of key and message; h: the one of R,    *)
(* the public key and the message.                                          *)

sign(private, k, h) ==
  IF generator_mul(private) = NoPoint THEN [R |-> NoPoint, s |-> NoScalar]
  ELSE [R |-> generator_mul_internal(k), s |-> mul_add(h, private, k)]

\* s < Order, part by part from the most significant.
Reduced(s) ==
  LET upper == s \div 2 ^ High
      middle == (s \div 2 ^ Middle) % 2 ^ (High - Middle)
      lower == s % 2 ^ Middle
  IN upper = 0 \/ (upper = 1 /\ middle = 0 /\ lower < Order % 2 ^ Middle)

\* With the keccak hash; the key may be any point of the curve.
ed25519_verify(public, signature, h) ==
  /\ Reduced(signature.s)
  /\ is_point_on_curve(public)
  /\ (signature.s * Generator - h * public) % (8 * Order) = signature.R
=============================================================================

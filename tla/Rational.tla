------------------------------ MODULE Rational -------------------------------
(***************************************************************************)
(* Exact fractions <<numerator, denominator>> in lowest terms, for the     *)
(* algorithms the code runs on doubles: what is shown of them is shown     *)
(* without rounding.                                                       *)
(***************************************************************************)
EXTENDS Integers

\* Of a pair of naturals.
Gcd[p \in Nat \X Nat] == IF p[2] = 0 THEN p[1] ELSE Gcd[<<p[2], p[1] % p[2]>>]

Q(n, d) ==
    LET g == Gcd[<<IF n < 0 THEN -n ELSE n, IF d < 0 THEN -d ELSE d>>]
    IN  IF d < 0 THEN <<(-n) \div g, (-d) \div g>> ELSE <<n \div g, d \div g>>
Whole(n) == <<n, 1>>
Fraction == Int \X (Nat \ {0})

p (+) q == Q(p[1] * q[2] + q[1] * p[2], p[2] * q[2])
p (-) q == Q(p[1] * q[2] - q[1] * p[2], p[2] * q[2])
p (.) q == Q(p[1] * q[1], p[2] * q[2])
p (/) q == Q(p[1] * q[2], p[2] * q[1])
==============================================================================

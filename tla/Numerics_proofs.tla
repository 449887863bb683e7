--------------------------- MODULE Numerics_proofs ---------------------------
(***************************************************************************)
(* Proofs about the algorithms of Numerics and about Quadcopter, for all   *)
(* inputs and parameters their modules allow.                              *)
(*                                                                         *)
(* Gcd follows Euclid's recursion because a function exists that does      *)
(* (GcdIs), which induction on its second argument turns into what Q       *)
(* computes: fractions in lowest terms (LowestTerms), the same for the     *)
(* same number (QEqual).                                                   *)
(*                                                                         *)
(* The auction is followed goal by goal: Auctioned says, of the lists the  *)
(* drones have so far, what NearestTakesGoal says of the final ones.       *)
(*                                                                         *)
(* The telemetry frame: FlattenSeq lays the fields' bytes one after the    *)
(* other (FlattenLays), the offset the gateway adds up is where a field    *)
(* begins (OffsetIsSum), and what is there reads as what was written       *)
(* (FieldIsRead), short of the value by less than one unit (ShortByLess).  *)
(*                                                                         *)
(* The toolpath: the elimination's factors stay between 0 and 1, so that   *)
(* it never divides by 0 (NextFactor), and the unknowns it ends with solve *)
(* every row of the system (SplineRows). From them follow the heights at   *)
(* the knots (KnotIs), the same slope and bend on both sides of a knot     *)
(* (Smooth) and no bend at the ends (Straight).                            *)
(***************************************************************************)
EXTENDS Numerics, Quadcopter, SwarmGrid_proofs, SequenceTheorems

(* Fractions. *)

\* The same on all of Nat.
LEMMA EndlessRecursion ==
    ASSUME NEW S, NEW b, NEW F, IsRecursion(S, b, F)
    PROVE  \E f : /\ f \in [Nat -> S] /\ f[0] = b
                  /\ \A n \in Nat : f[n + 1] = F[<<n + 1, f[n]>>]
<1> DEFINE g(n) == CHOOSE f : Follows(f, S, b, F, n)
<1>1. ASSUME NEW n \in Nat PROVE Follows(g(n), S, b, F, n)
  <2>1. \E f : Follows(f, S, b, F, n)
    BY Recursion
  <2> QED BY <2>1
<1> HIDE DEF g
<1> DEFINE T == {k \in Nat : \A m, n \in Nat : k <= m /\ k <= n => g(m)[k] = g(n)[k]}
<1>2. 0 \in T
  BY <1>1 DEF Follows
<1>3. ASSUME NEW k \in Nat, k \in T PROVE k + 1 \in T
  <2>1. ASSUME NEW m \in Nat, NEW n \in Nat, k + 1 <= m, k + 1 <= n PROVE g(m)[k + 1] = g(n)[k + 1]
    <3>1. g(m)[k] = g(n)[k]
      BY <1>3, <2>1
    <3>2. k + 1 \in 1 .. m /\ k + 1 \in 1 .. n /\ (k + 1) - 1 = k
      BY <2>1
    <3>3. g(m)[k + 1] = F[<<k + 1, g(m)[(k + 1) - 1]>>]
      BY <1>1, <3>2 DEF Follows
    <3>4. g(n)[k + 1] = F[<<k + 1, g(n)[(k + 1) - 1]>>]
      BY <1>1, <3>2 DEF Follows
    <3> QED BY <3>1, <3>2, <3>3, <3>4
  <2> QED BY <2>1
<1>4. Nat \subseteq T
  <2> HIDE DEF T
  <2> QED BY <1>2, <1>3, SetInduction
<1> DEFINE h == [n \in Nat |-> g(n)[n]]
<1>5. h \in [Nat -> S]
  <2>1. ASSUME NEW n \in Nat PROVE g(n)[n] \in S
    <3>1. n \in 0 .. n
      OBVIOUS
    <3> QED BY <1>1, <3>1 DEF Follows
  <2> QED BY <2>1
<1>6. h[0] = b
  BY <1>1 DEF Follows
<1>7. ASSUME NEW n \in Nat PROVE h[n + 1] = F[<<n + 1, h[n]>>]
  <2>1. n + 1 \in 1 .. n + 1 /\ (n + 1) - 1 = n /\ n + 1 \in Nat
    OBVIOUS
  <2>2. g(n + 1)[n + 1] = F[<<n + 1, g(n + 1)[(n + 1) - 1]>>]
    BY <1>1, <2>1 DEF Follows
  <2>3. g(n + 1)[n] = g(n)[n]
    <3>1. n \in T
      BY <1>4
    <3>2. n <= n + 1 /\ n <= n
      OBVIOUS
    <3> QED BY <2>1, <3>1, <3>2
  <2> QED BY <2>1, <2>2, <2>3
<1> HIDE DEF h
<1> QED BY <1>5, <1>6, <1>7

------------------------------------------------------------------------------
\* Division of whole numbers.
LEMMA DivMod ==
    ASSUME NEW a \in Int, NEW b \in Nat \ {0}
    PROVE  a \div b \in Int /\ a % b \in 0 .. b - 1 /\ a = b * (a \div b) + (a % b)
  OBVIOUS

\* Quotient and remainder are the only numbers with that.
LEMMA DivModUnique ==
    ASSUME NEW b \in Nat \ {0}, NEW q \in Int, NEW r \in 0 .. b - 1, NEW a \in Int, a = b * q + r
    PROVE  a \div b = q /\ a % b = r
<1> DEFINE p == a \div b
           s == a % b
<1>1. p \in Int /\ s \in 0 .. b - 1 /\ b * q + r = b * p + s
  BY DivMod
<1> HIDE DEF p, s
<1>2. b * (q - p) = s - r
  BY <1>1
<1>3. q - p > 0 => b * (q - p) >= b
  BY <1>1
<1>4. q - p < 0 => b * (q - p) <= -b
  BY <1>1
<1>5. q = p
  BY <1>1, <1>2, <1>3, <1>4
<1> QED BY <1>1, <1>5 DEF p, s

\* Gcd is Euclid's algorithm.
Pairs == Nat \X Nat
Euclid(h) == [p \in Pairs |-> IF p[2] = 0 THEN p[1] ELSE h[<<p[2], p[1] % p[2]>>]]

\* Euclid's next pair is one, and smaller.
LEMMA OneStepOfEuclid ==
    ASSUME NEW p \in Pairs, p[2] # 0
    PROVE  /\ p[1] \in Nat /\ p[2] \in Nat \ {0} /\ p[1] % p[2] \in 0 .. p[2] - 1
           /\ <<p[2], p[1] % p[2]>> \in Pairs
<1>1. p[1] \in Nat /\ p[2] \in Nat \ {0}
  BY DEF Pairs
<1>2. \A a \in Nat, b \in Nat \ {0} : a % b \in 0 .. b - 1
  OBVIOUS
<1>3. p[1] % p[2] \in 0 .. p[2] - 1
  BY <1>1, <1>2
<1>4. p[1] % p[2] \in Nat
  BY <1>1, <1>3
<1> QED BY <1>1, <1>3, <1>4 DEF Pairs

\* Gcd is defined on every pair and follows its recursion.
LEMMA GcdIs ==
    /\ Gcd \in [Pairs -> Nat]
    /\ \A p \in Pairs : Gcd[p] = IF p[2] = 0 THEN p[1] ELSE Gcd[<<p[2], p[1] % p[2]>>]
<1> DEFINE S == [Pairs -> Nat]
           F == [x \in Nat \X S |-> Euclid(x[2])]
           z == [p \in Pairs |-> 0]
<1>1. ASSUME NEW h \in S PROVE Euclid(h) \in S
  <2>1. ASSUME NEW p \in Pairs PROVE (IF p[2] = 0 THEN p[1] ELSE h[<<p[2], p[1] % p[2]>>]) \in Nat
    <3>1. CASE p[2] = 0
      BY <3>1 DEF Pairs
    <3>2. CASE p[2] # 0
      BY <3>2, OneStepOfEuclid
    <3> QED BY <3>1, <3>2
  <2> QED BY <2>1 DEF Euclid
<1>2. IsRecursion(S, z, F)
  <2>1. F \in [Nat \X S -> S]
    <3> HIDE DEF S
    <3> QED BY <1>1
  <2>2. z \in S
    OBVIOUS
  <2> HIDE DEF F, S, z
  <2> QED BY <2>1, <2>2 DEF IsRecursion
<1>3. PICK f : f \in [Nat -> S] /\ f[0] = z /\ \A n \in Nat : f[n + 1] = F[<<n + 1, f[n]>>]
  <2> HIDE DEF S, z, F
  <2> QED BY <1>2, EndlessRecursion
<1>4. /\ \A n \in Nat : f[n] \in S
      /\ \A n \in Nat : f[n + 1] = Euclid(f[n])
  <2>1. \A n \in Nat : f[n] \in S
    <3> HIDE DEF S, z, F
    <3> QED BY <1>3
  <2>2. ASSUME NEW n \in Nat PROVE F[<<n + 1, f[n]>>] = Euclid(f[n])
    <3>1. <<n + 1, f[n]>> \in Nat \X S
      <4> HIDE DEF S
      <4> QED BY <2>1
    <3> HIDE DEF S
    <3> QED BY <3>1
  <2> HIDE DEF F, S, z
  <2> QED BY <1>3, <2>1, <2>2
<1> HIDE DEF F, z
<1> DEFINE Step(n, p) == IF p[2] = 0 THEN p[1] ELSE f[n][<<p[2], p[1] % p[2]>>]
<1>5. ASSUME NEW n \in Nat, NEW p \in Pairs PROVE f[n + 1][p] = Step(n, p)
  <2>1. PICK h, g : h = f[n + 1] /\ g = f[n]
    OBVIOUS
  <2>2. h = Euclid(g)
    BY <1>4, <2>1
  <2>3. h[p] = IF p[2] = 0 THEN p[1] ELSE g[<<p[2], p[1] % p[2]>>]
    BY ONLY <2>2, p \in Pairs DEF Euclid
  <2> QED BY <2>1, <2>3
<1> DEFINE T == {k \in Nat : \A p \in Pairs : p[2] < k => f[k + 1][p] = f[k][p]}
<1>6. 0 \in T
  BY DEF Pairs
<1>7. ASSUME NEW k \in Nat, k \in T PROVE k + 1 \in T
  <2>1. ASSUME NEW p \in Pairs, p[2] < k + 1 PROVE f[(k + 1) + 1][p] = f[k + 1][p]
    <3>1. f[(k + 1) + 1][p] = Step(k + 1, p) /\ f[k + 1][p] = Step(k, p)
      <4>1. k + 1 \in Nat
        OBVIOUS
      <4> HIDE DEF Step
      <4> QED BY <1>5, <4>1
    <3>2. CASE p[2] = 0
      BY <3>1, <3>2
    <3>3. CASE p[2] # 0
      <4>1. PICK q : q = <<p[2], p[1] % p[2]>>
        OBVIOUS
      <4>2. q \in Pairs /\ q[2] < k
        BY <2>1, <3>3, <4>1, OneStepOfEuclid
      <4>3. f[k + 1][q] = f[k][q]
        BY <1>7, <4>2
      <4> QED BY <3>1, <3>3, <4>1, <4>3
    <3> QED BY <3>2, <3>3
  <2> QED BY <2>1
<1>8. Nat \subseteq T
  <2> HIDE DEF T
  <2> QED BY <1>6, <1>7, SetInduction
<1> DEFINE U == {j \in Nat : \A p \in Pairs : f[p[2] + 1 + j][p] = f[p[2] + 1][p]}
<1>9. Nat \subseteq U
  <2>1. 0 \in U
    BY DEF Pairs
  <2>2. ASSUME NEW j \in Nat, j \in U PROVE j + 1 \in U
    <3>1. ASSUME NEW p \in Pairs PROVE f[p[2] + 1 + (j + 1)][p] = f[p[2] + 1][p]
      <4>1. PICK k : k = p[2] + 1 + j
        OBVIOUS
      <4>2. k \in Nat /\ p[2] < k /\ p[2] + 1 + (j + 1) = k + 1
        BY <4>1 DEF Pairs
      <4>3. f[k + 1][p] = f[k][p]
        <5>1. k \in T
          BY <1>8, <4>2
        <5> QED BY <4>2, <5>1
      <4>4. f[k][p] = f[p[2] + 1][p]
        BY <2>2, <4>1
      <4> QED BY <4>2, <4>3, <4>4
    <3> QED BY <3>1
  <2> HIDE DEF U
  <2> QED BY <2>1, <2>2, SetInduction
<1> DEFINE h == [p \in Pairs |-> f[p[2] + 1][p]]
<1>10. h = Euclid(h)
  <2>1. ASSUME NEW p \in Pairs PROVE h[p] = IF p[2] = 0 THEN p[1] ELSE h[<<p[2], p[1] % p[2]>>]
    <3>1. p[2] \in Nat
      BY DEF Pairs
    <3>2. f[p[2] + 1][p] = Step(p[2], p)
      <4> HIDE DEF Step
      <4> QED BY <1>5, <3>1
    <3>3. CASE p[2] = 0
      BY <3>2, <3>3
    <3>4. CASE p[2] # 0
      <4>1. PICK q : q = <<p[2], p[1] % p[2]>>
        OBVIOUS
      <4>2. q \in Pairs /\ q[2] \in Nat /\ q[2] < p[2]
        BY <3>4, <4>1, OneStepOfEuclid
      <4>3. PICK j : j = p[2] - (q[2] + 1)
        OBVIOUS
      <4>4. j \in Nat /\ q[2] + 1 + j = p[2]
        BY <3>1, <4>2, <4>3
      <4>5. f[q[2] + 1 + j][q] = f[q[2] + 1][q]
        <5>1. j \in U
          BY <1>9, <4>4
        <5> QED BY <4>2, <5>1
      <4>6. h[p] = f[p[2]][q]
        BY <3>2, <3>4, <4>1
      <4>7. h[q] = f[q[2] + 1][q]
        BY <4>2
      <4> HIDE DEF h
      <4> QED BY <3>4, <4>1, <4>4, <4>5, <4>6, <4>7
    <3> QED BY <3>3, <3>4
  <2>2. h = [p \in Pairs |-> h[p]]
    OBVIOUS
  <2> HIDE DEF h
  <2> QED BY <2>1, <2>2 DEF Euclid
<1>11. Gcd = CHOOSE g : g = Euclid(g)
  BY DEF Gcd, Euclid, Pairs
<1>12. Gcd = Euclid(Gcd)
  <2> HIDE DEF h
  <2> QED BY <1>10, <1>11
<1>13. \A p \in Pairs : Gcd[p] = IF p[2] = 0 THEN p[1] ELSE Gcd[<<p[2], p[1] % p[2]>>]
  <2>1. ASSUME NEW p \in Pairs PROVE Euclid(Gcd)[p] = IF p[2] = 0 THEN p[1] ELSE Gcd[<<p[2], p[1] % p[2]>>]
    BY DEF Euclid
  <2> QED BY <1>12, <2>1
<1>14. Gcd = [p \in Pairs |-> Gcd[p]]
  BY <1>12 DEF Euclid
<1> DEFINE V == {k \in Nat : \A p \in Pairs : p[2] <= k => Gcd[p] \in Nat}
<1>15. 0 \in V
  <2>1. ASSUME NEW p \in Pairs, p[2] <= 0 PROVE Gcd[p] \in Nat
    <3>1. p[1] \in Nat /\ p[2] = 0
      BY <2>1 DEF Pairs
    <3> QED BY <1>13, <3>1
  <2> QED BY <2>1
<1>16. ASSUME NEW k \in Nat, k \in V PROVE k + 1 \in V
  <2>1. ASSUME NEW p \in Pairs, p[2] <= k + 1, p[2] # 0 PROVE Gcd[p] \in Nat
    <3>1. PICK q : q = <<p[2], p[1] % p[2]>>
      OBVIOUS
    <3>2. q \in Pairs /\ q[2] <= k
      BY <2>1, <3>1, OneStepOfEuclid
    <3> QED BY <1>13, <1>16, <2>1, <3>1, <3>2
  <2>2. ASSUME NEW p \in Pairs, p[2] = 0 PROVE Gcd[p] \in Nat
    BY <1>13, <2>2 DEF Pairs
  <2> QED BY <2>1, <2>2
<1>17. \A p \in Pairs : Gcd[p] \in Nat
  <2>1. Nat \subseteq V
    <3> HIDE DEF V
    <3> QED BY <1>15, <1>16, SetInduction
  <2>2. ASSUME NEW p \in Pairs PROVE p[2] \in V
    BY <2>1 DEF Pairs
  <2>3. ASSUME NEW p \in Pairs PROVE p[2] <= p[2]
    BY DEF Pairs
  <2> QED BY <2>2, <2>3
<1> QED BY <1>13, <1>14, <1>17

\* What holds of every pair <<a, 0>>, and of a pair when it holds of the next one
\* of Euclid's algorithm, holds of all.
LEMMA EuclidInduction ==
    ASSUME NEW P, \A p \in Pairs : p[2] = 0 => p \in P,
           \A p \in Pairs : p[2] # 0 /\ <<p[2], p[1] % p[2]>> \in P => p \in P
    PROVE  Pairs \subseteq P
<1> DEFINE T == {k \in Nat : \A p \in Pairs : p[2] <= k => p \in P}
<1>1. 0 \in T
  <2>1. ASSUME NEW p \in Pairs, p[2] <= 0 PROVE p \in P
    <3>1. p[2] = 0
      BY <2>1 DEF Pairs
    <3> QED BY <3>1
  <2> QED BY <2>1
<1>2. ASSUME NEW k \in Nat, k \in T PROVE k + 1 \in T
  <2>1. ASSUME NEW p \in Pairs, p[2] <= k + 1, p[2] # 0 PROVE p \in P
    <3>1. PICK q : q = <<p[2], p[1] % p[2]>>
      OBVIOUS
    <3>2. q \in Pairs /\ q[2] <= k
      BY <2>1, <3>1, OneStepOfEuclid
    <3>3. q \in P
      BY <1>2, <3>2
    <3> QED BY <2>1, <3>1, <3>3
  <2> QED BY <2>1
<1>3. Nat \subseteq T
  <2> HIDE DEF T
  <2> QED BY <1>1, <1>2, SetInduction
<1>4. ASSUME NEW p \in Pairs PROVE p \in P
  <2>1. p[2] \in T /\ p[2] <= p[2]
    BY <1>3 DEF Pairs
  <2> QED BY <2>1
<1> QED BY <1>4

\* The greatest common divisor divides both, and is not 0 unless they are.
LEMMA GcdDivides ==
    ASSUME NEW a \in Nat, NEW b \in Nat
    PROVE  \E c, d \in Nat : a = Gcd[<<a, b>>] * c /\ b = Gcd[<<a, b>>] * d
<1> DEFINE P == {p \in Pairs : \E c, d \in Nat : p[1] = Gcd[p] * c /\ p[2] = Gcd[p] * d}
<1>1. ASSUME NEW p \in Pairs, p[2] = 0 PROVE p \in P
  <2>1. Gcd[p] = p[1] /\ p[1] \in Nat
    BY <1>1, GcdIs DEF Pairs
  <2>2. p[1] = Gcd[p] * 1 /\ p[2] = Gcd[p] * 0
    BY <1>1, <2>1
  <2> QED BY <2>2
<1>2. ASSUME NEW p \in Pairs, p[2] # 0, <<p[2], p[1] % p[2]>> \in P PROVE p \in P
  <2>1. PICK q : q = <<p[2], p[1] % p[2]>>
    OBVIOUS
  <2>2. PICK x, y \in Nat : q[1] = Gcd[q] * x /\ q[2] = Gcd[q] * y
    BY <1>2, <2>1
  <2>3. PICK g : g = Gcd[p]
    OBVIOUS
  <2>4. g \in Nat /\ Gcd[q] = g
    BY <1>2, <2>1, <2>3, GcdIs
  <2>5. PICK m, n : m = p[1] /\ n = p[2]
    OBVIOUS
  <2>6. m \in Nat /\ n \in Nat \ {0}
    BY <1>2, <2>5, OneStepOfEuclid
  <2>7. m \div n \in Nat /\ m = n * (m \div n) + (m % n)
    BY <2>6, DivMod
  <2>8. n = g * x /\ m % n = g * y
    BY <2>1, <2>2, <2>4, <2>5
  <2>9. PICK k : k = m \div n
    OBVIOUS
  <2>10. m = (g * x) * k + g * y
    BY <2>7, <2>8, <2>9
  <2>11. (g * x) * k + g * y = g * (x * k + y) /\ x * k + y \in Nat
    BY <2>4, <2>7, <2>9
  <2> QED BY <2>3, <2>5, <2>8, <2>10, <2>11
<1>3. Pairs \subseteq P
  <2> HIDE DEF P
  <2> QED BY <1>1, <1>2, EuclidInduction
<1>4. PICK p : p = <<a, b>>
  OBVIOUS
<1>5. p \in P
  BY <1>3, <1>4 DEF Pairs
<1> QED BY <1>4, <1>5

\* Not 0 when one of the two is not.
LEMMA GcdPositive ==
    ASSUME NEW a \in Nat, NEW b \in Nat \ {0}
    PROVE  Gcd[<<a, b>>] \in Nat \ {0}
<1>1. PICK g : g = Gcd[<<a, b>>]
  OBVIOUS
<1>2. g \in Nat
  BY <1>1, GcdIs DEF Pairs
<1>3. PICK d \in Nat : b = g * d
  BY <1>1, GcdDivides
<1> QED BY <1>1, <1>2, <1>3

\* A common factor of both is one of their greatest common divisor.
LEMMA GcdScales ==
    ASSUME NEW a \in Nat, NEW b \in Nat, NEW k \in Nat \ {0}
    PROVE  Gcd[<<k * a, k * b>>] = k * Gcd[<<a, b>>]
<1> DEFINE P == {p \in Pairs : Gcd[<<k * p[1], k * p[2]>>] = k * Gcd[p]}
<1>1. ASSUME NEW p \in Pairs, p[2] = 0 PROVE p \in P
  <2>1. Gcd[p] = p[1] /\ p[1] \in Nat
    BY <1>1, GcdIs DEF Pairs
  <2>2. PICK q : q = <<k * p[1], k * p[2]>>
    OBVIOUS
  <2>3. q \in Pairs /\ q[2] = 0 /\ q[1] = k * p[1]
    BY <1>1, <2>1, <2>2 DEF Pairs
  <2>4. Gcd[q] = q[1]
    BY <2>3, GcdIs
  <2> QED BY <2>1, <2>2, <2>3, <2>4
<1>2. ASSUME NEW p \in Pairs, p[2] # 0, <<p[2], p[1] % p[2]>> \in P PROVE p \in P
  <2>1. PICK m, n : m = p[1] /\ n = p[2]
    OBVIOUS
  <2>2. m \in Nat /\ n \in Nat \ {0}
    BY <1>2, <2>1, OneStepOfEuclid
  <2>3. PICK q, r : q = m \div n /\ r = m % n
    OBVIOUS
  <2>4. q \in Int /\ r \in 0 .. n - 1 /\ m = n * q + r
    BY <2>2, <2>3, DivMod
  <2>5. k * n \in Nat \ {0} /\ k * m \in Nat
    BY <2>2
  <2>6. k * r \in 0 .. (k * n) - 1
    <3>1. k * r \in Int /\ k * r >= 0
      BY <2>2, <2>4
    <3>2. r + 1 <= n /\ r \in Int
      BY <2>2, <2>4
    <3>3. k * (r + 1) <= k * n
      BY <2>2, <3>2
    <3>4. k * (r + 1) = k * r + k
      BY <3>2
    <3> QED BY <2>5, <3>1, <3>3, <3>4
  <2>7. k * m = (k * n) * q + k * r
    <3>1. k * (n * q + r) = (k * n) * q + k * r
      BY <2>2, <2>4
    <3> QED BY <2>4, <3>1
  <2>8. (k * m) % (k * n) = k * r
    <3>1. PICK A, B, R : A = k * m /\ B = k * n /\ R = k * r
      OBVIOUS
    <3>2. B \in Nat \ {0} /\ R \in 0 .. B - 1 /\ A \in Int /\ A = B * q + R
      BY <2>5, <2>6, <2>7, <3>1
    <3>3. A % B = R
      BY <2>4, <3>2, DivModUnique
    <3> QED BY <3>1, <3>3
  <2>9. Gcd[<<k * m, k * n>>] = Gcd[<<k * n, k * r>>]
    <3>1. PICK u : u = <<k * m, k * n>>
      OBVIOUS
    <3>2. u \in Pairs /\ u[2] # 0 /\ u[1] = k * m /\ u[2] = k * n
      BY <2>5, <3>1 DEF Pairs
    <3>3. Gcd[u] = Gcd[<<u[2], u[1] % u[2]>>]
      BY <3>2, GcdIs
    <3> QED BY <2>8, <3>1, <3>2, <3>3
  <2>10. Gcd[<<k * n, k * r>>] = k * Gcd[<<n, r>>]
    <3>1. PICK v : v = <<n, r>>
      OBVIOUS
    <3>2. v \in P
      BY <1>2, <2>1, <2>3, <3>1
    <3> QED BY <3>1, <3>2
  <2>11. Gcd[p] = Gcd[<<n, r>>]
    BY <1>2, <2>1, <2>3, GcdIs
  <2> QED BY <2>1, <2>9, <2>10, <2>11
<1>3. Pairs \subseteq P
  <2> HIDE DEF P
  <2> QED BY <1>1, <1>2, EuclidInduction
<1>4. PICK p : p = <<a, b>>
  OBVIOUS
<1>5. p \in P
  BY <1>3, <1>4 DEF Pairs
<1> QED BY <1>4, <1>5

\* Q brings a fraction to lowest terms.
LEMMA LowestTerms ==
    ASSUME NEW n \in Int, NEW d \in Nat \ {0}
    PROVE  /\ Q(n, d) \in Fraction
           /\ \E g \in Nat \ {0} : n = g * Q(n, d)[1] /\ d = g * Q(n, d)[2]
<1> DEFINE a == IF n < 0 THEN -n ELSE n
<1>1. PICK g : g = Gcd[<<a, d>>]
  OBVIOUS
<1>2. a \in Nat
  OBVIOUS
<1>3. PICK x, y \in Nat : a = g * x /\ d = g * y
  <2> HIDE DEF a
  <2> QED BY <1>1, <1>2, GcdDivides
<1>4. g \in Nat \ {0}
  <2> HIDE DEF a
  <2> QED BY <1>1, <1>2, GcdPositive
<1>5. PICK z \in Int : n = g * z
  <2>1. CASE n < 0
    <3>1. n = g * (-x) /\ -x \in Int
      BY <1>3, <1>4, <2>1
    <3> QED BY <3>1
  <2>2. CASE ~(n < 0)
    BY <1>3, <2>2
  <2> QED BY <2>1, <2>2
<1>6. n \div g = z /\ d \div g = y
  <2>1. 0 \in 0 .. g - 1 /\ n = g * z + 0 /\ d = g * y + 0 /\ y \in Int
    BY <1>3, <1>4, <1>5
  <2>2. n \div g = z
    BY <1>4, <2>1, DivModUnique
  <2>3. d \div g = y
    BY <1>4, <2>1, DivModUnique
  <2> QED BY <2>2, <2>3
<1>7. Q(n, d) = <<n \div g, d \div g>>
  <2>1. ~(d < 0)
    OBVIOUS
  <2> QED BY <1>1, <2>1 DEF Q
<1>8. y \in Nat \ {0}
  BY <1>3, <1>4
<1>9. Q(n, d) = <<z, y>>
  BY <1>6, <1>7
<1>10. Q(n, d) \in Fraction
  BY <1>5, <1>8, <1>9 DEF Fraction
<1>11. n = g * Q(n, d)[1] /\ d = g * Q(n, d)[2]
  BY <1>3, <1>5, <1>9
<1> QED BY <1>4, <1>10, <1>11

\* A common factor does not matter.
LEMMA QScales ==
    ASSUME NEW n \in Int, NEW d \in Nat \ {0}, NEW k \in Nat \ {0}
    PROVE  Q(k * n, k * d) = Q(n, d)
<1> DEFINE Size(i) == IF i < 0 THEN -i ELSE i
<1>1. /\ Size(n) \in Nat /\ Size(k * n) = k * Size(n)
      /\ k * d \in Nat \ {0} /\ k * n \in Int
  <2>1. CASE n < 0
    <3>1. k * n < 0 /\ -(k * n) = k * (-n)
      BY <2>1
    <3> QED BY <2>1, <3>1
  <2>2. CASE ~(n < 0)
    <3>1. ~(k * n < 0)
      BY <2>2
    <3> QED BY <2>2, <3>1
  <2> QED BY <2>1, <2>2
<1>2. PICK g : g = Gcd[<<Size(n), d>>]
  OBVIOUS
<1>3. g \in Nat \ {0}
  <2> HIDE DEF Size
  <2> QED BY <1>1, <1>2, GcdPositive
<1>4. Gcd[<<Size(k * n), k * d>>] = k * g
  <2> HIDE DEF Size
  <2> QED BY <1>1, <1>2, GcdScales
<1>5. Q(n, d) = <<n \div g, d \div g>>
  <2>1. ~(d < 0)
    OBVIOUS
  <2> QED BY <1>2, <2>1 DEF Q
<1>6. Q(k * n, k * d) = <<(k * n) \div (k * g), (k * d) \div (k * g)>>
  <2>1. ~(k * d < 0)
    BY <1>1
  <2> QED BY <1>4, <2>1 DEF Q
<1>7. ASSUME NEW i \in Int, NEW j \in Int, i = g * j PROVE (k * i) \div (k * g) = i \div g
  <2>1. k * g \in Nat \ {0} /\ k * i \in Int
    BY <1>3
  <2>2. k * i = (k * g) * j + 0 /\ 0 \in 0 .. (k * g) - 1
    BY <1>3, <1>7, <2>1
  <2>3. (k * i) \div (k * g) = j
    BY <2>1, <2>2, DivModUnique
  <2>4. i = g * j + 0 /\ 0 \in 0 .. g - 1
    BY <1>3, <1>7
  <2>5. i \div g = j
    BY <1>3, <2>4, DivModUnique
  <2> QED BY <2>3, <2>5
<1>8. \E j \in Int : n = g * j
  <2>1. PICK c \in Nat : Size(n) = g * c
    <3> HIDE DEF Size
    <3> QED BY <1>1, <1>2, GcdDivides
  <2>2. CASE n < 0
    <3>1. n = g * (-c) /\ -c \in Int
      BY <1>3, <2>1, <2>2
    <3> QED BY <3>1
  <2>3. CASE ~(n < 0)
    BY <2>1, <2>3
  <2> QED BY <2>2, <2>3
<1>9. \E j \in Int : d = g * j
  <2>1. PICK c \in Nat : d = g * c
    <3> HIDE DEF Size
    <3> QED BY <1>1, <1>2, GcdDivides
  <2> QED BY <2>1
<1> HIDE DEF Size
<1>10. (k * n) \div (k * g) = n \div g
  BY <1>7, <1>8
<1>11. (k * d) \div (k * g) = d \div g
  BY <1>7, <1>9
<1> QED BY <1>5, <1>6, <1>10, <1>11

\* Two fractions are one number when their cross products agree.
LEMMA QEqual ==
    ASSUME NEW n \in Int, NEW d \in Nat \ {0}, NEW m \in Int, NEW e \in Nat \ {0},
           n * e = m * d
    PROVE  Q(n, d) = Q(m, e)
<1>1. Q(e * n, e * d) = Q(n, d)
  BY QScales
<1>2. Q(d * m, d * e) = Q(m, e)
  BY QScales
<1>3. e * n = d * m /\ e * d = d * e
  OBVIOUS
<1> QED BY <1>1, <1>2, <1>3

\* A fraction in lowest terms lies on the same side of a number.
LEMMA QBounds ==
    ASSUME NEW n \in Int, NEW d \in Nat \ {0}, NEW m \in Int
    PROVE  /\ Q(n, d)[1] \in Int /\ Q(n, d)[2] \in Nat \ {0}
           /\ m * d <= n => m * Q(n, d)[2] <= Q(n, d)[1]
           /\ n <= m * d => Q(n, d)[1] <= m * Q(n, d)[2]
<1>1. PICK x, y : x = Q(n, d)[1] /\ y = Q(n, d)[2]
  OBVIOUS
<1>2. x \in Int /\ y \in Nat \ {0}
  BY <1>1, LowestTerms DEF Fraction
<1>3. PICK g \in Nat \ {0} : n = g * x /\ d = g * y
  BY <1>1, LowestTerms
<1>4. m * d = g * (m * y)
  BY <1>2, <1>3
<1>5. \A u, v \in Int : g * u <= g * v => u <= v
  BY <1>3
<1>6. m * y \in Int
  BY <1>2
<1>7. m * d <= n => m * y <= x
  BY <1>2, <1>3, <1>4, <1>5, <1>6
<1>8. n <= m * d => x <= m * y
  BY <1>2, <1>3, <1>4, <1>5, <1>6
<1> QED BY <1>1, <1>2, <1>7, <1>8
------------------------------------------------------------------------------
(* Sums and extremes. *)

\* Terms of 0 add nothing.
LEMMA SumOfZeros ==
    ASSUME NEW F, Summable(F), \A x \in DOMAIN F : F[x] = 0
    PROVE  SumFunction(F) = 0
<1>1. \A x \in DOMAIN F : F[x] = 0 * F[x]
  BY DEF Summable
<1>2. SumFunction(F) = 0 * SumFunction(F)
  BY <1>1, SumScales
<1>3. SumFunction(F) \in Int
  BY SumMonotone DEF Summable
<1> QED BY <1>2, <1>3

\* Only two terms that count.
LEMMA SumOfTwo ==
    ASSUME NEW F, Summable(F), NEW y \in DOMAIN F, NEW z \in DOMAIN F,
           \A x \in DOMAIN F : x \notin {y, z} => F[x] = 0
    PROVE  SumFunction(F) = IF y = z THEN F[y] ELSE F[y] + F[z]
<1>1. PICK G : G = [F EXCEPT ![y] = 0]
  OBVIOUS
<1>2. PICK H : H = [G EXCEPT ![z] = 0]
  OBVIOUS
<1>3. Summable(G) /\ SumFunction(F) = F[y] + SumFunction(G)
  BY <1>1, SumDrops
<1>4. z \in DOMAIN G /\ DOMAIN H = DOMAIN F /\ DOMAIN G = DOMAIN F
  BY <1>1, <1>2
<1>5. Summable(H) /\ SumFunction(G) = G[z] + SumFunction(H)
  BY <1>2, <1>3, <1>4, SumDrops
<1>6. \A x \in DOMAIN H : H[x] = 0
  BY <1>1, <1>2
<1>7. SumFunction(H) = 0
  BY <1>5, <1>6, SumOfZeros
<1>8. F[y] \in Int /\ F[z] \in Int
  BY DEF Summable
<1>9. G[z] = IF y = z THEN 0 ELSE F[z]
  BY <1>1
<1> QED BY <1>3, <1>5, <1>7, <1>8, <1>9

\* Ones add up to how many there are.
LEMMA SumOfOnes ==
    ASSUME NEW F, IsFiniteSet(DOMAIN F), \A x \in DOMAIN F : F[x] = 1
    PROVE  SumFunction(F) = Cardinality(DOMAIN F)
<1> DEFINE D == DOMAIN F
<1>1. Summable(F)
  BY DEF Summable
<1>2. PICK f : Sums(F, D, f) /\ SumFunction(F) = f[D]
  BY <1>1, SumIs
<1>3. IsFiniteSet(D) /\ D \in SUBSET D /\ \A x \in D : F[x] = 1
  OBVIOUS
<1> HIDE DEF D
<1> DEFINE P == {s \in SUBSET D : f[s] = Cardinality(s)}
<1>4. {} \in P
  BY <1>2, FS_EmptySet DEF Sums
<1>5. ASSUME NEW s \in SUBSET D, s # {}, s \ {Pick(s)} \in P PROVE s \in P
  <2>1. f[s] = F[Pick(s)] + f[s \ {Pick(s)}]
    BY <1>2, <1>5 DEF Sums
  <2>2. Pick(s) \in D /\ Cardinality(s) \in Nat /\ Cardinality(s \ {Pick(s)}) = Cardinality(s) - 1
    BY <1>3, <1>5, OneLess
  <2>3. f[s \ {Pick(s)}] = Cardinality(s) - 1
    BY <1>5, <2>2
  <2> QED BY <1>3, <2>1, <2>2, <2>3
<1>6. SUBSET D \subseteq P
  <2> HIDE DEF P
  <2> QED BY <1>3, <1>4, <1>5, SubsetInduction
<1> QED BY <1>2, <1>3, <1>6 DEF D

\* Among finitely many values there are a least and a greatest.
LEMMA Extremes ==
    ASSUME NEW F, Summable(F), DOMAIN F # {}
    PROVE  /\ \E y \in DOMAIN F : \A x \in DOMAIN F : F[y] <= F[x]
           /\ \E y \in DOMAIN F : \A x \in DOMAIN F : F[x] <= F[y]
<1> DEFINE D == DOMAIN F
<1>1. IsFiniteSet(D) /\ D # {} /\ \A x \in D : F[x] \in Int
  BY DEF Summable
<1> HIDE DEF D
<1> DEFINE P == {s \in SUBSET D : s # {} => /\ \E y \in s : \A x \in s : F[y] <= F[x]
                                           /\ \E z \in s : \A w \in s : F[w] <= F[z]}
<1>2. {} \in P
  OBVIOUS
<1>3. ASSUME NEW s \in SUBSET D, s # {}, s \ {Pick(s)} \in P PROVE s \in P
  <2>1. PICK p : p = Pick(s)
    OBVIOUS
  <2>2. p \in s /\ s \subseteq D /\ s \ {p} \in P
    BY <1>1, <1>3, <2>1, OneLess
  <2>3. CASE s \ {p} = {}
    <3>1. \A x \in s : x = p
      BY <2>3
    <3>2. F[p] <= F[p]
      BY <1>1, <2>2
    <3> QED BY <2>2, <3>1, <3>2
  <2>4. CASE s \ {p} # {}
    <3>1. PICK y \in s \ {p} : \A x \in s \ {p} : F[y] <= F[x]
      BY <2>2, <2>4
    <3>2. PICK z \in s \ {p} : \A x \in s \ {p} : F[x] <= F[z]
      BY <2>2, <2>4
    <3>3. \A x \in s : F[x] \in Int
      BY <1>1, <2>2
    <3>4. \E u \in s : \A x \in s : F[u] <= F[x]
      <4>1. CASE F[y] <= F[p]
        <5>1. \A x \in s : F[y] <= F[x]
          BY <3>1, <4>1
        <5> QED BY <3>1, <5>1
      <4>2. CASE ~(F[y] <= F[p])
        <5>1. \A x \in s : F[p] <= F[x]
          BY <2>2, <3>1, <3>3, <4>2
        <5> QED BY <2>2, <5>1
      <4> QED BY <4>1, <4>2
    <3>5. \E u \in s : \A x \in s : F[x] <= F[u]
      <4>1. CASE F[p] <= F[z]
        <5>1. \A x \in s : F[x] <= F[z]
          BY <3>2, <4>1
        <5> QED BY <3>2, <5>1
      <4>2. CASE ~(F[p] <= F[z])
        <5>1. \A x \in s : F[x] <= F[p]
          BY <2>2, <3>2, <3>3, <4>2
        <5> QED BY <2>2, <5>1
      <4> QED BY <4>1, <4>2
    <3> QED BY <3>4, <3>5
  <2> QED BY <2>3, <2>4
<1>4. SUBSET D \subseteq P
  <2> HIDE DEF P
  <2> QED BY <1>1, <1>2, <1>3, SubsetInduction
<1>5. D \in P
  BY <1>4
<1> QED BY <1>1, <1>5 DEF D

\* Of the values of F on a finite set, Min and Max are the least and the
\* greatest.
LEMMA MinMax ==
    ASSUME NEW F, Summable(F), DOMAIN F # {}, NEW S, S = {F[x] : x \in DOMAIN F}
    PROVE  /\ Min(S) \in S /\ \A y \in S : Min(S) <= y
           /\ Max(S) \in S /\ \A y \in S : y <= Max(S)
<1>1. /\ \E x \in S : \A y \in S : x =< y
      /\ \E x \in S : \A y \in S : y <= x
  BY Extremes
<1>2. \A y \in S : y \in Int
  BY DEF Summable
<1>3. \E x \in S : \A y \in S : x >= y
  BY <1>1, <1>2
<1>4. Min(S) \in S /\ \A y \in S : Min(S) =< y
  BY <1>1 DEF Min
<1>5. Max(S) \in S /\ \A y \in S : Max(S) >= y
  BY <1>3 DEF Max
<1> QED BY <1>2, <1>4, <1>5

\* The least and the greatest of two.
LEMMA MinMaxOfTwo ==
    ASSUME NEW a \in Int, NEW b \in Int
    PROVE  Min({a, b}) = (IF a <= b THEN a ELSE b) /\ Max({a, b}) = (IF a <= b THEN b ELSE a)
<1>1. PICK S : S = {a, b}
  OBVIOUS
<1>2. (\E x \in S : \A y \in S : x =< y) /\ (\E x \in S : \A y \in S : x >= y)
  <2>1. CASE a <= b
    BY <1>1, <2>1
  <2>2. CASE ~(a <= b)
    BY <1>1, <2>2
  <2> QED BY <2>1, <2>2
<1>3. Min(S) \in S /\ \A y \in S : Min(S) =< y
  BY <1>2 DEF Min
<1>4. Max(S) \in S /\ \A y \in S : Max(S) >= y
  BY <1>2 DEF Max
<1> QED BY <1>1, <1>3, <1>4
------------------------------------------------------------------------------
(* The algorithms' inputs, and the throttle. *)

\* An input stays what it was.
LEMMA InputStays ==
    /\ NumericsInit => input \in Inputs
    /\ input \in Inputs /\ [NumericsNext]_numericsVars => (input \in Inputs)'
  BY DEF NumericsInit, NumericsNext, numericsVars

\* What becomes of any number sent as a throttle, by the byte it is cut to.
LEMMA ThrottleHolds ==
    ASSUME NEW value \in Int, NEW throttle \in 0 .. 100
    PROVE  /\ ThrottleAsAsked(Asked(value), throttle)
           /\ ThrottleInRange(Asked(value), throttle)
<1>1. PICK m : m = Asked(value)
  OBVIOUS
<1>2. m.topic = "set_throttle" /\ m.payload = "object" /\ m.value = value
  BY <1>1 DEF Asked
<1>3. PICK p : p = value % 256
  OBVIOUS
<1>4. p \in 0 .. 255 /\ (value \in 0 .. 255 => p = value)
  BY <1>3, SMTT(30)
<1>5. Translate(m) = <<[id |-> 2, param |-> p]>>
  BY <1>2, <1>3 DEF Translate, CommandId, WithParam
<1>6. unpack_command(encode_command(Translate(m)[1]))[1] = [id |-> 2, param |-> p]
  BY <1>5 DEF unpack_command, encode_command
<1>7. PICK c : c = [id |-> 2, param |-> p]
  OBVIOUS
<1>8. UnknownCommand(c) \/ UnknownMode(c) \/ OutOfRange(c) <=> p > 100
  BY <1>4, <1>7 DEF UnknownCommand, UnknownMode, OutOfRange
<1>9. \A s \in {0, 1} : decode_response(pack_response(2, s))[1] = [id |-> 2, status |-> s]
  BY DEF decode_response, pack_response
<1>10. PICK d : d = Deliver(m, throttle)
  OBVIOUS
<1>11. CASE p > 100
  <2>1. d = [throttle |-> throttle, answer |-> [id |-> 2, status |-> 1]]
    BY <1>6, <1>7, <1>8, <1>9, <1>10, <1>11 DEF Deliver
  <2> QED BY <1>1, <1>2, <1>4, <1>10, <1>11, <2>1
          DEF ThrottleAsAsked, ThrottleInRange, CommandId
<1>12. CASE ~(p > 100)
  <2>1. set_throttle(p) = p
    BY <1>4, <1>12 DEF set_throttle
  <2>2. d = [throttle |-> p, answer |-> [id |-> 2, status |-> 0]]
    BY <1>6, <1>7, <1>8, <1>9, <1>10, <1>12, <2>1 DEF Deliver
  <2> QED BY <1>1, <1>2, <1>4, <1>10, <1>12, <2>2
          DEF ThrottleAsAsked, ThrottleInRange, CommandId
<1> QED BY <1>11, <1>12

\* A number that fits a byte sets the throttle it names or is refused, and no
\* number at all takes the engine out of range (MqttPublisher.cpp:96-98,
\* ecu_state_machine.cpp:126-132, physics_model.cpp:8-10).
THEOREM ThrottleAlwaysAsked == NumericsSpec => []ThrottleIsAsked
<1>1. input \in Inputs => ThrottleIsAsked
  <2>1. ASSUME input \in Inputs, input.kind = "throttle"
        PROVE  input.value \in Int /\ input.throttle \in 0 .. 100
    BY <2>1, NumericsAssumption DEF Inputs
  <2> QED BY <2>1, ThrottleHolds DEF ThrottleIsAsked
<1> QED BY <1>1, InputStays, PTL DEF NumericsSpec
------------------------------------------------------------------------------
(* The auction. *)

\* A number that fits is not wrapped.
LEMMA WrapFits ==
    ASSUME NEW n \in Nat \ {0}, n % 2 = 0, NEW v \in Int, 2 * v < n, -n <= 2 * v
    PROVE  Wrap(n, v) = v
<1>1. PICK h : h = n \div 2
  OBVIOUS
<1>2. h \in Nat /\ n = 2 * h
  BY <1>1
<1>3. v + h \in 0 .. n - 1
  BY <1>2
<1>4. (v + h) % n = v + h
  BY <1>3
<1> QED BY <1>1, <1>2, <1>4 DEF Wrap

\* The square of a number between -b and b.
LEMMA SquareFits ==
    ASSUME NEW b \in Nat, NEW v \in -b .. b
    PROVE  v * v \in Int /\ 0 <= v * v /\ v * v <= b * b
<1>1. CASE v >= 0
  <2>1. v * v <= v * b /\ v * b <= b * b
    BY <1>1, SMT
  <2>2. v * v \in Int /\ v * v >= 0 /\ v * b \in Int /\ b * b \in Int
    BY <1>1, SMT
  <2> QED BY <2>1, <2>2
<1>2. CASE v < 0
  <2>1. PICK u : u = -v
    OBVIOUS
  <2>2. u \in Nat /\ u <= b /\ v * v = u * u
    BY <1>2, <2>1
  <2>3. u * u <= u * b /\ u * b <= b * b
    BY <2>2, SMT
  <2>4. u * u \in Int /\ u * u >= 0 /\ u * b \in Int /\ b * b \in Int
    BY <2>2, SMT
  <2> QED BY <2>2, <2>3, <2>4
<1> QED BY <1>1, <1>2

\* In the area no difference wraps, nor the sum of the squares of three.
LEMMA Differences ==
    ASSUME NEW x \in Area, NEW y \in Area
    PROVE  LET e == Span \div 8 IN
           /\ e \in Nat /\ e > 0 /\ 8 * e <= Span
           /\ x - y \in -(2 * e) .. 2 * e /\ x - y \in Int
           /\ Wrap(Span, x - y) = x - y
<1> USE SpanAssumption
<1>1. PICK e : e = Span \div 8
  OBVIOUS
<1>2. e \in Nat /\ 8 * e <= Span /\ Span \in Nat \ {0}
  BY <1>1
<1>3. x \in -e .. e - 1 /\ y \in -e .. e - 1
  BY <1>1 DEF Area
<1>4. e > 0 /\ x - y \in -(2 * e) .. 2 * e /\ x - y \in Int
  BY <1>2, <1>3
<1>5. PICK v : v = x - y
  OBVIOUS
<1>6. v \in Int /\ 2 * v < Span /\ -Span <= 2 * v
  BY <1>2, <1>3, <1>5
<1>7. Wrap(Span, v) = v
  BY <1>2, <1>6, WrapFits
<1> QED BY <1>1, <1>2, <1>4, <1>5, <1>7

LEMMA KeyIsDistance ==
    ASSUME NEW a \in Points, NEW b \in Points
    PROVE  /\ Squares(a, b) = Distance(a, b) /\ Key(a, b) = Distance(a, b)
           /\ Distance(a, b) \in Nat
<1> USE SpanAssumption
<1>1. PICK e : e = Span \div 8
  OBVIOUS
<1>2. PICK D : D = 1 .. Dims
  OBVIOUS
<1>3. DOMAIN a = D /\ DOMAIN b = D /\ 1 \in D /\ \A k \in D : a[k] \in Area /\ b[k] \in Area
  BY <1>2 DEF Points
<1>4. e \in Nat /\ e > 0 /\ 8 * e <= Span
  BY <1>1, <1>3, Differences
<1>5. PICK c : c = (2 * e) * (2 * e)
  OBVIOUS
<1>6. c \in Nat
  BY <1>4, <1>5
<1>7. PICK F : F = [k \in D |-> Square(a[k] - b[k])]
  OBVIOUS
<1>8. ASSUME NEW k \in D
      PROVE  /\ Wrap(Span, a[k] - b[k]) * Wrap(Span, a[k] - b[k]) = F[k]
             /\ F[k] \in Int /\ 0 <= F[k] /\ F[k] <= c
  <2>1. PICK v : v = a[k] - b[k]
    OBVIOUS
  <2>2. PICK B : B = 2 * e
    OBVIOUS
  <2>3. B \in Nat /\ v \in -B .. B /\ Wrap(Span, v) = v
    BY <1>1, <1>3, <1>4, <2>1, <2>2, Differences
  <2>4. v * v \in Int /\ 0 <= v * v /\ v * v <= B * B
    BY <2>3, SquareFits
  <2>5. F[k] = v * v
    BY <1>7, <2>1 DEF Square
  <2> QED BY <1>5, <2>1, <2>2, <2>3, <2>4, <2>5
<1>9. IsFiniteSet(D) /\ Cardinality(D) = Dims
  <2>1. 1 \in Int /\ Dims \in Int /\ Dims >= 1 /\ Dims - 1 + 1 = Dims
    OBVIOUS
  <2>2. IsFiniteSet(1 .. Dims) /\ Cardinality(1 .. Dims) = Dims
    BY <2>1, FS_Interval
  <2> QED BY <1>2, <2>2
<1>10. Summable(F) /\ DOMAIN F = D
  BY <1>7, <1>8, <1>9 DEF Summable
<1>11. SumFunction(F) \in Nat
  BY <1>8, <1>10, SumOfNaturals
<1>12. Squares(a, b) = SumFunction(F)
  BY <1>3, <1>7, <1>8 DEF Squares
<1>13. Distance(a, b) = SumFunction(F)
  BY <1>3, <1>7 DEF Distance
<1>14. SumFunction(F) <= 3 * c
  <2>1. PICK O, C : O = [k \in D |-> 1] /\ C = [k \in D |-> c * O[k]]
    OBVIOUS
  <2>2. DOMAIN O = D /\ DOMAIN C = D /\ \A k \in D : O[k] = 1 /\ C[k] = c * O[k]
    BY <2>1
  <2>3. Summable(O) /\ SumFunction(O) = Dims
    BY <1>9, <2>2, SumOfOnes DEF Summable
  <2>4. Summable(C) /\ SumFunction(C) = c * Dims
    <3>1. c \in Int /\ DOMAIN C = DOMAIN O /\ \A k \in DOMAIN O : C[k] = c * O[k]
      BY <1>6, <2>2
    <3>2. Summable(C) /\ SumFunction(C) = c * SumFunction(O)
      BY <2>3, <3>1, SumScales
    <3> QED BY <2>3, <3>2
  <2>5. \A k \in D : F[k] <= C[k]
    BY <1>6, <1>8, <2>2
  <2>6. SumFunction(F) <= SumFunction(C)
    BY <1>10, <2>2, <2>4, <2>5, SumMonotone
  <2>7. c * Dims <= 3 * c
    BY <1>6, SMT
  <2> QED BY <1>6, <1>11, <2>4, <2>6, <2>7
<1>15. Wrap(Span * Span, SumFunction(F)) = SumFunction(F)
  <2>1. PICK q, s : q = Span * Span /\ s = SumFunction(F)
    OBVIOUS
  <2>2. q \in Nat \ {0} /\ q % 2 = 0
    <3>1. PICK h : h = Span \div 2
      OBVIOUS
    <3>2. h \in Nat \ {0} /\ Span = 2 * h
      BY <3>1
    <3>3. q = 2 * (h * (2 * h)) /\ h * (2 * h) \in Nat \ {0}
      BY <2>1, <3>2, SMT
    <3>4. PICK w : w = h * (2 * h)
      OBVIOUS
    <3>5. q = 2 * w /\ w \in Nat \ {0}
      BY <3>3, <3>4
    <3> QED BY <3>5
  <2>3. 16 * c <= q
    <3>1. PICK B : B = 8 * e
      OBVIOUS
    <3>2. B \in Nat /\ B <= Span
      BY <1>4, <3>1
    <3>3. B * B <= Span * B /\ Span * B <= Span * Span
      BY <3>2, SMT
    <3>4. B * B = 16 * c
      BY <1>4, <1>5, <3>1
    <3>5. B * B \in Int /\ Span * B \in Int /\ Span * Span \in Int
      BY <3>2
    <3> QED BY <2>1, <3>3, <3>4, <3>5
  <2>4. s \in Int /\ 2 * s < q /\ -q <= 2 * s
    BY <1>6, <1>11, <1>14, <2>1, <2>2, <2>3
  <2> QED BY <2>1, <2>2, <2>4, WrapFits
<1> QED BY <1>11, <1>12, <1>13, <1>15 DEF Key

\* The winner of a goal is as near to it as anyone.
LEMMA WinnerIsNearest ==
    ASSUME NEW m \in Nat \ {0}, NEW drones, DOMAIN drones = 1 .. m, NEW goal \in Points,
           \A i \in 1 .. m : Endpoint(drones[i]) \in Points
    PROVE  /\ Winner(drones, goal) \in 1 .. m
           /\ \A j \in 1 .. m : Distance(Endpoint(drones[Winner(drones, goal)]), goal)
                                  <= Distance(Endpoint(drones[j]), goal)
<1>1. PICK F : F = [i \in 1 .. m |-> Key(Endpoint(drones[i]), goal)]
  OBVIOUS
<1>2. \A i \in 1 .. m : /\ F[i] = Key(Endpoint(drones[i]), goal) /\ F[i] \in Int
                        /\ F[i] = Distance(Endpoint(drones[i]), goal)
  BY <1>1, KeyIsDistance
<1>3. Summable(F) /\ DOMAIN F = 1 .. m /\ DOMAIN F # {}
  <2>1. IsFiniteSet(1 .. m)
    BY FS_Interval
  <2>2. DOMAIN F = 1 .. m /\ 1 \in 1 .. m
    BY <1>1
  <2>3. Summable(F)
    BY <1>2, <2>1, <2>2 DEF Summable
  <2> QED BY <2>2, <2>3
<1>4. PICK T : T = {i \in 1 .. m : \A x \in 1 .. m : F[i] <= F[x]}
  OBVIOUS
<1>5. T \subseteq Nat /\ T # {}
  <2>1. PICK y \in 1 .. m : \A x \in 1 .. m : F[y] <= F[x]
    BY <1>3, Extremes
  <2>2. y \in T
    BY <1>4, <2>1
  <2> QED BY <1>4, <2>2
<1>6. PICK i \in T : \A j \in T : i <= j
  BY <1>5, LeastNumber
<1>7. i \in 1 .. m /\ \A x \in 1 .. m : F[i] <= F[x]
  BY <1>4
<1>8. ASSUME NEW j \in 1 .. i - 1 PROVE F[i] < F[j]
  <2>1. j \in 1 .. m /\ j \notin T
    BY <1>6, <1>7
  <2>2. PICK x \in 1 .. m : ~(F[j] <= F[x])
    BY <1>4, <2>1
  <2> QED BY <1>2, <1>7, <2>1, <2>2
<1>9. PICK w : w = CHOOSE k \in 1 .. m : /\ \A x \in 1 .. m : F[k] <= F[x]
                                         /\ \A j \in 1 .. k - 1 : F[k] < F[j]
  OBVIOUS
<1>10. w \in 1 .. m /\ \A x \in 1 .. m : F[w] <= F[x]
  BY <1>7, <1>8, <1>9
<1>11. Winner(drones, goal) = w
  <2>1. ASSUME NEW k \in 1 .. m PROVE \A j \in 1 .. k - 1 : j \in 1 .. m
    OBVIOUS
  <2>2. \A k \in 1 .. m :
           /\ (\A x \in 1 .. m : F[k] <= F[x])
                 <=> (\A x \in 1 .. m : Key(Endpoint(drones[k]), goal) <= Key(Endpoint(drones[x]), goal))
           /\ (\A j \in 1 .. k - 1 : F[k] < F[j])
                 <=> (\A j \in 1 .. k - 1 : Key(Endpoint(drones[k]), goal) < Key(Endpoint(drones[j]), goal))
    BY <1>2, <2>1
  <2> QED BY <1>9, <2>2 DEF Winner
<1> QED BY <1>2, <1>10, <1>11

\* The greatest of finitely many numbers.
LEMMA MaxIs ==
    ASSUME NEW S, IsFiniteSet(S), S # {}, S \subseteq Int
    PROVE  Max(S) \in S /\ \A y \in S : y <= Max(S)
<1>1. PICK F : F = [x \in S |-> x]
  OBVIOUS
<1>2. Summable(F) /\ DOMAIN F # {} /\ S = {F[x] : x \in DOMAIN F}
  BY <1>1 DEF Summable
<1> QED BY <1>2, MinMax

\* A list of goals in their order.
Ascending(list, n) ==
    /\ list \in Seq(Nat) /\ \A k \in DOMAIN list : list[k] \in 1 .. n
    /\ \A k, l \in DOMAIN list : l < k => list[l] < list[k]

\* Where a drone is when the first k goals of its list are past.
LEMMA PlaceAfter ==
    ASSUME NEW drone, NEW list, NEW goals, NEW n, NEW k \in Nat,
           \A l \in DOMAIN list : list[l] < n <=> l \in 1 .. k, 1 .. k \subseteq DOMAIN list
    PROVE  Place(drone, list, goals, n) = IF k = 0 THEN drone.position ELSE goals[list[k]]
<1>1. PICK past : past = {l \in DOMAIN list : list[l] < n}
  OBVIOUS
<1>4. past = 1 .. k
  BY <1>1
<1>2. CASE k = 0
  <2>1. past = {}
    BY <1>2, <1>4
  <2> QED BY <1>1, <1>2, <2>1 DEF Place
<1>3. CASE k # 0
  <2>0. IsFiniteSet(1 .. k)
    BY FS_Interval
  <2>1. past # {} /\ past \subseteq Int /\ k \in past /\ IsFiniteSet(past)
    <3>1. past = 1 .. k /\ k \in 1 .. k /\ k \in Int
      BY <1>3, <1>4
    <3> QED BY <2>0, <3>1
  <2>2. Max(past) \in past /\ k <= Max(past)
    BY <2>1, MaxIs
  <2>3. Max(past) = k
    BY <1>4, <2>2
  <2> QED BY <1>1, <1>3, <2>1, <2>3 DEF Place
<1> QED BY <1>2, <1>3

\* To goal k of its list it comes from goal k - 1.
LEMMA PlaceInList ==
    ASSUME NEW list, NEW n \in Nat, NEW drone, NEW goals, Ascending(list, n)
    PROVE  \A k \in DOMAIN list :
               Place(drone, list, goals, list[k])
                 = IF k = 1 THEN drone.position ELSE goals[list[k - 1]]
<1>1. DOMAIN list = 1 .. Len(list) /\ Len(list) \in Nat
  BY DEF Ascending
<1>2. ASSUME NEW k \in DOMAIN list
      PROVE  Place(drone, list, goals, list[k])
               = IF k = 1 THEN drone.position ELSE goals[list[k - 1]]
  <2>1. \A l \in DOMAIN list : list[l] < list[k] <=> l < k
    <3>1. ASSUME NEW l \in DOMAIN list PROVE list[l] < list[k] <=> l < k
      <4>1. l \in Int /\ k \in Int /\ list[l] \in Int /\ list[k] \in Int
        BY <1>1 DEF Ascending
      <4>2. (l < k => list[l] < list[k]) /\ (k < l => list[k] < list[l])
        BY DEF Ascending
      <4>3. k = l => list[k] = list[l]
        OBVIOUS
      <4> QED BY <4>1, <4>2, <4>3
    <3> QED BY <3>1
  <2>2. PICK j, g : j = k - 1 /\ g = list[k]
    OBVIOUS
  <2>3. /\ j \in Nat /\ 1 .. j \subseteq DOMAIN list
        /\ \A l \in DOMAIN list : list[l] < g <=> l \in 1 .. j
    BY <1>1, <2>1, <2>2
  <2>4. Place(drone, list, goals, g) = IF j = 0 THEN drone.position ELSE goals[list[j]]
    BY ONLY <2>3, PlaceAfter
  <2>5. j = 0 <=> k = 1
    BY <1>1, <2>2
  <2> QED BY <2>2, <2>4, <2>5
<1> QED BY <1>2

\* After the last goal of its list it is there.
LEMMA PlaceAtEnd ==
    ASSUME NEW drone, NEW goals, NEW n \in Nat, NEW list, Ascending(list, n)
    PROVE  Place(drone, list, goals, n + 1)
             = IF list = <<>> THEN drone.position ELSE goals[list[Len(list)]]
<1>1. DOMAIN list = 1 .. Len(list) /\ Len(list) \in Nat
  BY DEF Ascending
<1>2. \A l \in DOMAIN list : list[l] < n + 1 <=> l \in 1 .. Len(list)
  BY <1>1 DEF Ascending
<1>3. Place(drone, list, goals, n + 1)
        = IF Len(list) = 0 THEN drone.position ELSE goals[list[Len(list)]]
  <2>1. PICK L, N : L = Len(list) /\ N = n + 1
    OBVIOUS
  <2>2. /\ L \in Nat /\ 1 .. L \subseteq DOMAIN list
        /\ \A l \in DOMAIN list : list[l] < N <=> l \in 1 .. L
    BY <1>1, <1>2, <2>1
  <2>3. Place(drone, list, goals, N) = IF L = 0 THEN drone.position ELSE goals[list[L]]
    BY ONLY <2>2, PlaceAfter, SMTT(30)
  <2> QED BY <2>1, <2>3
<1>4. Len(list) = 0 <=> list = <<>>
  BY DEF Ascending
<1> QED BY <1>3, <1>4

\* A later goal does not change where it was.
LEMMA PlaceStays ==
    ASSUME NEW drone, NEW goals, NEW n \in Nat, NEW list, Ascending(list, n), NEW g \in 1 .. n + 1
    PROVE  /\ Ascending(Append(list, n + 1), n + 1)
           /\ Place(drone, Append(list, n + 1), goals, g) = Place(drone, list, goals, g)
<1>1. PICK new : new = Append(list, n + 1)
  OBVIOUS
<1>2. /\ DOMAIN list = 1 .. Len(list) /\ Len(list) \in Nat /\ new \in Seq(Nat)
      /\ DOMAIN new = 1 .. Len(list) + 1 /\ new[Len(list) + 1] = n + 1
      /\ \A k \in DOMAIN list : new[k] = list[k]
  BY <1>1 DEF Ascending
<1>3. Ascending(new, n + 1)
  <2>1. \A k \in DOMAIN new : new[k] \in 1 .. n + 1
    BY <1>2 DEF Ascending
  <2>2. \A k, l \in DOMAIN new : l < k => new[l] < new[k]
    <3>1. ASSUME NEW k \in DOMAIN new, NEW l \in DOMAIN new, l < k PROVE new[l] < new[k]
      <4>1. l \in DOMAIN list /\ new[l] = list[l]
        BY <1>2, <3>1
      <4>2. CASE k \in DOMAIN list
        BY <1>2, <3>1, <4>1, <4>2 DEF Ascending
      <4>3. CASE k \notin DOMAIN list
        <5>1. new[k] = n + 1 /\ list[l] \in 1 .. n
          BY <1>2, <4>1, <4>3 DEF Ascending
        <5> QED BY <4>1, <5>1
      <4> QED BY <4>2, <4>3
    <3> QED BY <3>1
  <2> QED BY <1>2, <2>1, <2>2 DEF Ascending
<1>4. PICK past : past = {k \in DOMAIN list : list[k] < g}
  OBVIOUS
<1>5. {k \in DOMAIN new : new[k] < g} = past
  BY <1>2, <1>4
<1>6. past # {} => Max(past) \in past
  <2>1. IsFiniteSet(DOMAIN list) /\ past \subseteq DOMAIN list /\ past \subseteq Int
    BY <1>2, <1>4, FS_Interval
  <2>2. IsFiniteSet(past)
    BY <2>1, FS_Subset
  <2> QED BY <2>1, <2>2, MaxIs
<1>7. past # {} => new[Max(past)] = list[Max(past)]
  BY <1>2, <1>4, <1>6
<1>8. Place(drone, new, goals, g) = Place(drone, list, goals, g)
  BY <1>4, <1>5, <1>7 DEF Place
<1> QED BY <1>1, <1>3, <1>8

\* The states of an auction: drones that keep who they are, and their lists.
Auction(drones) ==
    {s \in [drones : [DOMAIN drones -> [id : Nat, position : Points,
                                        last_wp : {<<>>} \cup {<<p>> : p \in Points}]],
            assignment : [{drones[i].id : i \in DOMAIN drones} -> Seq(Nat)]] :
        \A i \in DOMAIN drones : s.drones[i].id = drones[i].id}

\* Drone w takes goal n, and nobody was nearer.
Takes(s, t, w, goals, n) ==
    /\ w \in DOMAIN s.drones
    /\ t = [drones |-> [s.drones EXCEPT ![w].last_wp = <<goals[n]>>],
            assignment |-> [s.assignment EXCEPT ![s.drones[w].id] = Append(@, n)]]
    /\ \A j \in DOMAIN s.drones : Distance(Endpoint(s.drones[w]), goals[n])
                                    <= Distance(Endpoint(s.drones[j]), goals[n])

\* A step of the auction.
LEMMA TakeIs ==
    ASSUME NEW drones, IsFleet(drones), drones # <<>>, NEW goals \in Seq(Points),
           NEW s \in Auction(drones), NEW n \in DOMAIN goals
    PROVE  /\ Take(goals, s, n) \in Auction(drones)
           /\ \E w \in DOMAIN drones : Takes(s, Take(goals, s, n), w, goals, n)
<1>1. PICK m : m = Len(drones)
  OBVIOUS
<1>2. m \in Nat \ {0} /\ DOMAIN drones = 1 .. m
  BY <1>1 DEF IsFleet
<1>3. PICK ds, as : ds = s.drones /\ as = s.assignment
  OBVIOUS
<1>4. /\ ds \in [1 .. m -> [id : Nat, position : Points,
                            last_wp : {<<>>} \cup {<<p>> : p \in Points}]]
      /\ as \in [{drones[i].id : i \in 1 .. m} -> Seq(Nat)]
      /\ \A i \in 1 .. m : ds[i].id = drones[i].id
  BY <1>2, <1>3 DEF Auction
<1>5. PICK g : g = goals[n]
  OBVIOUS
<1>6. g \in Points /\ n \in Nat
  BY <1>5
<1>7. \A i \in 1 .. m : Endpoint(ds[i]) \in Points
  <2>1. ASSUME NEW i \in 1 .. m PROVE Endpoint(ds[i]) \in Points
    <3>1. ds[i].position \in Points /\ ds[i].last_wp \in {<<>>} \cup {<<p>> : p \in Points}
      BY <1>4
    <3> QED BY <3>1 DEF Endpoint
  <2> QED BY <2>1
<1>8. PICK w : w = Winner(ds, g)
  OBVIOUS
<1>9. /\ w \in 1 .. m /\ DOMAIN ds = 1 .. m
      /\ \A j \in 1 .. m : Distance(Endpoint(ds[w]), g) <= Distance(Endpoint(ds[j]), g)
  BY <1>2, <1>4, <1>6, <1>7, <1>8, WinnerIsNearest
<1>10. (CHOOSE i \in DOMAIN ds : ds[i].id = ds[w].id /\ \A j \in 1 .. i - 1 : ds[j].id # ds[w].id) = w
  <2>1. \A i \in 1 .. m : i # w => ds[i].id # ds[w].id
    BY <1>2, <1>4, <1>9 DEF IsFleet
  <2>2. \A j \in 1 .. w - 1 : ds[j].id # ds[w].id
    <3>1. \A j \in 1 .. w - 1 : j \in 1 .. m /\ j # w
      BY <1>2, <1>9
    <3> QED BY <2>1, <3>1
  <2>3. PICK P : P = {i \in 1 .. m : ds[i].id = ds[w].id /\ \A j \in 1 .. i - 1 : ds[j].id # ds[w].id}
    OBVIOUS
  <2>4. P = {w}
    BY <1>9, <2>1, <2>2, <2>3
  <2>5. (CHOOSE i \in 1 .. m : ds[i].id = ds[w].id /\ \A j \in 1 .. i - 1 : ds[j].id # ds[w].id) \in P
    BY <2>3, <2>4
  <2> QED BY <1>9, <2>4, <2>5
<1>11. PICK t : t = Take(goals, s, n)
  OBVIOUS
<1>12. t = [drones |-> [ds EXCEPT ![w].last_wp = <<g>>],
            assignment |-> [as EXCEPT ![ds[w].id] = Append(@, n)]]
  <2>1. /\ w = Winner(s.drones, goals[n])
        /\ (CHOOSE i \in DOMAIN s.drones :
               s.drones[i].id = s.drones[w].id
               /\ \A j \in 1 .. i - 1 : s.drones[j].id # s.drones[w].id) = w
    BY <1>3, <1>5, <1>8, <1>10
  <2>2. t = [drones |-> [s.drones EXCEPT ![w].last_wp = <<goals[n]>>],
             assignment |-> [s.assignment EXCEPT ![s.drones[w].id] = Append(@, n)]]
    BY ONLY <1>11, <2>1 DEF Take
  <2> QED BY <1>3, <1>5, <2>2
<1>13. PICK dt, at : dt = [ds EXCEPT ![w].last_wp = <<g>>] /\ at = [as EXCEPT ![ds[w].id] = Append(@, n)]
  OBVIOUS
<1>14. /\ dt \in [1 .. m -> [id : Nat, position : Points,
                             last_wp : {<<>>} \cup {<<p>> : p \in Points}]]
       /\ \A i \in 1 .. m : dt[i].id = drones[i].id
  <2>1. DOMAIN dt = 1 .. m /\ dt = [i \in 1 .. m |-> dt[i]]
    BY <1>4, <1>13
  <2>2. ASSUME NEW i \in 1 .. m
        PROVE  /\ dt[i] \in [id : Nat, position : Points, last_wp : {<<>>} \cup {<<p>> : p \in Points}]
               /\ dt[i].id = drones[i].id
    <3>1. CASE i # w
      <4>1. dt[i] = ds[i]
        BY <1>4, <1>13, <3>1
      <4> QED BY <1>4, <4>1
    <3>2. CASE i = w
      <4>1. dt[i] = [ds[i] EXCEPT !.last_wp = <<g>>]
        BY <1>4, <1>13, <3>2
      <4>2. ds[i] \in [id : Nat, position : Points, last_wp : {<<>>} \cup {<<p>> : p \in Points}]
        BY <1>4
      <4>3. <<g>> \in {<<>>} \cup {<<p>> : p \in Points}
        BY <1>6
      <4>4. dt[i].id = ds[i].id
        BY <4>1, <4>2
      <4>5. dt[i] \in [id : Nat, position : Points, last_wp : {<<>>} \cup {<<p>> : p \in Points}]
        BY <4>1, <4>2, <4>3
      <4> QED BY <1>4, <4>4, <4>5
    <3> QED BY <3>1, <3>2
  <2> QED BY <2>1, <2>2
<1>15. at \in [{drones[i].id : i \in 1 .. m} -> Seq(Nat)]
  <2>1. ds[w].id \in {drones[i].id : i \in 1 .. m}
    BY <1>4, <1>9
  <2>2. Append(as[ds[w].id], n) \in Seq(Nat)
    <3>1. as[ds[w].id] \in Seq(Nat)
      BY <1>4, <2>1
    <3>2. PICK l : l = as[ds[w].id]
      OBVIOUS
    <3>3. l \in Seq(Nat) /\ n \in Nat
      BY <1>6, <3>1, <3>2
    <3>4. Append(l, n) \in Seq(Nat)
      BY ONLY <3>3
    <3> QED BY <3>2, <3>4
  <2> QED BY <1>4, <1>13, <2>1, <2>2
<1>16. t \in Auction(drones)
  <2>1. t = [drones |-> dt, assignment |-> at]
    BY <1>12, <1>13
  <2> QED BY <1>2, <1>14, <1>15, <2>1 DEF Auction
<1>17. Takes(s, t, w, goals, n)
  BY <1>3, <1>5, <1>9, <1>12 DEF Takes
<1> QED BY <1>2, <1>9, <1>11, <1>16, <1>17

\* An auction before its goals and after each: what the recursive definition in
\* assign() computes.
LEMMA AuctionExists ==
    ASSUME NEW drones, IsFleet(drones), NEW goals \in Seq(Points), ~Panics(drones, goals)
    PROVE  \E f : /\ f[0] = Begin(drones) /\ assign(drones, goals) = f[Len(goals)]
                  /\ \A n \in 0 .. Len(goals) : f[n] \in Auction(drones)
                  /\ \A n \in DOMAIN goals : \E w \in DOMAIN drones : Takes(f[n - 1], f[n], w, goals, n)
<1> DEFINE S == Auction(drones)
           G == [x \in Nat \X S |-> IF x[1] \in DOMAIN goals THEN Take(goals, x[2], x[1]) ELSE x[2]]
           b == Begin(drones)
           N == Len(goals)
           Body(h) == [n \in 0 .. N |-> IF n = 0 THEN Begin(drones) ELSE Take(goals, h[n - 1], n)]
           it == CHOOSE h : h = Body(h)
<1>0. N \in Nat /\ DOMAIN goals = 1 .. N /\ (N # 0 => drones # <<>>)
  BY DEF Panics
<1>1. b \in S
  <2>1. PICK m : m = Len(drones)
    OBVIOUS
  <2>2. DOMAIN drones = 1 .. m /\ drones \in [1 .. m -> [id : Nat, position : Points, last_wp : {<<>>}]]
    <3>1. drones \in Seq([id : Nat, position : Points, last_wp : {<<>>}])
      BY DEF IsFleet
    <3>2. PICK R : R = [id : Nat, position : Points, last_wp : {<<>>}]
      OBVIOUS
    <3>3. drones \in Seq(R)
      BY <3>1, <3>2
    <3>4. DOMAIN drones = 1 .. m /\ drones \in [1 .. m -> R]
      BY ONLY <2>1, <3>3
    <3> QED BY <3>2, <3>4
  <2>3. drones \in [1 .. m -> [id : Nat, position : Points, last_wp : {<<>>} \cup {<<p>> : p \in Points}]]
    BY <2>2
  <2>4. [id \in {drones[i].id : i \in DOMAIN drones} |-> <<>>]
          \in [{drones[i].id : i \in DOMAIN drones} -> Seq(Nat)]
    OBVIOUS
  <2> QED BY <2>2, <2>3, <2>4 DEF Begin, Auction
<1>2. ASSUME NEW s \in S, NEW n \in 1 .. N
      PROVE  Take(goals, s, n) \in S /\ \E w \in DOMAIN drones : Takes(s, Take(goals, s, n), w, goals, n)
  BY <1>0, TakeIs
<1>3. G \in [Nat \X S -> S]
  <2> HIDE DEF S
  <2> QED BY <1>0, <1>2
<1>4. \A n \in 1 .. N, s \in S : G[<<n, s>>] = Take(goals, s, n)
  <2> HIDE DEF S
  <2> QED BY <1>0
<1>5. PICK h : Follows(h, S, b, G, N)
  <2> HIDE DEF S, b, G, N
  <2>1. IsRecursion(S, b, G)
    BY <1>1, <1>3 DEF IsRecursion
  <2> QED BY <1>0, <2>1, Recursion
<1>6. /\ h \in [0 .. N -> S] /\ h[0] = b /\ \A n \in 1 .. N : h[n] = Take(goals, h[n - 1], n)
  <2>1. \A n \in 1 .. N : n - 1 \in 0 .. N
    BY <1>0
  <2> HIDE DEF S, b, G, N
  <2> QED BY <1>4, <1>5, <2>1 DEF Follows
<1>7. h = Body(h)
  <2>1. \A n \in 0 .. N : n # 0 => n \in 1 .. N
    BY <1>0
  <2> HIDE DEF S, G, N
  <2> QED BY <1>6, <2>1
<1>8. it = Body(it)
  BY <1>7
<1>9. assign(drones, goals) = it[N]
  BY DEF assign
<1> HIDE DEF it
<1>10. it[0] = b /\ \A n \in 1 .. N : it[n] = Take(goals, it[n - 1], n)
  <2>1. DOMAIN it = 0 .. N
    BY <1>8
  <2>2. 0 \in 0 .. N /\ \A n \in 1 .. N : n \in 0 .. N /\ n # 0
    BY <1>0
  <2> HIDE DEF N
  <2> QED BY <1>8, <2>2
<1>11. \A n \in 0 .. N : it[n] \in S
  <2> DEFINE T == {n \in Nat : n <= N => it[n] \in S}
  <2>1. 0 \in T
    BY <1>1, <1>10
  <2>2. ASSUME NEW n \in Nat, n \in T PROVE n + 1 \in T
    <3>1. CASE n + 1 <= N
      <4>1. n + 1 \in 1 .. N /\ (n + 1) - 1 = n /\ n <= N
        BY <1>0, <3>1
      <4>2. it[n] \in S
        BY <2>2, <4>1
      <4>3. it[n + 1] = Take(goals, it[n], n + 1)
        BY <1>10, <4>1
      <4>4. it[n + 1] \in S
        BY <1>2, <4>1, <4>2, <4>3
      <4> QED BY <4>4
    <3>2. CASE ~(n + 1 <= N)
      BY <3>2
    <3> QED BY <3>1, <3>2
  <2>3. Nat \subseteq T
    <3> HIDE DEF T
    <3> QED BY <2>1, <2>2, SetInduction
  <2> QED BY <1>0, <2>3
<1>12. \A n \in 1 .. N : \E w \in DOMAIN drones : Takes(it[n - 1], it[n], w, goals, n)
  <2>1. ASSUME NEW n \in 1 .. N PROVE \E w \in DOMAIN drones : Takes(it[n - 1], it[n], w, goals, n)
    <3>1. n - 1 \in 0 .. N
      BY <1>0
    <3>2. it[n - 1] \in S /\ it[n] = Take(goals, it[n - 1], n)
      BY <1>10, <1>11, <3>1
    <3> QED BY <1>2, <3>2
  <2> QED BY <2>1
<1> QED BY <1>0, <1>9, <1>10, <1>11, <1>12

\* The list of drone i, the drone that goes to goal g and no other does, and
\* nobody was nearer.
ListOf(drones, s, i) == s.assignment[drones[i].id]
GoesTo(drones, s, i, g) == \E k \in DOMAIN ListOf(drones, s, i) : ListOf(drones, s, i)[k] = g
PlaceOf(drones, goals, s, i, g) == Place(drones[i], ListOf(drones, s, i), goals, g)
Won(drones, goals, s, i, g) ==
    /\ \A j \in DOMAIN drones : GoesTo(drones, s, j, g) <=> i = j
    /\ \A j \in DOMAIN drones : Distance(PlaceOf(drones, goals, s, i, g), goals[g])
                                  <= Distance(PlaceOf(drones, goals, s, j, g), goals[g])

\* After n goals.
EndOf(drones, goals, s, i) ==
    s.drones[i].position = drones[i].position
    /\ s.drones[i].last_wp = IF ListOf(drones, s, i) = <<>> THEN <<>>
                             ELSE <<goals[ListOf(drones, s, i)[Len(ListOf(drones, s, i))]]>>
Auctioned(drones, goals, s, n) ==
    /\ \A i \in DOMAIN drones : Ascending(ListOf(drones, s, i), n) /\ EndOf(drones, goals, s, i)
    /\ \A g \in 1 .. n : \E i \in DOMAIN drones : Won(drones, goals, s, i, g)

\* Before the first goal.
LEMMA BeginIsAuctioned ==
    ASSUME NEW drones, IsFleet(drones), NEW goals
    PROVE  Auctioned(drones, goals, Begin(drones), 0)
<1>1. ASSUME NEW i \in DOMAIN drones
      PROVE  Ascending(ListOf(drones, Begin(drones), i), 0) /\ EndOf(drones, goals, Begin(drones), i)
  <2>1. ListOf(drones, Begin(drones), i) = <<>>
    BY DEF Begin, ListOf
  <2>2. drones[i].last_wp = <<>>
    <3>1. PICK R : R = [id : Nat, position : Points, last_wp : {<<>>}]
      OBVIOUS
    <3>2. drones \in Seq(R)
      BY <3>1 DEF IsFleet
    <3>3. drones[i] \in R
      BY ONLY <3>2, i \in DOMAIN drones
    <3> QED BY <3>1, <3>3
  <2>3. Ascending(<<>>, 0)
    BY DEF Ascending
  <2>4. Begin(drones).drones[i] = drones[i]
    BY DEF Begin
  <2> QED BY <2>1, <2>2, <2>3, <2>4 DEF EndOf
<1>2. 1 .. 0 = {}
  OBVIOUS
<1> QED BY <1>1, <1>2 DEF Auctioned

\* Where a drone stands after n goals.
LEMMA EndpointIsPlace ==
    ASSUME NEW drones, NEW goals, NEW s, NEW n \in Nat, NEW i \in DOMAIN drones,
           Ascending(ListOf(drones, s, i), n), EndOf(drones, goals, s, i)
    PROVE  Endpoint(s.drones[i]) = PlaceOf(drones, goals, s, i, n + 1)
<1>1. PICK l : l = ListOf(drones, s, i)
  OBVIOUS
<1>2. Place(drones[i], l, goals, n + 1) = IF l = <<>> THEN drones[i].position ELSE goals[l[Len(l)]]
  <2>1. PICK d : d = drones[i]
    OBVIOUS
  <2>2. Ascending(l, n)
    BY <1>1
  <2>3. Place(d, l, goals, n + 1) = IF l = <<>> THEN d.position ELSE goals[l[Len(l)]]
    BY ONLY <2>2, n \in Nat, PlaceAtEnd
  <2> QED BY <2>1, <2>3
<1>3. /\ s.drones[i].position = drones[i].position
      /\ s.drones[i].last_wp = IF l = <<>> THEN <<>> ELSE <<goals[l[Len(l)]]>>
  BY <1>1 DEF EndOf
<1>4. Endpoint(s.drones[i]) = IF l = <<>> THEN drones[i].position ELSE goals[l[Len(l)]]
  <2>1. PICK x : x = goals[l[Len(l)]]
    OBVIOUS
  <2>2. <<x>> # <<>> /\ <<x>>[1] = x
    OBVIOUS
  <2> QED BY <1>3, <2>1, <2>2 DEF Endpoint
<1> QED BY <1>1, <1>2, <1>4 DEF PlaceOf

\* What a step does to the lists.
LEMMA TakeChanges ==
    ASSUME NEW drones, IsFleet(drones), NEW goals, NEW s \in Auction(drones), NEW t,
           NEW w \in DOMAIN drones, NEW n \in Nat, Takes(s, t, w, goals, n)
    PROVE  /\ ListOf(drones, t, w) = Append(ListOf(drones, s, w), n)
           /\ t.drones[w].position = s.drones[w].position
           /\ t.drones[w].last_wp = <<goals[n]>>
           /\ \A j \in DOMAIN drones : j # w => /\ ListOf(drones, t, j) = ListOf(drones, s, j)
                                                /\ t.drones[j] = s.drones[j]
<1>1. PICK ds, as, dt, at : ds = s.drones /\ as = s.assignment /\ dt = t.drones /\ at = t.assignment
  OBVIOUS
<1>2. /\ DOMAIN ds = DOMAIN drones
      /\ ds \in [DOMAIN drones -> [id : Nat, position : Points,
                                   last_wp : {<<>>} \cup {<<p>> : p \in Points}]]
      /\ DOMAIN as = {drones[i].id : i \in DOMAIN drones}
      /\ \A i \in DOMAIN drones : ds[i].id = drones[i].id
  BY <1>1 DEF Auction
<1>3. dt = [ds EXCEPT ![w].last_wp = <<goals[n]>>] /\ at = [as EXCEPT ![ds[w].id] = Append(@, n)]
  <2>1. t = [drones |-> [s.drones EXCEPT ![w].last_wp = <<goals[n]>>],
             assignment |-> [s.assignment EXCEPT ![s.drones[w].id] = Append(@, n)]]
    BY DEF Takes
  <2> QED BY ONLY <1>1, <2>1
<1>4. dt[w] = [ds[w] EXCEPT !.last_wp = <<goals[n]>>]
  BY ONLY <1>2, <1>3, w \in DOMAIN drones
<1>5. dt[w].position = ds[w].position /\ dt[w].last_wp = <<goals[n]>>
  <2>1. ds[w] \in [id : Nat, position : Points, last_wp : {<<>>} \cup {<<p>> : p \in Points}]
    BY <1>2
  <2> QED BY <1>4, <2>1
<1>6. \A j \in DOMAIN drones : j # w => dt[j] = ds[j] /\ drones[j].id # drones[w].id
  BY <1>2, <1>3 DEF IsFleet
<1>7. /\ at[drones[w].id] = Append(as[drones[w].id], n)
      /\ \A j \in DOMAIN drones : j # w => at[drones[j].id] = as[drones[j].id]
  BY <1>2, <1>3, <1>6
<1> QED BY <1>1, <1>5, <1>6, <1>7 DEF ListOf

\* A step keeps all that.
LEMMA TakeIsAuctioned ==
    ASSUME NEW drones, IsFleet(drones), NEW goals, NEW s \in Auction(drones), NEW t,
           NEW w \in DOMAIN drones, NEW n \in Nat, Takes(s, t, w, goals, n + 1),
           Auctioned(drones, goals, s, n)
    PROVE  Auctioned(drones, goals, t, n + 1)
<1> DEFINE old(i) == ListOf(drones, s, i)
           new(i) == ListOf(drones, t, i)
<1>0. \A i \in DOMAIN drones : Ascending(old(i), n) /\ EndOf(drones, goals, s, i)
  BY DEF Auctioned
<1>1. /\ new(w) = Append(old(w), n + 1) /\ t.drones[w].position = s.drones[w].position
      /\ t.drones[w].last_wp = <<goals[n + 1]>>
      /\ \A j \in DOMAIN drones : j # w => new(j) = old(j) /\ t.drones[j] = s.drones[j]
  <2>1. n + 1 \in Nat
    OBVIOUS
  <2> QED BY <2>1, TakeChanges, SMTT(30)
<1> HIDE DEF old, new
<1>2. ASSUME NEW i \in DOMAIN drones
      PROVE  /\ Ascending(new(i), n + 1)
             /\ \A g \in 1 .. n + 1 : Place(drones[i], new(i), goals, g) = Place(drones[i], old(i), goals, g)
  <2>1. CASE i = w
    <3>1. PICK l, d : l = old(w) /\ d = drones[w]
      OBVIOUS
    <3>2. Ascending(l, n) /\ new(w) = Append(l, n + 1)
      BY <1>0, <1>1, <3>1
    <3>3. ASSUME NEW g \in 1 .. n + 1
          PROVE  /\ Ascending(Append(l, n + 1), n + 1)
                 /\ Place(d, Append(l, n + 1), goals, g) = Place(d, l, goals, g)
      BY ONLY <3>2, n \in Nat, g \in 1 .. n + 1, PlaceStays
    <3>4. 1 \in 1 .. n + 1
      OBVIOUS
    <3>5. Ascending(Append(l, n + 1), n + 1)
      BY <3>3, <3>4
    <3> QED BY <2>1, <3>1, <3>2, <3>3, <3>5
  <2>2. CASE i # w
    <3>1. new(i) = old(i) /\ Ascending(old(i), n)
      BY <1>0, <1>1, <2>2
    <3>2. Ascending(old(i), n + 1)
      BY ONLY <3>1, n \in Nat DEF Ascending
    <3> QED BY <3>1, <3>2
  <2> QED BY <2>1, <2>2
<1>3. ASSUME NEW i \in DOMAIN drones PROVE EndOf(drones, goals, t, i)
  <2>1. CASE i = w
    <3>1. old(w) \in Seq(Nat)
      BY <1>0 DEF Ascending
    <3>2. new(w) # <<>> /\ new(w)[Len(new(w))] = n + 1
      BY <1>1, <3>1
    <3>3. s.drones[w].position = drones[w].position
      BY <1>0 DEF EndOf
    <3> QED BY <1>1, <2>1, <3>2, <3>3 DEF EndOf, new
  <2>2. CASE i # w
    BY <1>0, <1>1, <2>2 DEF EndOf, old, new
  <2> QED BY <2>1, <2>2
<1>4. ASSUME NEW i \in DOMAIN drones, NEW g \in 1 .. n + 1
      PROVE  PlaceOf(drones, goals, t, i, g) = PlaceOf(drones, goals, s, i, g)
  BY <1>2 DEF PlaceOf, old, new
<1>5. ASSUME NEW g \in 1 .. n, NEW j \in DOMAIN drones
      PROVE  GoesTo(drones, t, j, g) <=> GoesTo(drones, s, j, g)
  <2>1. CASE j # w
    BY <1>1, <2>1 DEF GoesTo, old, new
  <2>2. CASE j = w
    <3>1. old(w) \in Seq(Nat)
      BY <1>0 DEF Ascending
    <3>2. /\ \A k \in DOMAIN old(w) : k \in DOMAIN new(w) /\ new(w)[k] = old(w)[k]
          /\ \A k \in DOMAIN new(w) : k \in DOMAIN old(w) \/ new(w)[k] = n + 1
      BY <1>1, <3>1
    <3>3. g # n + 1
      OBVIOUS
    <3> QED BY <2>2, <3>2, <3>3 DEF GoesTo, old, new
  <2> QED BY <2>1, <2>2
<1>6. ASSUME NEW g \in 1 .. n PROVE \E i \in DOMAIN drones : Won(drones, goals, t, i, g)
  <2>1. PICK i \in DOMAIN drones : Won(drones, goals, s, i, g)
    BY DEF Auctioned
  <2>2. g \in 1 .. n + 1
    OBVIOUS
  <2>3. Won(drones, goals, t, i, g)
    BY <1>4, <1>5, <2>1, <2>2 DEF Won
  <2> QED BY <2>3
<1>7. Won(drones, goals, t, w, n + 1)
  <2>1. ASSUME NEW j \in DOMAIN drones PROVE GoesTo(drones, t, j, n + 1) <=> w = j
    <3>1. old(j) \in Seq(Nat) /\ \A k \in DOMAIN old(j) : old(j)[k] # n + 1
      BY <1>0 DEF Ascending
    <3>2. CASE j # w
      BY <1>1, <3>1, <3>2 DEF GoesTo, new
    <3>3. CASE j = w
      <4>1. Len(old(w)) + 1 \in DOMAIN new(w) /\ new(w)[Len(old(w)) + 1] = n + 1
        BY <1>1, <3>1, <3>3
      <4> QED BY <3>3, <4>1 DEF GoesTo, new
    <3> QED BY <3>2, <3>3
  <2>2. n + 1 \in 1 .. n + 1
    OBVIOUS
  <2>3. ASSUME NEW j \in DOMAIN drones
        PROVE  Endpoint(s.drones[j]) = PlaceOf(drones, goals, t, j, n + 1)
    <3>1. Endpoint(s.drones[j]) = PlaceOf(drones, goals, s, j, n + 1)
      BY <1>0, EndpointIsPlace DEF old
    <3> QED BY <1>4, <2>2, <3>1
  <2>4. DOMAIN s.drones = DOMAIN drones
    BY DEF Auction
  <2>5. \A j \in DOMAIN drones : Distance(Endpoint(s.drones[w]), goals[n + 1])
                                   <= Distance(Endpoint(s.drones[j]), goals[n + 1])
    BY <2>4 DEF Takes
  <2> QED BY <2>1, <2>3, <2>5 DEF Won
<1>8. \A g \in 1 .. n + 1 : \E i \in DOMAIN drones : Won(drones, goals, t, i, g)
  <2>1. \A g \in 1 .. n + 1 : g \in 1 .. n \/ g = n + 1
    OBVIOUS
  <2> QED BY <1>6, <1>7, <2>1
<1> QED BY <1>2, <1>3, <1>8 DEF Auctioned, new

\* So after all goals.
LEMMA AuctionEnds ==
    ASSUME NEW drones, IsFleet(drones), NEW goals \in Seq(Points), ~Panics(drones, goals)
    PROVE  Auctioned(drones, goals, assign(drones, goals), Len(goals))
<1>1. PICK f : /\ f[0] = Begin(drones) /\ assign(drones, goals) = f[Len(goals)]
               /\ \A n \in 0 .. Len(goals) : f[n] \in Auction(drones)
               /\ \A n \in DOMAIN goals : \E w \in DOMAIN drones : Takes(f[n - 1], f[n], w, goals, n)
  BY AuctionExists
<1>2. PICK N : N = Len(goals)
  OBVIOUS
<1>3. N \in Nat /\ DOMAIN goals = 1 .. N
  BY <1>2
<1> DEFINE T == {n \in Nat : n <= N => Auctioned(drones, goals, f[n], n)}
<1>4. 0 \in T
  BY <1>1, BeginIsAuctioned
<1>5. ASSUME NEW n \in Nat, n \in T PROVE n + 1 \in T
  <2>1. SUFFICES ASSUME n + 1 <= N PROVE Auctioned(drones, goals, f[n + 1], n + 1)
    OBVIOUS
  <2>2. n \in 0 .. N /\ n + 1 \in 1 .. N /\ (n + 1) - 1 = n /\ n <= N
    BY <1>3, <2>1
  <2>3. f[n] \in Auction(drones) /\ Auctioned(drones, goals, f[n], n)
    BY <1>1, <1>2, <1>5, <2>2
  <2>4. PICK w \in DOMAIN drones : Takes(f[n], f[n + 1], w, goals, n + 1)
    BY <1>1, <1>3, <2>2
  <2>5. PICK s, t : s = f[n] /\ t = f[n + 1]
    OBVIOUS
  <2>6. s \in Auction(drones) /\ Auctioned(drones, goals, s, n) /\ Takes(s, t, w, goals, n + 1)
    BY <2>3, <2>4, <2>5
  <2>7. Auctioned(drones, goals, t, n + 1)
    BY ONLY IsFleet(drones), w \in DOMAIN drones, n \in Nat, <2>6, TakeIsAuctioned
  <2> QED BY <2>5, <2>7
<1>6. Nat \subseteq T
  <2> HIDE DEF T
  <2> QED BY <1>4, <1>5, SetInduction
<1> QED BY <1>1, <1>2, <1>3, <1>6

\* A drone's leg to a goal is what the auction compared.
LEMMA LegIsDistance ==
    ASSUME NEW list, NEW n \in Nat, NEW drone, NEW goals, Ascending(list, n), NEW k \in DOMAIN list,
           drone.position \in Points, \A m \in 1 .. n : goals[m] \in Points
    PROVE  Squares(IF k = 1 THEN drone.position ELSE goals[list[k - 1]], goals[list[k]])
             = Distance(Place(drone, list, goals, list[k]), goals[list[k]])
<1>1. Place(drone, list, goals, list[k]) = IF k = 1 THEN drone.position ELSE goals[list[k - 1]]
  BY ONLY n \in Nat, Ascending(list, n), PlaceInList
<1>2. DOMAIN list = 1 .. Len(list) /\ Len(list) \in Nat /\ \A j \in DOMAIN list : list[j] \in 1 .. n
  BY DEF Ascending
<1>3. k # 1 => k - 1 \in DOMAIN list
  BY <1>2
<1>4. PICK p, g : p = (IF k = 1 THEN drone.position ELSE goals[list[k - 1]]) /\ g = goals[list[k]]
  OBVIOUS
<1>5. p \in Points /\ g \in Points
  BY <1>2, <1>3, <1>4
<1>6. Squares(p, g) = Distance(p, g)
  BY <1>5, KeyIsDistance
<1> QED BY <1>1, <1>4, <1>6

\* Each goal goes to the drone that is truly the nearest, for a fleet of any
\* size and goals of any number, all of them in Points, where nothing wraps.
LEMMA AuctionHolds ==
    ASSUME NEW drones, IsFleet(drones), NEW goals \in Seq(Points), ~Panics(drones, goals)
    PROVE  NearestTakesGoal(drones, goals)
<1>1. PICK s : s = assign(drones, goals)
  OBVIOUS
<1>2. Auctioned(drones, goals, s, Len(goals))
  BY <1>1, AuctionEnds
<1>3. DOMAIN goals = 1 .. Len(goals)
  OBVIOUS
<1>4. ASSUME NEW n \in DOMAIN goals
      PROVE  \E i \in DOMAIN drones :
                 /\ \A j \in DOMAIN drones :
                      (\E k \in DOMAIN ListOf(drones, s, j) : ListOf(drones, s, j)[k] = n) <=> i = j
                 /\ \A j \in DOMAIN drones :
                      Distance(PlaceOf(drones, goals, s, i, n), goals[n])
                        <= Distance(PlaceOf(drones, goals, s, j, n), goals[n])
  <2>1. PICK i \in DOMAIN drones : Won(drones, goals, s, i, n)
    BY <1>2, <1>3 DEF Auctioned
  <2> QED BY <2>1 DEF Won, GoesTo
<1>5. ASSUME NEW i \in DOMAIN drones, NEW k \in DOMAIN ListOf(drones, s, i)
      PROVE  /\ k > 1 => ListOf(drones, s, i)[k - 1] < ListOf(drones, s, i)[k]
             /\ Legs(drones, goals, s.assignment)[i][k]
                  = Distance(PlaceOf(drones, goals, s, i, ListOf(drones, s, i)[k]),
                             goals[ListOf(drones, s, i)[k]])
  <2>1. PICK l, d, N : l = ListOf(drones, s, i) /\ d = drones[i] /\ N = Len(goals)
    OBVIOUS
  <2>2. Ascending(l, N) /\ k \in DOMAIN l
    BY <1>2, <2>1 DEF Auctioned
  <2>3. k > 1 => k - 1 \in DOMAIN l /\ k - 1 < k
    BY <2>2 DEF Ascending
  <2>4. k > 1 => l[k - 1] < l[k]
    BY <2>2, <2>3 DEF Ascending
  <2>5. N \in Nat /\ \A m \in 1 .. N : goals[m] \in Points
    BY <2>1
  <2>6. d.position \in Points
    <3>1. PICK R : R = [id : Nat, position : Points, last_wp : {<<>>}]
      OBVIOUS
    <3>2. drones \in Seq(R)
      BY <3>1 DEF IsFleet
    <3>3. drones[i] \in R
      BY ONLY <3>2, i \in DOMAIN drones
    <3> QED BY <2>1, <3>1, <3>3
  <2>7. Squares(IF k = 1 THEN d.position ELSE goals[l[k - 1]], goals[l[k]])
          = Distance(Place(d, l, goals, l[k]), goals[l[k]])
    BY ONLY <2>2, <2>5, <2>6, LegIsDistance
  <2>8. Legs(drones, goals, s.assignment)[i][k]
          = Squares(IF k = 1 THEN d.position ELSE goals[l[k - 1]], goals[l[k]])
    <3>1. s.assignment[drones[i].id] = l
      BY <2>1 DEF ListOf
    <3> QED BY <2>1, <2>2, <3>1 DEF Legs
  <2> QED BY <2>1, <2>4, <2>7, <2>8 DEF PlaceOf
<1>6. ASSUME NEW i \in DOMAIN drones, ListOf(drones, s, i) # <<>>
      PROVE  s.drones[i].last_wp = <<goals[ListOf(drones, s, i)[Len(ListOf(drones, s, i))]]>>
  BY <1>2, <1>6 DEF Auctioned, EndOf
<1> QED BY <1>1, <1>4, <1>5, <1>6 DEF NearestTakesGoal, ListOf, PlaceOf

\* Each goal of the list is flown to by one drone, in order, and no other drone
\* was truly nearer to it (task_assigner/mod.rs:15-38), for fleets and goals of
\* Numerics: drones without waypoints yet, and everything so near to the origin
\* that no difference wraps.  Of coordinates further apart it says nothing.
THEOREM AuctionAlwaysGreedy == NumericsSpec => []AuctionIsGreedy
<1>1. input \in Inputs => AuctionIsGreedy
  <2>1. ASSUME input \in Inputs, input.kind = "auction"
        PROVE  IsFleet(input.drones) /\ input.goals \in Seq(Points)
    BY <2>1, NumericsAssumption DEF Inputs
  <2>2. ASSUME input \in Inputs, input.kind = "auction", ~Panics(input.drones, input.goals)
        PROVE  NearestTakesGoal(input.drones, input.goals)
    <3>1. PICK drones, goals : drones = input.drones /\ goals = input.goals
      OBVIOUS
    <3>2. IsFleet(drones) /\ goals \in Seq(Points) /\ ~Panics(drones, goals)
      BY <2>1, <2>2, <3>1
    <3>3. NearestTakesGoal(drones, goals)
      BY ONLY <3>2, AuctionHolds
    <3> QED BY <3>1, <3>3
  <2> QED BY <2>2 DEF AuctionIsGreedy
<1> QED BY <1>1, InputStays, PTL DEF NumericsSpec
------------------------------------------------------------------------------
(* The telemetry frame. *)

\* A number in two digits, and a negative one as its complement.
LEMMA TwoDigits ==
    ASSUME NEW m \in Nat \ {0}, NEW v \in Int, v >= 0, v \div m < m
    PROVE  /\ (v \div m) % m \in 0 .. m - 1 /\ v % m \in 0 .. m - 1
           /\ ((v \div m) % m) * m + (v % m) = v
<1>1. PICK q, r : q = v \div m /\ r = v % m
  OBVIOUS
<1>2. q \in Int /\ r \in 0 .. m - 1 /\ v = m * q + r
  BY <1>1, DivMod
<1>3. q >= 0
  <2>1. q <= -1 => m * q <= -m
    BY <1>2
  <2> QED BY <1>2, <2>1
<1>4. q \in 0 .. m - 1 /\ 0 \in Int /\ q = m * 0 + q
  BY <1>1, <1>2, <1>3
<1>5. q % m = q
  BY ONLY m \in Nat \ {0}, <1>2, <1>4, DivModUnique
<1>6. q * m = m * q
  BY <1>2
<1> QED BY <1>1, <1>2, <1>4, <1>5, <1>6

LEMMA Complement ==
    ASSUME NEW h \in Nat \ {0}, NEW m, m = 2 * h, NEW v \in Int, -h <= v, v < h
    PROVE  v % m \in 0 .. m - 1 /\ v = IF v % m < h THEN v % m ELSE (v % m) - m
<1>1. CASE v >= 0
  <2>1. m \in Nat \ {0} /\ 0 \in Int /\ v \in 0 .. m - 1 /\ v = m * 0 + v
    BY <1>1
  <2>2. v % m = v
    BY ONLY v \in Int, <2>1, DivModUnique
  <2> QED BY <2>1, <2>2
<1>2. CASE v < 0
  <2>1. PICK u : u = v + m
    OBVIOUS
  <2>2. m \in Nat \ {0} /\ -1 \in Int /\ u \in 0 .. m - 1 /\ v = m * (-1) + u
    BY <1>2, <2>1
  <2>3. v % m = u
    BY ONLY v \in Int, <2>2, DivModUnique
  <2> QED BY <1>2, <2>1, <2>2, <2>3
<1> QED BY <1>1, <1>2

\* What is written of a number is read as that number.
LEMMA WordIsRead ==
    ASSUME NEW v \in Int, v >= 0, v \div 256 < 256
    PROVE  U16(v) \in Seq(Byte) /\ Len(U16(v)) = 2 /\ ReadU16(U16(v)) = v
<1>1. PICK m : m = 256
  OBVIOUS
<1>2. PICK h, l : h = (v \div m) % m /\ l = v % m
  OBVIOUS
<1>3. m \in Nat \ {0} /\ v \div m < m
  BY <1>1
<1>4. h \in 0 .. m - 1 /\ l \in 0 .. m - 1 /\ h * m + l = v
  BY <1>2, <1>3, TwoDigits
<1>5. h \in Byte /\ l \in Byte /\ h * 256 + l = v
  BY <1>1, <1>4 DEF Byte
<1>6. U16(v) = <<h, l>>
  BY <1>1, <1>2 DEF U16
<1>7. <<h, l>>[1] = h /\ <<h, l>>[2] = l /\ <<h, l>> \in Seq(Byte) /\ Len(<<h, l>>) = 2
  BY <1>5
<1> QED BY <1>5, <1>6, <1>7 DEF ReadU16

LEMMA SmallWordIsRead ==
    ASSUME NEW v, v \in Int, v >= 0, v < 65536
    PROVE  U16(v) \in Seq(Byte) /\ Len(U16(v)) = 2 /\ ReadU16(U16(v)) = v
<1>1. v \div 256 < 256
  OBVIOUS
<1> QED BY <1>1, WordIsRead

\* b has w at offset o.
At(b, o, w) == o + Len(w) <= Len(b) /\ \A i \in 1 .. Len(w) : b[o + i] = w[i]

LEMMA AtIsRead ==
    ASSUME NEW S, NEW b \in Seq(S), NEW w \in Seq(S), NEW o \in Nat, At(b, o, w)
    PROVE  SubSeq(b, o + 1, o + Len(w)) = w
<1>1. PICK n : n = Len(w)
  OBVIOUS
<1>2. n \in Nat /\ Len(b) \in Nat /\ o + n <= Len(b) /\ \A i \in 1 .. n : b[o + i] = w[i]
  BY <1>1 DEF At
<1>3. PICK m, e : m = o + 1 /\ e = o + n
  OBVIOUS
<1>4. m \in Int /\ e \in Int /\ e - m + 1 = n /\ (m <= e <=> n # 0)
  BY <1>2, <1>3
<1>5. \A i \in m .. e : b[i] \in S
  <2>1. \A i \in m .. e : i \in 1 .. Len(b)
    BY <1>2, <1>3
  <2> QED BY <2>1, ElementOfSeq
<1>6. PICK t : t = SubSeq(b, m, e)
  OBVIOUS
<1>7. /\ t \in Seq(S) /\ Len(t) = (IF m <= e THEN e - m + 1 ELSE 0)
      /\ \A i \in 1 .. e - m + 1 : t[i] = b[m + i - 1]
  BY ONLY <1>4, <1>5, <1>6, SubSeqProperties
<1>8. Len(t) = n
  BY <1>2, <1>4, <1>7
<1>9. ASSUME NEW i \in 1 .. n PROVE t[i] = w[i]
  <2>1. m + i - 1 = o + i
    BY <1>2, <1>3
  <2> QED BY <1>2, <1>4, <1>7, <2>1
<1>10. t = w
  BY <1>1, <1>7, <1>8, <1>9, SeqEqual
<1> QED BY <1>1, <1>3, <1>6, <1>10

\* What is appended is at the end, and changes nothing before.
LEMMA AtEnd ==
    ASSUME NEW S, NEW b \in Seq(S), NEW w \in Seq(S)
    PROVE  /\ b \o w \in Seq(S) /\ Len(b \o w) = Len(b) + Len(w) /\ At(b \o w, Len(b), w)
           /\ \A o \in Nat, v \in Seq(S) : At(b, o, v) => At(b \o w, o, v)
<1>1. PICK c, m, n : c = b \o w /\ m = Len(b) /\ n = Len(w)
  OBVIOUS
<1>2. /\ m \in Nat /\ n \in Nat /\ c \in Seq(S) /\ Len(c) = m + n
      /\ \A i \in 1 .. m + n : c[i] = IF i <= m THEN b[i] ELSE w[i - m]
  <2>1. m \in Nat /\ n \in Nat
    BY <1>1
  <2>2. /\ b \o w \in Seq(S) /\ Len(b \o w) = Len(b) + Len(w)
        /\ \A i \in 1 .. Len(b) + Len(w) : (b \o w)[i] = IF i <= Len(b) THEN b[i] ELSE w[i - Len(b)]
    BY ConcatProperties
  <2> QED BY <1>1, <2>1, <2>2
<1>3. At(c, m, w)
  <2>1. ASSUME NEW i \in 1 .. n PROVE c[m + i] = w[i]
    <3>1. m + i \in 1 .. m + n /\ ~(m + i <= m) /\ (m + i) - m = i
      BY <1>2
    <3> QED BY <1>2, <3>1
  <2> QED BY <1>1, <1>2, <2>1 DEF At
<1>4. ASSUME NEW o \in Nat, NEW v \in Seq(S), At(b, o, v) PROVE At(c, o, v)
  <2>1. PICK k : k = Len(v)
    OBVIOUS
  <2>2. k \in Nat /\ o + k <= m /\ \A i \in 1 .. k : b[o + i] = v[i]
    BY <1>1, <1>4, <2>1 DEF At
  <2>3. ASSUME NEW i \in 1 .. k PROVE c[o + i] = v[i]
    <3>1. o + i \in 1 .. m + n /\ o + i <= m
      BY <1>2, <2>2
    <3> QED BY <1>2, <2>2, <3>1
  <2> QED BY <1>2, <2>1, <2>2, <2>3 DEF At
<1> QED BY <1>1, <1>2, <1>3, <1>4

LEMMA FieldIsRead ==
    ASSUME NEW type \in {"u16", "s16", "u32"}, NEW v \in Int, Holds(type, v)
    PROVE  /\ Write(type, v) \in Seq(Byte) /\ Len(Write(type, v)) = SizeOf(type)
           /\ Read(type, Write(type, v)) = v
<1>1. PICK m, n : m = 65536 /\ n = 32768
  OBVIOUS
<1>2. m \in Nat \ {0} /\ n \in Nat \ {0} /\ m = 2 * n
  BY <1>1
<1>3. CASE type = "u16"
  <2>1. v \in Int /\ v >= 0 /\ v < 65536
    BY <1>3 DEF Holds
  <2>2. Write(type, v) = U16(v) /\ Read(type, U16(v)) = ReadU16(U16(v)) /\ SizeOf(type) = 2
    BY <1>3 DEF Write, Read, SizeOf
  <2>3. ReadU16(U16(v)) = v /\ U16(v) \in Seq(Byte) /\ Len(U16(v)) = 2
    BY ONLY <2>1, SmallWordIsRead
  <2> QED BY <2>2, <2>3
<1>4. CASE type = "s16"
  <2>1. -n <= v /\ v < n
    BY <1>1, <1>4 DEF Holds
  <2>2. Write(type, v) = S16(v) /\ Read(type, S16(v)) = ReadS16(S16(v)) /\ SizeOf(type) = 2
    BY <1>4 DEF Write, Read, SizeOf
  <2>3. PICK u : u = v % m
    OBVIOUS
  <2>4. u \in 0 .. m - 1 /\ v = IF u < n THEN u ELSE u - m
    BY <1>2, <2>1, <2>3, Complement
  <2>5. ReadU16(U16(u)) = u /\ U16(u) \in Seq(Byte) /\ Len(U16(u)) = 2
    <3>1. u \in Int /\ u >= 0 /\ u < m
      BY ONLY <1>2, <2>4
    <3>2. u \in Int /\ u >= 0 /\ u < 65536
      BY ONLY <1>1, <3>1
    <3> QED BY ONLY <3>2, SmallWordIsRead
  <2>6. S16(v) = U16(u)
    BY <1>1, <2>3 DEF S16
  <2>7. ReadS16(U16(u)) = IF u < n THEN u ELSE u - m
    BY <1>1, <2>5 DEF ReadS16
  <2> QED BY <2>2, <2>4, <2>5, <2>6, <2>7
<1>5. CASE type = "u32"
  <2>1. v >= 0 /\ v \div m < m
    BY <1>1, <1>5 DEF Holds
  <2>2. Write(type, v) = U32(v) /\ Read(type, U32(v)) = ReadU32(U32(v)) /\ SizeOf(type) = 4
    BY <1>5 DEF Write, Read, SizeOf
  <2>3. PICK h, l : h = (v \div m) % m /\ l = v % m
    OBVIOUS
  <2>4. h \in 0 .. m - 1 /\ l \in 0 .. m - 1 /\ h * m + l = v
    BY <1>2, <2>1, <2>3, TwoDigits
  <2>5. PICK x, y : x = U16(h) /\ y = U16(l)
    OBVIOUS
  <2>6. /\ x \in Seq(Byte) /\ Len(x) = 2 /\ ReadU16(x) = h
        /\ y \in Seq(Byte) /\ Len(y) = 2 /\ ReadU16(y) = l
    <3>0. h \in Int /\ h >= 0 /\ h < m /\ l \in Int /\ l >= 0 /\ l < m
      BY <1>2, <2>4
    <3>1. h \in Int /\ h >= 0 /\ h < 65536 /\ l \in Int /\ l >= 0 /\ l < 65536
      BY <1>1, <3>0
    <3>2. /\ U16(h) \in Seq(Byte) /\ Len(U16(h)) = 2 /\ ReadU16(U16(h)) = h
      BY ONLY <3>1, SmallWordIsRead
    <3>3. /\ U16(l) \in Seq(Byte) /\ Len(U16(l)) = 2 /\ ReadU16(U16(l)) = l
      BY ONLY <3>1, SmallWordIsRead
    <3> QED BY <2>5, <3>2, <3>3
  <2>7. U32(v) = x \o y
    BY <1>1, <2>3, <2>5 DEF U32
  <2>8. /\ x \o y \in Seq(Byte) /\ Len(x \o y) = 4
        /\ SubSeq(x \o y, 1, 2) = x /\ SubSeq(x \o y, 3, 4) = y
    <3>0. /\ x \o y \in Seq(Byte) /\ Len(x \o y) = Len(x) + Len(y) /\ At(x \o y, Len(x), y)
          /\ \A o \in Nat, z \in Seq(Byte) : At(x, o, z) => At(x \o y, o, z)
      BY ONLY <2>6, AtEnd
    <3>1. /\ x \o y \in Seq(Byte) /\ Len(x \o y) = 4 /\ At(x \o y, 2, y)
          /\ At(x, 0, x) => At(x \o y, 0, x)
      BY <2>6, <3>0
    <3>2. At(x, 0, x)
      BY <2>6 DEF At
    <3>3. SubSeq(x \o y, 0 + 1, 0 + Len(x)) = x
      BY <2>6, <3>1, <3>2, AtIsRead
    <3>4. SubSeq(x \o y, 2 + 1, 2 + Len(y)) = y
      BY <2>6, <3>1, AtIsRead
    <3> QED BY <2>6, <3>1, <3>3, <3>4
  <2>9. ReadU32(x \o y) = h * m + l
    <3>1. PICK b : b = x \o y
      OBVIOUS
    <3>2. SubSeq(b, 1, 2) = x /\ SubSeq(b, 3, 4) = y
      BY <2>8, <3>1
    <3>3. ReadU32(b) = ReadU16(SubSeq(b, 1, 2)) * 65536 + ReadU16(SubSeq(b, 3, 4))
      BY DEF ReadU32
    <3>4. ReadU16(SubSeq(b, 1, 2)) = h /\ ReadU16(SubSeq(b, 3, 4)) = l
      BY ONLY <2>6, <3>2, Zenon
    <3> QED BY <1>1, <3>1, <3>3, <3>4
  <2> QED BY <2>2, <2>4, <2>7, <2>8, <2>9
<1> QED BY <1>3, <1>4, <1>5

\* A conversion cuts off less than one.
LEMMA TruncCuts ==
    ASSUME NEW a \in Int, NEW d \in Nat \ {0}
    PROVE  LET r == Trunc(a, d) IN
           /\ r \in Int
           /\ a >= 0 => 0 <= a - r * d /\ a - r * d < d
           /\ a < 0 => 0 >= a - r * d /\ -(a - r * d) < d
<1>1. CASE a >= 0
  <2>1. PICK r : r = a \div d
    OBVIOUS
  <2>2. r \in Int /\ a % d \in 0 .. d - 1 /\ a = d * r + (a % d)
    BY <2>1, DivMod
  <2>3. d * r = r * d /\ r * d \in Int
    BY <2>2
  <2>4. Trunc(a, d) = r
    BY <1>1, <2>1 DEF Trunc
  <2> QED BY <1>1, <2>2, <2>3, <2>4
<1>2. CASE a < 0
  <2>1. PICK b, q : b = -a /\ q = b \div d
    OBVIOUS
  <2>2. b \in Int
    BY <2>1
  <2>3. q \in Int /\ b % d \in 0 .. d - 1 /\ b = d * q + (b % d)
    BY <2>1, <2>2, DivMod
  <2>4. PICK r : r = -q
    OBVIOUS
  <2>5. r \in Int /\ r * d = -(d * q) /\ r * d \in Int
    BY <2>3, <2>4
  <2>6. Trunc(a, d) = r
    BY <1>2, <2>1, <2>4 DEF Trunc
  <2> QED BY <1>2, <2>1, <2>3, <2>5, <2>6
<1> QED BY <1>1, <1>2

\* What the gateway shows is short of the value by less than one unit.
LEMMA ShortByLess ==
    ASSUME NEW n \in Int, NEW d \in Nat \ {0}, NEW k \in Nat \ {0}
    PROVE  LET short == <<n, d>> (-) Q(Trunc(n * k, d), k)
           IN  IF n >= 0 THEN short[1] >= 0 /\ short[1] * k < short[2]
                         ELSE short[1] <= 0 /\ -short[1] * k < short[2]
<1>1. PICK r : r = Trunc(n * k, d)
  OBVIOUS
<1>2. PICK e : e = n * k - r * d
  OBVIOUS
<1>3. n * k \in Int /\ (n >= 0 => n * k >= 0) /\ (n < 0 => n * k < 0)
  <2>1. n >= 0 => n * k >= 0
    BY SMT
  <2>2. n < 0 => n * k < 0
    BY SMT
  <2> QED BY <2>1, <2>2
<1>4. /\ r \in Int /\ e \in Int
      /\ n >= 0 => 0 <= e /\ e < d
      /\ n < 0 => 0 >= e /\ -e < d
  <2>1. PICK a : a = n * k
    OBVIOUS
  <2>2. a \in Int /\ r = Trunc(a, d) /\ e = a - r * d
    BY <1>1, <1>2, <1>3, <2>1
  <2>3. r \in Int /\ (a >= 0 => 0 <= a - r * d /\ a - r * d < d) /\ (a < 0 => 0 >= a - r * d /\ -(a - r * d) < d)
    BY <2>2, TruncCuts
  <2> QED BY <1>3, <2>1, <2>2, <2>3
<1>5. PICK x, y : Q(r, k) = <<x, y>> /\ x \in Int /\ y \in Nat \ {0}
  BY <1>4, LowestTerms DEF Fraction
<1>6. PICK g \in Nat \ {0} : r = g * x /\ k = g * y
  <2>1. PICK f : f = Q(r, k)
    OBVIOUS
  <2>2. \E g \in Nat \ {0} : r = g * f[1] /\ k = g * f[2]
    BY <1>4, <2>1, LowestTerms
  <2> QED BY <1>5, <2>1, <2>2
<1>7. PICK N, D : N = n * y - x * d /\ D = d * y
  OBVIOUS
<1>8. N \in Int /\ D \in Nat \ {0}
  BY <1>5, <1>7
<1>9. PICK u, v : Q(N, D) = <<u, v>> /\ u \in Int /\ v \in Nat \ {0}
  BY <1>8, LowestTerms DEF Fraction
<1>10. PICK h \in Nat \ {0} : N = h * u /\ D = h * v
  <2>1. PICK f : f = Q(N, D)
    OBVIOUS
  <2>2. \E h \in Nat \ {0} : N = h * f[1] /\ D = h * f[2]
    BY <1>8, <2>1, LowestTerms
  <2> QED BY <1>9, <2>1, <2>2
<1>11. <<n, d>> (-) Q(r, k) = <<u, v>>
  BY <1>5, <1>7, <1>9 DEF (-)
<1>12. g * N = e
  <2>1. g * N = (g * y) * n - (g * x) * d
    BY <1>5, <1>6, <1>7
  <2> QED BY <1>2, <1>4, <1>6, <2>1
<1>13. (u * k) * d = e * v
  <2>0. ASSUME NEW A \in Int, NEW B \in Int, NEW C \in Int, NEW E \in Int
        PROVE  /\ A * ((B * C) * E) = (A * B) * (C * E)
               /\ (A * B) * (C * E) = (A * C) * (B * E)
    BY ONLY <2>0
  <2>1. h * ((u * k) * d) = N * (k * d)
    BY <1>9, <1>10, <2>0
  <2>2. N * (k * d) = (g * N) * (d * y)
    <3>1. N * ((g * y) * d) = (N * g) * (y * d)
      BY <1>5, <1>8, <2>0
    <3>2. N * g = g * N /\ y * d = d * y
      BY <1>5, <1>8
    <3> QED BY <1>6, <3>1, <3>2
  <2>3. (g * N) * (d * y) = h * (e * v)
    <3>1. e * (h * v) = h * (e * v)
      BY <1>4, <1>9
    <3> QED BY <1>7, <1>10, <1>12, <3>1
  <2>4. PICK a, b : a = (u * k) * d /\ b = e * v
    OBVIOUS
  <2>5. a \in Int /\ b \in Int /\ h * a = h * b
    BY <1>4, <1>9, <2>1, <2>2, <2>3, <2>4
  <2>6. a = b
    BY <2>5
  <2> QED BY <2>4, <2>6
<1>14. PICK w : w = u * k
  OBVIOUS
<1>15. w \in Int /\ w * d = e * v /\ (0 <= w => 0 <= u) /\ (w <= 0 => u <= 0)
  BY <1>9, <1>13, <1>14
<1>16. CASE n >= 0
  <2>1. 0 <= e * v /\ e * v < d * v
    BY <1>4, <1>9, <1>16
  <2>2. 0 <= w /\ w < v
    BY <1>9, <1>15, <2>1
  <2> QED BY <1>1, <1>11, <1>14, <1>15, <1>16, <2>2
<1>17. CASE ~(n >= 0)
  <2>1. 0 >= e * v /\ -(e * v) < d * v
    BY <1>4, <1>9, <1>17
  <2>2. w <= 0 /\ -w < v
    BY <1>9, <1>15, <2>1
  <2>3. -u * k = -w
    BY <1>9, <1>14
  <2> QED BY <1>1, <1>11, <1>15, <1>17, <2>2, <2>3
<1> QED BY <1>16, <1>17

\* The fields of a structure, each as its bytes, and where each begins.
IsLayout(W, O, N) ==
    /\ N \in Nat \ {0} /\ W \in [1 .. N -> Seq(Byte)] /\ O \in [1 .. N + 1 -> Nat]
    /\ O[1] = 0 /\ \A i \in 1 .. N : O[i + 1] = O[i] + Len(W[i])

\* The first n of them in a row.
Laid(b, W, O, n) == b \in Seq(Byte) /\ Len(b) = O[n + 1] /\ \A i \in 1 .. n : At(b, O[i], W[i])

LEMMA LaidOne ==
    ASSUME NEW W, NEW O, NEW N, IsLayout(W, O, N)
    PROVE  Laid(W[1], W, O, 1)
<1>1. 1 \in 1 .. N /\ 1 + 1 = 2 /\ \A i \in 1 .. 1 : i = 1
  BY DEF IsLayout
<1>2. PICK w : w = W[1]
  OBVIOUS
<1>3. w \in Seq(Byte) /\ O[1] = 0 /\ O[2] = 0 + Len(w)
  BY <1>1, <1>2 DEF IsLayout
<1>4. At(w, 0, w)
  BY <1>3 DEF At
<1>5. Len(w) \in Nat
  BY <1>3
<1> QED BY <1>1, <1>2, <1>3, <1>4, <1>5 DEF Laid

LEMMA LaidMore ==
    ASSUME NEW W, NEW O, NEW N, IsLayout(W, O, N), NEW n \in Nat \ {0}, n + 1 <= N,
           NEW b, Laid(b, W, O, n)
    PROVE  Laid(b \o W[n + 1], W, O, n + 1)
<1>1. PICK k : k = n + 1
  OBVIOUS
<1>2. k \in 1 .. N /\ k \in 1 .. N + 1 /\ n \in 1 .. N
  BY <1>1 DEF IsLayout
<1>3. PICK w : w = W[k]
  OBVIOUS
<1>4. w \in Seq(Byte) /\ b \in Seq(Byte) /\ Len(b) = O[k] /\ O[k + 1] = O[k] + Len(w)
  BY <1>1, <1>2, <1>3 DEF IsLayout, Laid
<1>5. PICK c : c = b \o w
  OBVIOUS
<1>6. /\ c \in Seq(Byte) /\ Len(c) = Len(b) + Len(w) /\ At(c, Len(b), w)
      /\ \A o \in Nat, v \in Seq(Byte) : At(b, o, v) => At(c, o, v)
  BY ONLY <1>4, <1>5, AtEnd
<1>7. ASSUME NEW i \in 1 .. k PROVE At(c, O[i], W[i])
  <2>1. CASE i = k
    BY <1>3, <1>4, <1>6, <2>1
  <2>2. CASE i # k
    <3>0. i \in Nat /\ 1 <= i /\ i <= n /\ n <= N /\ N \in Nat
      BY <1>1, <1>2, <2>2 DEF IsLayout
    <3>1. i \in 1 .. n /\ i \in 1 .. N /\ i \in 1 .. N + 1
      BY <3>0
    <3>2. O[i] \in Nat /\ W[i] \in Seq(Byte) /\ At(b, O[i], W[i])
      BY <3>1 DEF IsLayout, Laid
    <3> QED BY <1>6, <3>2
  <2> QED BY <2>1, <2>2
<1>8. Laid(c, W, O, k)
  BY <1>4, <1>6, <1>7 DEF Laid
<1> QED BY <1>1, <1>3, <1>5, <1>8

\* FlattenSeq puts them in a row.
LEMMA FlattenLays ==
    ASSUME NEW W, NEW O, NEW N, IsLayout(W, O, N)
    PROVE  Laid(Lists!FlattenSeq(W), W, O, N)
<1> DEFINE S == Seq(Byte)
           G == [x \in Nat \X S |-> IF x[1] + 1 \in 1 .. N THEN x[2] \o W[x[1] + 1] ELSE x[2]]
           Body(g) == [i \in 1 .. N |-> IF i = 1 THEN W[i] ELSE g[i - 1] \o W[i]]
           it == CHOOSE g : g = Body(g)
<1>1. N \in Nat \ {0} /\ W \in [1 .. N -> S] /\ 1 \in 1 .. N /\ N - 1 \in Nat
  BY DEF IsLayout
<1>2. W[1] \in S
  <2> HIDE DEF S
  <2> QED BY <1>1
<1>3. G \in [Nat \X S -> S]
  <2>1. ASSUME NEW x \in Nat \X S PROVE G[x] \in S
    <3>1. PICK n, y : x = <<n, y>> /\ n \in Nat /\ y \in S
      OBVIOUS
    <3>2. n + 1 \in 1 .. N => y \o W[n + 1] \in S
      <4>1. SUFFICES ASSUME n + 1 \in 1 .. N PROVE y \o W[n + 1] \in S
        OBVIOUS
      <4>2. PICK w : w = W[n + 1]
        OBVIOUS
      <4>3. w \in Seq(Byte) /\ y \in Seq(Byte)
        BY <1>1, <3>1, <4>1, <4>2
      <4>4. y \o w \in Seq(Byte)
        BY ONLY <4>3
      <4> QED BY <4>2, <4>4
    <3>3. x[1] = n /\ x[2] = y
      BY <3>1
    <3>4. G[x] = IF n + 1 \in 1 .. N THEN y \o W[n + 1] ELSE y
      <4> HIDE DEF S
      <4> QED BY <3>3
    <3> HIDE DEF S, G
    <3> QED BY <3>1, <3>2, <3>4
  <2> HIDE DEF S
  <2>2. DOMAIN G = Nat \X S /\ G = [x \in Nat \X S |-> G[x]]
    OBVIOUS
  <2> HIDE DEF G
  <2> QED BY <2>1, <2>2
<1>4. \A n \in 1 .. N - 1, y \in S : G[<<n, y>>] = y \o W[n + 1]
  <2>1. \A n \in 1 .. N - 1 : n \in Nat /\ n + 1 \in 1 .. N
    BY <1>1
  <2> HIDE DEF S
  <2> QED BY <2>1
<1>5. PICK h : Follows(h, S, W[1], G, N - 1)
  <2> HIDE DEF S, G
  <2>1. IsRecursion(S, W[1], G)
    BY <1>2, <1>3 DEF IsRecursion
  <2> QED BY <1>1, <2>1, Recursion
<1>6. h[0] = W[1] /\ \A n \in 1 .. N - 1 : h[n] = h[n - 1] \o W[n + 1]
  <2>1. \A n \in 1 .. N - 1 : n - 1 \in 0 .. N - 1
    BY <1>1
  <2> HIDE DEF S, G
  <2> QED BY <1>4, <1>5, <2>1 DEF Follows
<1>7. PICK f : f = [i \in 1 .. N |-> h[i - 1]]
  OBVIOUS
<1>8. f = Body(f)
  <2>1. ASSUME NEW i \in 1 .. N PROVE f[i] = Body(f)[i]
    <3>1. CASE i = 1
      <4>1. f[1] = h[0]
        BY <1>1, <1>7
      <4> QED BY <1>6, <3>1, <4>1
    <3>2. CASE i # 1
      <4>1. i - 1 \in 1 .. N - 1 /\ (i - 1) + 1 = i /\ i - 1 \in 1 .. N
        BY <1>1, <3>2
      <4>2. h[i - 1] = h[(i - 1) - 1] \o W[i]
        BY <1>6, <4>1
      <4>3. f[i] = h[i - 1] /\ f[i - 1] = h[(i - 1) - 1]
        BY <1>7, <4>1
      <4>4. Body(f)[i] = f[i - 1] \o W[i]
        BY <3>2
      <4> QED BY <4>2, <4>3, <4>4
    <3> QED BY <3>1, <3>2
  <2>2. f = [i \in 1 .. N |-> f[i]]
    BY <1>7
  <2>3. Body(f) = [i \in 1 .. N |-> Body(f)[i]]
    OBVIOUS
  <2> HIDE DEF Body
  <2> QED BY <2>1, <2>2, <2>3
<1>9. it = Body(it)
  <2> HIDE DEF Body
  <2> QED BY <1>8
<1>10. Lists!FlattenSeq(W) = it[N]
  <2>1. Len(W) = N
    BY <1>1
  <2> QED BY <1>1, <2>1 DEF Lists!FlattenSeq
<1> HIDE DEF it
<1>11. it[1] = W[1] /\ \A n \in 1 .. N - 1 : it[n + 1] = it[n] \o W[n + 1]
  <2>1. it[1] = W[1]
    BY <1>1, <1>9
  <2>2. ASSUME NEW n \in 1 .. N - 1 PROVE it[n + 1] = it[n] \o W[n + 1]
    <3>1. PICK k : k = n + 1
      OBVIOUS
    <3>2. k \in 1 .. N /\ k # 1 /\ k - 1 = n
      BY <1>1, <3>1
    <3>3. it[k] = it[k - 1] \o W[k]
      BY <1>9, <3>2
    <3> QED BY <3>1, <3>2, <3>3
  <2> QED BY <2>1, <2>2
<1> DEFINE T == {n \in Nat : n + 1 <= N => Laid(it[n + 1], W, O, n + 1)}
<1>12. 0 \in T
  BY <1>11, LaidOne
<1>13. ASSUME NEW n \in Nat, n \in T PROVE n + 1 \in T
  <2>1. SUFFICES ASSUME (n + 1) + 1 <= N PROVE Laid(it[(n + 1) + 1], W, O, (n + 1) + 1)
    OBVIOUS
  <2>2. PICK k, b : k = n + 1 /\ b = it[n + 1]
    OBVIOUS
  <2>3. k \in Nat \ {0} /\ k + 1 <= N /\ k \in 1 .. N - 1 /\ n + 1 <= N
    BY <1>1, <2>1, <2>2
  <2>4. Laid(b, W, O, k)
    BY <1>13, <2>2, <2>3
  <2>5. Laid(b \o W[k + 1], W, O, k + 1)
    BY <2>3, <2>4, LaidMore
  <2>6. it[k + 1] = b \o W[k + 1]
    BY <1>11, <2>2, <2>3
  <2> QED BY <2>2, <2>5, <2>6
<1>14. N - 1 \in T
  <2> HIDE DEF T
  <2>1. Nat \subseteq T
    BY <1>12, <1>13, SetInduction
  <2> QED BY <1>1, <2>1
<1>15. (N - 1) + 1 = N /\ N <= N
  BY <1>1
<1> QED BY <1>10, <1>14, <1>15

\* A sum over 1 .. n, added up term by term.
LEMMA SumUpTo ==
    ASSUME NEW n \in Nat, NEW F, F \in [1 .. n -> Int],
           NEW O, O[1] = 0, \A i \in 1 .. n : O[i + 1] = O[i] + F[i]
    PROVE  SumFunction(F) = O[n + 1]
<1> DEFINE G(k) == [j \in 1 .. n |-> IF j <= k THEN F[j] ELSE 0]
           T == {k \in Nat : k <= n => SumFunction(G(k)) = O[k + 1]}
<1>0. IsFiniteSet(1 .. n)
  BY FS_Interval
<1>1. ASSUME NEW k \in Nat PROVE DOMAIN G(k) = 1 .. n /\ Summable(G(k))
  <2>1. \A j \in 1 .. n : G(k)[j] \in Int
    BY <1>1
  <2>2. DOMAIN G(k) = 1 .. n
    OBVIOUS
  <2> QED BY <1>0, <2>1, <2>2 DEF Summable
<1>2. 0 \in T
  <2>1. PICK g : g = G(0)
    OBVIOUS
  <2>2. Summable(g) /\ DOMAIN g = 1 .. n /\ \A j \in 1 .. n : g[j] = 0
    <3>1. \A j \in 1 .. n : g[j] = 0
      BY <2>1
    <3>2. Summable(g) /\ DOMAIN g = 1 .. n
      <4> HIDE DEF G
      <4> QED BY <1>1, <2>1
    <3> QED BY <3>1, <3>2
  <2>3. \A x \in DOMAIN g : g[x] = 0 * g[x]
    BY <2>2
  <2>4. SumFunction(g) \in Int
    <3>1. \A x \in DOMAIN g : g[x] <= g[x]
      BY <2>2
    <3> QED BY <2>2, <3>1, SumMonotone
  <2>5. SumFunction(g) = 0 * SumFunction(g)
    <3>1. 0 \in Int /\ DOMAIN g = DOMAIN g
      OBVIOUS
    <3> QED BY ONLY <2>2, <2>3, <3>1, SumScales
  <2>6. SumFunction(g) = 0
    BY <2>4, <2>5
  <2> QED BY <2>1, <2>6
<1>3. ASSUME NEW k \in Nat, k \in T PROVE k + 1 \in T
  <2>1. SUFFICES ASSUME k + 1 <= n PROVE SumFunction(G(k + 1)) = O[(k + 1) + 1]
    OBVIOUS
  <2>2. PICK g, y : g = G(k + 1) /\ y = k + 1
    OBVIOUS
  <2>3. y \in 1 .. n /\ y \in Nat
    BY <2>1, <2>2
  <2>4. Summable(g) /\ y \in DOMAIN g /\ g[y] = F[y]
    <3>1. Summable(G(y)) /\ DOMAIN G(y) = 1 .. n
      BY ONLY <1>1, <2>3
    <3>2. G(y)[y] = F[y]
      BY <2>3
    <3> HIDE DEF G
    <3> QED BY <2>2, <2>3, <3>1, <3>2
  <2>5. SumFunction(g) = g[y] + SumFunction([g EXCEPT ![y] = 0])
    BY <2>4, SumDrops
  <2>6. [g EXCEPT ![y] = 0] = G(k)
    <3>1. \A j \in 1 .. n : (IF j = y THEN 0 ELSE IF j <= y THEN F[j] ELSE 0)
                            = IF j <= k THEN F[j] ELSE 0
      BY <2>2
    <3> QED BY <2>2, <3>1
  <2>7. SumFunction(G(k)) = O[k + 1]
    BY <1>3, <2>1
  <2>8. O[y + 1] = O[y] + F[y]
    BY <2>3
  <2>9. SumFunction(g) = F[y] + O[y]
    BY <2>2, <2>4, <2>5, <2>6, <2>7
  <2>10. F[y] \in Int /\ O[y] \in Int
    <3>1. PICK f : f = G(k)
      OBVIOUS
    <3>2. Summable(f)
      BY <1>1, <3>1
    <3>3. \A x \in DOMAIN f : f[x] <= f[x]
      BY <3>2 DEF Summable
    <3>4. SumFunction(f) \in Int
      BY <3>2, <3>3, SumMonotone
    <3> QED BY <2>2, <2>3, <2>7, <3>1, <3>4
  <2> HIDE DEF G
  <2> QED BY <2>2, <2>8, <2>9, <2>10
<1>4. n \in T
  <2> HIDE DEF T
  <2>1. Nat \subseteq T
    BY <1>2, <1>3, SetInduction
  <2> QED BY <2>1
<1>5. G(n) = F
  <2>1. \A j \in 1 .. n : G(n)[j] = F[j]
    OBVIOUS
  <2>2. G(n) = [j \in 1 .. n |-> G(n)[j]] /\ F = [j \in 1 .. n |-> F[j]]
    OBVIOUS
  <2> HIDE DEF G
  <2> QED BY <2>1, <2>2
<1> QED BY <1>4, <1>5

\* Where each field begins, and where the last one ends.
Offsets == <<0, 2, 4, 6, 8, 10, 12, 14, 18, 20, 24>>

LEMMA TenFields ==
    /\ DOMAIN TelemetryFrame = 1 .. 10 /\ RawTelemetryFrame = TelemetryFrame
    /\ \A i \in 1 .. 10 : /\ TelemetryFrame[i].type \in {"u16", "s16", "u32"}
                          /\ TelemetryFrame[i].scale \in Nat \ {0}
                          /\ Offsets[i] \in Nat /\ Offsets[i + 1] \in Nat
                          /\ Offsets[i + 1] = Offsets[i] + SizeOf(TelemetryFrame[i].type)
    /\ Offsets \in [1 .. 11 -> Nat] /\ Offsets[1] = 0 /\ Offsets[11] = 24
<1>1. DOMAIN TelemetryFrame = 1 .. 10
  BY DEF TelemetryFrame
<1>2. RawTelemetryFrame = TelemetryFrame
  BY DEF RawTelemetryFrame, TelemetryFrame
<1>3. Offsets \in [1 .. 11 -> Nat]
  BY DEF Offsets
<1>4. Offsets[1] = 0 /\ Offsets[11] = 24
  BY DEF Offsets
<1>5. ASSUME NEW i \in 1 .. 10
      PROVE  TelemetryFrame[i].type \in {"u16", "s16", "u32"} /\ TelemetryFrame[i].scale \in Nat \ {0}
  <2>1. i \in {1, 2, 3, 4, 5, 6, 7, 8, 9, 10}
    OBVIOUS
  <2> QED BY <2>1 DEF TelemetryFrame, Field
<1>6. ASSUME NEW i \in 1 .. 10
      PROVE  /\ Offsets[i] \in Nat /\ Offsets[i + 1] \in Nat
             /\ Offsets[i + 1] = Offsets[i] + SizeOf(TelemetryFrame[i].type)
  <2>1. i \in {1, 2, 3, 4, 5, 6, 7, 8, 9, 10}
    OBVIOUS
  <2> QED BY <2>1 DEF TelemetryFrame, Field, SizeOf, Offsets
<1> QED BY <1>1, <1>2, <1>3, <1>4, <1>5, <1>6

\* What is written of the i-th field, as a number.
Raw(s, i) == LET f == TelemetryFrame[i] IN Trunc(s[f.name][1] * f.scale, s[f.name][2])
Bytes(s) == [i \in 1 .. 10 |-> Write(TelemetryFrame[i].type, Raw(s, i))]

\* The offset the gateway adds up is where the field begins.
LEMMA OffsetIsSum ==
    ASSUME NEW i \in 1 .. 10
    PROVE  SumFunction([j \in 1 .. i - 1 |-> SizeOf(RawTelemetryFrame[j].type)]) = Offsets[i]
<1>1. PICK n : n = i - 1
  OBVIOUS
<1>2. n \in Nat /\ n <= 9 /\ n + 1 = i
  BY <1>1
<1>3. PICK F : F = [j \in 1 .. n |-> SizeOf(TelemetryFrame[j].type)]
  OBVIOUS
<1>4. F \in [1 .. n -> Int]
  BY <1>3 DEF SizeOf
<1>5. \A j \in 1 .. n : Offsets[j + 1] = Offsets[j] + F[j]
  <2>1. \A j \in 1 .. n : j \in 1 .. 10
    BY <1>2
  <2> QED BY <1>3, <2>1, TenFields
<1>6. SumFunction(F) = Offsets[n + 1]
  <2>1. PICK O : O = Offsets
    OBVIOUS
  <2>2. O[1] = 0 /\ \A j \in 1 .. n : O[j + 1] = O[j] + F[j]
    BY <1>5, <2>1, TenFields
  <2>3. SumFunction(F) = O[n + 1]
    BY ONLY <1>2, <1>4, <2>2, SumUpTo
  <2> QED BY <2>1, <2>3
<1> QED BY <1>1, <1>2, <1>3, <1>6, TenFields

LEMMA RawFits ==
    ASSUME NEW s, IsMeasurement(s), NEW i \in 1 .. 10
    PROVE  /\ s[TelemetryFrame[i].name] \in Fraction /\ Raw(s, i) \in Int
           /\ Holds(TelemetryFrame[i].type, Raw(s, i))
<1>1. PICK f : f = TelemetryFrame[i]
  OBVIOUS
<1>2. f.scale \in Nat \ {0}
  BY <1>1, TenFields
<1>3. s[f.name] \in Fraction /\ Holds(f.type, Raw(s, i))
  BY <1>1, TenFields DEF IsMeasurement, Raw
<1>4. PICK a, d : s[f.name] = <<a, d>> /\ a \in Int /\ d \in Nat \ {0}
  BY <1>3 DEF Fraction
<1>5. PICK n : n = a * f.scale
  OBVIOUS
<1>6. n \in Int
  BY <1>2, <1>4, <1>5
<1>7. Trunc(n, d) \in Int
  BY <1>4, <1>6, TruncCuts
<1>8. Raw(s, i) = Trunc(n, d)
  <2>1. s[f.name][1] = a /\ s[f.name][2] = d
    BY <1>4
  <2> QED BY <1>1, <1>5, <2>1 DEF Raw
<1> QED BY <1>1, <1>3, <1>7, <1>8

LEMMA BytesAreLaid ==
    ASSUME NEW s, IsMeasurement(s)
    PROVE  /\ IsLayout(Bytes(s), Offsets, 10)
           /\ \A i \in 1 .. 10 :
                 LET t == TelemetryFrame[i].type IN
                 /\ Bytes(s)[i] \in Seq(Byte) /\ Len(Bytes(s)[i]) = SizeOf(t)
                 /\ Read(t, Bytes(s)[i]) = Raw(s, i)
<1>1. ASSUME NEW i \in 1 .. 10
      PROVE  LET t == TelemetryFrame[i].type IN
             /\ Bytes(s)[i] \in Seq(Byte) /\ Len(Bytes(s)[i]) = SizeOf(t)
             /\ Read(t, Bytes(s)[i]) = Raw(s, i)
  <2>1. PICK t, v : t = TelemetryFrame[i].type /\ v = Raw(s, i)
    OBVIOUS
  <2>2. t \in {"u16", "s16", "u32"} /\ v \in Int /\ Holds(t, v)
    BY <2>1, TenFields, RawFits
  <2>3. /\ Write(t, v) \in Seq(Byte) /\ Len(Write(t, v)) = SizeOf(t)
        /\ Read(t, Write(t, v)) = v
    BY ONLY <2>2, FieldIsRead
  <2>4. Bytes(s)[i] = Write(t, v)
    BY <2>1 DEF Bytes
  <2> QED BY <2>1, <2>3, <2>4
<1>2. Bytes(s) \in [1 .. 10 -> Seq(Byte)]
  <2>1. \A i \in 1 .. 10 : Bytes(s)[i] \in Seq(Byte)
    BY <1>1
  <2>2. Bytes(s) = [i \in 1 .. 10 |-> Bytes(s)[i]]
    BY DEF Bytes
  <2> QED BY <2>1, <2>2
<1>3. \A i \in 1 .. 10 : Offsets[i + 1] = Offsets[i] + Len(Bytes(s)[i])
  BY <1>1, TenFields
<1>4. Offsets \in [1 .. 10 + 1 -> Nat] /\ Offsets[1] = 0
  BY TenFields
<1> QED BY <1>1, <1>2, <1>3, <1>4 DEF IsLayout

\* The frame: 48 bytes, with every field at its offset.
LEMMA FrameIsLaid ==
    ASSUME NEW s, IsMeasurement(s)
    PROVE  /\ Pack(s) \in Seq(Byte) /\ Len(Pack(s)) = 48
           /\ \A i \in 1 .. 10 : At(Pack(s), Offsets[i], Bytes(s)[i])
<1>1. PICK b, z : b = Lists!FlattenSeq(Bytes(s)) /\ z = [i \in 1 .. 24 |-> 0]
  OBVIOUS
<1>2. Pack(s) = b \o z
  <2>1. [i \in DOMAIN TelemetryFrame |->
            LET f == TelemetryFrame[i] IN Write(f.type, Trunc(s[f.name][1] * f.scale, s[f.name][2]))]
        = Bytes(s)
    BY TenFields DEF Bytes, Raw
  <2> QED BY <1>1, <2>1 DEF Pack
<1>3. Laid(b, Bytes(s), Offsets, 10)
  BY <1>1, BytesAreLaid, FlattenLays
<1>4. b \in Seq(Byte) /\ Len(b) = 24 /\ \A i \in 1 .. 10 : At(b, Offsets[i], Bytes(s)[i])
  <2>1. Len(b) = Offsets[10 + 1]
    BY <1>3 DEF Laid
  <2> QED BY <1>3, <2>1, TenFields DEF Laid
<1>5. z \in Seq(Byte) /\ Len(z) = 24
  <2>1. 0 \in Byte
    BY DEF Byte
  <2>2. z \in [1 .. 24 -> Byte]
    BY <1>1, <2>1
  <2> QED BY <1>1, <2>2
<1>6. /\ b \o z \in Seq(Byte) /\ Len(b \o z) = Len(b) + Len(z)
      /\ \A o \in Nat, v \in Seq(Byte) : At(b, o, v) => At(b \o z, o, v)
  BY ONLY <1>4, <1>5, AtEnd
<1>7. \A i \in 1 .. 10 : Offsets[i] \in Nat /\ Bytes(s)[i] \in Seq(Byte)
  BY BytesAreLaid, TenFields
<1>8. b \o z \in Seq(Byte) /\ Len(b \o z) = 48
  BY <1>4, <1>5, <1>6
<1>9. ASSUME NEW i \in 1 .. 10 PROVE At(b \o z, Offsets[i], Bytes(s)[i])
  BY <1>4, <1>6, <1>7
<1> QED BY <1>2, <1>8, <1>9

\* The i-th field as the gateway shows it.
LEMMA FieldShown ==
    ASSUME NEW s, IsMeasurement(s), NEW i \in 1 .. 10
    PROVE  LET f == TelemetryFrame[i]
           IN  Decode(Pack(s))[i] = [name |-> f.name, value |-> Q(Raw(s, i), f.scale)]
<1>1. PICK b, f : b = Pack(s) /\ f = TelemetryFrame[i]
  OBVIOUS
<1>2. PICK o, w : o = Offsets[i] /\ w = Bytes(s)[i]
  OBVIOUS
<1>3. b \in Seq(Byte) /\ w \in Seq(Byte) /\ o \in Nat /\ At(b, o, w)
  BY <1>1, <1>2, FrameIsLaid, BytesAreLaid, TenFields
<1>4. Len(w) = SizeOf(f.type) /\ Read(f.type, w) = Raw(s, i)
  BY <1>1, <1>2, BytesAreLaid
<1>5. SubSeq(b, o + 1, o + Len(w)) = w
  BY ONLY <1>3, AtIsRead
<1>6. RawTelemetryFrame[i] = f /\ i \in DOMAIN RawTelemetryFrame
  BY <1>1, TenFields
<1>7. SumFunction([j \in 1 .. i - 1 |-> SizeOf(RawTelemetryFrame[j].type)]) = o
  BY <1>2, OffsetIsSum
<1>8. Decode(b)[i] = [name |-> f.name, value |-> Q(Read(f.type, SubSeq(b, o + 1, o + SizeOf(f.type))), f.scale)]
  BY <1>6, <1>7 DEF Decode
<1>9. SubSeq(b, o + 1, o + SizeOf(f.type)) = w
  BY <1>4, <1>5
<1> QED BY <1>1, <1>4, <1>8, <1>9

\* The gateway shows what the ECU measured.
LEMMA RoundTripHolds ==
    ASSUME NEW s, IsMeasurement(s)
    PROVE  RoundTrip(s)
<1>1. PICK b : b = Pack(s)
  OBVIOUS
<1>2. b \in Seq(Byte) /\ Len(b) = 48
  BY <1>1, FrameIsLaid
<1>3. \A i \in 1 .. 48 : b[i] \in Byte
  BY <1>2, ElementOfSeq
<1>4. Accepts(b) /\ ~Accepts(SubSeq(b, 1, 47))
  <2>1. \A i \in 1 .. 47 : b[i] \in Byte
    BY <1>3
  <2>2. Len(SubSeq(b, 1, 47)) = 47
    <3>1. PICK e : e = 47
      OBVIOUS
    <3>2. 1 \in Int /\ e \in Int /\ \A i \in 1 .. e : b[i] \in Byte
      BY <2>1, <3>1
    <3>3. Len(SubSeq(b, 1, e)) = IF 1 <= e THEN e - 1 + 1 ELSE 0
      BY <3>2, SubSeqProperties
    <3> QED BY <3>1, <3>3
  <2> QED BY <1>2, <2>2 DEF Accepts
<1>5. PICK d : d = Decode(b)
  OBVIOUS
<1>6. DOMAIN d = 1 .. 10
  BY <1>5, TenFields DEF Decode
<1>7. \A i \in 1 .. 10 : d[i] = [name |-> TelemetryFrame[i].name,
                                 value |-> Q(Raw(s, i), TelemetryFrame[i].scale)]
  BY <1>1, <1>5, FieldShown
<1>8. {d[i].name : i \in DOMAIN d} = DOMAIN s
  <2>1. \A i \in 1 .. 10 : d[i].name = TelemetryFrame[i].name
    BY <1>7
  <2> QED BY <1>6, <2>1, TenFields DEF IsMeasurement
<1>9. ASSUME NEW i \in DOMAIN d
      PROVE  LET v == s[d[i].name]
                 short == v (-) d[i].value
                 unit == RawTelemetryFrame[i].scale
             IN  IF v[1] >= 0 THEN short[1] >= 0 /\ short[1] * unit < short[2]
                              ELSE short[1] <= 0 /\ -short[1] * unit < short[2]
  <2>1. i \in 1 .. 10
    BY <1>6
  <2>2. PICK f : f = TelemetryFrame[i]
    OBVIOUS
  <2>3. f.scale \in Nat \ {0} /\ RawTelemetryFrame[i] = f
    BY <2>1, <2>2, TenFields
  <2>4. s[f.name] \in Fraction
    BY <2>1, <2>2, RawFits
  <2>5. PICK n, m, k : s[f.name] = <<n, m>> /\ n \in Int /\ m \in Nat \ {0} /\ k = f.scale
    BY <2>4 DEF Fraction
  <2>6. Raw(s, i) = Trunc(n * k, m)
    <3>1. s[f.name][1] = n /\ s[f.name][2] = m
      BY <2>5
    <3> QED BY <2>2, <2>5, <3>1 DEF Raw
  <2>7. d[i].name = f.name /\ d[i].value = Q(Trunc(n * k, m), k)
    BY <1>7, <2>1, <2>2, <2>5, <2>6
  <2>8. PICK p : p = <<n, m>> (-) Q(Trunc(n * k, m), k)
    OBVIOUS
  <2>9. IF n >= 0 THEN p[1] >= 0 /\ p[1] * k < p[2] ELSE p[1] <= 0 /\ -p[1] * k < p[2]
    BY <2>3, <2>5, <2>8, ShortByLess
  <2>10. s[d[i].name] = <<n, m>> /\ <<n, m>>[1] = n
    BY <2>5, <2>7
  <2>11. s[d[i].name] (-) d[i].value = p
    BY <2>7, <2>8, <2>10
  <2> QED BY <2>3, <2>5, <2>9, <2>10, <2>11
<1> QED BY <1>1, <1>2, <1>3, <1>4, <1>5, <1>8, <1>9 DEF RoundTrip

\* What decode_telemetry() shows of the frame pack_telemetry() packed, for every
\* measurement the structure's fields can hold.
THEOREM TelemetryAlwaysSurvives == NumericsSpec => []TelemetrySurvives
<1>1. input \in Inputs => TelemetrySurvives
  <2>1. ASSUME input \in Inputs, input.kind = "telemetry" PROVE IsMeasurement(input.s)
    BY <2>1, NumericsAssumption DEF Inputs
  <2> QED BY <2>1, RoundTripHolds DEF TelemetrySurvives
<1> QED BY <1>1, InputStays, PTL DEF NumericsSpec
------------------------------------------------------------------------------
(* The toolpath. *)

\* A fraction in lowest terms, as all that is computed is.
Reduced == {f \in Fraction : f = Q(f[1], f[2])}

LEMMA QIsReduced ==
    ASSUME NEW n \in Int, NEW d \in Nat \ {0}
    PROVE  Q(n, d) \in Reduced
<1>1. PICK f : f = Q(n, d)
  OBVIOUS
<1>2. f \in Fraction /\ f[1] \in Int /\ f[2] \in Nat \ {0}
  BY <1>1, LowestTerms DEF Fraction
<1>3. PICK g \in Nat \ {0} : n = g * f[1] /\ d = g * f[2]
  BY <1>1, LowestTerms
<1>4. Q(g * f[1], g * f[2]) = Q(f[1], f[2])
  BY <1>2, QScales
<1> QED BY <1>1, <1>2, <1>3, <1>4 DEF Reduced

\* A fraction over d, as numbers x and y without the factor g.
LEMMA Terms ==
    ASSUME NEW n \in Int, NEW d \in Nat \ {0}
    PROVE  \E x \in Int, y \in Nat \ {0}, g \in Nat \ {0} :
               Q(n, d) = <<x, y>> /\ n = g * x /\ d = g * y
<1>1. PICK f : f = Q(n, d)
  OBVIOUS
<1>2. PICK x, y : f = <<x, y>> /\ x \in Int /\ y \in Nat \ {0}
  BY <1>1, LowestTerms DEF Fraction
<1>3. PICK g \in Nat \ {0} : n = g * f[1] /\ d = g * f[2]
  BY <1>1, LowestTerms
<1> QED BY <1>1, <1>2, <1>3

LEMMA SameTerms ==
    ASSUME NEW f \in Reduced
    PROVE  f[1] \in Int /\ f[2] \in Nat \ {0} /\ f = Q(f[1], f[2]) /\ f = <<f[1], f[2]>>
  BY DEF Reduced, Fraction

\* Products, sums and differences, over denominators of one's choice.
LEMMA ProductOf ==
    ASSUME NEW a \in Int, NEW d \in Nat \ {0}, NEW b \in Int, NEW e \in Nat \ {0}
    PROVE  Q(a, d) (.) Q(b, e) = Q(a * b, d * e)
<1>1. PICK x \in Int, y \in Nat \ {0}, g \in Nat \ {0} : Q(a, d) = <<x, y>> /\ a = g * x /\ d = g * y
  BY Terms
<1>2. PICK u \in Int, v \in Nat \ {0}, h \in Nat \ {0} : Q(b, e) = <<u, v>> /\ b = h * u /\ e = h * v
  BY Terms
<1>3. Q(a, d) (.) Q(b, e) = Q(x * u, y * v)
  BY <1>1, <1>2 DEF (.)
<1>4. PICK k, n, m : k = g * h /\ n = x * u /\ m = y * v
  OBVIOUS
<1>5. k \in Nat \ {0} /\ n \in Int /\ m \in Nat \ {0}
  BY <1>4
<1>6. Q(k * n, k * m) = Q(n, m)
  BY ONLY <1>5, QScales
<1>7. ASSUME NEW A \in Int, NEW B \in Int, NEW C \in Int, NEW E \in Int
      PROVE  (A * B) * (C * E) = (A * C) * (B * E)
  BY ONLY <1>7
<1>8. k * n = a * b /\ k * m = d * e
  BY <1>1, <1>2, <1>4, <1>7
<1> QED BY <1>3, <1>4, <1>6, <1>8

LEMMA SumOf ==
    ASSUME NEW a \in Int, NEW b \in Int, NEW d \in Nat \ {0}
    PROVE  Q(a, d) (+) Q(b, d) = Q(a + b, d) /\ Q(a, d) (-) Q(b, d) = Q(a - b, d)
<1>1. PICK x \in Int, y \in Nat \ {0}, g \in Nat \ {0} : Q(a, d) = <<x, y>> /\ a = g * x /\ d = g * y
  BY Terms
<1>2. PICK u \in Int, v \in Nat \ {0}, h \in Nat \ {0} : Q(b, d) = <<u, v>> /\ b = h * u /\ d = h * v
  BY Terms
<1>3. /\ Q(a, d) (+) Q(b, d) = Q(x * v + u * y, y * v)
      /\ Q(a, d) (-) Q(b, d) = Q(x * v - u * y, y * v)
  BY <1>1, <1>2 DEF (+), (-)
<1>4. PICK k, n, l, m : k = g * h /\ n = x * v /\ l = u * y /\ m = y * v
  OBVIOUS
<1>5. k \in Nat \ {0} /\ n \in Int /\ l \in Int /\ m \in Nat \ {0}
  BY <1>4
<1>6. ASSUME NEW A \in Int, NEW B \in Int, NEW C \in Int, NEW E \in Int
      PROVE  (A * B) * (C * E) = (A * C) * (B * E) /\ (A * B) * (C * E) = (B * C) * (A * E)
  BY ONLY <1>6
<1>7. k * n = d * a /\ k * l = d * b /\ k * m = d * d
  <2>1. k * n = (g * x) * (h * v) /\ k * m = (g * y) * (h * v)
    BY <1>4, <1>6
  <2>2. k * l = (h * u) * (g * y)
    BY <1>4, <1>6
  <2>3. a * d = d * a /\ b * d = d * b
    OBVIOUS
  <2> QED BY <1>1, <1>2, <2>1, <2>2, <2>3
<1>8. k * (n + l) = d * (a + b) /\ k * (n - l) = d * (a - b)
  <2>1. k * (n + l) = k * n + k * l /\ k * (n - l) = k * n - k * l
    BY <1>5
  <2>2. d * (a + b) = d * a + d * b /\ d * (a - b) = d * a - d * b
    OBVIOUS
  <2> QED BY <1>7, <2>1, <2>2
<1>9. /\ Q(k * (n + l), k * m) = Q(n + l, m) /\ Q(k * (n - l), k * m) = Q(n - l, m)
      /\ Q(d * (a + b), d * d) = Q(a + b, d) /\ Q(d * (a - b), d * d) = Q(a - b, d)
  <2>1. n + l \in Int /\ n - l \in Int /\ a + b \in Int /\ a - b \in Int
    BY <1>5
  <2> QED BY <1>5, <2>1, QScales
<1> QED BY <1>3, <1>4, <1>7, <1>8, <1>9

\* A whole number over any denominator.
LEMMA WholeIs ==
    ASSUME NEW k \in Int, NEW d \in Nat \ {0}
    PROVE  Whole(k) = Q(d * k, d) /\ Whole(k) \in Reduced
<1>1. PICK x \in Int, y \in Nat \ {0}, g \in Nat \ {0} : Q(k, 1) = <<x, y>> /\ k = g * x /\ 1 = g * y
  <2>1. k \in Int /\ 1 \in Nat \ {0}
    OBVIOUS
  <2> QED BY ONLY <2>1, Terms
<1>2. g = 1 /\ y = 1
  <2>1. g >= 1 /\ y >= 1
    OBVIOUS
  <2>2. g * y >= g /\ g * y >= y
    BY <2>1
  <2> QED BY <1>1, <2>1, <2>2
<1>3. Q(k, 1) = Whole(k)
  BY <1>1, <1>2 DEF Whole
<1>4. Q(d * k, d * 1) = Q(k, 1)
  BY QScales
<1>5. d * 1 = d
  OBVIOUS
<1> QED BY <1>3, <1>4, <1>5, QIsReduced

\* The reciprocal of a positive fraction.
LEMMA ReciprocalOf ==
    ASSUME NEW n \in Nat \ {0}, NEW d \in Nat \ {0}
    PROVE  Whole(1) (/) Q(n, d) = Q(d, n)
<1>1. PICK x \in Int, y \in Nat \ {0}, g \in Nat \ {0} : Q(n, d) = <<x, y>> /\ n = g * x /\ d = g * y
  <2>1. n \in Int /\ d \in Nat \ {0}
    OBVIOUS
  <2> QED BY ONLY <2>1, Terms
<1>2. x \in Nat \ {0}
  <2>1. x <= 0 => g * x <= 0
    OBVIOUS
  <2> QED BY <1>1, <2>1
<1>3. Whole(1) (/) Q(n, d) = Q(y, x)
  <2>1. Whole(1) (/) <<x, y>> = Q(1 * y, 1 * x)
    BY DEF (/), Whole
  <2>2. 1 * y = y /\ 1 * x = x
    OBVIOUS
  <2> QED BY <1>1, <2>1, <2>2
<1>4. Q(g * y, g * x) = Q(y, x)
  <2>1. y \in Int /\ x \in Nat \ {0} /\ g \in Nat \ {0}
    BY <1>2
  <2> QED BY ONLY <2>1, QScales
<1> QED BY <1>1, <1>3, <1>4

\* Three in a row of the spline's system: what makes it smooth.
InRow(x, y, z, r) ==
    \E D \in Nat \ {0}, a, b, c \in Int :
        x = Q(a, D) /\ y = Q(b, D) /\ z = Q(c, D) /\ a + 4 * b + c = D * r

\* A row of the elimination, with the factor of the row above Q(p, q), its right
\* side Q(u, v), and the unknown of the row below Q(s, t): the three unknowns
\* are in a row.
LEMMA RowSolved ==
    ASSUME NEW p \in Nat, NEW q \in Nat \ {0}, p < q, NEW r \in Int,
           NEW u \in Int, NEW v \in Nat \ {0}, NEW s \in Int, NEW t \in Nat \ {0},
           NEW x, NEW y,
           y = (Whole(r) (-) Q(u, v)) (.) Q(q, 4 * q - p) (-) Q(q, 4 * q - p) (.) Q(s, t),
           x = Q(u, v) (-) Q(p, q) (.) y
    PROVE  InRow(x, y, Q(s, t), r)
<1>1. PICK w : w = 4 * q - p
  OBVIOUS
<1>2. w \in Nat \ {0}
  BY <1>1
<1>3. Whole(r) (-) Q(u, v) = Q(v * r - u, v)
  <2>1. v * r \in Int /\ Whole(r) = Q(v * r, v)
    BY WholeIs
  <2>2. PICK k : k = v * r
    OBVIOUS
  <2>3. Q(k, v) (-) Q(u, v) = Q(k - u, v)
    BY <2>1, <2>2, SumOf
  <2> QED BY <2>1, <2>2, <2>3
<1>4. PICK e : e = v * r - u
  OBVIOUS
<1>5. e \in Int
  BY <1>4
<1>6. Q(e, v) (.) Q(q, w) = Q(e * q, v * w)
  BY <1>2, <1>5, ProductOf
<1>7. Q(q, w) (.) Q(s, t) = Q(q * s, w * t)
  BY <1>2, ProductOf
<1>8. PICK D : D = (v * w) * t
  OBVIOUS
<1>9. D \in Nat \ {0} /\ v * w \in Nat \ {0} /\ w * t \in Nat \ {0} /\ e * q \in Int /\ q * s \in Int
  BY <1>2, <1>5, <1>8
<1>10. Q(e * q, v * w) = Q(t * (e * q), D)
  <2>1. PICK n, m : n = e * q /\ m = v * w
    OBVIOUS
  <2>2. n \in Int /\ m \in Nat \ {0}
    BY <1>9, <2>1
  <2>3. Q(t * n, t * m) = Q(n, m)
    BY <2>2, QScales
  <2>4. t * m = D
    BY <1>8, <2>1, <2>2
  <2> QED BY <2>1, <2>3, <2>4
<1>11. Q(q * s, w * t) = Q(v * (q * s), D)
  <2>1. PICK n, m : n = q * s /\ m = w * t
    OBVIOUS
  <2>2. n \in Int /\ m \in Nat \ {0}
    BY <1>9, <2>1
  <2>3. Q(v * n, v * m) = Q(n, m)
    BY <2>2, QScales
  <2>4. v * m = D
    BY <1>2, <1>8, <2>1
  <2> QED BY <2>1, <2>3, <2>4
<1>12. PICK f : f = t * e - v * s
  OBVIOUS
<1>13. f \in Int
  BY <1>5, <1>12
<1>14. t * (e * q) - v * (q * s) = q * f
  <2>1. t * (e * q) = q * (t * e) /\ v * (q * s) = q * (v * s)
    BY <1>5
  <2>2. q * f = q * (t * e) - q * (v * s)
    BY <1>5, <1>12
  <2> QED BY <2>1, <2>2
<1>15. y = Q(q * f, D)
  <2>1. PICK n, m : n = t * (e * q) /\ m = v * (q * s)
    OBVIOUS
  <2>2. n \in Int /\ m \in Int
    BY <1>9, <2>1
  <2>3. Q(n, D) (-) Q(m, D) = Q(n - m, D)
    BY <1>9, <2>2, SumOf
  <2>4. y = Q(n, D) (-) Q(m, D)
    BY <1>1, <1>3, <1>4, <1>6, <1>7, <1>10, <1>11, <2>1
  <2> QED BY <1>14, <2>1, <2>3, <2>4
<1>16. Q(p, q) (.) y = Q(p * f, D)
  <2>1. PICK n : n = q * f
    OBVIOUS
  <2>2. n \in Int
    BY <1>13, <2>1
  <2>3. Q(p, q) (.) Q(n, D) = Q(p * n, q * D)
    BY <1>9, <2>2, ProductOf
  <2>4. p * n = q * (p * f)
    BY <1>13, <2>1
  <2>5. p * f \in Int
    BY <1>13
  <2>6. PICK m : m = p * f
    OBVIOUS
  <2>7. Q(q * m, q * D) = Q(m, D)
    BY <1>9, <2>5, <2>6, QScales
  <2> QED BY <1>15, <2>1, <2>3, <2>4, <2>6, <2>7
<1>17. Q(u, v) = Q((w * t) * u, D)
  <2>1. PICK m : m = w * t
    OBVIOUS
  <2>2. m \in Nat \ {0}
    BY <1>9, <2>1
  <2>3. Q(m * u, m * v) = Q(u, v)
    BY <2>2, QScales
  <2>4. m * v = D
    BY <1>2, <1>8, <2>1
  <2> QED BY <2>1, <2>3, <2>4
<1>18. x = Q((w * t) * u - p * f, D)
  <2>1. PICK n, m : n = (w * t) * u /\ m = p * f
    OBVIOUS
  <2>2. n \in Int /\ m \in Int
    BY <1>9, <1>13, <2>1
  <2>3. Q(n, D) (-) Q(m, D) = Q(n - m, D)
    BY <1>9, <2>2, SumOf
  <2> QED BY <1>16, <1>17, <2>1, <2>3
<1>19. Q(s, t) = Q((v * w) * s, D)
  <2>1. PICK m : m = v * w
    OBVIOUS
  <2>2. m \in Nat \ {0}
    BY <1>9, <2>1
  <2>3. Q(m * s, m * t) = Q(s, t)
    BY <2>2, QScales
  <2>4. m * t = D
    BY <1>8, <2>1
  <2> QED BY <2>1, <2>3, <2>4
<1>20. PICK a, b, c : a = (w * t) * u - p * f /\ b = q * f /\ c = (v * w) * s
  OBVIOUS
<1>21. a \in Int /\ b \in Int /\ c \in Int
  BY <1>9, <1>13, <1>20
<1>22. a + 4 * b + c = D * r
  <2>1. a + 4 * b = w * (t * u) + w * f
    <3>1. (4 * q - p) * f = 4 * (q * f) - p * f
      BY <1>13
    <3>2. (w * t) * u = w * (t * u)
      BY <1>2
    <3> QED BY <1>1, <1>2, <1>13, <1>20, <3>1, <3>2
  <2>2. t * u + f = t * (v * r) - v * s
    <3>1. t * (v * r - u) = t * (v * r) - t * u
      OBVIOUS
    <3> QED BY <1>4, <1>12, <3>1
  <2>3. w * (t * u) + w * f = w * (t * (v * r)) - w * (v * s)
    <3>1. PICK i, j, k, l : i = t * u /\ j = f /\ k = t * (v * r) /\ l = v * s
      OBVIOUS
    <3>2. i \in Int /\ j \in Int /\ k \in Int /\ l \in Int /\ i + j = k - l
      BY <1>13, <2>2, <3>1
    <3>3. w * i + w * j = w * k - w * l
      <4>1. w * (i + j) = w * i + w * j /\ w * (k - l) = w * k - w * l
        BY <1>2, <3>2
      <4> QED BY <3>2, <4>1
    <3> QED BY <3>1, <3>3
  <2>4. c = w * (v * s) /\ D * r = w * (t * (v * r))
    <3>1. ASSUME NEW A \in Int, NEW B \in Int, NEW C \in Int, NEW E \in Int
          PROVE  (A * B) * C = B * (A * C) /\ ((A * B) * C) * E = B * (C * (A * E))
      BY ONLY <3>1
    <3> QED BY <1>2, <1>8, <1>20, <3>1
  <2>5. w * (t * (v * r)) \in Int /\ w * (v * s) \in Int
    BY <1>2
  <2> QED BY <1>21, <2>1, <2>3, <2>4, <2>5
<1> QED BY <1>9, <1>15, <1>18, <1>19, <1>20, <1>21, <1>22 DEF InRow

IsStep(S, b, F) == b \in S /\ F \in [Int \X S -> S]
Upwards(f, m, S, b, F) ==
    f \in [1 .. m -> S] /\ (1 <= m => f[1] = b) /\ \A i \in 2 .. m : f[i] = F[<<i, f[i - 1]>>]
Downwards(f, m, S, b, F) ==
    f \in [1 .. m -> S] /\ (1 <= m => f[m] = b) /\ \A i \in 1 .. m - 1 : f[i] = F[<<i, f[i + 1]>>]

\* Sequences given by their first element and the step to the next, or by their
\* last element and the step to the one before: they exist, and stay in a set
\* the steps stay in.
LEMMA Climb ==
    ASSUME NEW S, NEW b, NEW F, IsStep(S, b, F), NEW m \in Nat
    PROVE  \E f : Upwards(f, m, S, b, F)
<1>0. b \in S /\ F \in [Int \X S -> S]
  BY DEF IsStep
<1> DEFINE G == [x \in Nat \X S |-> IF x[1] = 1 THEN b ELSE F[x]]
<1>1. G \in [Nat \X S -> S]
  <2>1. ASSUME NEW x \in Nat \X S PROVE G[x] \in S
    <3>1. x \in Int \X S
      OBVIOUS
    <3> QED BY <1>0, <3>1
  <2>2. G = [x \in Nat \X S |-> G[x]]
    OBVIOUS
  <2> HIDE DEF G
  <2> QED BY <2>1, <2>2
<1>2. \A y \in S : G[<<1, y>>] = b /\ \A i \in 2 .. m : G[<<i, y>>] = F[<<i, y>>]
  OBVIOUS
<1> HIDE DEF G
<1>3. PICK h : Follows(h, S, b, G, m)
  <2>1. IsRecursion(S, b, G)
    BY <1>0, <1>1 DEF IsRecursion
  <2> QED BY <2>1, Recursion
<1>4. h \in [0 .. m -> S] /\ \A k \in 1 .. m : h[k] = G[<<k, h[k - 1]>>]
  BY <1>3 DEF Follows
<1>5. PICK f : f = [i \in 1 .. m |-> h[i]]
  OBVIOUS
<1>6. f \in [1 .. m -> S]
  BY <1>4, <1>5
<1>7. 1 <= m => f[1] = b
  <2>1. SUFFICES ASSUME 1 <= m PROVE f[1] = b
    OBVIOUS
  <2>2. 1 \in 1 .. m /\ 0 \in 0 .. m /\ 1 - 1 = 0
    BY <2>1
  <2>3. f[1] = h[1] /\ h[0] \in S /\ h[1] = G[<<1, h[1 - 1]>>]
    BY <1>4, <1>5, <2>2
  <2> QED BY <1>2, <2>2, <2>3
<1>8. ASSUME NEW i \in 2 .. m PROVE f[i] = F[<<i, f[i - 1]>>]
  <2>1. i \in 1 .. m /\ i - 1 \in 1 .. m /\ i - 1 \in 0 .. m
    OBVIOUS
  <2>2. f[i] = h[i] /\ f[i - 1] = h[i - 1] /\ h[i - 1] \in S
    BY <1>4, <1>5, <2>1
  <2> QED BY <1>2, <1>4, <2>1, <2>2
<1> QED BY <1>6, <1>7, <1>8 DEF Upwards

LEMMA Descent ==
    ASSUME NEW S, NEW b, NEW F, IsStep(S, b, F), NEW m \in Nat
    PROVE  \E f : Downwards(f, m, S, b, F)
<1>0. b \in S /\ F \in [Int \X S -> S]
  BY DEF IsStep
<1> DEFINE G == [x \in Int \X S |-> F[<<m + 1 - x[1], x[2]>>]]
<1>1. G \in [Int \X S -> S]
  <2>1. ASSUME NEW x \in Int \X S PROVE G[x] \in S
    <3>1. <<m + 1 - x[1], x[2]>> \in Int \X S
      OBVIOUS
    <3> QED BY <1>0, <3>1
  <2>2. G = [x \in Int \X S |-> G[x]]
    OBVIOUS
  <2> HIDE DEF G
  <2> QED BY <2>1, <2>2
<1>2. \A i \in Int, y \in S : G[<<i, y>>] = F[<<m + 1 - i, y>>]
  OBVIOUS
<1> HIDE DEF G
<1>3. PICK h \in [1 .. m -> S] :
          /\ 1 <= m => h[1] = b
          /\ \A i \in 2 .. m : h[i] = G[<<i, h[i - 1]>>]
  <2>1. IsStep(S, b, G)
    BY <1>0, <1>1 DEF IsStep
  <2>2. \E h : Upwards(h, m, S, b, G)
    BY <2>1, Climb
  <2> QED BY <2>2 DEF Upwards
<1>4. PICK f : f = [i \in 1 .. m |-> h[m + 1 - i]]
  OBVIOUS
<1>5. f \in [1 .. m -> S]
  <2>1. \A i \in 1 .. m : m + 1 - i \in 1 .. m
    OBVIOUS
  <2> QED BY <1>4, <2>1
<1>6. 1 <= m => f[m] = b
  <2>1. m + 1 - m = 1
    OBVIOUS
  <2> QED BY <1>3, <1>4, <2>1
<1>7. ASSUME NEW i \in 1 .. m - 1 PROVE f[i] = F[<<i, f[i + 1]>>]
  <2>1. PICK k : k = m + 1 - i
    OBVIOUS
  <2>2. /\ k \in 2 .. m /\ k \in Int /\ k - 1 \in 1 .. m /\ m + 1 - k = i /\ m + 1 - (i + 1) = k - 1
        /\ i \in 1 .. m /\ i + 1 \in 1 .. m
    BY <2>1
  <2>3. f[i] = h[k] /\ f[i + 1] = h[k - 1] /\ h[k - 1] \in S
    BY <1>3, <1>4, <2>1, <2>2
  <2>4. h[k] = G[<<k, h[k - 1]>>]
    BY <1>3, <2>2
  <2>5. G[<<k, h[k - 1]>>] = F[<<m + 1 - k, h[k - 1]>>]
    BY <1>2, <2>2, <2>3
  <2> QED BY <2>2, <2>3, <2>4, <2>5
<1> QED BY <1>5, <1>6, <1>7 DEF Downwards

LEMMA Climbs ==
    ASSUME NEW m \in Nat, NEW f, NEW S, 1 <= m => f[1] \in S,
           \A i \in 2 .. m : f[i - 1] \in S => f[i] \in S
    PROVE  \A i \in 1 .. m : f[i] \in S
<1> DEFINE T == {k \in Nat : k + 1 <= m => f[k + 1] \in S}
<1>1. 0 \in T
  OBVIOUS
<1>2. ASSUME NEW k \in Nat, k \in T PROVE k + 1 \in T
  <2>1. ASSUME (k + 1) + 1 <= m PROVE f[(k + 1) + 1] \in S
    <3>1. PICK i : i = (k + 1) + 1
      OBVIOUS
    <3>2. i \in 2 .. m /\ i - 1 = k + 1 /\ k + 1 <= m
      BY <2>1, <3>1
    <3>3. f[i - 1] \in S
      BY <1>2, <3>2
    <3> QED BY <3>1, <3>2, <3>3
  <2> QED BY <2>1
<1>3. Nat \subseteq T
  <2> HIDE DEF T
  <2> QED BY <1>1, <1>2, SetInduction
<1>4. ASSUME NEW i \in 1 .. m PROVE f[i] \in S
  <2>1. i - 1 \in Nat /\ (i - 1) + 1 = i
    OBVIOUS
  <2>2. i - 1 \in T
    BY <1>3, <2>1
  <2> QED BY <2>1, <2>2
<1> QED BY <1>4

LEMMA Descends ==
    ASSUME NEW m \in Nat, NEW f, NEW S, 1 <= m => f[m] \in S,
           \A i \in 1 .. m - 1 : f[i + 1] \in S => f[i] \in S
    PROVE  \A i \in 1 .. m : f[i] \in S
<1>1. PICK g : g = [i \in 1 .. m |-> f[m + 1 - i]]
  OBVIOUS
<1>2. 1 <= m => g[1] \in S
  <2>1. m + 1 - 1 = m
    OBVIOUS
  <2> QED BY <1>1, <2>1
<1>3. ASSUME NEW i \in 2 .. m, g[i - 1] \in S PROVE g[i] \in S
  <2>1. PICK k : k = m + 1 - i
    OBVIOUS
  <2>2. k \in 1 .. m - 1 /\ m + 1 - (i - 1) = k + 1 /\ i - 1 \in 1 .. m /\ i \in 1 .. m
    BY <2>1
  <2>3. g[i - 1] = f[k + 1] /\ g[i] = f[k]
    BY <1>1, <2>1, <2>2
  <2> QED BY <1>3, <2>2, <2>3
<1>4. \A i \in 1 .. m : g[i] \in S
  BY <1>2, <1>3, Climbs
<1>5. ASSUME NEW i \in 1 .. m PROVE f[i] \in S
  <2>1. PICK k : k = m + 1 - i
    OBVIOUS
  <2>2. k \in 1 .. m /\ m + 1 - k = i
    BY <2>1
  <2>3. g[k] = f[i]
    BY <1>1, <2>2
  <2> QED BY <1>4, <2>2, <2>3
<1> QED BY <1>5

\* Fractions between 0 and 1: the factors of the elimination.
Small == {f \in Reduced : 0 < f[1] /\ f[1] < f[2]}

LEMMA SmallIs ==
    ASSUME NEW n \in Nat \ {0}, NEW d \in Nat \ {0}, n < d
    PROVE  Q(n, d) \in Small
<1>1. PICK x \in Int, y \in Nat \ {0}, g \in Nat \ {0} : Q(n, d) = <<x, y>> /\ n = g * x /\ d = g * y
  <2>1. n \in Int /\ d \in Nat \ {0}
    OBVIOUS
  <2> QED BY ONLY <2>1, Terms
<1>2. 0 < x
  <2>1. x <= 0 => g * x <= 0
    OBVIOUS
  <2> QED BY <1>1, <2>1
<1>3. x < y
  <2>1. y <= x => g * y <= g * x
    OBVIOUS
  <2> QED BY <1>1, <2>1
<1>4. Q(n, d) \in Reduced
  BY QIsReduced
<1>5. Q(n, d)[1] = x /\ Q(n, d)[2] = y
  BY <1>1
<1> QED BY <1>2, <1>3, <1>4, <1>5 DEF Small

LEMMA NextFactor ==
    ASSUME NEW p \in Nat, NEW q \in Nat \ {0}, p < q
    PROVE  /\ Whole(1) (/) (Whole(4) (-) Q(p, q)) = Q(q, 4 * q - p)
           /\ Q(q, 4 * q - p) \in Small
<1>1. PICK w : w = 4 * q - p
  OBVIOUS
<1>2. w \in Nat \ {0} /\ q < w
  BY <1>1
<1>3. Whole(4) (-) Q(p, q) = Q(w, q)
  <2>1. PICK k : k = q * 4
    OBVIOUS
  <2>2. 4 \in Int /\ q \in Nat \ {0}
    OBVIOUS
  <2>3. Whole(4) = Q(k, q) /\ k \in Int
    BY <2>1, <2>2, WholeIs
  <2>4. Q(k, q) (-) Q(p, q) = Q(k - p, q)
    BY <2>3, SumOf
  <2>5. k - p = w
    BY <1>1, <2>1
  <2> QED BY <2>3, <2>4, <2>5
<1>4. Whole(1) (/) Q(w, q) = Q(q, w)
  BY <1>2, ReciprocalOf
<1>5. Q(q, w) \in Small
  BY <1>2, SmallIs
<1> QED BY <1>1, <1>3, <1>4, <1>5

\* The operations stay within the fractions in lowest terms.
LEMMA OperationsReduce ==
    ASSUME NEW f \in Reduced, NEW g \in Reduced
    PROVE  f (+) g \in Reduced /\ f (-) g \in Reduced /\ f (.) g \in Reduced
<1>1. PICK a, d, b, e : a = f[1] /\ d = f[2] /\ b = g[1] /\ e = g[2]
  OBVIOUS
<1>2. a \in Int /\ d \in Nat \ {0} /\ b \in Int /\ e \in Nat \ {0}
  BY <1>1, SameTerms
<1>3. a * e + b * d \in Int /\ a * e - b * d \in Int /\ a * b \in Int /\ d * e \in Nat \ {0}
  BY <1>2
<1>4. /\ f (+) g = Q(a * e + b * d, d * e) /\ f (-) g = Q(a * e - b * d, d * e)
      /\ f (.) g = Q(a * b, d * e)
  BY <1>1 DEF (+), (-), (.)
<1> QED BY <1>3, <1>4, QIsReduced

\* The three loops of fitSpline(): the factors, the right sides, the unknowns.
Rhs(z, i) == z[i + 2] - 2 * z[i + 1] + z[i]
IsSweep(c, m) ==
    c = [i \in 1 .. m |-> Whole(1) (/) (IF i = 1 THEN Whole(4) ELSE Whole(4) (-) c[i - 1])]
IsRight(d, c, z, m) ==
    d = [i \in 1 .. m |-> IF i = 1 THEN Whole(Rhs(z, 1)) (.) c[1]
                          ELSE (Whole(Rhs(z, i)) (-) d[i - 1]) (.) c[i]]
IsBack(M, c, d, m) ==
    M = [i \in 1 .. m |-> IF i = m THEN d[m] ELSE d[i] (-) c[i] (.) M[i + 1]]

LEMMA RhsIsWhole ==
    ASSUME NEW z \in Seq(Int), NEW m, m = Len(z) - 2, NEW i \in 1 .. m
    PROVE  Rhs(z, i) \in Int
<1>1. i \in 1 .. Len(z) /\ i + 1 \in 1 .. Len(z) /\ i + 2 \in 1 .. Len(z)
  OBVIOUS
<1>2. z[i] \in Int /\ z[i + 1] \in Int /\ z[i + 2] \in Int
  BY <1>1
<1> QED BY <1>2 DEF Rhs

\* The factors: 1/4, and 1 / (4 - x) after x.
LEMMA SweepIs ==
    ASSUME NEW m \in Nat
    PROVE  \E c : IsSweep(c, m)
<1>1. PICK F : F = [x \in Int \X Small |-> Whole(1) (/) (Whole(4) (-) x[2])]
  OBVIOUS
<1>2. ASSUME NEW x \in Small PROVE Whole(1) (/) (Whole(4) (-) x) \in Small
  <2>1. PICK p, q : p = x[1] /\ q = x[2]
    OBVIOUS
  <2>2. p \in Nat /\ q \in Nat \ {0} /\ p < q /\ x = Q(p, q)
    BY <2>1, SameTerms DEF Small
  <2> QED BY <2>2, NextFactor
<1>3. F \in [Int \X Small -> Small]
  BY <1>1, <1>2
<1>4. PICK b : b = Whole(1) (/) Whole(4)
  OBVIOUS
<1>5. b \in Small
  <2>1. 0 \in Nat /\ 1 \in Nat \ {0} /\ 0 < 1
    OBVIOUS
  <2>2. Whole(4) = Q(4, 1)
    <3>1. 4 \in Int /\ 1 \in Nat \ {0} /\ 1 * 4 = 4
      OBVIOUS
    <3>2. Whole(4) = Q(1 * 4, 1)
      BY ONLY <3>1, WholeIs
    <3> QED BY <3>1, <3>2
  <2>3. 4 \in Nat \ {0} /\ 1 \in Nat \ {0} /\ 1 < 4
    OBVIOUS
  <2>4. b = Q(1, 4)
    BY ONLY <1>4, <2>2, <2>3, ReciprocalOf
  <2> QED BY ONLY <2>3, <2>4, SmallIs
<1>6. PICK c \in [1 .. m -> Small] :
          (1 <= m => c[1] = b) /\ \A i \in 2 .. m : c[i] = F[<<i, c[i - 1]>>]
  <2>1. IsStep(Small, b, F)
    BY <1>3, <1>5 DEF IsStep
  <2>2. \E c : Upwards(c, m, Small, b, F)
    BY <2>1, Climb
  <2> QED BY <2>2 DEF Upwards
<1>7. ASSUME NEW i \in 1 .. m
      PROVE  c[i] = Whole(1) (/) (IF i = 1 THEN Whole(4) ELSE Whole(4) (-) c[i - 1])
  <2>1. CASE i = 1
    BY <1>4, <1>6, <2>1
  <2>2. CASE i # 1
    <3>1. i \in 2 .. m /\ i - 1 \in 1 .. m /\ i \in Int
      BY <2>2
    <3>2. c[i - 1] \in Small /\ c[i] = F[<<i, c[i - 1]>>]
      BY <1>6, <3>1
    <3>3. F[<<i, c[i - 1]>>] = Whole(1) (/) (Whole(4) (-) c[i - 1])
      BY <1>1, <3>1, <3>2
    <3> QED BY <2>2, <3>2, <3>3
  <2> QED BY <2>1, <2>2
<1>8. c = [i \in 1 .. m |-> c[i]]
  BY <1>6
<1>9. IsSweep(c, m)
  BY <1>7, <1>8 DEF IsSweep
<1> QED BY <1>9

\* Each is what the one before makes it, and all are small.
LEMMA SweepGoes ==
    ASSUME NEW m \in Nat, NEW c, IsSweep(c, m)
    PROVE  \A i \in 1 .. m : \E p \in Nat, q \in Nat \ {0} :
               /\ p < q /\ c[i] = Q(q, 4 * q - p) /\ c[i] \in Small
               /\ i = 1 => p = 0
               /\ i # 1 => c[i - 1] = Q(p, q)
<1>1. \A i \in 1 .. m : c[i] = Whole(1) (/) (IF i = 1 THEN Whole(4) ELSE Whole(4) (-) c[i - 1])
  BY DEF IsSweep
<1>2. /\ Whole(1) (/) Whole(4) = Q(1, 4 * 1 - 0) /\ Q(1, 4 * 1 - 0) \in Small
  <2>1. PICK p, q : p = 0 /\ q = 1
    OBVIOUS
  <2>2. p \in Nat /\ q \in Nat \ {0} /\ p < q
    BY <2>1
  <2>3. Whole(1) (/) (Whole(4) (-) Q(p, q)) = Q(q, 4 * q - p) /\ Q(q, 4 * q - p) \in Small
    BY <2>2, NextFactor
  <2>4. Whole(4) (-) Q(p, q) = Whole(4)
    <3>1. PICK k : k = 4
      OBVIOUS
    <3>2. k \in Int /\ q * k = k /\ k - p = k /\ p \in Int
      BY <2>1, <3>1
    <3>3. Whole(k) = Q(k, q)
      <4>1. Whole(k) = Q(q * k, q)
        BY <2>2, <3>2, WholeIs
      <4> QED BY <3>2, <4>1
    <3>4. Q(k, q) (-) Q(p, q) = Q(k - p, q)
      BY <2>2, <3>2, SumOf
    <3> QED BY <3>1, <3>2, <3>3, <3>4
  <2> QED BY <2>1, <2>3, <2>4
<1>3. ASSUME NEW x \in Small
      PROVE  \E p \in Nat, q \in Nat \ {0} :
                 /\ p < q /\ x = Q(p, q)
                 /\ Whole(1) (/) (Whole(4) (-) x) = Q(q, 4 * q - p) /\ Q(q, 4 * q - p) \in Small
  <2>1. PICK p, q : p = x[1] /\ q = x[2]
    OBVIOUS
  <2>2. p \in Nat /\ q \in Nat \ {0} /\ p < q /\ x = Q(p, q)
    BY <2>1, SameTerms DEF Small
  <2>3. Whole(1) (/) (Whole(4) (-) x) = Q(q, 4 * q - p) /\ Q(q, 4 * q - p) \in Small
    BY <2>2, NextFactor
  <2> QED BY <2>2, <2>3
<1>4. \A i \in 1 .. m : c[i] \in Small
  <2>1. 1 <= m => c[1] \in Small
    BY <1>1, <1>2
  <2>2. ASSUME NEW i \in 2 .. m, c[i - 1] \in Small PROVE c[i] \in Small
    <3>1. i \in 1 .. m /\ i # 1
      OBVIOUS
    <3>2. c[i] = Whole(1) (/) (Whole(4) (-) c[i - 1])
      BY <1>1, <3>1
    <3> QED BY <1>3, <2>2, <3>2
  <2> QED BY <2>1, <2>2, Climbs
<1>5. ASSUME NEW i \in 1 .. m
      PROVE  \E p \in Nat, q \in Nat \ {0} :
                 /\ p < q /\ c[i] = Q(q, 4 * q - p) /\ c[i] \in Small
                 /\ i = 1 => p = 0
                 /\ i # 1 => c[i - 1] = Q(p, q)
  <2>1. CASE i = 1
    <3>1. c[i] = Q(1, 4 * 1 - 0) /\ c[i] \in Small
      BY <1>1, <1>2, <2>1
    <3>2. 0 \in Nat /\ 1 \in Nat \ {0} /\ 0 < 1
      OBVIOUS
    <3> QED BY <2>1, <3>1, <3>2
  <2>2. CASE i # 1
    <3>1. i - 1 \in 1 .. m
      BY <2>2
    <3>2. c[i] = Whole(1) (/) (Whole(4) (-) c[i - 1]) /\ c[i - 1] \in Small
      BY <1>1, <1>4, <2>2, <3>1
    <3>3. PICK p \in Nat, q \in Nat \ {0} :
              /\ p < q /\ c[i - 1] = Q(p, q)
              /\ c[i] = Q(q, 4 * q - p) /\ Q(q, 4 * q - p) \in Small
      BY <1>3, <3>2
    <3> QED BY <2>2, <3>3
  <2> QED BY <2>1, <2>2
<1> QED BY <1>5

LEMMA SmallIsReduced == Small \subseteq Reduced
  BY DEF Small

\* The right sides.
LEMMA RightIs ==
    ASSUME NEW z \in Seq(Int), NEW m \in Nat, m = Len(z) - 2, NEW c, IsSweep(c, m)
    PROVE  \E d : IsRight(d, c, z, m)
<1>1. ASSUME NEW i \in 1 .. m PROVE Whole(Rhs(z, i)) \in Reduced /\ c[i] \in Reduced
  <2>1. PICK r : r = Rhs(z, i)
    OBVIOUS
  <2>2. r \in Int /\ 1 \in Nat \ {0}
    BY <2>1, RhsIsWhole
  <2>3. Whole(r) \in Reduced
    BY ONLY <2>2, WholeIs
  <2> QED BY <2>1, <2>3, SweepGoes, SmallIsReduced
<1>2. Whole(0) \in Reduced
  <2>1. 0 \in Int /\ 1 \in Nat \ {0}
    OBVIOUS
  <2> QED BY ONLY <2>1, WholeIs
<1>3. PICK F : F = [x \in Int \X Reduced |->
                       IF x[1] \in 1 .. m THEN (Whole(Rhs(z, x[1])) (-) x[2]) (.) c[x[1]] ELSE x[2]]
  OBVIOUS
<1>4. ASSUME NEW i \in 1 .. m, NEW y \in Reduced
      PROVE  (Whole(Rhs(z, i)) (-) y) (.) c[i] \in Reduced
  BY <1>1, OperationsReduce
<1>5. F \in [Int \X Reduced -> Reduced]
  BY <1>3, <1>4
<1>6. PICK b : b = IF 1 <= m THEN Whole(Rhs(z, 1)) (.) c[1] ELSE Whole(0)
  OBVIOUS
<1>7. b \in Reduced
  BY <1>1, <1>2, <1>6, OperationsReduce
<1>8. PICK d : Upwards(d, m, Reduced, b, F)
  <2>1. IsStep(Reduced, b, F)
    BY <1>5, <1>7 DEF IsStep
  <2> QED BY <2>1, Climb
<1>9. /\ d \in [1 .. m -> Reduced] /\ (1 <= m => d[1] = b)
      /\ \A i \in 2 .. m : d[i] = F[<<i, d[i - 1]>>]
  BY <1>8 DEF Upwards
<1>10. ASSUME NEW i \in 1 .. m
       PROVE  d[i] = IF i = 1 THEN Whole(Rhs(z, 1)) (.) c[1] ELSE (Whole(Rhs(z, i)) (-) d[i - 1]) (.) c[i]
  <2>1. CASE i = 1
    BY <1>6, <1>9, <2>1
  <2>2. CASE i # 1
    <3>1. i \in 2 .. m /\ i - 1 \in 1 .. m /\ i \in Int
      BY <2>2
    <3>2. d[i - 1] \in Reduced /\ d[i] = F[<<i, d[i - 1]>>]
      BY <1>9, <3>1
    <3>3. F[<<i, d[i - 1]>>] = (Whole(Rhs(z, i)) (-) d[i - 1]) (.) c[i]
      BY <1>3, <3>1, <3>2
    <3> QED BY <2>2, <3>2, <3>3
  <2> QED BY <2>1, <2>2
<1>11. d = [i \in 1 .. m |-> d[i]]
  BY <1>9
<1>12. IsRight(d, c, z, m)
  BY <1>10, <1>11 DEF IsRight
<1> QED BY <1>12

LEMMA RightGoes ==
    ASSUME NEW z \in Seq(Int), NEW m \in Nat, m = Len(z) - 2, NEW c, IsSweep(c, m),
           NEW d, IsRight(d, c, z, m)
    PROVE  \A i \in 1 .. m : d[i] \in Reduced
<1>1. \A i \in 1 .. m :
          d[i] = IF i = 1 THEN Whole(Rhs(z, 1)) (.) c[1] ELSE (Whole(Rhs(z, i)) (-) d[i - 1]) (.) c[i]
  BY DEF IsRight
<1>2. ASSUME NEW i \in 1 .. m PROVE Whole(Rhs(z, i)) \in Reduced /\ c[i] \in Reduced
  <2>1. PICK r : r = Rhs(z, i)
    OBVIOUS
  <2>2. r \in Int /\ 1 \in Nat \ {0}
    BY <2>1, RhsIsWhole
  <2>3. Whole(r) \in Reduced
    BY ONLY <2>2, WholeIs
  <2> QED BY <2>1, <2>3, SweepGoes, SmallIsReduced
<1>3. 1 <= m => d[1] \in Reduced
  <2>1. SUFFICES ASSUME 1 <= m PROVE d[1] \in Reduced
    OBVIOUS
  <2>2. 1 \in 1 .. m
    BY <2>1
  <2>3. d[1] = Whole(Rhs(z, 1)) (.) c[1]
    BY <1>1, <2>2
  <2> QED BY <1>2, <2>2, <2>3, OperationsReduce
<1>4. ASSUME NEW i \in 2 .. m, d[i - 1] \in Reduced PROVE d[i] \in Reduced
  <2>1. i \in 1 .. m /\ i # 1
    OBVIOUS
  <2>2. d[i] = (Whole(Rhs(z, i)) (-) d[i - 1]) (.) c[i]
    BY <1>1, <2>1
  <2> QED BY <1>2, <1>4, <2>1, <2>2, OperationsReduce
<1> QED BY <1>3, <1>4, Climbs

\* The unknowns.
LEMMA BackIs ==
    ASSUME NEW m \in Nat, NEW c, NEW d, \A i \in 1 .. m : c[i] \in Reduced /\ d[i] \in Reduced
    PROVE  \E M : IsBack(M, c, d, m)
<1>2. Whole(0) \in Reduced
  <2>1. 0 \in Int /\ 1 \in Nat \ {0}
    OBVIOUS
  <2> QED BY ONLY <2>1, WholeIs
<1>3. PICK F : F = [x \in Int \X Reduced |->
                       IF x[1] \in 1 .. m THEN d[x[1]] (-) c[x[1]] (.) x[2] ELSE x[2]]
  OBVIOUS
<1>4. ASSUME NEW i \in 1 .. m, NEW y \in Reduced PROVE d[i] (-) c[i] (.) y \in Reduced
  BY OperationsReduce
<1>5. F \in [Int \X Reduced -> Reduced]
  BY <1>3, <1>4
<1>6. PICK b : b = IF 1 <= m THEN d[m] ELSE Whole(0)
  OBVIOUS
<1>7. b \in Reduced
  BY <1>2, <1>6
<1>8. PICK M : Downwards(M, m, Reduced, b, F)
  <2>1. IsStep(Reduced, b, F)
    BY <1>5, <1>7 DEF IsStep
  <2> QED BY <2>1, Descent
<1>9. /\ M \in [1 .. m -> Reduced] /\ (1 <= m => M[m] = b)
      /\ \A i \in 1 .. m - 1 : M[i] = F[<<i, M[i + 1]>>]
  BY <1>8 DEF Downwards
<1>10. ASSUME NEW i \in 1 .. m
       PROVE  M[i] = IF i = m THEN d[m] ELSE d[i] (-) c[i] (.) M[i + 1]
  <2>1. CASE i = m
    BY <1>6, <1>9, <2>1
  <2>2. CASE i # m
    <3>1. i \in 1 .. m - 1 /\ i + 1 \in 1 .. m /\ i \in Int
      BY <2>2
    <3>2. M[i + 1] \in Reduced /\ M[i] = F[<<i, M[i + 1]>>]
      BY <1>9, <3>1
    <3>3. F[<<i, M[i + 1]>>] = d[i] (-) c[i] (.) M[i + 1]
      BY <1>3, <3>1, <3>2
    <3> QED BY <2>2, <3>2, <3>3
  <2> QED BY <2>1, <2>2
<1>11. M = [i \in 1 .. m |-> M[i]]
  BY <1>9
<1>12. IsBack(M, c, d, m)
  BY <1>10, <1>11 DEF IsBack
<1> QED BY <1>12

LEMMA BackGoes ==
    ASSUME NEW m \in Nat, NEW c, NEW d, \A i \in 1 .. m : c[i] \in Reduced /\ d[i] \in Reduced,
           NEW M, IsBack(M, c, d, m)
    PROVE  \A i \in 1 .. m : M[i] \in Reduced
<1>1. \A i \in 1 .. m : M[i] = IF i = m THEN d[m] ELSE d[i] (-) c[i] (.) M[i + 1]
  BY DEF IsBack
<1>2. 1 <= m => M[m] \in Reduced
  BY <1>1
<1>3. ASSUME NEW i \in 1 .. m - 1, M[i + 1] \in Reduced PROVE M[i] \in Reduced
  <2>1. i \in 1 .. m /\ i # m
    OBVIOUS
  <2>2. M[i] = d[i] (-) c[i] (.) M[i + 1]
    BY <1>1, <2>1
  <2> QED BY <1>3, <2>1, <2>2, OperationsReduce
<1> QED BY <1>2, <1>3, Descends

\* What fitSpline() returns: the unknowns, with 0 at both ends.
LEMMA SplineIs ==
    ASSUME NEW z \in Seq(Int), Len(z) - 2 \in Nat
    PROVE  \E c, d, M, m :
               /\ m = Len(z) - 2
               /\ IsSweep(c, m) /\ IsRight(d, c, z, m) /\ IsBack(M, c, d, m)
               /\ fitSpline(z) = [i \in 1 .. Len(z) |-> IF i \in 2 .. m + 1 THEN M[i - 1] ELSE Whole(0)]
<1> DEFINE m == Len(z) - 2
           c == CHOOSE c : c = [i \in 1 .. m |->
                   Whole(1) (/) (IF i = 1 THEN Whole(4) ELSE Whole(4) (-) c[i - 1])]
           d == CHOOSE d : d = [i \in 1 .. m |->
                   IF i = 1 THEN Whole(z[1 + 2] - 2 * z[1 + 1] + z[1]) (.) c[1]
                   ELSE (Whole(z[i + 2] - 2 * z[i + 1] + z[i]) (-) d[i - 1]) (.) c[i]]
           M == CHOOSE M : M = [i \in 1 .. m |-> IF i = m THEN d[m] ELSE d[i] (-) c[i] (.) M[i + 1]]
<1>1. fitSpline(z) = [i \in 1 .. Len(z) |-> IF i \in 2 .. m + 1 THEN M[i - 1] ELSE Whole(0)]
  BY DEF fitSpline
<1>2. c = CHOOSE x : IsSweep(x, m)
  BY DEF IsSweep
<1>3. d = CHOOSE x : IsRight(x, c, z, m)
  <2> HIDE DEF c
  <2> QED BY DEF IsRight, Rhs
<1>4. M = CHOOSE x : IsBack(x, c, d, m)
  <2> HIDE DEF c, d
  <2> QED BY DEF IsBack
<1>a. m \in Nat /\ m = Len(z) - 2
  OBVIOUS
<1> HIDE DEF c, d, M, m
<1>5. IsSweep(c, m)
  BY <1>a, <1>2, SweepIs
<1>6. IsRight(d, c, z, m)
  BY <1>a, <1>3, <1>5, RightIs
<1>7. \A i \in 1 .. m : c[i] \in Reduced /\ d[i] \in Reduced
  <2>1. \A i \in 1 .. m : c[i] \in Reduced
    BY <1>a, <1>5, SweepGoes, SmallIsReduced
  <2>2. \A i \in 1 .. m : d[i] \in Reduced
    BY <1>a, <1>5, <1>6, RightGoes
  <2> QED BY <2>1, <2>2
<1>8. IsBack(M, c, d, m)
  BY <1>a, <1>4, <1>7, BackIs
<1> QED BY <1>a, <1>1, <1>5, <1>6, <1>8

\* What nothing does in an operation.
LEMMA ZeroIs ==
    ASSUME NEW d \in Nat \ {0}
    PROVE  Whole(0) = Q(0, d) /\ Whole(0) \in Reduced
<1>1. 0 \in Int /\ d * 0 = 0
  OBVIOUS
<1>2. Whole(0) = Q(d * 0, d) /\ Whole(0) \in Reduced
  BY ONLY d \in Nat \ {0}, <1>1, WholeIs
<1> QED BY <1>1, <1>2

LEMMA ZeroOperations ==
    ASSUME NEW x \in Reduced
    PROVE  x (-) Whole(0) = x /\ x (.) Whole(0) = Whole(0) /\ Whole(0) (.) x = Whole(0)
<1>1. PICK a, d : a = x[1] /\ d = x[2]
  OBVIOUS
<1>2. a \in Int /\ d \in Nat \ {0} /\ x = Q(a, d) /\ 0 \in Int
  BY <1>1, SameTerms
<1>3. Whole(0) = Q(0, d)
  BY <1>2, ZeroIs
<1>4. Q(a, d) (-) Q(0, d) = Q(a - 0, d) /\ a - 0 = a
  BY <1>2, SumOf
<1>5. Q(a, d) (.) Q(0, d) = Q(a * 0, d * d) /\ Q(0, d) (.) Q(a, d) = Q(0 * a, d * d)
  BY ONLY <1>2, ProductOf
<1>6. a * 0 = 0 /\ 0 * a = 0 /\ d * d \in Nat \ {0}
  BY <1>2
<1>7. Q(0, d * d) = Whole(0)
  BY <1>6, ZeroIs
<1> QED BY <1>2, <1>3, <1>4, <1>5, <1>6, <1>7

\* The system the spline solves: every row of it, and nothing at the ends.
LEMMA SplineRows ==
    ASSUME NEW z \in Seq(Int), Len(z) - 2 \in Nat
    PROVE  LET S == fitSpline(z) IN
           /\ S \in [1 .. Len(z) -> Reduced] /\ S[1] = Whole(0) /\ S[Len(z)] = Whole(0)
           /\ \A i \in 1 .. Len(z) - 2 : InRow(S[i], S[i + 1], S[i + 2], Rhs(z, i))
<1>1. PICK c, d, M, m :
          /\ m = Len(z) - 2
          /\ IsSweep(c, m) /\ IsRight(d, c, z, m) /\ IsBack(M, c, d, m)
          /\ fitSpline(z) = [i \in 1 .. Len(z) |-> IF i \in 2 .. m + 1 THEN M[i - 1] ELSE Whole(0)]
  BY SplineIs
<1>2. PICK S : S = fitSpline(z)
  OBVIOUS
<1>3. m \in Nat /\ Len(z) = m + 2
  BY <1>1
<1>4. \A i \in 1 .. m : c[i] \in Reduced /\ d[i] \in Reduced
  <2>1. \A i \in 1 .. m : c[i] \in Reduced
    BY <1>1, <1>3, SweepGoes, SmallIsReduced
  <2>2. \A i \in 1 .. m : d[i] \in Reduced
    BY <1>1, <1>3, RightGoes
  <2> QED BY <2>1, <2>2
<1>5. \A i \in 1 .. m : M[i] \in Reduced
  BY <1>1, <1>3, <1>4, BackGoes
<1>6. Whole(0) = Q(0, 1) /\ Whole(0) \in Reduced
  BY ZeroIs
<1>7. DOMAIN S = 1 .. m + 2 /\ S[1] = Whole(0) /\ S[m + 2] = Whole(0) /\ \A i \in 1 .. m : S[i + 1] = M[i]
  <2>1. \A i \in 1 .. m : i + 1 \in 1 .. m + 2 /\ i + 1 \in 2 .. m + 1 /\ (i + 1) - 1 = i
    BY <1>3
  <2> QED BY <1>1, <1>2, <1>3, <2>1
<1>8. S \in [1 .. m + 2 -> Reduced]
  <2>1. ASSUME NEW i \in 1 .. m + 2 PROVE S[i] \in Reduced
    <3>1. CASE i = 1
      BY <1>6, <1>7, <3>1
    <3>2. CASE i = m + 2
      BY <1>6, <1>7, <3>2
    <3>3. CASE i # 1 /\ i # m + 2
      <4>1. i - 1 \in 1 .. m /\ (i - 1) + 1 = i
        BY <1>3, <3>3
      <4> QED BY <1>5, <1>7, <4>1
    <3> QED BY <3>1, <3>2, <3>3
  <2>2. S = [i \in 1 .. m + 2 |-> S[i]]
    BY <1>1, <1>2, <1>3
  <2> QED BY <2>1, <2>2
<1>9. ASSUME NEW i \in 1 .. m PROVE InRow(S[i], S[i + 1], S[i + 2], Rhs(z, i))
  <2>1. PICK r : r = Rhs(z, i)
    OBVIOUS
  <2>2. r \in Int
    BY <1>1, <2>1, RhsIsWhole
  <2>3. PICK p \in Nat, q \in Nat \ {0} :
            /\ p < q /\ c[i] = Q(q, 4 * q - p) /\ c[i] \in Small
            /\ i = 1 => p = 0
            /\ i # 1 => c[i - 1] = Q(p, q)
    <3>1. m \in Nat /\ IsSweep(c, m) /\ i \in 1 .. m
      BY <1>1, <1>3
    <3> QED BY ONLY <3>1, SweepGoes
  <2>4. PICK x, y, w : x = S[i] /\ y = S[i + 1] /\ w = S[i + 2]
    OBVIOUS
  <2>5. x \in Reduced /\ y \in Reduced /\ w \in Reduced /\ y = M[i]
    <3>1. i \in 1 .. m + 2 /\ i + 1 \in 1 .. m + 2 /\ i + 2 \in 1 .. m + 2
      BY <1>3
    <3> QED BY <1>7, <1>8, <2>4, <3>1
  <2>6. PICK s, t : s \in Int /\ t \in Nat \ {0} /\ w = Q(s, t)
    <3>1. PICK s, t : s = w[1] /\ t = w[2]
      OBVIOUS
    <3> QED BY <2>5, <3>1, SameTerms
  <2>7. y = d[i] (-) Q(q, 4 * q - p) (.) w
    <3>1. CASE i = m
      <4>1. w = Whole(0)
        BY <1>3, <1>7, <2>4, <3>1
      <4>2. c[i] (.) w = Whole(0) /\ d[i] (-) Whole(0) = d[i]
        BY <1>4, <4>1, ZeroOperations
      <4>3. M[i] = d[i]
        BY <1>1, <3>1 DEF IsBack
      <4> QED BY <2>3, <2>5, <4>2, <4>3
    <3>2. CASE i # m
      <4>1. i + 1 \in 1 .. m /\ (i + 1) + 1 = i + 2
        BY <1>3, <3>2
      <4>2. w = M[i + 1]
        BY <1>7, <2>4, <4>1
      <4>3. M[i] = d[i] (-) c[i] (.) M[i + 1]
        BY <1>1, <3>2 DEF IsBack
      <4> QED BY <2>3, <2>5, <4>2, <4>3
    <3> QED BY <3>1, <3>2
  <2>8. PICK u, v : /\ u \in Int /\ v \in Nat \ {0}
                    /\ d[i] = (Whole(r) (-) Q(u, v)) (.) Q(q, 4 * q - p)
                    /\ x = Q(u, v) (-) Q(p, q) (.) y
    <3>1. CASE i = 1
      <4>1. d[i] = Whole(r) (.) Q(q, 4 * q - p)
        BY <1>1, <2>1, <2>3, <3>1 DEF IsRight
      <4>2. Whole(r) (-) Whole(0) = Whole(r)
        <5>1. Whole(r) \in Reduced
          <6>1. 1 \in Nat \ {0}
            OBVIOUS
          <6> QED BY ONLY <2>2, <6>1, WholeIs
        <5> QED BY <5>1, ZeroOperations
      <4>3. Q(p, q) = Whole(0)
        BY <2>3, <3>1, ZeroIs
      <4>4. Whole(0) (.) y = Whole(0) /\ Whole(0) (-) Whole(0) = Whole(0)
        BY <1>6, <2>5, ZeroOperations
      <4>5. x = Whole(0)
        BY <1>7, <2>4, <3>1
      <4>6. 0 \in Int /\ 1 \in Nat \ {0}
        OBVIOUS
      <4> QED BY <1>6, <4>1, <4>2, <4>3, <4>4, <4>5, <4>6
    <3>2. CASE i # 1
      <4>1. i - 1 \in 1 .. m /\ (i - 1) + 1 = i /\ i - 1 # m
        BY <1>3, <3>2
      <4>2. d[i] = (Whole(r) (-) d[i - 1]) (.) c[i]
        BY <1>1, <2>1, <3>2 DEF IsRight
      <4>3. M[i - 1] = d[i - 1] (-) c[i - 1] (.) M[(i - 1) + 1]
        BY <1>1, <4>1 DEF IsBack
      <4>4. x = M[i - 1]
        BY <1>7, <2>4, <4>1
      <4>5. PICK e : e = d[i - 1]
        OBVIOUS
      <4>6. e \in Reduced
        BY <1>4, <4>1, <4>5
      <4>7. PICK u, v : u = e[1] /\ v = e[2]
        OBVIOUS
      <4>8. u \in Int /\ v \in Nat \ {0} /\ e = Q(u, v)
        BY <4>6, <4>7, SameTerms
      <4>9. x = Q(u, v) (-) Q(p, q) (.) y
        BY <2>3, <2>5, <3>2, <4>1, <4>3, <4>4, <4>5, <4>8
      <4> QED BY <2>3, <4>2, <4>5, <4>8, <4>9
    <3> QED BY <3>1, <3>2
  <2>9. y = (Whole(r) (-) Q(u, v)) (.) Q(q, 4 * q - p) (-) Q(q, 4 * q - p) (.) Q(s, t)
    BY <2>6, <2>7, <2>8
  <2>10. InRow(x, y, Q(s, t), r)
    BY ONLY <2>2, <2>3, <2>6, <2>8, <2>9, RowSolved
  <2> QED BY <2>1, <2>4, <2>6, <2>10
<1> QED BY <1>1, <1>2, <1>3, <1>7, <1>8, <1>9

\* A whole number times a fraction.
LEMMA WholeTimes ==
    ASSUME NEW k \in Int, NEW v \in Int, NEW d \in Nat \ {0}
    PROVE  Whole(k) (.) Q(v, d) = Q(k * v, d) /\ Q(v, d) (.) Whole(k) = Q(k * v, d)
<1>1. PICK o : o = 1
  OBVIOUS
<1>2. o \in Nat \ {0} /\ o * k = k /\ o * d = d /\ d * o = d /\ v * k = k * v
  BY <1>1
<1>3. Whole(k) = Q(o * k, o)
  BY <1>2, WholeIs
<1>4. Q(k, o) (.) Q(v, d) = Q(k * v, o * d) /\ Q(v, d) (.) Q(k, o) = Q(v * k, d * o)
  BY <1>2, ProductOf
<1> QED BY <1>2, <1>3, <1>4

\* A factor in a fraction.
LEMMA Expand ==
    ASSUME NEW n \in Int, NEW d \in Nat \ {0}, NEW k \in Nat \ {0}
    PROVE  Q(n, d) = Q(k * n, k * d)
  BY QScales

\* What a spline is at a third of an interval, over 27 times the denominator D of
\* its bends x and y at the ends; A and B are the heights there times D.
Bend(e) == e * e * e - 9 * e
Third(j, A, B, x, y) == 9 * (3 - j) * A + 9 * j * B + Bend(3 - j) * x + Bend(j) * y

LEMMA BendIs ==
    ASSUME NEW e \in Int
    PROVE  Q(e, 3) (.) Q(e, 3) (.) Q(e, 3) (-) Q(e, 3) = Q(Bend(e), 27) /\ Bend(e) \in Int
<1>1. PICK f : f = e * e
  OBVIOUS
<1>2. f \in Int
  BY <1>1
<1>3. PICK g : g = f * e
  OBVIOUS
<1>4. g \in Int
  BY <1>2, <1>3
<1>5. 3 \in Nat \ {0} /\ 9 \in Nat \ {0} /\ 27 \in Nat \ {0} /\ 3 * 3 = 9 /\ 9 * 3 = 27 /\ 9 * e \in Int
  OBVIOUS
<1>6. Q(e, 3) (.) Q(e, 3) = Q(f, 9)
  <2>1. Q(e, 3) (.) Q(e, 3) = Q(e * e, 3 * 3)
    BY ONLY <1>5, e \in Int, ProductOf
  <2> QED BY <1>1, <1>5, <2>1
<1>7. Q(f, 9) (.) Q(e, 3) = Q(g, 27)
  <2>1. Q(f, 9) (.) Q(e, 3) = Q(f * e, 9 * 3)
    BY ONLY <1>2, <1>5, e \in Int, ProductOf
  <2> QED BY <1>3, <1>5, <2>1
<1>8. Q(e, 3) = Q(9 * e, 27)
  <2>1. Q(e, 3) = Q(9 * e, 9 * 3)
    BY ONLY <1>5, e \in Int, Expand
  <2> QED BY <1>5, <2>1
<1>9. Q(g, 27) (-) Q(9 * e, 27) = Q(g - 9 * e, 27)
  BY ONLY <1>4, <1>5, SumOf
<1>10. Bend(e) = g - 9 * e
  BY <1>1, <1>3 DEF Bend
<1>11. Bend(e) \in Int
  BY <1>4, <1>5, <1>10
<1>12. Q(e, 3) (.) Q(e, 3) (.) Q(e, 3) (-) Q(e, 3) = Q(g - 9 * e, 27)
  BY <1>6, <1>7, <1>8, <1>9
<1> QED BY <1>10, <1>11, <1>12

\* Interval i of z and M, in these terms.
IsInterval(z, M, i, D, x, y, A, B, E) ==
    /\ z[i] \in Int /\ z[i + 1] \in Int /\ D \in Nat \ {0} /\ x \in Int /\ y \in Int
    /\ M[i] = Q(x, D) /\ M[i + 1] = Q(y, D)
    /\ A = D * z[i] /\ B = D * z[i + 1] /\ E = 27 * D

LEMMA EvalIs ==
    ASSUME NEW z, NEW M, NEW i, NEW D, NEW x, NEW y, NEW A, NEW B, NEW E,
           IsInterval(z, M, i, D, x, y, A, B, E), NEW j \in Int
    PROVE  eval(z, M, i, Q(j, 3)) = Q(Third(j, A, B, x, y), E)
<1>0. /\ z[i] \in Int /\ z[i + 1] \in Int /\ D \in Nat \ {0} /\ x \in Int /\ y \in Int
      /\ M[i] = Q(x, D) /\ M[i + 1] = Q(y, D)
      /\ A = D * z[i] /\ B = D * z[i + 1] /\ E = 27 * D
  BY DEF IsInterval
<1>1. PICK a, b, e : a = z[i] /\ b = z[i + 1] /\ A = D * a /\ B = D * b /\ e = 3 - j
  BY <1>0
<1>2. a \in Int /\ b \in Int /\ A \in Int /\ B \in Int /\ e \in Int
  BY <1>0, <1>1
<1>3. 1 \in Int /\ 3 \in Nat \ {0} /\ 27 \in Nat \ {0} /\ 9 \in Nat \ {0}
  OBVIOUS
<1>5. E \in Nat \ {0} /\ 3 * D \in Nat \ {0} /\ 9 * (3 * D) = E
  BY <1>0
<1>6. Whole(1) (-) Q(j, 3) = Q(e, 3)
  <2>1. Whole(1) = Q(3 * 1, 3) /\ 3 * 1 = 3
    BY ONLY <1>3, WholeIs
  <2>2. 3 \in Int
    OBVIOUS
  <2>3. Q(3, 3) (-) Q(j, 3) = Q(3 - j, 3)
    BY ONLY <1>3, <2>2, j \in Int, SumOf
  <2> QED BY <1>1, <2>1, <2>3
<1>7. Whole(a) = Q(A, D) /\ Whole(b) = Q(B, D)
  BY <1>0, <1>1, <1>2, WholeIs
<1>8. ASSUME NEW k \in Int, NEW C \in Int PROVE Q(k, 3) (.) Q(C, D) = Q(9 * (k * C), E)
  <2>1. Q(k, 3) (.) Q(C, D) = Q(k * C, 3 * D)
    BY <1>0, <1>3, ProductOf
  <2>2. PICK l, m : l = k * C /\ m = 3 * D
    OBVIOUS
  <2>3. l \in Int /\ m \in Nat \ {0}
    BY <1>5, <2>2
  <2>4. Q(l, m) = Q(9 * l, 9 * m)
    BY ONLY <1>3, <2>3, Expand
  <2> QED BY <1>5, <2>1, <2>2, <2>4
<1>9. Q(e, 3) (.) Whole(a) = Q(9 * (e * A), E) /\ Q(j, 3) (.) Whole(b) = Q(9 * (j * B), E)
  <2>1. Q(e, 3) (.) Q(A, D) = Q(9 * (e * A), E)
    BY ONLY <1>2, <1>8
  <2>2. Q(j, 3) (.) Q(B, D) = Q(9 * (j * B), E)
    BY ONLY <1>2, <1>8, j \in Int
  <2> QED BY <1>7, <2>1, <2>2
<1>10. PICK p, q : p = Bend(e) /\ q = Bend(j)
  OBVIOUS
<1>11. /\ p \in Int /\ Q(e, 3) (.) Q(e, 3) (.) Q(e, 3) (-) Q(e, 3) = Q(p, 27)
       /\ q \in Int /\ Q(j, 3) (.) Q(j, 3) (.) Q(j, 3) (-) Q(j, 3) = Q(q, 27)
  BY <1>2, <1>10, BendIs
<1>12. Q(p, 27) (.) Q(x, D) = Q(p * x, E) /\ Q(q, 27) (.) Q(y, D) = Q(q * y, E)
  <2>1. Q(p, 27) (.) Q(x, D) = Q(p * x, 27 * D)
    BY ONLY <1>3, <1>11, <1>0, ProductOf
  <2>2. Q(q, 27) (.) Q(y, D) = Q(q * y, 27 * D)
    BY ONLY <1>3, <1>11, <1>0, ProductOf
  <2> QED BY <1>0, <2>1, <2>2
<1>13. PICK s, t, u, v : s = 9 * (e * A) /\ t = 9 * (j * B) /\ u = p * x /\ v = q * y
  OBVIOUS
<1>14. s \in Int /\ t \in Int /\ u \in Int /\ v \in Int
  <2>1. e * A \in Int /\ j * B \in Int
    BY <1>2
  <2> QED BY <1>0, <1>11, <1>13, <2>1
<1>15. Q(s, E) (+) Q(t, E) (+) Q(u, E) (+) Q(v, E) = Q(s + t + u + v, E)
  <2>1. s + t \in Int /\ s + t + u \in Int
    BY <1>14
  <2>2. Q(s, E) (+) Q(t, E) = Q(s + t, E)
    BY ONLY <1>5, <1>14, SumOf
  <2>3. Q(s + t, E) (+) Q(u, E) = Q(s + t + u, E)
    BY ONLY <1>5, <1>14, <2>1, SumOf
  <2>4. Q(s + t + u, E) (+) Q(v, E) = Q(s + t + u + v, E)
    BY ONLY <1>5, <1>14, <2>1, SumOf
  <2> QED BY <2>2, <2>3, <2>4
<1>16. eval(z, M, i, Q(j, 3)) = Q(s, E) (+) Q(t, E) (+) Q(u, E) (+) Q(v, E)
  BY <1>0, <1>1, <1>6, <1>9, <1>11, <1>12, <1>13 DEF eval
<1>17. s + t + u + v = Third(j, A, B, x, y)
  <2>1. s = 9 * e * A /\ t = 9 * j * B
    BY <1>2, <1>13
  <2> QED BY <1>1, <1>10, <1>13, <2>1 DEF Third
<1> QED BY <1>15, <1>16, <1>17

LEMMA ThirdsAre ==
    ASSUME NEW A, NEW B, NEW x, NEW y, A \in Int, B \in Int, x \in Int, y \in Int
    PROVE  /\ Third(0, A, B, x, y) = 27 * A
           /\ Third(1, A, B, x, y) = 18 * A + 9 * B - 10 * x - 8 * y
           /\ Third(2, A, B, x, y) = 9 * A + 18 * B - 8 * x - 10 * y
           /\ Third(3, A, B, x, y) = 27 * B
<1>1. Bend(0) = 0 /\ Bend(1) = -8 /\ Bend(2) = -10 /\ Bend(3) = 0
  BY DEF Bend
<1>2. 3 - 0 = 3 /\ 3 - 1 = 2 /\ 3 - 2 = 1 /\ 3 - 3 = 0
  OBVIOUS
<1> HIDE DEF Bend
<1>3. Third(0, A, B, x, y) = 27 * A
  BY <1>1, <1>2 DEF Third
<1>4. Third(1, A, B, x, y) = 18 * A + 9 * B - 10 * x - 8 * y
  BY <1>1, <1>2 DEF Third
<1>5. Third(2, A, B, x, y) = 9 * A + 18 * B - 8 * x - 10 * y
  BY <1>1, <1>2 DEF Third
<1>6. Third(3, A, B, x, y) = 27 * B
  BY <1>1, <1>2 DEF Third
<1> QED BY <1>3, <1>4, <1>5, <1>6

\* A whole combination of four fractions.
FourValues(f, s, t, u, v, E) ==
    /\ s \in Int /\ t \in Int /\ u \in Int /\ v \in Int /\ E \in Nat \ {0}
    /\ f[1] = Q(s, E) /\ f[2] = Q(t, E) /\ f[3] = Q(u, E) /\ f[4] = Q(v, E)

LEMMA MixIs ==
    ASSUME NEW f, NEW s, NEW t, NEW u, NEW v, NEW E, FourValues(f, s, t, u, v, E),
           NEW k, NEW l, NEW m, NEW n, k \in Int, l \in Int, m \in Int, n \in Int
    PROVE  Mix4(<<k, l, m, n>>, f) = Q(k * s + l * t + m * u + n * v, E)
<1>0. /\ s \in Int /\ t \in Int /\ u \in Int /\ v \in Int /\ E \in Nat \ {0}
      /\ f[1] = Q(s, E) /\ f[2] = Q(t, E) /\ f[3] = Q(u, E) /\ f[4] = Q(v, E)
  BY DEF FourValues
<1>1. /\ Whole(k) (.) f[1] = Q(k * s, E) /\ Whole(l) (.) f[2] = Q(l * t, E)
      /\ Whole(m) (.) f[3] = Q(m * u, E) /\ Whole(n) (.) f[4] = Q(n * v, E)
  <2>1. ASSUME NEW i \in Int, NEW w \in Int PROVE Whole(i) (.) Q(w, E) = Q(i * w, E)
    BY <1>0, WholeTimes
  <2> QED BY <1>0, <2>1
<1>2. PICK a, b, c, d : a = k * s /\ b = l * t /\ c = m * u /\ d = n * v
  OBVIOUS
<1>3. a \in Int /\ b \in Int /\ c \in Int /\ d \in Int
  BY <1>0, <1>2
<1>4. Q(a, E) (+) Q(b, E) (+) Q(c, E) (+) Q(d, E) = Q(a + b + c + d, E)
  <2>1. a + b \in Int /\ a + b + c \in Int
    BY <1>3
  <2>2. Q(a, E) (+) Q(b, E) = Q(a + b, E)
    BY ONLY <1>0, <1>3, SumOf
  <2>3. Q(a + b, E) (+) Q(c, E) = Q(a + b + c, E)
    BY ONLY <1>0, <1>3, <2>1, SumOf
  <2>4. Q(a + b + c, E) (+) Q(d, E) = Q(a + b + c + d, E)
    BY ONLY <1>0, <1>3, <2>1, SumOf
  <2> QED BY <2>2, <2>3, <2>4
<1>5. Mix4(<<k, l, m, n>>, f) = Q(a, E) (+) Q(b, E) (+) Q(c, E) (+) Q(d, E)
  BY <1>1, <1>2 DEF Mix4
<1> QED BY <1>2, <1>4, <1>5

\* Two fractions over one denominator.
LEMMA Common ==
    ASSUME NEW f \in Reduced, NEW g \in Reduced
    PROVE  \E D \in Nat \ {0}, x \in Int, y \in Int : f = Q(x, D) /\ g = Q(y, D)
<1>1. PICK a, d, b, e : a = f[1] /\ d = f[2] /\ b = g[1] /\ e = g[2]
  OBVIOUS
<1>2. a \in Int /\ d \in Nat \ {0} /\ b \in Int /\ e \in Nat \ {0} /\ f = Q(a, d) /\ g = Q(b, e)
  BY <1>1, SameTerms
<1>3. Q(a, d) = Q(e * a, e * d) /\ Q(b, e) = Q(d * b, d * e)
  BY <1>2, Expand
<1>4. e * d = d * e /\ d * e \in Nat \ {0} /\ e * a \in Int /\ d * b \in Int
  BY <1>2
<1> QED BY <1>2, <1>3, <1>4

\* Interval i + 1 is looked at where it should be.
LEMMA EvalAtIs ==
    ASSUME NEW z, NEW n \in Nat, n = Len(z), n >= 2, NEW r \in Int,
           NEW i \in 0 .. n - 2, NEW j \in 0 .. 3, j = 3 => i = n - 2,
           (IF r < 0 THEN 0 ELSE IF r > 3 * (n - 1) THEN 3 * (n - 1) ELSE r) = 3 * i + j
    PROVE  evalAt(z, r) = eval(z, fitSpline(z), i + 1, Q(j, 3))
<1>1. PICK e, k : e = 3 * (n - 1) /\ k = 3 * i + j
  OBVIOUS
<1>2. e \in Nat /\ k \in Int /\ k - 3 * i = j
  BY <1>1
<1>3. Max({0, Min({r, e})}) = k
  <2>1. Min({r, e}) = IF r <= e THEN r ELSE e
    BY <1>2, MinMaxOfTwo
  <2>2. PICK l : l = Min({r, e})
    OBVIOUS
  <2>3. l \in Int /\ 0 \in Int
    BY <1>2, <2>1, <2>2
  <2>4. Max({0, l}) = IF 0 <= l THEN l ELSE 0
    BY ONLY <2>3, MinMaxOfTwo
  <2> QED BY <1>1, <1>2, <2>1, <2>2, <2>4
<1>4. Min({k \div 3, n - 2}) = i
  <2>1. PICK l, h : l = k \div 3 /\ h = n - 2
    OBVIOUS
  <2>2. l \in Int /\ h \in Int /\ (j # 3 => l = i) /\ (j = 3 => l = i + 1)
    BY <1>1, <2>1
  <2>3. Min({l, h}) = IF l <= h THEN l ELSE h
    BY <2>2, MinMaxOfTwo
  <2> QED BY <2>1, <2>2, <2>3
<1> QED BY <1>1, <1>2, <1>3, <1>4 DEF evalAt

\* At a knot the spline has the height.
LEMMA KnotIs ==
    ASSUME NEW z \in Seq(Int), NEW n \in Nat, n = Len(z), n >= 2, NEW i \in 1 .. n
    PROVE  evalAt(z, 3 * (i - 1)) = Whole(z[i])
<1>1. PICK S : S = fitSpline(z)
  OBVIOUS
<1>2. S \in [1 .. n -> Reduced]
  <2>1. Len(z) - 2 \in Nat
    OBVIOUS
  <2> QED BY <1>1, <2>1, SplineRows
<1>3. ASSUME NEW k \in 1 .. n - 1
      PROVE  eval(z, S, k, Q(0, 3)) = Whole(z[k]) /\ eval(z, S, k, Q(3, 3)) = Whole(z[k + 1])
  <2>1. k \in 1 .. n /\ k + 1 \in 1 .. n
    OBVIOUS
  <2>2. S[k] \in Reduced /\ S[k + 1] \in Reduced /\ z[k] \in Int /\ z[k + 1] \in Int
    BY <1>2, <2>1
  <2>3. PICK D \in Nat \ {0}, x \in Int, y \in Int : S[k] = Q(x, D) /\ S[k + 1] = Q(y, D)
    BY <2>2, Common
  <2>4. PICK A, B, E : A = D * z[k] /\ B = D * z[k + 1] /\ E = 27 * D
    OBVIOUS
  <2>5. A \in Int /\ B \in Int /\ E \in Nat \ {0} /\ 27 * A = E * z[k] /\ 27 * B = E * z[k + 1]
    <3>1. ASSUME NEW d \in Nat \ {0}, NEW a \in Int
          PROVE  d * a \in Int /\ 27 * (d * a) = (27 * d) * a /\ 27 * d \in Nat \ {0}
      BY ONLY <3>1
    <3>2. A \in Int /\ 27 * A = E * z[k]
      BY <2>2, <2>4, <3>1
    <3>3. B \in Int /\ 27 * B = E * z[k + 1] /\ E \in Nat \ {0}
      BY <2>2, <2>4, <3>1
    <3> QED BY <3>2, <3>3
  <2>6. ASSUME NEW j \in Int PROVE eval(z, S, k, Q(j, 3)) = Q(Third(j, A, B, x, y), E)
    <3>1. IsInterval(z, S, k, D, x, y, A, B, E)
      BY <2>2, <2>3, <2>4 DEF IsInterval
    <3> QED BY ONLY <3>1, j \in Int, EvalIs
  <2>7. Third(0, A, B, x, y) = 27 * A /\ Third(3, A, B, x, y) = 27 * B
    <3>1. A \in Int /\ B \in Int
      BY <2>5
    <3> QED BY ONLY <3>1, x \in Int, y \in Int, ThirdsAre
  <2>8. Whole(z[k]) = Q(E * z[k], E) /\ Whole(z[k + 1]) = Q(E * z[k + 1], E)
    BY <2>2, <2>5, WholeIs
  <2>9. 0 \in Int /\ 3 \in Int
    OBVIOUS
  <2> QED BY <2>5, <2>6, <2>7, <2>8, <2>9
<1>4. CASE i # n
  <2>1. /\ i - 1 \in 0 .. n - 2 /\ 0 \in 0 .. 3 /\ (0 = 3 => i - 1 = n - 2) /\ i \in 1 .. n - 1
        /\ 3 * (i - 1) \in Int /\ (i - 1) + 1 = i
        /\ (IF 3 * (i - 1) < 0 THEN 0 ELSE IF 3 * (i - 1) > 3 * (n - 1) THEN 3 * (n - 1) ELSE 3 * (i - 1))
           = 3 * (i - 1) + 0
    BY <1>4
  <2>2. evalAt(z, 3 * (i - 1)) = eval(z, fitSpline(z), (i - 1) + 1, Q(0, 3))
    BY ONLY <2>1, n \in Nat, n = Len(z), n >= 2, EvalAtIs
  <2> QED BY <1>1, <1>3, <2>1, <2>2
<1>5. CASE i = n
  <2>1. /\ n - 2 \in 0 .. n - 2 /\ 3 \in 0 .. 3 /\ (3 = 3 => n - 2 = n - 2) /\ n - 1 \in 1 .. n - 1
        /\ 3 * (i - 1) \in Int /\ (n - 2) + 1 = n - 1 /\ (n - 1) + 1 = n
        /\ (IF 3 * (i - 1) < 0 THEN 0 ELSE IF 3 * (i - 1) > 3 * (n - 1) THEN 3 * (n - 1) ELSE 3 * (i - 1))
           = 3 * (n - 2) + 3
    BY <1>5
  <2>2. evalAt(z, 3 * (i - 1)) = eval(z, fitSpline(z), (n - 2) + 1, Q(3, 3))
    BY ONLY <2>1, n \in Nat, n = Len(z), n >= 2, EvalAtIs
  <2> QED BY <1>1, <1>3, <1>5, <2>1, <2>2
<1> QED BY <1>4, <1>5

\* Beyond the aperture it is what it is at its ends.
LEMMA BeyondIs ==
    ASSUME NEW z \in Seq(Int), NEW n \in Nat, n = Len(z), n >= 2
    PROVE  evalAt(z, -1) = Whole(z[1]) /\ evalAt(z, 3 * n) = Whole(z[n])
<1>1. evalAt(z, -1) = evalAt(z, 0)
  <2>1. PICK r, i, j : r = -1 /\ i = 0 /\ j = 0
    OBVIOUS
  <2>2. /\ i \in 0 .. n - 2 /\ j \in 0 .. 3 /\ (j = 3 => i = n - 2) /\ r \in Int /\ 0 \in Int
        /\ (IF r < 0 THEN 0 ELSE IF r > 3 * (n - 1) THEN 3 * (n - 1) ELSE r) = 3 * i + j
        /\ (IF 0 < 0 THEN 0 ELSE IF 0 > 3 * (n - 1) THEN 3 * (n - 1) ELSE 0) = 3 * i + j
    BY <2>1
  <2>3. evalAt(z, r) = eval(z, fitSpline(z), i + 1, Q(j, 3))
    BY ONLY <2>2, n \in Nat, n = Len(z), n >= 2, EvalAtIs
  <2>4. evalAt(z, 0) = eval(z, fitSpline(z), i + 1, Q(j, 3))
    BY ONLY <2>2, n \in Nat, n = Len(z), n >= 2, EvalAtIs
  <2> QED BY <2>1, <2>3, <2>4
<1>2. evalAt(z, 3 * n) = evalAt(z, 3 * (n - 1))
  <2>1. PICK r, s, i, j : r = 3 * n /\ s = 3 * (n - 1) /\ i = n - 2 /\ j = 3
    OBVIOUS
  <2>2. /\ i \in 0 .. n - 2 /\ j \in 0 .. 3 /\ (j = 3 => i = n - 2) /\ r \in Int /\ s \in Int
        /\ (IF r < 0 THEN 0 ELSE IF r > 3 * (n - 1) THEN 3 * (n - 1) ELSE r) = 3 * i + j
        /\ (IF s < 0 THEN 0 ELSE IF s > 3 * (n - 1) THEN 3 * (n - 1) ELSE s) = 3 * i + j
    BY <2>1
  <2>3. evalAt(z, r) = eval(z, fitSpline(z), i + 1, Q(j, 3))
    BY ONLY <2>2, n \in Nat, n = Len(z), n >= 2, EvalAtIs
  <2>4. evalAt(z, s) = eval(z, fitSpline(z), i + 1, Q(j, 3))
    BY ONLY <2>2, n \in Nat, n = Len(z), n >= 2, EvalAtIs
  <2> QED BY <2>1, <2>3, <2>4
<1>3. 3 * (1 - 1) = 0 /\ 1 \in 1 .. n /\ n \in 1 .. n
  OBVIOUS
<1>4. evalAt(z, 3 * (1 - 1)) = Whole(z[1])
  BY ONLY <1>3, z \in Seq(Int), n \in Nat, n = Len(z), n >= 2, KnotIs
<1>5. evalAt(z, 3 * (n - 1)) = Whole(z[n])
  BY ONLY <1>3, z \in Seq(Int), n \in Nat, n = Len(z), n >= 2, KnotIs
<1> QED BY <1>1, <1>2, <1>3, <1>4, <1>5

\* An interval looked at from outside: four values, and what they say of the
\* slope and the bend at its ends.
ValuesOn(z, i) == [j \in 1 .. 4 |-> evalAt(z, 3 * (i - 1) + j - 1)]

LEMMA ValuesAre ==
    ASSUME NEW z \in Seq(Int), NEW n \in Nat, n = Len(z), n >= 2, NEW i \in 1 .. n - 1,
           NEW D, NEW x, NEW y, NEW A, NEW B, NEW E,
           IsInterval(z, fitSpline(z), i, D, x, y, A, B, E)
    PROVE  \A j \in 0 .. 3 : ValuesOn(z, i)[j + 1] = Q(Third(j, A, B, x, y), E)
<1>1. PICK S : S = fitSpline(z)
  OBVIOUS
<1>2. ASSUME NEW j \in Int PROVE eval(z, S, i, Q(j, 3)) = Q(Third(j, A, B, x, y), E)
  <2>1. IsInterval(z, S, i, D, x, y, A, B, E)
    BY <1>1
  <2> QED BY ONLY <2>1, j \in Int, EvalIs
<1>3. ASSUME NEW j \in 0 .. 3 PROVE ValuesOn(z, i)[j + 1] = evalAt(z, 3 * (i - 1) + j)
  <2>1. j + 1 \in 1 .. 4 /\ 3 * (i - 1) + (j + 1) - 1 = 3 * (i - 1) + j
    OBVIOUS
  <2> QED BY <2>1 DEF ValuesOn
<1>4. ASSUME NEW j \in 0 .. 3, j = 3 => i = n - 1
      PROVE  evalAt(z, 3 * (i - 1) + j) = eval(z, S, i, Q(j, 3))
  <2>1. PICK r, k : r = 3 * (i - 1) + j /\ k = i - 1
    OBVIOUS
  <2>2. /\ k \in 0 .. n - 2 /\ (j = 3 => k = n - 2) /\ r \in Int /\ k + 1 = i
        /\ (IF r < 0 THEN 0 ELSE IF r > 3 * (n - 1) THEN 3 * (n - 1) ELSE r) = 3 * k + j
    BY <1>4, <2>1
  <2>3. evalAt(z, r) = eval(z, fitSpline(z), k + 1, Q(j, 3))
    BY ONLY <2>2, j \in 0 .. 3, n \in Nat, n = Len(z), n >= 2, EvalAtIs
  <2> QED BY <1>1, <2>1, <2>2, <2>3
<1>5. CASE i = n - 1
  BY <1>2, <1>3, <1>4, <1>5
<1>6. CASE i # n - 1
  <2>1. ASSUME NEW j \in 0 .. 3, j # 3 PROVE ValuesOn(z, i)[j + 1] = Q(Third(j, A, B, x, y), E)
    BY <1>2, <1>3, <1>4, <2>1, SMTT(30)
  <2>2. evalAt(z, 3 * (i - 1) + 3) = Whole(z[i + 1])
    <3>1. PICK k : k = i + 1
      OBVIOUS
    <3>2. k \in 1 .. n /\ 3 * (k - 1) = 3 * (i - 1) + 3
      BY <1>6, <3>1
    <3>3. evalAt(z, 3 * (k - 1)) = Whole(z[k])
      BY ONLY <3>2, z \in Seq(Int), n \in Nat, n = Len(z), n >= 2, KnotIs
    <3> QED BY <3>1, <3>2, <3>3
  <2>3. /\ z[i + 1] \in Int /\ D \in Nat \ {0} /\ x \in Int /\ y \in Int
        /\ B = D * z[i + 1] /\ E = 27 * D /\ z[i] \in Int /\ A = D * z[i]
    BY DEF IsInterval
  <2>4. A \in Int /\ B \in Int /\ E \in Nat \ {0} /\ 27 * B = E * z[i + 1]
    <3>1. ASSUME NEW d \in Nat \ {0}, NEW a \in Int
          PROVE  d * a \in Int /\ 27 * (d * a) = (27 * d) * a /\ 27 * d \in Nat \ {0}
      BY ONLY <3>1
    <3>2. A \in Int
      BY <2>3, <3>1
    <3>3. B \in Int /\ 27 * B = E * z[i + 1] /\ E \in Nat \ {0}
      BY <2>3, <3>1
    <3> QED BY <3>2, <3>3
  <2>5. Third(3, A, B, x, y) = 27 * B
    <3>1. A \in Int /\ B \in Int /\ x \in Int /\ y \in Int
      BY <2>3, <2>4
    <3> QED BY ONLY <3>1, ThirdsAre, SMTT(30)
  <2>6. Whole(z[i + 1]) = Q(E * z[i + 1], E)
    BY <2>3, <2>4, WholeIs
  <2>7. 3 \in 0 .. 3
    OBVIOUS
  <2>8. ValuesOn(z, i)[3 + 1] = Q(Third(3, A, B, x, y), E)
    BY <1>3, <2>2, <2>4, <2>5, <2>6, <2>7
  <2> QED BY <2>1, <2>8
<1> QED BY <1>5, <1>6

AreThirds(f, A, B, x, y, E) ==
    /\ E \in Nat \ {0} /\ A \in Int /\ B \in Int /\ x \in Int /\ y \in Int
    /\ \A j \in 0 .. 3 : f[j + 1] = Q(Third(j, A, B, x, y), E)
BentAs(f, A, B, x, y, E) ==
    /\ SlopeLeft(f) = Q(54 * (B - A) - 108 * x - 54 * y, E)
    /\ SlopeRight(f) = Q(54 * (B - A) + 54 * x + 108 * y, E)
    /\ BendLeft(f) = Q(18 * x, E) /\ BendRight(f) = Q(18 * y, E)

LEMMA SlopesAre ==
    ASSUME NEW f, NEW E, NEW A, NEW B, NEW x, NEW y, AreThirds(f, A, B, x, y, E)
    PROVE  BentAs(f, A, B, x, y, E)
<1>0. E \in Nat \ {0} /\ A \in Int /\ B \in Int /\ x \in Int /\ y \in Int
  BY DEF AreThirds
<1>1. PICK s, t, u, v : /\ s = 27 * A /\ t = 18 * A + 9 * B - 10 * x - 8 * y
                        /\ u = 9 * A + 18 * B - 8 * x - 10 * y /\ v = 27 * B
  OBVIOUS
<1>2. s \in Int /\ t \in Int /\ u \in Int /\ v \in Int
  BY <1>0, <1>1
<1>3. FourValues(f, s, t, u, v, E)
  <2>1. /\ Third(0, A, B, x, y) = s /\ Third(1, A, B, x, y) = t
        /\ Third(2, A, B, x, y) = u /\ Third(3, A, B, x, y) = v
    BY <1>0, <1>1, ThirdsAre
  <2>2. /\ f[0 + 1] = Q(Third(0, A, B, x, y), E) /\ f[1 + 1] = Q(Third(1, A, B, x, y), E)
        /\ f[2 + 1] = Q(Third(2, A, B, x, y), E) /\ f[3 + 1] = Q(Third(3, A, B, x, y), E)
    BY DEF AreThirds
  <2> QED BY <1>0, <1>2, <2>1, <2>2 DEF FourValues
<1>4. SlopeLeft(f) = Q(54 * (B - A) - 108 * x - 54 * y, E)
  <2>1. PICK k, l, m, n : k = -11 /\ l = 18 /\ m = -9 /\ n = 2
    OBVIOUS
  <2>2. k \in Int /\ l \in Int /\ m \in Int /\ n \in Int
    BY <2>1
  <2>3. Mix4(<<k, l, m, n>>, f) = Q(k * s + l * t + m * u + n * v, E)
    BY ONLY <1>3, <2>2, MixIs
  <2>4. k * s + l * t + m * u + n * v = 54 * (B - A) - 108 * x - 54 * y
    BY <1>0, <1>1, <2>1
  <2> QED BY <2>1, <2>3, <2>4 DEF SlopeLeft
<1>5. SlopeRight(f) = Q(54 * (B - A) + 54 * x + 108 * y, E)
  <2>1. PICK k, l, m, n : k = -2 /\ l = 9 /\ m = -18 /\ n = 11
    OBVIOUS
  <2>2. k \in Int /\ l \in Int /\ m \in Int /\ n \in Int
    BY <2>1
  <2>3. Mix4(<<k, l, m, n>>, f) = Q(k * s + l * t + m * u + n * v, E)
    BY ONLY <1>3, <2>2, MixIs
  <2>4. k * s + l * t + m * u + n * v = 54 * (B - A) + 54 * x + 108 * y
    BY <1>0, <1>1, <2>1
  <2> QED BY <2>1, <2>3, <2>4 DEF SlopeRight
<1>6. BendLeft(f) = Q(18 * x, E)
  <2>1. PICK k, l, m, n : k = 2 /\ l = -5 /\ m = 4 /\ n = -1
    OBVIOUS
  <2>2. k \in Int /\ l \in Int /\ m \in Int /\ n \in Int
    BY <2>1
  <2>3. Mix4(<<k, l, m, n>>, f) = Q(k * s + l * t + m * u + n * v, E)
    BY ONLY <1>3, <2>2, MixIs
  <2>4. k * s + l * t + m * u + n * v = 18 * x
    BY <1>0, <1>1, <2>1
  <2> QED BY <2>1, <2>3, <2>4 DEF BendLeft
<1>7. BendRight(f) = Q(18 * y, E)
  <2>1. PICK k, l, m, n : k = -1 /\ l = 4 /\ m = -5 /\ n = 2
    OBVIOUS
  <2>2. k \in Int /\ l \in Int /\ m \in Int /\ n \in Int
    BY <2>1
  <2>3. Mix4(<<k, l, m, n>>, f) = Q(k * s + l * t + m * u + n * v, E)
    BY ONLY <1>3, <2>2, MixIs
  <2>4. k * s + l * t + m * u + n * v = 18 * y
    BY <1>0, <1>1, <2>1
  <2> QED BY <2>1, <2>3, <2>4 DEF BendRight
<1> QED BY <1>4, <1>5, <1>6, <1>7 DEF BentAs

\* The same of an interval of the spline.
LEMMA IntervalIs ==
    ASSUME NEW z \in Seq(Int), NEW n \in Nat, n = Len(z), n >= 2, NEW i \in 1 .. n - 1,
           NEW D, NEW x, NEW y, NEW A, NEW B, NEW E,
           IsInterval(z, fitSpline(z), i, D, x, y, A, B, E)
    PROVE  BentAs(ValuesOn(z, i), A, B, x, y, E)
<1>1. E \in Nat \ {0} /\ A \in Int /\ B \in Int /\ x \in Int /\ y \in Int
  BY DEF IsInterval
<1>2. PICK f : f = ValuesOn(z, i)
  OBVIOUS
<1>3. AreThirds(f, A, B, x, y, E)
  <2>1. \A j \in 0 .. 3 : ValuesOn(z, i)[j + 1] = Q(Third(j, A, B, x, y), E)
    BY ValuesAre
  <2> QED BY <1>1, <1>2, <2>1 DEF AreThirds
<1>4. BentAs(f, A, B, x, y, E)
  BY ONLY <1>3, SlopesAre
<1> QED BY <1>2, <1>4

\* Where two intervals meet, slope and bend agree: the row of the system at that
\* knot says so.
LEMMA Smooth ==
    ASSUME NEW z \in Seq(Int), NEW n \in Nat, n = Len(z), n >= 2, NEW i \in 1 .. n - 2
    PROVE  /\ SlopeRight(ValuesOn(z, i)) = SlopeLeft(ValuesOn(z, i + 1))
           /\ BendRight(ValuesOn(z, i)) = BendLeft(ValuesOn(z, i + 1))
<1>1. PICK S, k : S = fitSpline(z) /\ k = i + 1
  OBVIOUS
<1>2. i \in 1 .. n - 1 /\ k \in 1 .. n - 1 /\ k + 1 = i + 2
  BY <1>1
<1>3. PICK r : r = Rhs(z, i)
  OBVIOUS
<1>4. InRow(S[i], S[k], S[k + 1], r)
  <2>1. Len(z) - 2 \in Nat /\ i \in 1 .. Len(z) - 2
    OBVIOUS
  <2> QED BY <1>1, <1>2, <1>3, <2>1, SplineRows
<1>5. PICK D \in Nat \ {0}, a \in Int, b \in Int, c \in Int :
          S[i] = Q(a, D) /\ S[k] = Q(b, D) /\ S[k + 1] = Q(c, D) /\ a + 4 * b + c = D * r
  BY <1>4 DEF InRow
<1>6. PICK x, y, w : x = z[i] /\ y = z[k] /\ w = z[k + 1]
  OBVIOUS
<1>7. x \in Int /\ y \in Int /\ w \in Int
  <2>1. i \in 1 .. Len(z) /\ k \in 1 .. Len(z) /\ k + 1 \in 1 .. Len(z)
    BY <1>1
  <2> QED BY <1>6, <2>1
<1>8. r = w - 2 * y + x
  BY <1>1, <1>2, <1>3, <1>6 DEF Rhs
<1>9. PICK A, B, C, E : A = D * x /\ B = D * y /\ C = D * w /\ E = 27 * D
  OBVIOUS
<1>10. A \in Int /\ B \in Int /\ C \in Int
  BY <1>7, <1>9
<1>11. C - 2 * B + A = D * r
  <2>1. D * (w - 2 * y + x) = D * w - 2 * (D * y) + D * x
    BY <1>7
  <2> QED BY <1>8, <1>9, <2>1
<1>12. /\ SlopeRight(ValuesOn(z, i)) = Q(54 * (B - A) + 54 * a + 108 * b, E)
       /\ BendRight(ValuesOn(z, i)) = Q(18 * b, E)
  <2>1. IsInterval(z, fitSpline(z), i, D, a, b, A, B, E)
    BY <1>1, <1>5, <1>6, <1>7, <1>9 DEF IsInterval
  <2>2. BentAs(ValuesOn(z, i), A, B, a, b, E)
    BY ONLY <1>2, <2>1, z \in Seq(Int), n \in Nat, n = Len(z), n >= 2, IntervalIs
  <2> QED BY <2>2 DEF BentAs
<1>13. /\ SlopeLeft(ValuesOn(z, k)) = Q(54 * (C - B) - 108 * b - 54 * c, E)
       /\ BendLeft(ValuesOn(z, k)) = Q(18 * b, E)
  <2>1. IsInterval(z, fitSpline(z), k, D, b, c, B, C, E)
    BY <1>1, <1>5, <1>6, <1>7, <1>9 DEF IsInterval
  <2>2. BentAs(ValuesOn(z, k), B, C, b, c, E)
    BY ONLY <1>2, <2>1, z \in Seq(Int), n \in Nat, n = Len(z), n >= 2, IntervalIs
  <2> QED BY <2>2 DEF BentAs
<1>14. 54 * (B - A) + 54 * a + 108 * b = 54 * (C - B) - 108 * b - 54 * c
  <2>1. a + 4 * b + c = C - 2 * B + A
    BY <1>5, <1>11
  <2> QED BY <1>10, <2>1
<1> QED BY <1>1, <1>12, <1>13, <1>14

\* At the ends it is straight.
LEMMA Straight ==
    ASSUME NEW z \in Seq(Int), NEW n \in Nat, n = Len(z), n >= 2
    PROVE  BendLeft(ValuesOn(z, 1)) = Whole(0) /\ BendRight(ValuesOn(z, n - 1)) = Whole(0)
<1>1. PICK S, m : S = fitSpline(z) /\ m = n - 1
  OBVIOUS
<1>2. S \in [1 .. n -> Reduced] /\ S[1] = Whole(0) /\ S[n] = Whole(0)
  <2>1. Len(z) - 2 \in Nat
    OBVIOUS
  <2> QED BY <1>1, <2>1, SplineRows
<1>3. /\ 1 \in 1 .. n - 1 /\ m \in 1 .. n - 1 /\ m + 1 = n
      /\ 1 + 1 = 2 /\ 0 \in Int /\ m \in 1 .. n /\ 2 \in 1 .. n
  BY <1>1
<1>4. BendLeft(ValuesOn(z, 1)) = Whole(0)
  <2>1. PICK e, D : e = S[2][1] /\ D = S[2][2]
    OBVIOUS
  <2>2. e \in Int /\ D \in Nat \ {0} /\ S[2] = Q(e, D)
    BY <1>2, <1>3, <2>1, SameTerms
  <2>3. Whole(0) = Q(0, D) /\ Whole(0) = Q(0, 27 * D)
    <3>1. 27 * D \in Nat \ {0}
      BY <2>2
    <3> QED BY <2>2, <3>1, ZeroIs
  <2>4. fitSpline(z)[1] = Q(0, D) /\ fitSpline(z)[1 + 1] = Q(e, D)
    BY <1>1, <1>2, <1>3, <2>2, <2>3
  <2>5. PICK A, B, E, u : A = D * z[1] /\ B = D * z[1 + 1] /\ E = 27 * D /\ u = 0
    OBVIOUS
  <2>6. IsInterval(z, fitSpline(z), 1, D, u, e, A, B, E)
    <3>1. z[1] \in Int /\ z[1 + 1] \in Int
      BY <1>3
    <3> QED BY <1>3, <2>2, <2>4, <2>5, <3>1 DEF IsInterval
  <2>7. BendLeft(ValuesOn(z, 1)) = Q(18 * u, E)
    <3>1. BentAs(ValuesOn(z, 1), A, B, u, e, E)
      BY ONLY <1>3, <2>6, z \in Seq(Int), n \in Nat, n = Len(z), n >= 2, IntervalIs
    <3> QED BY <3>1 DEF BentAs
  <2>8. 18 * u = 0
    BY <2>5
  <2> QED BY <2>3, <2>5, <2>7, <2>8
<1>5. BendRight(ValuesOn(z, m)) = Whole(0)
  <2>1. PICK e, D : e = S[m][1] /\ D = S[m][2]
    OBVIOUS
  <2>2. e \in Int /\ D \in Nat \ {0} /\ S[m] = Q(e, D)
    BY <1>2, <1>3, <2>1, SameTerms
  <2>3. Whole(0) = Q(0, D) /\ Whole(0) = Q(0, 27 * D)
    <3>1. 27 * D \in Nat \ {0}
      BY <2>2
    <3> QED BY <2>2, <3>1, ZeroIs
  <2>4. fitSpline(z)[m] = Q(e, D) /\ fitSpline(z)[m + 1] = Q(0, D)
    BY <1>1, <1>2, <1>3, <2>2, <2>3
  <2>5. PICK A, B, E, u : A = D * z[m] /\ B = D * z[m + 1] /\ E = 27 * D /\ u = 0
    OBVIOUS
  <2>6. IsInterval(z, fitSpline(z), m, D, e, u, A, B, E)
    <3>1. z[m] \in Int /\ z[m + 1] \in Int
      BY <1>1, <1>3
    <3> QED BY <1>3, <2>2, <2>4, <2>5, <3>1 DEF IsInterval
  <2>7. BendRight(ValuesOn(z, m)) = Q(18 * u, E)
    <3>1. BentAs(ValuesOn(z, m), A, B, e, u, E)
      BY ONLY <1>3, <2>6, z \in Seq(Int), n \in Nat, n = Len(z), n >= 2, IntervalIs
    <3> QED BY <3>1 DEF BentAs
  <2>8. 18 * u = 0
    BY <2>5
  <2> QED BY <2>3, <2>5, <2>7, <2>8
<1> QED BY <1>1, <1>4, <1>5

\* The path: knot k - 1 counted from the centre outwards, angle after angle.
IsToolpath(path, z, n, nAngles, N) ==
    /\ DOMAIN path = 1 .. N /\ Len(path) = N
    /\ \A k \in 1 .. N : /\ path[k].r \in 0 .. n - 1 /\ path[k].theta \in 0 .. nAngles - 1
                         /\ path[k].z = z[path[k].r + 1] /\ path[k].theta * n + path[k].r = k - 1

LEMMA PathIs ==
    ASSUME NEW z \in Seq(Int), NEW n \in Nat, n = Len(z), n >= 2, NEW nAngles \in Nat \ {0},
           NEW N \in Nat, N = nAngles * n
    PROVE  IsToolpath(generate(z, nAngles), z, n, nAngles, N)
<1>1. PICK path : path = generate(z, nAngles)
  OBVIOUS
<1>3. path = [k \in 1 .. N |-> [r |-> (k - 1) % n, theta |-> (k - 1) \div n, z |-> z[((k - 1) % n) + 1]]]
  BY <1>1 DEF generate
<1>4. DOMAIN path = 1 .. N /\ Len(path) = N
  BY <1>3
<1>5. ASSUME NEW k \in 1 .. N
      PROVE  /\ path[k].r \in 0 .. n - 1 /\ path[k].theta \in 0 .. nAngles - 1
             /\ path[k].z = z[path[k].r + 1] /\ path[k].theta * n + path[k].r = k - 1
  <2>1. PICK q, r : q = (k - 1) \div n /\ r = (k - 1) % n
    OBVIOUS
  <2>2. path[k] = [r |-> r, theta |-> q, z |-> z[r + 1]]
    BY <1>3, <2>1
  <2>3. q \in Int /\ r \in 0 .. n - 1 /\ k - 1 = n * q + r
    <3>1. k - 1 \in Int /\ n \in Nat \ {0}
      OBVIOUS
    <3> QED BY <2>1, <3>1, DivMod
  <2>4. n * q = q * n
    BY <2>3
  <2>5. q >= 0
    <3>1. q < 0 => n * q <= -n
      BY <2>3
    <3> QED BY <2>3, <3>1
  <2>6. q <= nAngles - 1
    <3>1. q >= nAngles => n * q >= N
      BY <2>3
    <3>2. n * q < N
      BY <2>3
    <3>3. n * q \in Int
      BY <2>3
    <3> QED BY <2>3, <3>1, <3>2, <3>3
  <2> QED BY <2>2, <2>3, <2>4, <2>5, <2>6
<1> QED BY <1>1, <1>4, <1>5 DEF IsToolpath

Covers(path, n, nAngles) ==
    {<<path[k].theta, path[k].r>> : k \in DOMAIN path} = (0 .. nAngles - 1) \X (0 .. n - 1)

LEMMA PathCovers ==
    ASSUME NEW z, NEW n \in Nat, n >= 2, NEW nAngles \in Nat \ {0}, NEW N \in Nat, N = nAngles * n,
           NEW path, IsToolpath(path, z, n, nAngles, N)
    PROVE  Covers(path, n, nAngles)
<1>1. /\ DOMAIN path = 1 .. N
      /\ \A k \in 1 .. N : /\ path[k].r \in 0 .. n - 1 /\ path[k].theta \in 0 .. nAngles - 1
                           /\ path[k].theta * n + path[k].r = k - 1
  BY DEF IsToolpath
<1>2. ASSUME NEW q \in 0 .. nAngles - 1, NEW r \in 0 .. n - 1
      PROVE  \E k \in DOMAIN path : <<q, r>> = <<path[k].theta, path[k].r>>
  <2>1. PICK a, k : a = q * n + r /\ k = a + 1
    OBVIOUS
  <2>2. a \in Int /\ a = n * q + r /\ n \in Nat \ {0} /\ q \in Int
    BY <2>1
  <2>3. a >= 0 /\ a < N
    <3>1. PICK b : b = n * q
      OBVIOUS
    <3>2. b \in Int /\ b >= 0
      BY <3>1
    <3>3. b <= n * (nAngles - 1)
      BY <3>1
    <3>4. n * (nAngles - 1) = N - n
      OBVIOUS
    <3>5. a = b + r /\ b <= N - n
      BY <2>2, <3>1, <3>3, <3>4
    <3> QED BY ONLY <3>2, <3>5, n \in Nat, N \in Nat, r \in 0 .. n - 1
  <2>4. k \in 1 .. N /\ k - 1 = a
    BY ONLY <2>1, <2>2, <2>3, N \in Nat
  <2>5. PICK p, s : p = path[k].theta /\ s = path[k].r
    OBVIOUS
  <2>6. p \in Int /\ s \in 0 .. n - 1 /\ p * n + s = a
    BY <1>1, <2>4, <2>5
  <2>7. a = n * p + s
    BY <2>6
  <2>8. a \div n = p /\ a % n = s
    BY ONLY <2>2, <2>6, <2>7, DivModUnique
  <2>9. a \div n = q /\ a % n = r
    BY ONLY <2>2, r \in 0 .. n - 1, DivModUnique
  <2> QED BY <1>1, <2>4, <2>5, <2>8, <2>9
<1>3. ASSUME NEW k \in DOMAIN path
      PROVE  <<path[k].theta, path[k].r>> \in (0 .. nAngles - 1) \X (0 .. n - 1)
  BY <1>1
<1>4. (0 .. nAngles - 1) \X (0 .. n - 1) \subseteq {<<path[k].theta, path[k].r>> : k \in DOMAIN path}
  BY <1>2
<1>5. {<<path[k].theta, path[k].r>> : k \in DOMAIN path} \subseteq (0 .. nAngles - 1) \X (0 .. n - 1)
  BY <1>3
<1> QED BY <1>4, <1>5 DEF Covers

\* What is evaluated is the natural spline, for every lens and every number of
\* angles.
LEMMA SplineHolds ==
    ASSUME NEW z \in Seq(Int), Len(z) >= 2, NEW nAngles \in Nat \ {0}
    PROVE  IsNaturalSpline(z, nAngles)
<1>1. PICK n : n = Len(z)
  OBVIOUS
<1>2. n \in Nat /\ n >= 2
  BY <1>1
<1>3. PICK path, N : path = generate(z, nAngles) /\ N = nAngles * n
  OBVIOUS
<1>4. N \in Nat /\ IsToolpath(path, z, n, nAngles, N)
  <2>1. N \in Nat
    BY <1>2, <1>3
  <2> QED BY <1>1, <1>2, <1>3, <2>1, PathIs
<1>5. \A i \in 1 .. n : evalAt(z, 3 * (i - 1)) = Whole(z[i])
  BY <1>1, <1>2, KnotIs
<1>6. evalAt(z, -1) = Whole(z[1]) /\ evalAt(z, 3 * n) = Whole(z[n])
  BY <1>1, <1>2, BeyondIs
<1>7. \A i \in 1 .. n - 2 : /\ SlopeRight(ValuesOn(z, i)) = SlopeLeft(ValuesOn(z, i + 1))
                            /\ BendRight(ValuesOn(z, i)) = BendLeft(ValuesOn(z, i + 1))
  BY <1>1, <1>2, Smooth
<1>8. BendLeft(ValuesOn(z, 1)) = Whole(0) /\ BendRight(ValuesOn(z, n - 1)) = Whole(0)
  BY <1>1, <1>2, Straight
<1>9. ASSUME NEW k \in DOMAIN path PROVE evalAt(z, 3 * path[k].r) = Whole(path[k].z)
  <2>1. path[k].r \in 0 .. n - 1 /\ path[k].z = z[path[k].r + 1]
    BY <1>4 DEF IsToolpath
  <2>2. PICK i : i = path[k].r + 1
    OBVIOUS
  <2>3. i \in 1 .. n /\ 3 * (i - 1) = 3 * path[k].r
    BY <1>2, <2>1, <2>2, SMTT(30)
  <2> QED BY <1>5, <2>1, <2>2, <2>3
<1>10. {<<path[k].theta, path[k].r>> : k \in DOMAIN path} = (0 .. nAngles - 1) \X (0 .. n - 1)
  <2>1. N = nAngles * n
    BY <1>3
  <2>2. Covers(path, n, nAngles)
    BY ONLY <1>2, <1>4, <2>1, nAngles \in Nat \ {0}, PathCovers
  <2> QED BY <2>2 DEF Covers
<1>11. ASSUME NEW k \in 2 .. Len(path)
       PROVE  path[k - 1].theta * n + path[k - 1].r < path[k].theta * n + path[k].r
  <2>1. Len(path) = N /\ \A l \in 1 .. N : path[l].theta * n + path[l].r = l - 1
    BY <1>4 DEF IsToolpath
  <2>2. k \in 1 .. N /\ k - 1 \in 1 .. N
    BY <1>4, <2>1
  <2>3. (k - 1) - 1 < k - 1
    BY <2>2
  <2> QED BY <2>1, <2>2, <2>3
<1> QED BY <1>1, <1>3, <1>5, <1>6, <1>7, <1>8, <1>9, <1>10, <1>11 DEF IsNaturalSpline, ValuesOn

LEMMA DeviationIs ==
    ASSUME NEW e \in Seq(Int), NEW a \in Seq(Int), NEW i, i \in 1 .. Len(e), Len(a) = Len(e)
    PROVE  /\ Deviation(e, a, i) \in Nat
           /\ Deviation(e, a, i) = a[i] - e[i] \/ Deviation(e, a, i) = -(a[i] - e[i])
           /\ a[i] - e[i] \in Int
<1>1. e[i] \in Int /\ a[i] \in Int
  OBVIOUS
<1> QED BY <1>1 DEF Deviation

\* What lies between 0 and p in every term is summed between p and n times p.
LEMMA SumBetween ==
    ASSUME NEW n \in Nat, NEW F, F \in [1 .. n -> Int], NEW p \in Nat,
           \A i \in 1 .. n : 0 <= F[i] /\ F[i] <= p
    PROVE  /\ SumFunction(F) \in Nat /\ SumFunction(F) <= n * p
           /\ \A i \in 1 .. n : F[i] <= SumFunction(F)
<1>1. Summable(F) /\ DOMAIN F = 1 .. n
  <2>1. IsFiniteSet(1 .. n)
    BY FS_Interval
  <2> QED BY <2>1 DEF Summable
<1>2. SumFunction(F) \in Nat /\ \A i \in 1 .. n : F[i] <= SumFunction(F)
  BY <1>1, SumOfNaturals
<1>3. SumFunction(F) <= n * p
  <2>1. PICK G : G = [i \in 1 .. n |-> p]
    OBVIOUS
  <2>2. G \in [1 .. n -> Int] /\ Summable(G) /\ DOMAIN G = DOMAIN F /\ \A i \in DOMAIN F : F[i] <= G[i]
    BY <1>1, <2>1 DEF Summable
  <2>3. SumFunction(F) <= SumFunction(G) /\ SumFunction(G) \in Int
    BY <1>1, <2>2, SumMonotone
  <2>4. SumFunction(G) = n * p
    <3>1. PICK O : O = [i \in Nat |-> (i - 1) * p]
      OBVIOUS
    <3>2. O[1] = 0 /\ O[n + 1] = n * p
      BY <3>1
    <3>3. \A i \in 1 .. n : O[i + 1] = O[i] + G[i]
      <4>1. ASSUME NEW i \in 1 .. n PROVE O[i + 1] = O[i] + G[i]
        <5>1. O[i + 1] = i * p /\ O[i] = (i - 1) * p /\ G[i] = p
          BY <2>1, <3>1
        <5>2. i * p = (i - 1) * p + p
          OBVIOUS
        <5> QED BY <5>1, <5>2
      <4> QED BY <4>1
    <3> QED BY <2>2, <3>2, <3>3, SumUpTo
  <2>5. n * p \in Int
    OBVIOUS
  <2> QED BY <1>2, <2>3, <2>4, <2>5
<1> QED BY <1>2, <1>3

\* The comparison is honest about every two paths.
LEMMA DeviationHolds ==
    ASSUME NEW e \in Seq(Int), NEW a \in Seq(Int)
    PROVE  DeviationIsHonest(e, a)
<1>1. PICK s : s = analyseDeviation(e, a)
  OBVIOUS
<1>2. PICK n : n = Len(e)
  OBVIOUS
<1>3. n \in Nat
  BY <1>2
<1>4. CASE n = 0 \/ Len(a) # n
  <2>1. s.n = 0 /\ s.meanSquare = Whole(0) /\ s.peak = 0
    BY <1>1, <1>2, <1>4 DEF analyseDeviation
  <2>2. s.meanSquare[1] = 0 /\ s.meanSquare[2] = 1
    BY <2>1 DEF Whole
  <2>3. s.n = IF Len(e) = Len(a) THEN Len(e) ELSE 0
    BY <1>2, <1>4, <2>1
  <2>4. 1 .. s.n = {}
    BY <2>1
  <2>5. /\ s.peak * s.peak * s.meanSquare[2] <= s.n * s.meanSquare[1]
        /\ s.meanSquare[1] <= s.peak * s.peak * s.meanSquare[2]
    BY <2>1, <2>2
  <2> QED BY <1>1, <2>1, <2>3, <2>4, <2>5 DEF DeviationIsHonest
<1>5. CASE n # 0 /\ Len(a) = n
  <2>1. PICK D : D = {Deviation(e, a, i) : i \in 1 .. n}
    OBVIOUS
  <2>2. PICK F : F = [i \in 1 .. n |-> Deviation(e, a, i) * Deviation(e, a, i)]
    OBVIOUS
  <2>3. PICK p, S : p = Max(D \cup {0}) /\ S = SumFunction(F)
    OBVIOUS
  <2>4. s.n = n /\ s.peak = p /\ s.meanSquare = Q(S, n)
    BY <1>1, <1>2, <1>5, <2>1, <2>2, <2>3 DEF analyseDeviation
  <2>5. \A i \in 1 .. n : /\ Deviation(e, a, i) \in Nat /\ a[i] - e[i] \in Int
                          /\ Deviation(e, a, i) = a[i] - e[i] \/ Deviation(e, a, i) = -(a[i] - e[i])
    BY <1>2, <1>5, DeviationIs
  <2>6. p \in D \cup {0} /\ \A y \in D \cup {0} : y <= p
    <3>1. IsFiniteSet(D)
      <4>1. IsFiniteSet(1 .. n)
        BY <1>3, FS_Interval
      <4>2. PICK f : f = [i \in 1 .. n |-> Deviation(e, a, i)]
        OBVIOUS
      <4>3. D = {f[i] : i \in 1 .. n} /\ DOMAIN f = 1 .. n /\ f \in [1 .. n -> D]
        BY <2>1, <4>2
      <4>4. f \in Surjection(1 .. n, D)
        BY <4>3 DEF Surjection
      <4> QED BY <4>1, <4>4, FS_Surjection
    <3>2. PICK E : E = D \cup {0}
      OBVIOUS
    <3>3. IsFiniteSet(E) /\ E # {} /\ E \subseteq Int
      <4>1. IsFiniteSet(E)
        BY <3>1, <3>2, FS_AddElement
      <4>2. \A y \in D : y \in Nat
        BY <2>1, <2>5
      <4> QED BY <3>2, <4>1, <4>2
    <3>4. Max(E) \in E /\ \A y \in E : y <= Max(E)
      BY ONLY <3>3, MaxIs
    <3> QED BY <2>3, <3>2, <3>4
  <2>7. p \in Nat /\ \E i \in 1 .. n : p = Deviation(e, a, i)
    <3>1. p \in Nat
      BY <2>1, <2>5, <2>6
    <3>2. CASE p \in D
      BY <2>1, <3>1, <3>2
    <3>3. CASE p = 0
      <4>1. 1 \in 1 .. n
        BY <1>3, <1>5
      <4>2. Deviation(e, a, 1) <= 0
        BY <2>1, <2>6, <3>3, <4>1
      <4> QED BY <2>5, <3>3, <4>1, <4>2
    <3> QED BY <2>6, <3>2, <3>3
  <2>8. PICK m \in 1 .. n : p = Deviation(e, a, m)
    BY <2>7
  <2>9. \A i \in 1 .. n : Deviation(e, a, i) <= p
    BY <2>1, <2>6
  <2>10. PICK P : P = p * p
    OBVIOUS
  <2>11. P \in Nat
    BY <2>7, <2>10
  <2>12. ASSUME NEW i \in 1 .. n PROVE F[i] \in Int /\ 0 <= F[i] /\ F[i] <= P
    <3>1. PICK d : d = Deviation(e, a, i)
      OBVIOUS
    <3>2. d \in -p .. p
      BY <2>5, <2>7, <2>9, <3>1
    <3>3. d * d \in Int /\ 0 <= d * d /\ d * d <= p * p
      BY ONLY <2>7, <3>2, SquareFits
    <3> QED BY <2>2, <2>10, <3>1, <3>3
  <2>13. F \in [1 .. n -> Int] /\ F[m] = P
    BY <2>2, <2>8, <2>10, <2>12
  <2>14. S \in Nat /\ P <= S /\ S <= n * P
    <3>1. \A i \in 1 .. n : 0 <= F[i] /\ F[i] <= P
      BY <2>12
    <3>2. /\ SumFunction(F) \in Nat /\ SumFunction(F) <= n * P
          /\ \A i \in 1 .. n : F[i] <= SumFunction(F)
      BY ONLY <1>3, <2>11, <2>13, <3>1, SumBetween
    <3> QED BY <2>3, <2>8, <2>13, <3>2
  <2>15. PICK x \in Int, y \in Nat \ {0}, g \in Nat \ {0} :
             Q(S, n) = <<x, y>> /\ S = g * x /\ n = g * y
    <3>1. S \in Int /\ n \in Nat \ {0}
      BY <1>3, <1>5, <2>14
    <3> QED BY <3>1, Terms
  <2>16. s.meanSquare[1] = x /\ s.meanSquare[2] = y
    BY <2>4, <2>15
  <2>17. P * y <= n * x
    <3>1. P * y <= S * y
      BY <2>11, <2>14, <2>15
    <3>2. S * y = n * x
      <4>1. ASSUME NEW A \in Int, NEW B \in Int, NEW C \in Int PROVE (A * B) * C = (A * C) * B
        BY ONLY <4>1
      <4> QED BY <2>15, <4>1
    <3> QED BY <3>1, <3>2
  <2>18. x <= P * y
    <3>1. n * P = g * (P * y)
      <4>1. ASSUME NEW A \in Int, NEW B \in Int, NEW C \in Int PROVE (A * B) * C = A * (C * B)
        BY ONLY <4>1
      <4> QED BY <2>11, <2>15, <4>1
    <3>2. PICK w : w = P * y
      OBVIOUS
    <3>3. w \in Int /\ g * x <= g * w
      <4>1. w \in Int
        BY <2>11, <2>15, <3>2
      <4> QED BY <2>14, <2>15, <3>1, <3>2, <4>1
    <3>4. x <= w
      <4>1. x > w => g * x > g * w
        BY ONLY <3>3, x \in Int, g \in Nat \ {0}
      <4>2. g * x \in Int /\ g * w \in Int
        BY ONLY <3>3, x \in Int, g \in Nat \ {0}
      <4> QED BY <3>3, <4>1, <4>2
    <3> QED BY <3>2, <3>4
  <2>19. PICK gaps : gaps = {a[i] - e[i] : i \in 1 .. s.n}
    OBVIOUS
  <2>20. s.peak \in gaps \/ -s.peak \in gaps
    <3>1. a[m] - e[m] \in gaps
      BY <2>4, <2>19
    <3>2. p = a[m] - e[m] \/ -p = a[m] - e[m]
      BY <2>5, <2>8
    <3> QED BY <2>4, <3>1, <3>2
  <2>21. \A h \in gaps : h \in -s.peak .. s.peak
    <3>1. ASSUME NEW i \in 1 .. n PROVE a[i] - e[i] \in -p .. p
      <4>1. PICK h, d : h = a[i] - e[i] /\ d = Deviation(e, a, i)
        OBVIOUS
      <4>2. h \in Int /\ d \in Nat /\ d <= p /\ (d = h \/ d = -h)
        BY <2>5, <2>9, <4>1
      <4>3. h \in -p .. p
        BY ONLY <2>7, <4>2
      <4> QED BY <4>1, <4>3
    <3> QED BY <2>4, <2>19, <3>1
  <2>22. s.n = IF Len(e) = Len(a) THEN Len(e) ELSE 0
    BY <1>2, <1>5, <2>4
  <2>23. /\ s.peak * s.peak * s.meanSquare[2] <= s.n * s.meanSquare[1]
         /\ s.meanSquare[1] <= s.peak * s.peak * s.meanSquare[2]
    BY <2>4, <2>10, <2>16, <2>17, <2>18
  <2> QED BY <1>1, <2>19, <2>20, <2>21, <2>22, <2>23 DEF DeviationIsHonest
<1> QED BY <1>4, <1>5

\* Every lens the generator accepts gets its natural cubic spline, through every
\* radius and smooth to the second derivative, whatever its heights and however
\* many its radii; and every measured path is compared with it honestly.
THEOREM ToolpathAlwaysRight == NumericsSpec => []ToolpathIsRight
<1>1. input \in Inputs => ToolpathIsRight
  <2>1. ASSUME input \in Inputs, input.kind = "spline", ~Refused(Len(input.z), 2, 1)
        PROVE  IsNaturalSpline(input.z, 2)
    <3>1. input.z \in Seq(Int)
      BY <2>1, NumericsAssumption DEF Inputs
    <3>2. PICK z, k : z = input.z /\ k = 2
      OBVIOUS
    <3>3. z \in Seq(Int) /\ Len(z) >= 2 /\ k \in Nat \ {0}
      BY <2>1, <3>1, <3>2 DEF Refused
    <3>4. IsNaturalSpline(z, k)
      BY ONLY <3>3, SplineHolds
    <3> QED BY <3>2, <3>4
  <2>2. ASSUME input \in Inputs, input.kind = "path"
        PROVE  DeviationIsHonest(input.expected, input.actual)
    <3>1. input.expected \in Seq(Int) /\ input.actual \in Seq(Int)
      BY <2>2, NumericsAssumption DEF Inputs
    <3> QED BY <3>1, DeviationHolds
  <2> QED BY <2>1, <2>2 DEF ToolpathIsRight
<1> QED BY <1>1, InputStays, PTL DEF NumericsSpec
------------------------------------------------------------------------------
(* Pose consensus. *)

\* An estimate of each drone that sent one.
PoseInv == /\ IsFiniteSet(DOMAIN states)
           /\ \A d \in DOMAIN states : states[d] \in [position : Positions, variance : Variances]

\* A weight is Unit over the variance that counts, nothing for an infinite one.
LEMMA WeightOf ==
    ASSUME NEW v \in Variances
    PROVE  /\ Weight(v) \in Nat /\ (v = Inf <=> Weight(v) = 0)
           /\ Certainty(v) \in Nat \ {0}
           /\ v # Inf => Unit = Certainty(v) * Weight(v)
<1> USE PoseAssumption, IeeeAssumption
<1>1. \A c \in Counted : c \in Nat \ {0} /\ Unit % c = 0
  BY DEF Counted
<1>2. \A c \in Counted : Unit \div c \in Nat \ {0} /\ Unit = c * (Unit \div c)
  <2>1. ASSUME NEW c \in Counted PROVE Unit \div c \in Nat \ {0} /\ Unit = c * (Unit \div c)
    <3>1. PICK q : q = Unit \div c
      OBVIOUS
    <3>2. q \in Int /\ Unit = c * q + 0
      <4>1. c \in Nat \ {0} /\ Unit \in Int /\ Unit % c = 0
        BY <1>1
      <4>2. q \in Int /\ Unit = c * q + (Unit % c)
        BY <3>1, <4>1, DivMod
      <4> QED BY <4>1, <4>2
    <3>3. Unit = c * q
      BY <1>1, <3>2
    <3>4. c * q > 0
      BY <3>3
    <3>5. q > 0
      BY <1>1, <3>2, <3>4
    <3> QED BY <3>1, <3>2, <3>3, <3>5
  <2> QED BY <2>1
<1>3. Floor \in Counted
  BY DEF Counted
<1>4. CASE v = Inf
  <2>1. Weight(v) = 0
    BY <1>4 DEF Weight
  <2>2. Certainty(v) \in Counted
    BY <1>3 DEF Certainty
  <2> QED BY <1>1, <1>4, <2>1, <2>2
<1>5. CASE v # Inf /\ Above(v, Floor)
  <2>1. v \in Int /\ v > Floor
    BY <1>5 DEF Above, Floats
  <2>2. v \in Counted /\ Certainty(v) = v /\ Weight(v) = Unit \div v
    BY <1>5, <2>1 DEF Counted, Certainty, Weight
  <2> QED BY <1>1, <1>2, <1>5, <2>2
<1>6. CASE v # Inf /\ ~Above(v, Floor)
  <2>1. v \notin Int \/ v <= Floor
    BY <1>6 DEF Above
  <2>2. Certainty(v) = Floor
    BY <2>1 DEF Counted, Certainty
  <2>3. Weight(v) = Unit \div Floor
    BY <1>6 DEF Weight
  <2> QED BY <1>1, <1>2, <1>3, <1>6, <2>2, <2>3
<1> QED BY <1>4, <1>5, <1>6

\* The smaller of two factors of one product has the greater partner.
LEMMA Partners ==
    ASSUME NEW c \in Nat \ {0}, NEW d \in Nat \ {0}, NEW x \in Nat, NEW y \in Nat,
           c * x = d * y, c <= d
    PROVE  y <= x
<1> SUFFICES ASSUME x + 1 <= y PROVE FALSE
  OBVIOUS
<1>1. c * y = c * x + c * (y - x)
  OBVIOUS
<1>2. c * (y - x) >= c
  BY SMT
<1>3. c * y <= d * y
  BY SMT
<1> QED BY <1>1, <1>2, <1>3

\* The more certain estimate weighs more.
LEMMA WeightOrder ==
    ASSUME NEW u \in Variances, NEW v \in Variances, u # Inf, v # Inf,
           Certainty(u) <= Certainty(v)
    PROVE  /\ Weight(v) <= Weight(u)
           /\ Certainty(u) = Certainty(v) => Weight(v) = Weight(u)
<1>1. PICK c, d, x, y : c = Certainty(u) /\ d = Certainty(v) /\ x = Weight(u) /\ y = Weight(v)
  OBVIOUS
<1>2. c \in Nat \ {0} /\ d \in Nat \ {0} /\ x \in Nat /\ y \in Nat /\ c * x = d * y
  BY <1>1, WeightOf
<1>3. y <= x
  BY <1>1, <1>2, Partners
<1>4. c = d => x <= y
  BY <1>2, Partners
<1> QED BY <1>1, <1>2, <1>3, <1>4

\* A mean with weights lies between the bounds of what it is taken of.
LEMMA MeanBounds ==
    ASSUME NEW w, Summable(w), NEW a, Summable(a), DOMAIN a = DOMAIN w,
           NEW p, p = [d \in DOMAIN w |-> w[d] * a[d]],
           \A d \in DOMAIN w : w[d] >= 0, NEW lo \in Int, NEW hi \in Int,
           \A d \in DOMAIN w : w[d] # 0 => lo <= a[d] /\ a[d] <= hi
    PROVE  /\ Summable(p)
           /\ lo * SumFunction(w) <= SumFunction(p) /\ SumFunction(p) <= hi * SumFunction(w)
<1>1. \A d \in DOMAIN w : w[d] \in Nat /\ a[d] \in Int /\ p[d] = w[d] * a[d]
  BY DEF Summable
<1>2. Summable(p) /\ DOMAIN p = DOMAIN w
  BY <1>1 DEF Summable
<1>3. \A x \in Nat, y \in Int, z \in Int : (x # 0 => y <= z) => x * y <= z * x
  BY SMT
<1>4. \A x \in Nat, y \in Int, z \in Int : (x # 0 => z <= y) => z * x <= x * y
  BY SMT
<1>5. PICK L : L = [d \in DOMAIN w |-> lo * w[d]]
  OBVIOUS
<1>6. PICK H : H = [d \in DOMAIN w |-> hi * w[d]]
  OBVIOUS
<1>7. Summable(L) /\ SumFunction(L) = lo * SumFunction(w)
  BY <1>5, SumScales
<1>8. Summable(H) /\ SumFunction(H) = hi * SumFunction(w)
  BY <1>6, SumScales
<1>9. \A d \in DOMAIN w : L[d] <= p[d] /\ p[d] <= H[d]
  BY <1>1, <1>3, <1>4, <1>5, <1>6
<1>10. SumFunction(L) <= SumFunction(p)
  BY <1>2, <1>5, <1>7, <1>9, SumMonotone
<1>11. SumFunction(p) <= SumFunction(H)
  BY <1>2, <1>6, <1>8, <1>9, SumMonotone
<1> QED BY <1>2, <1>7, <1>8, <1>10, <1>11

\* The fused position, spelled out.
Weights == [d \in DOMAIN states |-> Weight(states[d].variance)]
Places == [d \in DOMAIN states |-> states[d].position]
Moments == [d \in DOMAIN states |-> Weights[d] * Places[d]]

\* What the fused position and the centroid are.
LEMMA Fused ==
    ASSUME PoseInv
    PROVE  /\ Summable(Weights) /\ Summable(Places) /\ Summable(Moments)
           /\ \A d \in DOMAIN states : Weights[d] \in Nat /\ Places[d] \in Int
           /\ fused_position = IF DOMAIN states = {} THEN None
                               ELSE IF SumFunction(Weights) = 0 THEN NaN
                               ELSE Q(SumFunction(Moments), SumFunction(Weights))
           /\ swarm_centroid = IF DOMAIN states = {} THEN None
                               ELSE Q(SumFunction(Places), Cardinality(DOMAIN states))
<1>1. ASSUME NEW d \in DOMAIN states PROVE Weights[d] \in Nat /\ Places[d] \in Int
  <2>1. states[d].variance \in Variances /\ states[d].position \in Positions
    BY DEF PoseInv
  <2>2. Weight(states[d].variance) \in Nat
    BY <2>1, WeightOf
  <2> QED BY <2>1, <2>2, PoseAssumption DEF Weights, Places
<1>2. DOMAIN Weights = DOMAIN states /\ DOMAIN Places = DOMAIN states /\ DOMAIN Moments = DOMAIN states
  BY DEF Weights, Places, Moments
<1>3. \A x, y \in Int : x * y \in Int
  OBVIOUS
<1>4. \A d \in DOMAIN states : Moments[d] \in Int
  BY <1>1, <1>3 DEF Moments
<1>5. Summable(Weights) /\ Summable(Places) /\ Summable(Moments)
  BY <1>1, <1>2, <1>4 DEF Summable, PoseInv
<1>6. Moments = [d \in DOMAIN states |-> Weights[d] * states[d].position]
  BY DEF Moments, Places
<1> QED BY <1>1, <1>5, <1>6 DEF fused_position, swarm_centroid, drone_count, Weights, Places

\* Nobody who knows anything: no position.
LEMMA NobodyKnows ==
    ASSUME PoseInv, \A d \in DOMAIN states : states[d].variance = Inf
    PROVE  fused_position = IF DOMAIN states = {} THEN None ELSE NaN
<1>1. \A d \in DOMAIN states : Weights[d] = 0
  <2>1. ASSUME NEW d \in DOMAIN states PROVE Weights[d] = 0
    <3>1. states[d].variance \in Variances /\ states[d].variance = Inf
      BY DEF PoseInv
    <3> QED BY <3>1, WeightOf DEF Weights
  <2> QED BY <2>1
<1>2. SumFunction(Weights) = 0
  BY <1>1, Fused, SumOfZeros DEF Weights
<1> QED BY <1>2, Fused

\* An estimate weighs something when its variance is finite or wild.
LEMMA SomebodyKnows ==
    ASSUME PoseInv, NEW d \in DOMAIN states
    PROVE  /\ states[d].variance # Inf <=> Weights[d] # 0
           /\ states[d].variance # Inf =>
                 /\ SumFunction(Weights) \in Nat \ {0}
                 /\ fused_position = Q(SumFunction(Moments), SumFunction(Weights))
<1>1. states[d].variance \in Variances
  BY DEF PoseInv
<1>2. Weights[d] = Weight(states[d].variance) /\ Weights[d] \in Nat /\ d \in DOMAIN Weights
  BY Fused DEF Weights
<1>3. states[d].variance # Inf <=> Weights[d] # 0
  BY <1>1, <1>2, WeightOf
<1>4. \A e \in DOMAIN Weights : Weights[e] >= 0
  <2>1. DOMAIN Weights = DOMAIN states
    BY DEF Weights
  <2> QED BY <2>1, Fused
<1>5. SumFunction(Weights) \in Nat /\ Weights[d] <= SumFunction(Weights)
  BY <1>2, <1>4, Fused, SumOfNaturals
<1>6. Weights[d] # 0 => SumFunction(Weights) \in Nat \ {0}
  BY <1>2, <1>5
<1> QED BY <1>3, <1>6, Fused

\* The fused position lies between bounds of the positions known.
LEMMA Between ==
    ASSUME PoseInv, NEW e \in DOMAIN states, states[e].variance # Inf,
           NEW lo \in Int, NEW hi \in Int,
           \A d \in DOMAIN states :
               states[d].variance # Inf => lo <= states[d].position /\ states[d].position <= hi
    PROVE  /\ fused_position \in Fraction
           /\ Whole(lo) \preceq fused_position /\ fused_position \preceq Whole(hi)
<1>1. PICK n, d : n = SumFunction(Moments) /\ d = SumFunction(Weights)
  OBVIOUS
<1>2. d \in Nat \ {0} /\ fused_position = Q(n, d)
  BY <1>1, SomebodyKnows
<1>3. /\ Summable(Weights) /\ Summable(Places) /\ DOMAIN Places = DOMAIN Weights
      /\ Moments = [x \in DOMAIN Weights |-> Weights[x] * Places[x]]
      /\ \A x \in DOMAIN Weights : Weights[x] >= 0
  <2>1. DOMAIN Weights = DOMAIN states /\ DOMAIN Places = DOMAIN states
    BY DEF Weights, Places
  <2>2. Moments = [x \in DOMAIN Weights |-> Weights[x] * Places[x]]
    BY <2>1 DEF Moments
  <2> QED BY <2>1, <2>2, Fused
<1>4. \A x \in DOMAIN Weights : Weights[x] # 0 => lo <= Places[x] /\ Places[x] <= hi
  BY SomebodyKnows DEF Weights, Places
<1>5. Summable(Moments) /\ lo * d <= n /\ n <= hi * d
  BY <1>1, <1>3, <1>4, MeanBounds
<1>6. n \in Int
  BY <1>1, <1>5, SumMonotone DEF Summable
<1>7. Q(n, d) \in Fraction /\ lo * Q(n, d)[2] <= Q(n, d)[1] /\ Q(n, d)[1] <= hi * Q(n, d)[2]
  BY <1>2, <1>5, <1>6, QBounds, LowestTerms
<1>8. PICK x, y : x = Q(n, d)[1] /\ y = Q(n, d)[2]
  OBVIOUS
<1>9. x \in Int /\ y \in Nat
  BY <1>7, <1>8 DEF Fraction
<1>10. Q(n, d) \in Fraction /\ lo * y <= x * 1 /\ x * 1 <= hi * y
  BY <1>7, <1>8, <1>9
<1> QED BY <1>2, <1>8, <1>10 DEF Whole, \preceq

\* Of equally certain estimates the fused position is the mean.
LEMMA EquallyCertain ==
    ASSUME PoseInv, DOMAIN states # {},
           \A d, e \in DOMAIN states :
               states[d].variance # Inf
               /\ Certainty(states[d].variance) = Certainty(states[e].variance)
    PROVE  fused_position = swarm_centroid
<1>1. PICK e : e \in DOMAIN states
  OBVIOUS
<1>2. PICK w : w = Weights[e]
  OBVIOUS
<1>3. w \in Nat \ {0}
  <2>1. Weights[e] # 0 /\ Weights[e] \in Nat
    BY <1>1, SomebodyKnows, Fused
  <2> QED BY <1>2, <2>1
<1>4. \A d \in DOMAIN states : Weights[d] = w
  <2>1. ASSUME NEW d \in DOMAIN states PROVE Weights[d] = w
    <3>1. PICK u, v : u = states[d].variance /\ v = states[e].variance
      OBVIOUS
    <3>2. u \in Variances /\ v \in Variances
      BY <1>1, <3>1 DEF PoseInv
    <3>3. u # Inf /\ v # Inf /\ Certainty(u) = Certainty(v)
      BY <1>1, <3>1
    <3>4. Certainty(u) <= Certainty(v)
      BY <3>2, <3>3, WeightOf
    <3>5. Weight(v) = Weight(u)
      BY <3>2, <3>3, <3>4, WeightOrder
    <3> QED BY <1>1, <1>2, <3>1, <3>5 DEF Weights
  <2> QED BY <2>1
<1>5. PICK O : O = [d \in DOMAIN states |-> 1]
  OBVIOUS
<1>6. PICK C, S : C = Cardinality(DOMAIN states) /\ S = SumFunction(Places)
  OBVIOUS
<1>7. IsFiniteSet(DOMAIN states)
  BY DEF PoseInv
<1>8. C \in Nat \ {0}
  BY <1>1, <1>6, <1>7, FS_CardinalityType, FS_EmptySet
<1>9. Summable(O) /\ SumFunction(O) = C
  BY <1>5, <1>6, <1>7, SumOfOnes DEF Summable
<1>10. SumFunction(Weights) = w * C
  <2>1. DOMAIN Weights = DOMAIN O /\ \A d \in DOMAIN O : Weights[d] = w * O[d]
    BY <1>3, <1>4, <1>5 DEF Weights
  <2> QED BY <1>3, <1>9, <2>1, SumScales
<1>11. SumFunction(Moments) = w * S
  <2>1. DOMAIN Moments = DOMAIN Places /\ \A d \in DOMAIN Places : Moments[d] = w * Places[d]
    BY <1>4 DEF Moments, Places
  <2> QED BY <1>3, <1>6, <2>1, Fused, SumScales
<1>12. S \in Int
  BY <1>6, Fused, SumMonotone DEF Summable
<1>13. fused_position = Q(w * S, w * C)
  <2>1. states[e].variance # Inf
    BY <1>1
  <2> QED BY <1>1, <1>10, <1>11, <2>1, SomebodyKnows
<1>14. Q(w * S, w * C) = Q(S, C)
  BY <1>3, <1>8, <1>12, QScales
<1> QED BY <1>6, <1>13, <1>14, Fused

\* Twice a fraction.
LEMMA Doubled ==
    ASSUME NEW n \in Int, NEW d \in Nat \ {0}, NEW m \in Int
    PROVE  /\ 2 * n <= m * d => (Whole(2) (.) Q(n, d)) \preceq Whole(m)
           /\ m * d <= 2 * n => Whole(m) \preceq (Whole(2) (.) Q(n, d))
<1>1. PICK x, y : x = Q(n, d)[1] /\ y = Q(n, d)[2]
  OBVIOUS
<1>2. x \in Int /\ y \in Nat \ {0}
  BY <1>1, QBounds
<1>3. PICK g \in Nat \ {0} : n = g * x /\ d = g * y
  BY <1>1, LowestTerms
<1>4. 2 * n = g * (2 * x) /\ m * d = g * (m * y)
  BY <1>2, <1>3
<1>5. \A u, v \in Int : g * u <= g * v => u <= v
  BY <1>3
<1>6. 2 * x \in Int /\ m * y \in Int
  BY <1>2
<1>7. Whole(2) (.) Q(n, d) = Q(2 * x, y)
  <2>1. 1 * y = y
    BY <1>2
  <2> QED BY <1>1, <2>1 DEF Whole, (.)
<1>8. PICK u, v : u = Q(2 * x, y)[1] /\ v = Q(2 * x, y)[2]
  OBVIOUS
<1>9. /\ u \in Int /\ v \in Nat
      /\ 2 * x <= m * y => u <= m * v
      /\ m * y <= 2 * x => m * v <= u
  BY <1>2, <1>6, <1>8, QBounds
<1>10. 2 * n <= m * d => u * 1 <= m * v
  BY <1>4, <1>5, <1>6, <1>9
<1>11. m * d <= 2 * n => m * v <= u * 1
  BY <1>4, <1>5, <1>6, <1>9
<1> QED BY <1>7, <1>8, <1>10, <1>11 DEF Whole, \preceq

\* The mean of two is on the side of the one that weighs more.
LEMMA Nearer ==
    ASSUME NEW w \in Nat, NEW v \in Nat, v <= w, NEW a \in Int, NEW b \in Int
    PROVE  /\ a <= b => 2 * (w * a + v * b) <= (a + b) * (w + v)
           /\ a >= b => (a + b) * (w + v) <= 2 * (w * a + v * b)
<1>1. (a + b) * (w + v) - 2 * (w * a + v * b) = (w - v) * (b - a)
  OBVIOUS
<1>2. PICK k, c : k = w - v /\ c = b - a
  OBVIOUS
<1>3. k \in Nat /\ c \in Int
  BY <1>2
<1>4. (c >= 0 => k * c >= 0) /\ (c <= 0 => k * c <= 0) /\ k * c \in Int
  BY <1>3
<1>5. PICK s, t : s = (a + b) * (w + v) /\ t = 2 * (w * a + v * b)
  OBVIOUS
<1>6. s \in Int /\ t \in Int /\ s - t = k * c
  BY <1>1, <1>2, <1>5
<1>7. a <= b => t <= s
  BY <1>2, <1>4, <1>6
<1>8. a >= b => s <= t
  BY <1>2, <1>4, <1>6
<1> QED BY <1>5, <1>7, <1>8

\* Of two drones that know anything, the fused position is at least as near to
\* the more certain one.
LEMMA TwoDrones ==
    ASSUME PoseInv, NEW y \in DOMAIN states, NEW z \in DOMAIN states,
           {d \in DOMAIN states : states[d].variance # Inf} = {y, z},
           Certainty(states[y].variance) <= Certainty(states[z].variance)
    PROVE  LET a == states[y].position
               b == states[z].position
           IN  /\ a <= b => (Whole(2) (.) fused_position) \preceq Whole(a + b)
               /\ a >= b => Whole(a + b) \preceq (Whole(2) (.) fused_position)
<1>1. PICK a, b, w, v : /\ a = Places[y] /\ b = Places[z]
                        /\ w = Weights[y] /\ v = Weights[z]
  OBVIOUS
<1>2. a \in Int /\ b \in Int /\ w \in Nat \ {0} /\ v \in Nat \ {0}
  <2>1. states[y].variance # Inf /\ states[z].variance # Inf
    OBVIOUS
  <2>2. Weights[y] # 0 /\ Weights[z] # 0
    BY <2>1, SomebodyKnows
  <2> QED BY <1>1, <2>2, Fused
<1>3. v <= w
  <2>1. PICK p, q : p = states[y].variance /\ q = states[z].variance
    OBVIOUS
  <2>2. p \in Variances /\ q \in Variances /\ p # Inf /\ q # Inf
    BY <2>1 DEF PoseInv
  <2>3. Weight(q) <= Weight(p)
    BY <2>1, <2>2, WeightOrder
  <2> QED BY <1>1, <2>1, <2>3 DEF Weights
<1>4. \A d \in DOMAIN states : d \notin {y, z} => Weights[d] = 0 /\ Moments[d] = 0
  <2>1. ASSUME NEW d \in DOMAIN states, d \notin {y, z} PROVE Weights[d] = 0 /\ Moments[d] = 0
    <3>1. states[d].variance = Inf
      BY <2>1
    <3>2. Weights[d] = 0 /\ Places[d] \in Int
      BY <3>1, SomebodyKnows, Fused
    <3> QED BY <3>2 DEF Moments
  <2> QED BY <2>1
<1>5. Moments[y] = w * a /\ Moments[z] = v * b
  BY <1>1 DEF Moments
<1>6. DOMAIN Weights = DOMAIN states /\ DOMAIN Moments = DOMAIN states
  BY DEF Weights, Moments
<1>7. SumFunction(Weights) = IF y = z THEN w ELSE w + v
  BY <1>1, <1>4, <1>6, Fused, SumOfTwo
<1>8. SumFunction(Moments) = IF y = z THEN w * a ELSE w * a + v * b
  BY <1>4, <1>5, <1>6, Fused, SumOfTwo
<1>9. PICK n, d : n = SumFunction(Moments) /\ d = SumFunction(Weights)
  OBVIOUS
<1>10. n \in Int /\ d \in Nat \ {0}
  <2>1. w * a \in Int /\ v * b \in Int
    BY <1>2
  <2> QED BY <1>2, <1>7, <1>8, <1>9, <2>1
<1>11. fused_position = Q(n, d)
  <2>1. states[y].variance # Inf
    OBVIOUS
  <2> QED BY <1>9, <2>1, SomebodyKnows
<1>12. /\ a <= b => 2 * n <= (a + b) * d
       /\ a >= b => (a + b) * d <= 2 * n
  <2>1. CASE y = z
    <3>1. a = b /\ n = w * a /\ d = w
      BY <1>1, <1>7, <1>8, <1>9, <2>1
    <3>2. 2 * (w * a) = (a + a) * w
      BY <1>2
    <3>3. (a + a) * w \in Int
      BY <1>2
    <3> QED BY <3>1, <3>2, <3>3
  <2>2. CASE y # z
    <3>1. n = w * a + v * b /\ d = w + v
      BY <1>7, <1>8, <1>9, <2>2
    <3> QED BY <1>2, <1>3, <3>1, Nearer
  <2> QED BY <2>1, <2>2
<1>13. /\ a <= b => (Whole(2) (.) Q(n, d)) \preceq Whole(a + b)
       /\ a >= b => Whole(a + b) \preceq (Whole(2) (.) Q(n, d))
  <2>1. a + b \in Int
    BY <1>2
  <2> QED BY <1>10, <1>12, <2>1, Doubled
<1>14. a = states[y].position /\ b = states[z].position
  BY <1>1 DEF Places
<1> QED BY <1>11, <1>13, <1>14

\* FusionIsBounded holds of every finite set of estimates.
LEMMA FusionHolds ==
    ASSUME PoseInv PROVE FusionIsBounded
<1> DEFINE known == {d \in DOMAIN states : states[d].variance # Inf}
           at(d) == states[d].position
           rank(d) == Certainty(states[d].variance)
           P == {at(d) : d \in known}
<1>1. CASE known = {}
  <2>1. \A d \in DOMAIN states : states[d].variance = Inf
    BY <1>1
  <2>2. fused_position = IF DOMAIN states = {} THEN None ELSE NaN
    BY <2>1, NobodyKnows
  <2> QED BY <1>1, <2>2 DEF FusionIsBounded
<1>2. CASE known # {}
  <2>1. PICK e \in known : TRUE
    BY <1>2
  <2>2. PICK F : F = [d \in known |-> Places[d]]
    OBVIOUS
  <2>3. \A d \in known : d \in DOMAIN states /\ Places[d] = at(d) /\ at(d) \in Int
    BY Fused DEF Places
  <2>4. Summable(F) /\ DOMAIN F = known
    <3>1. IsFiniteSet(known)
      BY FS_Subset DEF PoseInv
    <3> HIDE DEF known
    <3> QED BY <2>2, <2>3, <3>1 DEF Summable
  <2>5. P = {F[d] : d \in DOMAIN F}
    <3>1. \A d \in known : F[d] = at(d)
      BY <2>2, <2>3
    <3> HIDE DEF known, at
    <3> QED BY <2>4, <3>1
  <2>6. PICK lo, hi : lo = Min(P) /\ hi = Max(P)
    OBVIOUS
  <2>7. lo \in P /\ hi \in P /\ \A p \in P : lo <= p /\ p <= hi
    <3> HIDE DEF known, P
    <3> QED BY <1>2, <2>4, <2>5, <2>6, MinMax
  <2>8. lo \in Int /\ hi \in Int
    BY <2>3, <2>7
  <2>9. \A d \in DOMAIN states :
            states[d].variance # Inf => lo <= states[d].position /\ states[d].position <= hi
    BY <2>7
  <2>10. /\ fused_position \in Fraction
         /\ Whole(lo) \preceq fused_position /\ fused_position \preceq Whole(hi)
    BY <2>1, <2>8, <2>9, Between
  <2>11. fused_position # NaN
    BY <2>10, PoseAssumption DEF Fraction
  <2>12. (\A d, e2 \in DOMAIN states : d \in known /\ rank(d) = rank(e2))
             => fused_position = swarm_centroid
    BY <2>1, EquallyCertain
  <2>13. ASSUME NEW y \in DOMAIN states, NEW z \in DOMAIN states,
                known = {y, z}, rank(y) <= rank(z)
         PROVE  /\ at(y) <= at(z) => (Whole(2) (.) fused_position) \preceq Whole(at(y) + at(z))
                /\ at(y) >= at(z) => Whole(at(y) + at(z)) \preceq (Whole(2) (.) fused_position)
    BY <2>13, TwoDrones
  <2>14. /\ \A d, u \in DOMAIN states :
                known = {d, u} /\ rank(d) <= rank(u) /\ at(d) <= at(u)
                    => (Whole(2) (.) fused_position) \preceq Whole(at(d) + at(u))
         /\ \A d, u \in DOMAIN states :
                known = {d, u} /\ rank(d) <= rank(u) /\ at(d) >= at(u)
                    => Whole(at(d) + at(u)) \preceq (Whole(2) (.) fused_position)
    BY <2>13
  <2>15. \E l, h : l = Min(P) /\ h = Max(P) /\ Whole(l) \preceq fused_position /\ fused_position \preceq Whole(h)
    BY <2>6, <2>10
  <2> QED BY <1>2, <2>11, <2>12, <2>14, <2>15 DEF FusionIsBounded
<1> QED BY <1>1, <1>2

\* The pose filter steps through finitely many estimates.
LEMMA PoseInvIsInductive ==
    /\ PoseInit => PoseInv
    /\ PoseInv /\ PoseNext => PoseInv'
<1>1. ASSUME PoseInit PROVE PoseInv
  <2>1. DOMAIN states = {}
    BY <1>1 DEF PoseInit
  <2> QED BY <2>1, FS_EmptySet DEF PoseInv
<1>2. ASSUME PoseInv, PoseNext PROVE PoseInv'
  <2>1. PICK drone \in Drones, p \in Positions, v \in Variances : update(drone, p, v)
    BY <1>2 DEF PoseNext
  <2>2. DOMAIN states' = DOMAIN states \cup {drone}
    BY <2>1 DEF update
  <2>3. IsFiniteSet(DOMAIN states')
    BY <1>2, <2>2, FS_AddElement DEF PoseInv
  <2>4. \A d \in DOMAIN states' : states'[d] \in [position : Positions, variance : Variances]
    BY <1>2, <2>1, <2>2 DEF update, PoseInv
  <2> QED BY <2>3, <2>4 DEF PoseInv
<1> QED BY <1>1, <1>2

\* The fused position is bounded, for all drones, positions and variances.
THEOREM FusionAlwaysBounded == NumericsSpec => []FusionIsBounded
<1>1. NumericsInit => PoseInv
  BY PoseInvIsInductive DEF NumericsInit
<1>2. PoseInv /\ [NumericsNext]_numericsVars => PoseInv'
  <2>1. ASSUME PoseInv, states' = states PROVE PoseInv'
    BY <2>1 DEF PoseInv
  <2> QED BY <2>1, PoseInvIsInductive DEF NumericsNext, numericsVars
<1>3. PoseInv => FusionIsBounded
  BY FusionHolds
<1> QED BY <1>1, <1>2, <1>3, PTL DEF NumericsSpec
------------------------------------------------------------------------------
(* The network. *)

\* Quantizing rounds a fraction that is not negative to the nearest byte.
LEMMA QuantizeRounds ==
    ASSUME NEW n \in Int, n >= 0, NEW d \in Nat \ {0}
    PROVE  HalfStep(Quantize(<<n, d>>), <<n, d>>)
<1>1. PICK N, D, k, r : N = 2 * n + d /\ D = 2 * d /\ k = N \div D /\ r = N % D
  OBVIOUS
<1>2. N \in Nat /\ D \in Nat \ {0}
  BY <1>1
<1>3. k \in Int /\ r \in 0 .. D - 1 /\ N = D * k + r
  <2>1. N \in Int /\ N = D * k + r
    <3>1. N \in Int /\ N = D * (N \div D) + (N % D)
      <4>1. N \in Int
        BY <1>2
      <4> QED BY <1>2, <4>1, DivMod
    <3> QED BY <1>1, <3>1
  <2>2. k \in Int /\ r \in 0 .. D - 1
    BY <1>1, <1>2, DivMod
  <2> QED BY <2>1, <2>2
<1>4. k >= 0
  <2>1. SUFFICES ASSUME k + 1 <= 0 PROVE FALSE
    BY <1>3
  <2>2. D * (k + 1) <= 0
    BY <1>2, <1>3, <2>1
  <2>3. D * (k + 1) = D * k + D
    BY <1>2, <1>3
  <2> QED BY <1>2, <1>3, <2>2, <2>3
<1>5. PICK m : m = k * d
  OBVIOUS
<1>6. m \in Int /\ D * k = 2 * m
  <2>1. (2 * d) * k = 2 * (k * d) /\ k * d \in Int
    BY <1>3
  <2> QED BY <1>1, <1>5, <2>1
<1>7. 2 * (m - n) <= d /\ 2 * (n - m) < d
  BY <1>1, <1>3, <1>6
<1>8. Lround(<<n, d>>) = k
  BY <1>1 DEF Lround
<1>9. Quantize(<<n, d>>) = IF 127 <= k - 128 THEN 127 ELSE k - 128
  <2>1. Min({127, k - 128}) = IF 127 <= k - 128 THEN 127 ELSE k - 128
    BY <1>3, MinMaxOfTwo
  <2>2. PICK u : u = IF 127 <= k - 128 THEN 127 ELSE k - 128
    OBVIOUS
  <2>3. u \in Int /\ -128 <= u
    BY <1>3, <1>4, <2>2
  <2>4. Max({-128, u}) = u
    BY <2>3, MinMaxOfTwo
  <2>5. k + (-128) = k - 128
    BY <1>3
  <2> QED BY <1>8, <2>1, <2>2, <2>4, <2>5 DEF Quantize, ZeroPoint
<1>10. PICK q, off : q = Quantize(<<n, d>>) /\ off = 2 * ((q - (-128)) * d - n)
  OBVIOUS
<1>11. CASE 127 <= k - 128
  <2>1. q = 127
    BY <1>9, <1>10, <1>11
  <2>2. off = 2 * (255 * d - n)
    BY <1>10, <2>1
  <2>3. 255 * d <= m
    BY <1>3, <1>5, <1>11
  <2>4. q \in -128 .. 127 /\ off <= d /\ ~(q < 127)
    BY <1>6, <1>7, <2>1, <2>2, <2>3
  <2> QED BY <1>10, <2>4 DEF HalfStep, ZeroPoint
<1>12. CASE ~(127 <= k - 128)
  <2>1. q = k - 128 /\ q \in -128 .. 127
    BY <1>3, <1>4, <1>9, <1>10, <1>12
  <2>2. (q - (-128)) * d = m
    <3>1. q - (-128) = k
      BY <1>3, <2>1
    <3> QED BY <1>5, <3>1
  <2>3. off <= d /\ -off <= d
    BY <1>6, <1>7, <1>10, <2>2
  <2> QED BY <1>10, <2>1, <2>3 DEF HalfStep, ZeroPoint
<1> QED BY <1>11, <1>12

\* A fraction over a positive one is one with the same sign.
LEMMA OverPositive ==
    ASSUME NEW p \in Fraction, p[1] >= 0, NEW q \in Fraction, q[1] > 0
    PROVE  p (/) q \in Fraction /\ (p (/) q)[1] >= 0
<1>1. PICK n, d : n = p[1] * q[2] /\ d = p[2] * q[1]
  OBVIOUS
<1>2. p[1] \in Nat /\ p[2] \in Nat \ {0} /\ q[1] \in Nat \ {0} /\ q[2] \in Nat \ {0}
  BY DEF Fraction
<1>3. n \in Nat /\ d \in Nat \ {0}
  BY <1>1, <1>2
<1>4. PICK f : f = Q(n, d)
  OBVIOUS
<1>5. f \in Fraction /\ 0 * f[2] <= f[1] /\ f[2] \in Nat
  <2>1. 0 * d <= n
    BY <1>3
  <2> QED BY <1>3, <1>4, <2>1, LowestTerms, QBounds
<1> QED BY <1>1, <1>4, <1>5 DEF (/)

\* What a layer is given.
IsActivation(x, layer) == x \in Seq(Int) /\ Len(x) > 0 /\ Fits(Len(x), layer)

\* Where the weight of input i for output j is stored.
LEMMA WeightAt ==
    ASSUME NEW layer, IsLayer(layer), NEW x, IsActivation(x, layer),
           NEW i \in DOMAIN x, NEW j \in DOMAIN layer.bias
    PROVE  /\ (i - 1) * Len(layer.bias) + j \in DOMAIN layer.weights
           /\ layer.weights[(i - 1) * Len(layer.bias) + j] \in Int
           /\ Matrix(layer, Len(x))[i][j] = layer.weights[(i - 1) * Len(layer.bias) + j]
<1>1. PICK n, w, W : n = Len(x) /\ w = Len(layer.bias) /\ W = layer.weights
  OBVIOUS
<1>2. n \in Nat \ {0} /\ w \in Nat /\ W \in Seq(Int) /\ Len(W) = n * w
  BY <1>1 DEF IsActivation, IsLayer, Fits
<1>3. i \in 1 .. n /\ j \in 1 .. w
  BY <1>1 DEF IsActivation, IsLayer
<1>4. Len(W) \div n = w
  <2>1. n * w \in Int /\ n * w = n * w + 0 /\ 0 \in 0 .. n - 1
    BY <1>2
  <2>2. (n * w) \div n = w
    BY <1>2, <2>1, DivModUnique
  <2> QED BY <1>2, <2>2
<1>5. PICK b : b = (i - 1) * w
  OBVIOUS
<1>6. b \in Nat /\ i * w = b + w /\ b + w <= n * w
  <2>1. (i - 1) * w >= 0 /\ (i - 1) * w \in Int
    BY <1>2, <1>3, SMT
  <2>2. i * w = (i - 1) * w + w
    BY <1>2, <1>3
  <2>3. n * w = i * w + (n - i) * w
    BY <1>2, <1>3
  <2>4. (n - i) * w >= 0
    BY <1>2, <1>3, SMT
  <2>5. i * w \in Int /\ (n - i) * w \in Int
    BY <1>2, <1>3
  <2> QED BY <1>5, <2>1, <2>2, <2>3, <2>4, <2>5
<1>7. b + j \in 1 .. Len(W)
  <2>1. b + w <= Len(W) /\ Len(W) \in Int
    BY <1>2, <1>6
  <2> QED BY <1>2, <1>3, <1>6, <2>1
<1>8. W[b + j] \in Int
  BY <1>2, <1>7
<1>9. Matrix(layer, n)[i] = SubSeq(W, b + 1, b + w)
  BY <1>1, <1>3, <1>4, <1>5, <1>6 DEF Matrix
<1>10. SubSeq(W, b + 1, b + w)[j] = W[b + j]
  <2>1. PICK p, q : p = b + 1 /\ q = b + w
    OBVIOUS
  <2>2. p \in Nat \ {0} /\ q \in Nat /\ q <= Len(W) /\ j \in 1 .. q - p + 1
    BY <1>2, <1>3, <1>6, <2>1
  <2>3. SubSeq(W, p, q)[j] = W[p + j - 1]
    BY <1>2, <2>2, SMTT(30)
  <2>4. p + j - 1 = b + j
    BY <1>3, <1>6, <2>1
  <2> QED BY <2>1, <2>3, <2>4
<1>11. b + j \in DOMAIN W
  BY <1>2, <1>7
<1> QED BY <1>1, <1>5, <1>8, <1>9, <1>10, <1>11

\* The accumulator is the network's sum.
LEMMA AccumulatorIs ==
    ASSUME NEW layer, IsLayer(layer), NEW x, IsActivation(x, layer), NEW j \in DOMAIN layer.bias
    PROVE  /\ Accumulator(x, layer, j) \in Int
           /\ Exact(x, layer)[j] = <<IF Accumulator(x, layer, j) > 0
                                     THEN Accumulator(x, layer, j) * layer.step[1] ELSE 0,
                                     layer.step[2]>>
<1>1. PICK F : F = [i \in DOMAIN x |-> (x[i] - ZeroPoint) * layer.weights[(i - 1) * Len(layer.bias) + j]]
  OBVIOUS
<1>2. PICK G : G = [i \in DOMAIN x |-> Matrix(layer, Len(x))[i][j] * (x[i] + 128)]
  OBVIOUS
<1>3. ASSUME NEW i \in DOMAIN x PROVE F[i] \in Int /\ F[i] = G[i]
  <2>1. PICK u, v : u = layer.weights[(i - 1) * Len(layer.bias) + j] /\ v = x[i]
    OBVIOUS
  <2>2. u \in Int /\ v \in Int /\ Matrix(layer, Len(x))[i][j] = u
    BY <2>1, WeightAt DEF IsActivation
  <2>3. F[i] = (v - (-128)) * u /\ G[i] = u * (v + 128)
    BY <1>1, <1>2, <2>1, <2>2 DEF ZeroPoint
  <2>4. (v - (-128)) * u = u * (v + 128) /\ u * (v + 128) \in Int
    BY <2>2
  <2> QED BY <2>3, <2>4
<1>4. F = G
  BY <1>1, <1>2, <1>3
<1>5. IsFiniteSet(DOMAIN x)
  <2>1. DOMAIN x = 1 .. Len(x) /\ Len(x) \in Nat
    BY DEF IsActivation
  <2> QED BY <2>1, FS_Interval
<1>6. Summable(F)
  BY <1>1, <1>3, <1>5 DEF Summable
<1>7. SumFunction(F) \in Int
  BY <1>6, SumMonotone DEF Summable
<1>8. PICK s, c : s = SumFunction(F) /\ c = layer.bias[j]
  OBVIOUS
<1>9. s \in Int /\ c \in Int /\ c + s = s + c
  BY <1>7, <1>8 DEF IsLayer
<1>10. Accumulator(x, layer, j) = c + s
  BY <1>1, <1>8 DEF Accumulator
<1>11. Exact(x, layer)[j] = <<IF s + c > 0 THEN (s + c) * layer.step[1] ELSE 0, layer.step[2]>>
  BY <1>2, <1>4, <1>8 DEF Exact
<1> QED BY <1>9, <1>10, <1>11

\* A byte is a number.
LEMMA StepIsWhole == ASSUME NEW q, NEW e, HalfStep(q, e) PROVE q \in Int
<1>1. q \in -128 .. 127
  BY Zenon DEF HalfStep
<1> QED BY <1>1

\* A hidden layer is exact to half a step, and what the next one is given.
LEMMA LayerIsExact ==
    ASSUME NEW layer, IsLayer(layer), NEW x, IsActivation(x, layer)
    PROVE  /\ DenseLayer(x, layer) \in Seq(Int) /\ Len(DenseLayer(x, layer)) = Len(layer.bias)
           /\ DOMAIN DenseLayer(x, layer) = DOMAIN layer.bias
           /\ \A j \in DOMAIN layer.bias : HalfStep(DenseLayer(x, layer)[j], Exact(x, layer)[j])
<1>1. ASSUME NEW j \in DOMAIN layer.bias
      PROVE  DenseLayer(x, layer)[j] \in Int /\ HalfStep(DenseLayer(x, layer)[j], Exact(x, layer)[j])
  <2>1. PICK a, n, d : a = Accumulator(x, layer, j) /\ n = layer.step[1] /\ d = layer.step[2]
    OBVIOUS
  <2>2. a \in Int /\ n \in Nat \ {0} /\ d \in Nat \ {0}
    BY <2>1, AccumulatorIs DEF IsLayer, Fraction
  <2>3. PICK m : m = IF a > 0 THEN a * n ELSE 0
    OBVIOUS
  <2>4. m \in Int /\ m >= 0
    <3>1. CASE a > 0
      <4>1. a * n \in Int /\ a * n >= 0
        BY <2>2, <3>1, SMT
      <4> QED BY <2>3, <3>1, <4>1
    <3>2. CASE ~(a > 0)
      BY <2>3, <3>2
    <3> QED BY <3>1, <3>2
  <2>5. Max({0, a}) * n = m
    <3>1. Max({0, a}) = IF a > 0 THEN a ELSE 0
      BY <2>2, MinMaxOfTwo
    <3>2. 0 * n = 0
      BY <2>2
    <3> QED BY <2>3, <3>1, <3>2
  <2>6. DenseLayer(x, layer)[j] = Quantize(<<m, d>>)
    BY <2>1, <2>5 DEF DenseLayer
  <2>7. Exact(x, layer)[j] = <<m, d>>
    BY <2>1, <2>3, AccumulatorIs
  <2>8. HalfStep(Quantize(<<m, d>>), <<m, d>>)
    BY <2>2, <2>4, QuantizeRounds
  <2>9. Quantize(<<m, d>>) \in Int
    BY <2>8, StepIsWhole
  <2> QED BY <2>6, <2>7, <2>8, <2>9
<1>2. PICK h : h = DenseLayer(x, layer)
  OBVIOUS
<1>3. /\ DOMAIN h = DOMAIN layer.bias /\ DOMAIN layer.bias = 1 .. Len(layer.bias)
      /\ Len(layer.bias) \in Nat /\ h = [j \in 1 .. Len(layer.bias) |-> h[j]]
  BY <1>2 DEF DenseLayer, IsLayer
<1>4. \A j \in 1 .. Len(layer.bias) : h[j] \in Int
  BY <1>1, <1>2, <1>3
<1>5. h \in Seq(Int) /\ Len(h) = Len(layer.bias)
  BY <1>3, <1>4
<1> QED BY <1>1, <1>2, <1>3, <1>5

\* Every layer is exact to half a step, for every network and scan.
LEMMA LayersHold ==
    ASSUME NEW beams, IsScan(beams)
    PROVE  LayersAreHalfStepExact(beams)
<1> USE InferenceAssumption
<1>1. PICK x0 : x0 = [i \in DOMAIN beams |-> Quantize(beams[i] (/) InputScale)]
  OBVIOUS
<1>2. ASSUME NEW i \in DOMAIN beams
      PROVE  x0[i] \in Int /\ HalfStep(x0[i], beams[i] (/) InputScale)
  <2>1. beams[i] \in Fraction /\ beams[i][1] >= 0
    BY DEF IsScan
  <2>2. PICK f : f = beams[i] (/) InputScale
    OBVIOUS
  <2>3. f \in Fraction /\ f[1] >= 0
    BY <2>1, <2>2, OverPositive
  <2>4. f = <<f[1], f[2]>> /\ f[1] \in Int /\ f[2] \in Nat \ {0}
    BY <2>3 DEF Fraction
  <2>5. HalfStep(Quantize(f), f)
    BY <2>3, <2>4, QuantizeRounds
  <2>6. x0[i] = Quantize(f)
    BY <1>1, <2>2
  <2>7. Quantize(f) \in Int
    BY <2>5, StepIsWhole
  <2> QED BY <2>2, <2>5, <2>6, <2>7
<1>3. DOMAIN beams = 1 .. Len(beams) /\ Len(beams) \in Nat /\ Len(beams) > 0
  BY DEF IsScan
<1>4. x0 \in Seq(Int) /\ Len(x0) = Len(beams)
  <2>1. DOMAIN x0 = 1 .. Len(beams) /\ x0 = [i \in 1 .. Len(beams) |-> x0[i]]
    BY <1>1, <1>3
  <2>2. \A i \in 1 .. Len(beams) : x0[i] \in Int
    BY <1>2, <1>3
  <2> QED BY <1>3, <2>1, <2>2
<1>5. IsLayer(Layers[1]) /\ IsActivation(x0, Layers[1])
  BY <1>3, <1>4 DEF IsScan, IsActivation
<1>6. PICK x1 : x1 = DenseLayer(x0, Layers[1])
  OBVIOUS
<1>7. /\ x1 \in Seq(Int) /\ Len(x1) = Len(Layers[1].bias) /\ DOMAIN x1 = DOMAIN Layers[1].bias
      /\ \A j \in DOMAIN x1 : HalfStep(x1[j], Exact(x0, Layers[1])[j])
  BY <1>5, <1>6, LayerIsExact
<1>8. IsLayer(Layers[2]) /\ IsActivation(x1, Layers[2])
  <2>1. 2 - 1 = 1 /\ 2 \in 2 .. 3 /\ 2 \in 1 .. 3
    OBVIOUS
  <2>2. Len(Layers[1].bias) > 0 /\ Fits(Len(Layers[1].bias), Layers[2]) /\ IsLayer(Layers[2])
    BY <2>1
  <2> QED BY <1>7, <2>2 DEF IsActivation
<1>9. PICK x2 : x2 = DenseLayer(x1, Layers[2])
  OBVIOUS
<1>10. /\ DOMAIN x2 = DOMAIN Layers[2].bias
       /\ \A j \in DOMAIN x2 : HalfStep(x2[j], Exact(x1, Layers[2])[j])
  BY <1>8, <1>9, LayerIsExact
<1>11. /\ run(beams).input_q = x0 /\ run(beams).hidden1_q = x1 /\ run(beams).hidden2_q = x2
  BY <1>1, <1>6, <1>9 DEF run
<1> QED BY <1>2, <1>7, <1>10, <1>11 DEF LayersAreHalfStepExact

THEOREM LayersAlwaysExact == NumericsSpec => []LayersAreExact
<1>1. input \in Inputs => LayersAreExact
  <2>1. ASSUME input \in Inputs, input.kind = "scan" PROVE IsScan(input.beams)
    BY <2>1, NumericsAssumption DEF Inputs
  <2> QED BY <2>1, LayersHold DEF LayersAreExact
<1> QED BY <1>1, InputStays, PTL DEF NumericsSpec

\* One product of the inner loop.
LEMMA ByteProduct ==
    ASSUME NEW a \in 0 .. 255, NEW b \in -128 .. 127
    PROVE  a * b \in Int /\ -32640 <= a * b /\ a * b <= 32640
<1>1. a \in Nat /\ a <= 255 /\ b \in Int /\ b + 128 \in Nat /\ 127 - b \in Nat
  OBVIOUS
<1>2. a * (b + 128) \in Nat /\ a * (127 - b) \in Nat
  BY <1>1, SMT
<1>3. a * (b + 128) = a * b + 128 * a /\ a * (127 - b) = 127 * a - a * b /\ a * b \in Int
  BY <1>1
<1> QED BY <1>1, <1>2, <1>3

\* A sum of k numbers none of which is further from 0 than m.
LEMMA SumWithin ==
    ASSUME NEW k \in Nat, NEW m \in Nat, NEW F, F \in [1 .. k -> Int],
           \A i \in 1 .. k : -m <= F[i] /\ F[i] <= m
    PROVE  SumFunction(F) \in Int /\ (-m) * k <= SumFunction(F) /\ SumFunction(F) <= m * k
<1>1. PICK O, L, U : /\ O = [i \in 1 .. k |-> 1]
                     /\ L = [i \in 1 .. k |-> -m]
                     /\ U = [i \in 1 .. k |-> m]
  OBVIOUS
<1>2. /\ DOMAIN F = 1 .. k /\ DOMAIN O = 1 .. k /\ DOMAIN L = 1 .. k /\ DOMAIN U = 1 .. k
      /\ IsFiniteSet(1 .. k) /\ Cardinality(1 .. k) = k /\ -m \in Int /\ m \in Int
      /\ \A i \in 1 .. k : F[i] \in Int /\ O[i] = 1 /\ L[i] = -m /\ U[i] = m
  BY <1>1, FS_Interval
<1>3. Summable(F) /\ Summable(O)
  BY <1>2 DEF Summable
<1>4. SumFunction(O) = k
  BY <1>2, SumOfOnes
<1>5. Summable(L) /\ SumFunction(L) = (-m) * k
  <2>1. \A i \in DOMAIN O : L[i] = (-m) * O[i]
    BY <1>2
  <2> QED BY <1>2, <1>3, <1>4, <2>1, SumScales
<1>6. Summable(U) /\ SumFunction(U) = m * k
  <2>1. \A i \in DOMAIN O : U[i] = m * O[i]
    BY <1>2
  <2>2. Summable(U) /\ SumFunction(U) = m * SumFunction(O)
    BY ONLY <1>2, <1>3, <2>1, SumScales
  <2> QED BY <1>4, <2>2
<1>7. SumFunction(F) \in Int /\ SumFunction(L) <= SumFunction(F)
  BY <1>2, <1>3, <1>5, SumMonotone
<1>8. SumFunction(F) <= SumFunction(U)
  BY <1>2, <1>3, <1>6, SumMonotone
<1> QED BY <1>5, <1>6, <1>7, <1>8

\* What the arrays of int8_t hold; what the loop adds at step i, and at most
\* (255 * 128); its sum after k steps.
AreBytes(s) == \A i \in DOMAIN s : s[i] \in -128 .. 127
Term(x, layer, j, i) == (x[i] - ZeroPoint) * layer.weights[(i - 1) * Len(layer.bias) + j]
GreatestTerm == 32640
Partial(x, layer, j, k) == Accumulator(SubSeq(x, 1, k), layer, j)

LEMMA TermWithin ==
    ASSUME NEW layer, IsLayer(layer), NEW x, IsActivation(x, layer), NEW j \in DOMAIN layer.bias,
           AreBytes(x), AreBytes(layer.weights), NEW i \in DOMAIN x
    PROVE  /\ Term(x, layer, j, i) \in Int
           /\ -GreatestTerm <= Term(x, layer, j, i) /\ Term(x, layer, j, i) <= GreatestTerm
<1>1. PICK u, v : u = layer.weights[(i - 1) * Len(layer.bias) + j] /\ v = x[i]
  OBVIOUS
<1>2. (i - 1) * Len(layer.bias) + j \in DOMAIN layer.weights
  BY WeightAt
<1>3. u \in -128 .. 127 /\ v \in -128 .. 127
  BY <1>1, <1>2 DEF AreBytes
<1>4. v - ZeroPoint \in 0 .. 255
  BY ONLY <1>3 DEF ZeroPoint
<1>5. (v - ZeroPoint) * u \in Int /\ -32640 <= (v - ZeroPoint) * u /\ (v - ZeroPoint) * u <= 32640
  BY ONLY <1>3, <1>4, ByteProduct
<1> QED BY <1>1, <1>5 DEF Term, GreatestTerm

\* The int32_t accumulator never wraps, neither at the end of the inner loop
\* nor after any k of its steps, as long as 255 * 128 for each input and the
\* greatest bias stay below the limit, 2^31: the network's layers have 16 inputs
\* at most and biases below 4000, which is far away from it. So Accumulator may
\* be an integer without width (inference_engine.h:112-116).
THEOREM AccumulatorFits ==
    ASSUME NEW layer, IsLayer(layer), NEW x, IsActivation(x, layer), NEW j \in DOMAIN layer.bias,
           AreBytes(x), AreBytes(layer.weights),
           NEW most \in Nat, layer.bias[j] \in -most .. most,
           NEW limit \in Nat, GreatestTerm * Len(x) + most < limit, NEW k \in 0 .. Len(x)
    PROVE  Partial(x, layer, j, k) \in -limit .. limit - 1
<1>1. /\ \A i \in 1 .. k : i \in DOMAIN x /\ SubSeq(x, 1, k)[i] = x[i]
      /\ DOMAIN SubSeq(x, 1, k) = 1 .. k /\ k \in Nat /\ k <= Len(x) /\ Len(x) \in Nat
  <2>1. x \in Seq(Int) /\ k \in 0 .. Len(x)
    BY DEF IsActivation
  <2> QED BY ONLY <2>1
<1> DEFINE F == [i \in 1 .. k |-> Term(x, layer, j, i)]
           s == SumFunction(F)
           g == GreatestTerm
<1>2. g \in Nat
  BY ONLY TRUE DEF GreatestTerm
<1>3. Partial(x, layer, j, k) = layer.bias[j] + s
  <2>1. [i \in DOMAIN SubSeq(x, 1, k) |->
            (SubSeq(x, 1, k)[i] - ZeroPoint) * layer.weights[(i - 1) * Len(layer.bias) + j]] = F
    BY ONLY <1>1 DEF Term
  <2> QED BY ONLY <2>1 DEF Partial, Accumulator
<1> HIDE DEF g
<1>4. ASSUME NEW i \in 1 .. k PROVE F[i] \in Int /\ -g <= F[i] /\ F[i] <= g
  <2>1. i \in DOMAIN x
    BY ONLY <1>1, i \in 1 .. k
  <2>2. Term(x, layer, j, i) \in Int /\ -g <= Term(x, layer, j, i) /\ Term(x, layer, j, i) <= g
    BY <2>1, TermWithin DEF g
  <2>3. F[i] = Term(x, layer, j, i)
    BY ONLY i \in 1 .. k
  <2> QED BY ONLY <2>2, <2>3
<1>5. F \in [1 .. k -> Int]
  BY ONLY <1>4
<1> HIDE DEF F
<1>6. s \in Int /\ (-g) * k <= s /\ s <= g * k
  <2>1. k \in Nat
    BY ONLY <1>1
  <2>2. \A i \in 1 .. k : -g <= F[i] /\ F[i] <= g
    BY ONLY <1>4
  <2> QED BY ONLY <1>2, <1>5, <2>1, <2>2, SumWithin
<1> HIDE DEF s
<1>7. layer.bias[j] + s \in -limit .. limit - 1
  <2>1. /\ layer.bias[j] \in -most .. most /\ most \in Nat /\ limit \in Nat
        /\ g * Len(x) + most < limit
    BY DEF g
  <2>2. g * k \in Int /\ g * Len(x) \in Int /\ g * k <= g * Len(x) /\ (-g) * k = -(g * k)
    <3>1. Len(x) - k \in Nat
      BY ONLY <1>1
    <3>2. g * (Len(x) - k) >= 0
      BY ONLY <1>2, <3>1, SMT
    <3>3. g * (Len(x) - k) = g * Len(x) - g * k /\ g * k \in Int /\ g * Len(x) \in Int
      BY ONLY <1>1, <1>2
    <3> QED BY ONLY <1>1, <1>2, <3>2, <3>3
  <2> QED BY ONLY <1>6, <2>1, <2>2
<1> QED BY <1>3, <1>7

------------------------------------------------------------------------------
(* The flight controller. *)

\* A clamp lets only a NaN out of its bounds, and nothing else becomes one.
LEMMA ClampBounds ==
    ASSUME NEW x \in Floats, NEW lo \in Int, NEW hi \in Int, lo <= hi
    PROVE  /\ x # NaN => Clamp(x, lo, hi) \in lo .. hi
           /\ x = NaN => Clamp(x, lo, hi) = NaN
  BY QuadcopterAssumption, IeeeAssumption DEF Floats, Clamp, Below, Above

\* Clamps keep the order of whole numbers.
LEMMA ClampMonotone ==
    ASSUME NEW x \in Int, NEW y \in Int, x <= y, NEW hi \in Int, 0 <= hi
    PROVE  /\ Clamp(x, 0, hi) \in 0 .. hi /\ Clamp(y, 0, hi) \in 0 .. hi
           /\ Clamp(x, 0, hi) <= Clamp(y, 0, hi)
  BY QuadcopterAssumption, IeeeAssumption DEF Clamp, Below, Above

\* Sums and differences of whole numbers are what they are.
LEMMA WholeSums ==
    /\ \A x, y \in Int : Add(x, y) = x + y /\ Sub(x, y) = x - y
    /\ \A k, x \in Int : Scale(k, x) \in Int
    /\ \A x \in Int : Times(x, 1) = x /\ Over(x, 1) = x
  BY QuadcopterAssumption, IeeeAssumption DEF Add, Neg, Sub, Scale, Times, Over

\* The sum an integral is clamped from is a float, and a NaN only when the
\* integral or the product was one.
LEMMA SumOfProduct ==
    ASSUME NEW i, i = NaN \/ i \in Int, NEW e \in Floats, NEW dt \in {0, 1}
    PROVE  /\ Add(i, Times(e, dt)) \in Floats
           /\ Add(i, Times(e, dt)) = NaN <=> (i = NaN \/ Times(e, dt) = NaN)
  BY QuadcopterAssumption, IeeeAssumption DEF Floats, Add, Times

\* The invariant is inductive once errors are known to be floats.
Shape == /\ prev_error \in [Axes -> Floats] /\ integral \in [Axes -> Int \cup {NaN}]
         /\ spoiled \in SUBSET Axes
IInv == Shape /\ IntegralHolds

\* A step of the loop keeps the invariant.
LEMMA TickKeepsInvariant ==
    ASSUME IInv, NEW e \in Attitudes, NEW dt \in {0, 1}, NEW t \in Throttles,
           NEW o \in BOOLEAN, Tick(e, dt, t, o)
    PROVE  IInv'
<1>1. e \in [Axes -> Floats] /\ prev_error' = e
  BY QuadcopterAssumption, IeeeAssumption DEF Tick
<1>2. spoiled' = spoiled \cup {a \in Axes : Times(e[a], dt) = NaN}
  BY DEF Tick
<1>3. ASSUME NEW a \in Axes
      PROVE  IF a \in spoiled' THEN integral'[a] = NaN ELSE integral'[a] \in -Limit .. Limit
  <2> DEFINE s == Add(integral[a], Times(e[a], dt))
  <2>1. integral'[a] = Clamp(s, -Limit, Limit)
    BY DEF Tick, Sum
  <2>2. integral[a] = NaN \/ integral[a] \in Int
    BY DEF IInv, Shape
  <2>3. s \in Floats /\ (s = NaN <=> (integral[a] = NaN \/ Times(e[a], dt) = NaN))
    BY <1>1, <2>2, SumOfProduct
  <2>4. Limit \in Nat /\ NaN \notin Int
    BY QuadcopterAssumption, IeeeAssumption
  <2>5. integral[a] = NaN <=> a \in spoiled
    BY <2>4 DEF IInv, IntegralHolds
  <2>6. s = NaN <=> a \in spoiled'
    BY <1>2, <2>3, <2>5
  <2>7. /\ s # NaN => Clamp(s, -Limit, Limit) \in -Limit .. Limit
        /\ s = NaN => Clamp(s, -Limit, Limit) = NaN
    BY <2>3, <2>4, ClampBounds
  <2> QED BY <2>1, <2>6, <2>7
<1>4. integral' \in [Axes -> Int \cup {NaN}]
  <2>1. integral' = [a \in Axes |-> integral'[a]]
    BY DEF Tick
  <2>2. \A a \in Axes : integral'[a] \in Int \cup {NaN}
    BY <1>3, QuadcopterAssumption, IeeeAssumption
  <2> QED BY <2>1, <2>2
<1> QED BY <1>1, <1>2, <1>3, <1>4 DEF IInv, Shape, IntegralHolds

\* It holds at first.
LEMMA InitInvariant == Init => IInv
<1> SUFFICES ASSUME Init PROVE IInv
  OBVIOUS
<1>1. Shape
  BY DEF Init, Shape, Floats
<1>2. IntegralHolds
  BY QuadcopterAssumption, IeeeAssumption DEF Init, IntegralHolds
<1> QED BY <1>1, <1>2 DEF IInv

\* Every step keeps it.
LEMMA NextInvariant == IInv /\ [Next]_vars => IInv'
<1> SUFFICES ASSUME IInv, [Next]_vars PROVE IInv'
  OBVIOUS
<1>1. CASE Boot
  BY <1>1 DEF Boot, IInv, Shape, IntegralHolds
<1>2. CASE Reset
  <2>1. Shape'
    BY <1>2 DEF Reset, Shape, Floats
  <2>2. IntegralHolds'
    BY <1>2, QuadcopterAssumption, IeeeAssumption DEF Reset, IntegralHolds
  <2> QED BY <2>1, <2>2 DEF IInv
<1>3. CASE \E e \in Attitudes, dt \in {0, 1}, t \in Throttles, o \in BOOLEAN : Tick(e, dt, t, o)
  BY <1>3, TickKeepsInvariant
<1>4. CASE UNCHANGED vars
  BY <1>4 DEF vars, IInv, Shape, IntegralHolds
<1> QED BY <1>1, <1>2, <1>3, <1>4 DEF Next

\* For all gains, limits and errors, the anti-windup clamp holds on every
\* axis that was never handed a NaN, and nothing but a reset mends the others.
THEOREM IntegralIsBounded == Spec => []IntegralHolds
<1>1. IInv => IntegralHolds
  BY DEF IInv
<1> QED BY <1>1, InitInvariant, NextInvariant, PTL DEF Spec

\* The mixer, for whole commands: each motor in its range, and the pitch not
\* turned around by the clamps.
LEMMA MixerFollows ==
    ASSUME NEW t \in Int, NEW p \in Int, NEW r \in Int, NEW y \in Int,
           NEW u, u.pitch = p, u.roll = r, u.yaw = y
    PROVE  LET m == Mix(t, u) IN
           /\ \A k \in Motors : m[k] \in 0 .. Full
           /\ r = 0 \/ y = 0 => /\ p >= 0 => m.br + m.bl >= m.fl + m.fr
                                /\ p <= 0 => m.br + m.bl <= m.fl + m.fr
<1> DEFINE c(x) == Clamp(x, 0, Full)
<1>1. Mix(t, u) = [fl |-> c(t - p - r + y), fr |-> c(t - p + r - y),
                   br |-> c(t + p + r + y), bl |-> c(t + p - r - y)]
  <2>1. ASSUME NEW x \in Int, NEW z \in Int
        PROVE  Add(x, z) = x + z /\ Sub(x, z) = x - z
    BY WholeSums
  <2>2. Sub(t, u.pitch) = t - p /\ Add(t, u.pitch) = t + p
    BY <2>1
  <2> DEFINE f == t - p
             g == t + p
  <2>3. f \in Int /\ g \in Int
    OBVIOUS
  <2> HIDE DEF f, g
  <2> DEFINE f1 == f - r
             f2 == f + r
             g1 == g + r
             g2 == g - r
  <2>4. /\ Sub(f, u.roll) = f1 /\ Add(f, u.roll) = f2
        /\ Add(g, u.roll) = g1 /\ Sub(g, u.roll) = g2
    BY <2>1, <2>3
  <2>5. f1 \in Int /\ f2 \in Int /\ g1 \in Int /\ g2 \in Int
    BY <2>3
  <2> HIDE DEF f1, f2, g1, g2
  <2>6. /\ Add(f1, u.yaw) = f1 + y /\ Sub(f2, u.yaw) = f2 - y
        /\ Add(g1, u.yaw) = g1 + y /\ Sub(g2, u.yaw) = g2 - y
    BY <2>1, <2>5
  <2>7. Mix(t, u) = [fl |-> c(f1 + y), fr |-> c(f2 - y), br |-> c(g1 + y), bl |-> c(g2 - y)]
    BY <2>2, <2>4, <2>6 DEF Mix, f, g
  <2> QED BY <2>7 DEF f, g, f1, f2, g1, g2
<1>2. Full \in Int /\ 0 <= Full
  BY QuadcopterAssumption, IeeeAssumption
<1>3. \A x, z \in Int : x <= z => /\ c(x) \in 0 .. Full /\ c(z) \in 0 .. Full
                                  /\ c(x) <= c(z)
  BY <1>2, ClampMonotone
<1> HIDE DEF c
<1>4. \A k \in Motors : Mix(t, u)[k] \in 0 .. Full
  BY <1>1, <1>3 DEF Motors
<1>5. ASSUME r = 0, p >= 0
      PROVE  c(t - p - r + y) <= c(t + p + r + y) /\ c(t - p + r - y) <= c(t + p - r - y)
  BY <1>3, <1>5
<1>6. ASSUME r = 0, p <= 0
      PROVE  c(t + p + r + y) <= c(t - p - r + y) /\ c(t + p - r - y) <= c(t - p + r - y)
  BY <1>3, <1>6
<1>7. ASSUME y = 0, p >= 0
      PROVE  c(t - p - r + y) <= c(t + p - r - y) /\ c(t - p + r - y) <= c(t + p + r + y)
  BY <1>3, <1>7
<1>8. ASSUME y = 0, p <= 0
      PROVE  c(t + p - r - y) <= c(t - p - r + y) /\ c(t + p + r + y) <= c(t - p + r - y)
  BY <1>3, <1>8
<1>9. /\ c(t - p - r + y) \in Int /\ c(t - p + r - y) \in Int
      /\ c(t + p + r + y) \in Int /\ c(t + p - r - y) \in Int
  BY <1>2, <1>3
<1> DEFINE m == Mix(t, u)
<1>10. /\ m.fl = c(t - p - r + y) /\ m.fr = c(t - p + r - y)
       /\ m.br = c(t + p + r + y) /\ m.bl = c(t + p - r - y)
  BY <1>1
<1> HIDE DEF m
<1>11. ASSUME r = 0 \/ y = 0, p >= 0 PROVE m.br + m.bl >= m.fl + m.fr
  BY <1>5, <1>7, <1>9, <1>10, <1>11
<1>12. ASSUME r = 0 \/ y = 0, p <= 0 PROVE m.br + m.bl <= m.fl + m.fr
  BY <1>6, <1>8, <1>9, <1>10, <1>12
<1> QED BY <1>4, <1>11, <1>12 DEF m

\* For all gains, limits, errors and throttles: whatever came before, a tick
\* whose axes are calm keeps the motors in range and the pitch its sign.
THEOREM MotorsAlwaysFollowPitch == Spec => MotorsAlwaysFollow
<1>1. IInv /\ [Next]_vars => MotorsFollow
  <2> SUFFICES ASSUME IInv, NEW e \in Attitudes, NEW t \in Throttles, NEW o \in BOOLEAN,
                      \A a \in Axes : Calm(e, a), Tick(e, 1, t, o)
               PROVE  /\ \A m \in Motors : motors'[m] \in 0 .. Full
                      /\ command'.roll = 0 \/ command'.yaw = 0 =>
                           /\ command'.pitch >= 0 =>
                                motors'.br + motors'.bl >= motors'.fl + motors'.fr
                           /\ command'.pitch <= 0 =>
                                motors'.br + motors'.bl <= motors'.fl + motors'.fr
    BY DEF MotorsFollow
  <2>1. ASSUME NEW a \in Axes PROVE command'[a] \in Int
    <3>1. e[a] \in Int /\ prev_error[a] \in Int /\ a \notin spoiled
      BY <2>1 DEF Calm
    <3>2. integral[a] \in Int /\ Limit \in Nat
      BY <2>1, <3>1, QuadcopterAssumption, IeeeAssumption DEF IInv, IntegralHolds
    <3>3. integral'[a] \in Int
      <4>1. integral'[a] = Clamp(integral[a] + e[a], -Limit, Limit)
        BY <2>1, <3>1, <3>2, WholeSums DEF Tick, Sum
      <4>2. integral[a] + e[a] \in Floats /\ integral[a] + e[a] # NaN
        BY <3>1, <3>2, QuadcopterAssumption, IeeeAssumption DEF Floats
      <4> QED BY <4>1, <4>2, <3>2, ClampBounds
    <3>4. Kp[a] \in Int /\ Ki[a] \in Int /\ Kd[a] \in Int
      BY QuadcopterAssumption, IeeeAssumption
    <3> DEFINE P == Scale(Kp[a], e[a])
               I == Scale(Ki[a], integral'[a])
               d == Sub(e[a], prev_error[a])
               D == Scale(Kd[a], d)
    <3>5. P \in Int /\ I \in Int
      BY <3>1, <3>3, <3>4, WholeSums
    <3>6. d \in Int /\ Over(d, 1) = d
      <4>1. d = e[a] - prev_error[a]
        BY <3>1, WholeSums
      <4>2. d \in Int
        BY <3>1, <4>1
      <4> QED BY <4>2, WholeSums
    <3>7. D \in Int /\ Control(a, e[a], integral'[a], 1) = Add(Add(P, I), D)
      BY <3>4, <3>6, WholeSums DEF Control
    <3> HIDE DEF P, I, D
    <3> DEFINE PI == Add(P, I)
    <3>8. PI \in Int
      BY <3>5, WholeSums
    <3> HIDE DEF PI
    <3>9. Add(PI, D) \in Int
      <4>1. PICK x, y : x = PI /\ y = D
        OBVIOUS
      <4>2. x \in Int /\ y \in Int
        BY <3>7, <3>8, <4>1
      <4>3. Add(x, y) \in Int
        BY ONLY <4>2, WholeSums
      <4> QED BY <4>1, <4>3
    <3>10. Control(a, e[a], integral'[a], 1) \in Int
      BY <3>7, <3>9 DEF PI
    <3> QED BY <2>1, <3>10 DEF Tick
  <2>2. command'.pitch \in Int /\ command'.roll \in Int /\ command'.yaw \in Int
    BY <2>1 DEF Axes
  <2>3. PICK s \in Int : motors' = Mix(s, command')
    <3>1. t \in Int /\ t \div 2 \in Int
      BY QuadcopterAssumption, IeeeAssumption
    <3> QED BY <3>1 DEF Tick
  <2> QED BY <2>2, <2>3, MixerFollows
<1>2. Init => IInv
  BY InitInvariant
<1>3. IInv /\ [Next]_vars => IInv'
  BY NextInvariant
<1>4. IInv /\ [Next]_vars => [MotorsFollow]_vars
  BY <1>1
<1> QED BY <1>2, <1>3, <1>4, PTL DEF Spec, MotorsAlwaysFollow
==============================================================================

-------------------------- MODULE SwarmGrid_proofs --------------------------
(***************************************************************************)
(* What the recursive definitions of SwarmGrid compute, for every grid and *)
(* every set of constraints: ShortestPaths is the set of the paths with as *)
(* few moves as reach the goal (ShortestPathsAre).  The searches' proofs   *)
(* rest on it.                                                             *)
(*                                                                         *)
(* Induction is done on sets: a set of naturals with 0 in it that is       *)
(* closed under successor holds every natural (SetInduction), and a        *)
(* function that follows a recursion exists (Recursion), so that the       *)
(* CHOOSE a recursive definition stands for chooses it.                    *)
(***************************************************************************)
EXTENDS SwarmGrid, Functions, FiniteSetTheorems, WellFoundedInduction, TLAPS

\* Every non-empty set of naturals has a least element.
LEMMA LeastNumber ==
    ASSUME NEW T, T \subseteq Nat, T # {}
    PROVE  \E n \in T : \A m \in T : n <= m
<1> DEFINE R == {ss \in Nat \X Nat : ss[1] < ss[2]}
<1>1. IsWellFoundedOn(R, Nat)
  BY NatLessThanWellFounded, Zenon DEF OpToRel
<1>2. PICK n \in T : \A m \in T : <<m, n>> \notin R
  <2> HIDE DEF R
  <2> QED BY <1>1, WFMin
<1>3. \A x, y \in Nat : x < y => <<x, y>> \in R
  OBVIOUS
<1>4. ASSUME NEW m \in T PROVE n <= m
  <2>1. m \in Nat /\ n \in Nat
    OBVIOUS
  <2>2. <<m, n>> \notin R
    BY <1>2
  <2>3. ~(m < n)
    BY <1>3, <2>1, <2>2
  <2> QED BY <2>1, <2>3
<1> QED BY <1>4

\* Induction over the naturals, on a set.
LEMMA SetInduction ==
    ASSUME NEW S, 0 \in S, \A n \in Nat : n \in S => n + 1 \in S
    PROVE  Nat \subseteq S
<1> SUFFICES ASSUME Nat \ S # {} PROVE FALSE
  OBVIOUS
<1>1. PICK n \in Nat \ S : \A m \in Nat \ S : n <= m
  <2> DEFINE T == Nat \ S
  <2>1. T \subseteq Nat /\ T # {}
    OBVIOUS
  <2> HIDE DEF T
  <2>2. \E n \in T : \A m \in T : n <= m
    BY <2>1, LeastNumber
  <2> QED BY <2>2 DEF T
<1>2. n - 1 \in Nat /\ n - 1 \notin Nat \ S
  BY <1>1
<1>3. (n - 1) + 1 \in S
  BY <1>2
<1> QED BY <1>1, <1>3

\* What a recursive definition on 0 .. N starts from and applies, and a function
\* that follows it.
IsRecursion(S, b, F) == b \in S /\ F \in [Nat \X S -> S]
Follows(f, S, b, F, N) == /\ f \in [0 .. N -> S]
                          /\ f[0] = b /\ \A n \in 1 .. N : f[n] = F[<<n, f[n - 1]>>]

\* A function on 0 .. N may be defined by recursion: such a function exists.
LEMMA Recursion ==
    ASSUME NEW S, NEW b, NEW F, NEW N \in Nat, IsRecursion(S, b, F)
    PROVE  \E f : Follows(f, S, b, F, N)
<1> USE DEF IsRecursion
<1> DEFINE Good(n, f) == f[0] = b /\ \A k \in 1 .. n : f[k] = F[<<k, f[k - 1]>>]
           T == {n \in Nat : \E f \in [0 .. n -> S] : Good(n, f)}
<1>1. 0 \in T
  <2>1. [k \in 0 .. 0 |-> b] \in [0 .. 0 -> S] /\ Good(0, [k \in 0 .. 0 |-> b])
    OBVIOUS
  <2> QED BY <2>1
<1>2. ASSUME NEW n \in Nat, n \in T PROVE n + 1 \in T
  <2>1. PICK f \in [0 .. n -> S] : Good(n, f)
    BY <1>2
  <2> DEFINE h == [k \in 0 .. n + 1 |-> IF k = n + 1 THEN F[<<n + 1, f[n]>>] ELSE f[k]]
  <2>2. F[<<n + 1, f[n]>>] \in S
    OBVIOUS
  <2>3. h \in [0 .. n + 1 -> S]
    BY <2>2
  <2>4. h[0] = b
    BY <2>1
  <2>5. ASSUME NEW k \in 1 .. n + 1 PROVE h[k] = F[<<k, h[k - 1]>>]
    <3>1. CASE k = n + 1
      <4>1. h[n + 1] = F[<<n + 1, f[n]>>]
        OBVIOUS
      <4>2. n \in 0 .. n + 1 /\ n # n + 1 /\ (n + 1) - 1 = n
        OBVIOUS
      <4>3. h[n] = f[n]
        BY <4>2
      <4> HIDE DEF h
      <4> QED BY <3>1, <4>1, <4>2, <4>3
    <3>2. CASE k # n + 1
      <4>1. k \in 1 .. n /\ k - 1 \in 0 .. n + 1 /\ k - 1 # n + 1 /\ k \in 0 .. n + 1
        BY <3>2
      <4>2. h[k] = f[k] /\ h[k - 1] = f[k - 1]
        BY <4>1, <3>2
      <4>3. f[k] = F[<<k, f[k - 1]>>]
        BY <4>1, <2>1
      <4> QED BY <4>2, <4>3
    <3> QED BY <3>1, <3>2
  <2>6. Good(n + 1, h)
    BY <2>4, <2>5
  <2> HIDE DEF Good, h
  <2> QED BY <2>3, <2>6
<1>3. N \in T
  <2> HIDE DEF T
  <2> QED BY <1>1, <1>2, SetInduction
<1> QED BY <1>3 DEF Follows
------------------------------------------------------------------------------
(* Sums: what SumFunction computes, and how it grows and scales. *)

\* The argument the fold takes next.
Pick(s) == CHOOSE x \in s : TRUE

\* h sums F over every subset of D, as the fold in SumFunction does.
Sums(F, D, h) ==
    /\ h \in [SUBSET D -> Int]
    /\ \A s \in SUBSET D : h[s] = IF s = {} THEN 0 ELSE F[Pick(s)] + h[s \ {Pick(s)}]

\* A function with finitely many arguments, whose values are integers.
Summable(F) == IsFiniteSet(DOMAIN F) /\ \A x \in DOMAIN F : F[x] \in Int

\* One argument fewer is left.
LEMMA OneLess ==
    ASSUME NEW D, IsFiniteSet(D), NEW s \in SUBSET D, s # {}
    PROVE  /\ Pick(s) \in s /\ Pick(s) \in D /\ s \ {Pick(s)} \in SUBSET D
           /\ Cardinality(s) \in Nat /\ Cardinality(s \ {Pick(s)}) = Cardinality(s) - 1
<1>1. Pick(s) \in s
  BY DEF Pick
<1>2. IsFiniteSet(s)
  BY FS_Subset
<1> QED BY <1>1, <1>2, FS_CardinalityType, FS_RemoveElement

\* No argument is left when there are none to count.
LEMMA NoneLeft ==
    ASSUME NEW D, IsFiniteSet(D), NEW s \in SUBSET D
    PROVE  Cardinality(s) \in Nat /\ Cardinality(s) <= Cardinality(D)
           /\ (Cardinality(s) <= 0 => s = {})
<1>1. IsFiniteSet(s) /\ Cardinality(s) <= Cardinality(D)
  BY FS_Subset
<1> QED BY <1>1, FS_CardinalityType, FS_EmptySet

\* What holds of no argument, and of one more when it holds of the others,
\* holds of them all: induction on a finite set, P the subsets it holds of.
LEMMA SubsetInduction ==
    ASSUME NEW D, IsFiniteSet(D), NEW P, {} \in P,
           \A s \in SUBSET D : s # {} /\ s \ {Pick(s)} \in P => s \in P
    PROVE  SUBSET D \subseteq P
<1> DEFINE T == {k \in Nat : \A s \in SUBSET D : Cardinality(s) <= k => s \in P}
<1>1. 0 \in T
  BY NoneLeft
<1>2. ASSUME NEW k \in Nat, k \in T PROVE k + 1 \in T
  <2>1. ASSUME NEW s \in SUBSET D, Cardinality(s) <= k + 1, s # {} PROVE s \in P
    <3>1. s \ {Pick(s)} \in SUBSET D /\ Cardinality(s \ {Pick(s)}) <= k
      BY <2>1, OneLess
    <3>2. s \ {Pick(s)} \in P
      BY <1>2, <3>1
    <3> QED BY <2>1, <3>2
  <2> QED BY <2>1
<1>3. Nat \subseteq T
  <2> HIDE DEF T
  <2> QED BY <1>1, <1>2, SetInduction
<1>4. ASSUME NEW s \in SUBSET D PROVE s \in P
  <2>1. Cardinality(s) \in T
    BY <1>3, NoneLeft
  <2> QED BY <2>1
<1> QED BY <1>4

\* The sums exist: the fold, applied once for every argument, changes no more.
LEMMA SumsExist ==
    ASSUME NEW D, IsFiniteSet(D), NEW F, \A x \in D : F[x] \in Int
    PROVE  \E h : Sums(F, D, h)
<1> DEFINE Step(h) == [s \in SUBSET D |->
                          IF s = {} THEN 0 ELSE F[Pick(s)] + h[s \ {Pick(s)}]]
           S == [SUBSET D -> Int]
           G == [x \in Nat \X S |-> Step(x[2])]
           b == [s \in SUBSET D |-> 0]
           N == Cardinality(D)
<1>1. ASSUME NEW h \in S PROVE Step(h) \in S
  <2>1. ASSUME NEW s \in SUBSET D, s # {} PROVE F[Pick(s)] + h[s \ {Pick(s)}] \in Int
    <3>1. Pick(s) \in D /\ s \ {Pick(s)} \in SUBSET D
      BY <2>1, OneLess
    <3>2. F[Pick(s)] \in Int /\ h[s \ {Pick(s)}] \in Int
      BY <3>1
    <3> QED BY <3>2
  <2> QED BY <2>1
<1>2. IsRecursion(S, b, G)
  <2>1. G \in [Nat \X S -> S]
    <3> HIDE DEF S, Step
    <3> QED BY <1>1
  <2>2. b \in S
    OBVIOUS
  <2> HIDE DEF G, S, b
  <2> QED BY <2>1, <2>2 DEF IsRecursion
<1>3. N \in Nat
  BY FS_CardinalityType
<1>4. PICK f : Follows(f, S, b, G, N)
  <2> HIDE DEF S, b, G, N
  <2> QED BY <1>2, <1>3, Recursion
<1>5. /\ f \in [0 .. N -> S] /\ f[0] = b
      /\ \A n \in 1 .. N : f[n] = Step(f[n - 1])
  <2>1. f \in [0 .. N -> S] /\ f[0] = b /\ \A n \in 1 .. N : f[n] = G[<<n, f[n - 1]>>]
    <3> HIDE DEF S, b, G, N
    <3> QED BY <1>4 DEF Follows
  <2>2. ASSUME NEW n \in 1 .. N PROVE G[<<n, f[n - 1]>>] = Step(f[n - 1])
    <3>1. <<n, f[n - 1]>> \in Nat \X S
      <4> HIDE DEF S, N, G, b
      <4> QED BY <1>3, <2>1
    <3> HIDE DEF S, N, Step
    <3> QED BY <3>1
  <2> HIDE DEF S, N, Step, G, b
  <2> QED BY <2>1, <2>2
<1> DEFINE T == {k \in Nat : k <= N => \A s \in SUBSET D : Cardinality(s) <= k => Step(f[k])[s] = f[k][s]}
<1>6. 0 \in T
  <2>1. ASSUME NEW s \in SUBSET D, Cardinality(s) <= 0 PROVE Step(f[0])[s] = f[0][s]
    BY <1>5, <2>1, NoneLeft
  <2> HIDE DEF Step, N
  <2> QED BY <2>1
<1>7. ASSUME NEW k \in Nat, k \in T PROVE k + 1 \in T
  <2> SUFFICES ASSUME k + 1 <= N, NEW s \in SUBSET D, Cardinality(s) <= k + 1
               PROVE  Step(f[k + 1])[s] = f[k + 1][s]
    <3> HIDE DEF Step, N
    <3> QED OBVIOUS
  <2>1. k + 1 \in 1 .. N /\ (k + 1) - 1 = k /\ k <= N
    BY <1>3
  <2>2. f[k + 1] = Step(f[k])
    <3> HIDE DEF Step, N
    <3> QED BY <1>5, <2>1
  <2>3. CASE s = {}
    BY <2>2, <2>3
  <2>4. CASE s # {}
    <3> DEFINE r == s \ {Pick(s)}
    <3>1. r \in SUBSET D /\ Cardinality(r) <= k
      BY <2>4, OneLess
    <3>2. Step(f[k])[r] = f[k][r]
      <4> HIDE DEF Step, r, N
      <4> QED BY <1>7, <2>1, <3>1
    <3>3. Step(f[k + 1])[s] = F[Pick(s)] + f[k + 1][r] /\ Step(f[k])[s] = F[Pick(s)] + f[k][r]
      BY <2>4
    <3> HIDE DEF Step, r
    <3> QED BY <2>2, <3>2, <3>3
  <2> QED BY <2>3, <2>4
<1>8. \A s \in SUBSET D : Step(f[N])[s] = f[N][s]
  <2>1. N \in T
    <3>1. Nat \subseteq T
      <4> HIDE DEF T
      <4> QED BY <1>6, <1>7, SetInduction
    <3> HIDE DEF T
    <3> QED BY <1>3, <3>1
  <2>2. \A s \in SUBSET D : Cardinality(s) <= N
    BY NoneLeft
  <2> HIDE DEF Step, N
  <2> QED BY <1>3, <2>1, <2>2
<1>9. f[N] \in S
  <2> HIDE DEF S, N
  <2> QED BY <1>3, <1>5
<1>10. \A s \in SUBSET D : Step(f[N])[s] = IF s = {} THEN 0 ELSE F[Pick(s)] + f[N][s \ {Pick(s)}]
  OBVIOUS
<1>11. Sums(F, D, f[N])
  <2> HIDE DEF Step, N
  <2> QED BY <1>8, <1>9, <1>10 DEF Sums
<1> QED BY <1>11

\* SumFunction is what the fold says.
LEMMA SumIs ==
    ASSUME NEW F, Summable(F)
    PROVE  \E h : Sums(F, DOMAIN F, h) /\ SumFunction(F) = h[DOMAIN F]
<1> DEFINE D == DOMAIN F
           Body(h) == [s \in SUBSET D |->
                          IF s = {} THEN 0
                          ELSE LET x == CHOOSE x \in s : TRUE IN F[x] + h[s \ {x}]]
           it == CHOOSE h : h = Body(h)
<1>0. IsFiniteSet(D) /\ \A x \in D : F[x] \in Int
  BY DEF Summable
<1>1. SumFunction(F) = it[D]
  BY DEF SumFunction, SumFunctionOnSet, FoldFunctionOnSet, MapThenFoldSet
<1>2. PICK h : Sums(F, D, h)
  <2> HIDE DEF D
  <2> QED BY <1>0, SumsExist
<1>3. h = Body(h)
  <2> HIDE DEF D
  <2> QED BY <1>2 DEF Sums, Pick
<1>4. it = Body(it)
  <2> HIDE DEF Body
  <2> QED BY <1>3
<1>5. Sums(F, D, it)
  <2>a. \A s \in SUBSET D : it[s] = IF s = {} THEN 0 ELSE F[Pick(s)] + it[s \ {Pick(s)}]
    <3> HIDE DEF it, D
    <3>1. \A s \in SUBSET D : Body(it)[s] = IF s = {} THEN 0 ELSE F[Pick(s)] + it[s \ {Pick(s)}]
      BY DEF Pick
    <3> HIDE DEF Body
    <3> QED BY <1>4, <3>1
  <2>b. DOMAIN it = SUBSET D /\ it = [s \in SUBSET D |-> it[s]]
    <3> HIDE DEF it, D
    <3> QED BY <1>4
  <2> HIDE DEF it, Body, D
  <2> DEFINE P == {s \in SUBSET D : it[s] = h[s]}
  <2>1. {} \in P
    BY <1>2, <2>a DEF Sums
  <2>2. ASSUME NEW s \in SUBSET D, s # {}, s \ {Pick(s)} \in P PROVE s \in P
    <3>1. it[s] = F[Pick(s)] + it[s \ {Pick(s)}] /\ h[s] = F[Pick(s)] + h[s \ {Pick(s)}]
      BY <1>2, <2>a, <2>2 DEF Sums
    <3> QED BY <2>2, <3>1
  <2>3. SUBSET D \subseteq P
    <3> HIDE DEF P
    <3> QED BY <1>0, <2>1, <2>2, SubsetInduction
  <2>4. it \in [SUBSET D -> Int]
    BY <1>2, <2>b, <2>3 DEF Sums
  <2> QED BY <2>4, <2>a DEF Sums
<1> QED BY <1>1, <1>5

\* A sum is an integer; it is greater where the terms are.
LEMMA SumMonotone ==
    ASSUME NEW F, Summable(F), NEW G, Summable(G), DOMAIN G = DOMAIN F,
           \A x \in DOMAIN F : F[x] <= G[x]
    PROVE  SumFunction(F) \in Int /\ SumFunction(G) \in Int /\ SumFunction(F) <= SumFunction(G)
<1> DEFINE D == DOMAIN F
<1>1. PICK f : Sums(F, D, f) /\ SumFunction(F) = f[D]
  BY SumIs
<1>2. PICK g : Sums(G, D, g) /\ SumFunction(G) = g[D]
  BY SumIs
<1>3. IsFiniteSet(D) /\ D \in SUBSET D /\ \A x \in D : F[x] \in Int /\ G[x] \in Int /\ F[x] <= G[x]
  BY DEF Summable
<1> HIDE DEF D
<1> DEFINE P == {s \in SUBSET D : f[s] <= g[s]}
<1>4. {} \in P
  <2>1. f[{}] = 0 /\ g[{}] = 0
    BY <1>1, <1>2 DEF Sums
  <2> QED BY <2>1
<1>5. ASSUME NEW s \in SUBSET D, s # {}, s \ {Pick(s)} \in P PROVE s \in P
  <2>1. f[s] = F[Pick(s)] + f[s \ {Pick(s)}] /\ g[s] = G[Pick(s)] + g[s \ {Pick(s)}]
    BY <1>1, <1>2, <1>5 DEF Sums
  <2>2. Pick(s) \in D /\ s \ {Pick(s)} \in SUBSET D
    BY <1>3, <1>5, OneLess
  <2>3. f[s \ {Pick(s)}] \in Int /\ g[s \ {Pick(s)}] \in Int
    BY <1>1, <1>2, <2>2 DEF Sums
  <2>4. f[s \ {Pick(s)}] <= g[s \ {Pick(s)}]
    BY <1>5
  <2>5. F[Pick(s)] \in Int /\ G[Pick(s)] \in Int /\ F[Pick(s)] <= G[Pick(s)]
    BY <1>3, <2>2
  <2> QED BY <2>1, <2>3, <2>4, <2>5
<1>6. SUBSET D \subseteq P
  <2> HIDE DEF P
  <2> QED BY <1>3, <1>4, <1>5, SubsetInduction
<1>7. f[D] \in Int /\ g[D] \in Int
  BY <1>1, <1>2, <1>3 DEF Sums
<1> QED BY <1>1, <1>2, <1>3, <1>6, <1>7

\* A common factor can be taken out of a sum.
LEMMA SumScales ==
    ASSUME NEW F, Summable(F), NEW k \in Int, NEW G, DOMAIN G = DOMAIN F,
           \A x \in DOMAIN F : G[x] = k * F[x]
    PROVE  Summable(G) /\ SumFunction(G) = k * SumFunction(F)
<1> DEFINE D == DOMAIN F
<1>0. Summable(G)
  BY DEF Summable
<1>1. PICK f : Sums(F, D, f) /\ SumFunction(F) = f[D]
  BY SumIs
<1>2. PICK g : Sums(G, D, g) /\ SumFunction(G) = g[D]
  BY <1>0, SumIs
<1>3. IsFiniteSet(D) /\ D \in SUBSET D /\ \A x \in D : F[x] \in Int /\ G[x] = k * F[x]
  BY DEF Summable
<1> HIDE DEF D
<1> DEFINE P == {s \in SUBSET D : g[s] = k * f[s]}
<1>4. {} \in P
  <2>1. f[{}] = 0 /\ g[{}] = 0
    BY <1>1, <1>2 DEF Sums
  <2> QED BY <2>1
<1>5. ASSUME NEW s \in SUBSET D, s # {}, s \ {Pick(s)} \in P PROVE s \in P
  <2>1. f[s] = F[Pick(s)] + f[s \ {Pick(s)}] /\ g[s] = G[Pick(s)] + g[s \ {Pick(s)}]
    BY <1>1, <1>2, <1>5 DEF Sums
  <2>2. Pick(s) \in D /\ s \ {Pick(s)} \in SUBSET D
    BY <1>3, <1>5, OneLess
  <2>3. f[s \ {Pick(s)}] \in Int /\ g[s \ {Pick(s)}] = k * f[s \ {Pick(s)}]
    BY <1>1, <1>5, <2>2 DEF Sums
  <2>4. F[Pick(s)] \in Int /\ G[Pick(s)] = k * F[Pick(s)]
    BY <1>3, <2>2
  <2>5. \A x, y \in Int : k * x + k * y = k * (x + y)
    OBVIOUS
  <2> QED BY <2>1, <2>3, <2>4, <2>5
<1>6. SUBSET D \subseteq P
  <2> HIDE DEF P
  <2> QED BY <1>3, <1>4, <1>5, SubsetInduction
<1> QED BY <1>0, <1>1, <1>2, <1>3, <1>6

\* One term can be taken out of a sum.
LEMMA SumDrops ==
    ASSUME NEW F, Summable(F), NEW y \in DOMAIN F
    PROVE  /\ Summable([F EXCEPT ![y] = 0])
           /\ SumFunction(F) = F[y] + SumFunction([F EXCEPT ![y] = 0])
<1> DEFINE D == DOMAIN F
<1>a. PICK G : G = [F EXCEPT ![y] = 0]
  OBVIOUS
<1>b. DOMAIN G = D /\ G[y] = 0 /\ \A x \in D : x # y => G[x] = F[x]
  BY <1>a
<1>0. Summable(G)
  BY <1>b DEF Summable
<1>1. PICK f : Sums(F, D, f) /\ SumFunction(F) = f[D]
  BY SumIs
<1>2. PICK g : Sums(G, D, g) /\ SumFunction(G) = g[D]
  BY <1>0, <1>b, SumIs
<1>3. IsFiniteSet(D) /\ D \in SUBSET D /\ y \in D /\ \A x \in D : F[x] \in Int
  BY DEF Summable
<1> HIDE DEF D
<1> DEFINE P == {s \in SUBSET D : f[s] = IF y \in s THEN F[y] + g[s] ELSE g[s]}
<1>4. {} \in P
  BY <1>1, <1>2 DEF Sums
<1>5. ASSUME NEW s \in SUBSET D, s # {}, s \ {Pick(s)} \in P PROVE s \in P
  <2> DEFINE r == s \ {Pick(s)}
  <2>1. f[s] = F[Pick(s)] + f[r] /\ g[s] = G[Pick(s)] + g[r]
    BY <1>1, <1>2, <1>5 DEF Sums
  <2>2. Pick(s) \in D /\ Pick(s) \in s /\ r \in SUBSET D
    BY <1>3, <1>5, OneLess
  <2>3. f[r] \in Int /\ g[r] \in Int
    <3> HIDE DEF r
    <3> QED BY <1>1, <1>2, <2>2 DEF Sums
  <2>4. f[r] = IF y \in r THEN F[y] + g[r] ELSE g[r]
    BY <1>5
  <2>5. CASE Pick(s) = y
    <3>1. y \in s /\ y \notin r
      BY <2>2, <2>5
    <3>2. f[s] = F[y] + g[r] /\ g[s] = 0 + g[r]
      BY <2>1, <2>4, <2>5, <3>1, <1>b
    <3>3. f[s] = F[y] + g[s]
      <4> HIDE DEF r
      <4> QED BY <3>2, <2>3
    <3> QED BY <3>1, <3>3
  <2>6. CASE Pick(s) # y
    <3>1. (y \in s <=> y \in r) /\ G[Pick(s)] = F[Pick(s)] /\ F[Pick(s)] \in Int /\ F[y] \in Int
      BY <2>2, <2>6, <1>b, <1>3
    <3>2. f[s] = IF y \in s THEN F[y] + g[s] ELSE g[s]
      <4> HIDE DEF r
      <4> QED BY <2>1, <2>3, <2>4, <3>1
    <3> QED BY <3>2
  <2> QED BY <2>5, <2>6
<1>6. SUBSET D \subseteq P
  <2> HIDE DEF P
  <2> QED BY <1>3, <1>4, <1>5, SubsetInduction
<1>7. f[D] = F[y] + g[D]
  BY <1>3, <1>6
<1> QED BY <1>0, <1>1, <1>2, <1>a, <1>7

\* A sum of no negative term is not negative, and no term exceeds it.
LEMMA SumOfNaturals ==
    ASSUME NEW F, Summable(F), \A x \in DOMAIN F : F[x] >= 0
    PROVE  /\ SumFunction(F) \in Nat
           /\ \A y \in DOMAIN F : F[y] <= SumFunction(F)
<1>1. ASSUME NEW G, Summable(G), \A x \in DOMAIN G : G[x] >= 0
      PROVE  SumFunction(G) \in Int /\ SumFunction(G) >= 0
  <2> DEFINE Z == [x \in DOMAIN G |-> 0]
  <2>1. \A x \in DOMAIN G : G[x] \in Int
    BY <1>1 DEF Summable
  <2>2. \A x \in DOMAIN G : Z[x] = 0 * G[x] /\ Z[x] <= G[x]
    BY <1>1, <2>1
  <2>3. DOMAIN Z = DOMAIN G /\ 0 \in Int
    OBVIOUS
  <2> HIDE DEF Z
  <2>4. Summable(Z) /\ SumFunction(Z) = 0 * SumFunction(G)
    BY <1>1, <2>2, <2>3, SumScales
  <2>5. SumFunction(G) \in Int /\ SumFunction(Z) <= SumFunction(G)
    BY <1>1, <2>2, <2>3, <2>4, SumMonotone
  <2>6. 0 * SumFunction(G) = 0
    BY <2>5
  <2> QED BY <2>4, <2>5, <2>6
<1>2. ASSUME NEW y \in DOMAIN F PROVE F[y] <= SumFunction(F)
  <2>1. PICK G : G = [F EXCEPT ![y] = 0]
    OBVIOUS
  <2>2. Summable(G) /\ SumFunction(F) = F[y] + SumFunction(G)
    BY <2>1, SumDrops
  <2>3. \A x \in DOMAIN G : G[x] >= 0
    BY <2>1
  <2>4. SumFunction(G) \in Int /\ SumFunction(G) >= 0
    BY <1>1, <2>2, <2>3
  <2>5. F[y] \in Int
    BY DEF Summable
  <2> QED BY <2>2, <2>4, <2>5
<1>3. SumFunction(F) \in Int /\ SumFunction(F) >= 0
  BY <1>1
<1> QED BY <1>2, <1>3

------------------------------------------------------------------------------
\* A move from a cell stays on the grid.
LEMMA MoveStays ==
    ASSUME NEW V, NEW E, NEW p \in Cell, NEW t, NEW q, Allowed(V, E, p, t, q)
    PROVE  q \in Cell
<1>1. successors[p] \subseteq Cell
  <2>1. successors[p] = {r \in Cell \ Blocked :
            Abs(p[1] - r[1]) + Abs(p[2] - r[2]) + Abs(p[3] - r[3]) = 1}
    BY DEF successors
  <2> QED BY <2>1
<1> QED BY <1>1 DEF Allowed

\* w is a walk of n moves that leaves at time t.
Walk(V, E, t, n, w) == /\ w \in [1 .. n + 1 -> Cell]
                       /\ \A i \in 1 .. n : Allowed(V, E, w[i], t + i - 1, w[i + 1])

\* Where an agent can be at time t that starts at s at time 0.
There(V, E, s, t) == {c \in Cell : \E w : Walk(V, E, 0, t, w) /\ w[1] = s /\ w[t + 1] = c}

\* Where an agent can be at the next time: a move on from where it can be now.
LEMMA OneMoveOn ==
    ASSUME NEW V, NEW E, NEW s \in Cell, NEW t \in Nat
    PROVE  \A q : q \in There(V, E, s, t + 1) <=>
                  q \in Cell /\ \E p \in There(V, E, s, t) : Allowed(V, E, p, t, q)
<1>1. ASSUME NEW q \in There(V, E, s, t + 1)
      PROVE  q \in Cell /\ \E p \in There(V, E, s, t) : Allowed(V, E, p, t, q)
  <2>1. PICK w : Walk(V, E, 0, t + 1, w) /\ w[1] = s /\ w[t + 2] = q
    BY <1>1 DEF There
  <2> DEFINE u == [i \in 1 .. t + 1 |-> w[i]]
  <2>2. u \in [1 .. t + 1 -> Cell] /\ u[1] = s /\ u[t + 1] = w[t + 1] /\ w[t + 1] \in Cell
    BY <2>1 DEF Walk
  <2>3. ASSUME NEW i \in 1 .. t PROVE Allowed(V, E, u[i], 0 + i - 1, u[i + 1])
    BY <2>1 DEF Walk
  <2>4. w[t + 1] \in There(V, E, s, t)
    <3> HIDE DEF u
    <3> QED BY <2>2, <2>3 DEF There, Walk
  <2>5. Allowed(V, E, w[t + 1], 0 + (t + 1) - 1, w[(t + 1) + 1])
    <3>1. t + 1 \in 1 .. t + 1
      OBVIOUS
    <3> QED BY <2>1, <3>1 DEF Walk
  <2>6. 0 + (t + 1) - 1 = t /\ (t + 1) + 1 = t + 2
    OBVIOUS
  <2>7. Allowed(V, E, w[t + 1], t, q)
    BY <2>1, <2>5, <2>6
  <2> QED BY <1>1, <2>4, <2>7 DEF There
<1>2. ASSUME NEW q \in Cell, NEW p \in There(V, E, s, t), Allowed(V, E, p, t, q)
      PROVE  q \in There(V, E, s, t + 1)
  <2>1. PICK w : Walk(V, E, 0, t, w) /\ w[1] = s /\ w[t + 1] = p
    BY DEF There
  <2> DEFINE u == [i \in 1 .. t + 2 |-> IF i = t + 2 THEN q ELSE w[i]]
  <2>2. u \in [1 .. (t + 1) + 1 -> Cell] /\ u[1] = s /\ u[(t + 1) + 1] = q /\ u[t + 1] = p
    BY <2>1 DEF Walk
  <2>3. ASSUME NEW i \in 1 .. t + 1 PROVE Allowed(V, E, u[i], 0 + i - 1, u[i + 1])
    <3>1. CASE i = t + 1
      <4>1. 0 + i - 1 = t /\ i + 1 = (t + 1) + 1
        BY <3>1
      <4> QED BY <1>2, <2>2, <3>1, <4>1
    <3>2. CASE i # t + 1
      <4>1. i \in 1 .. t /\ u[i] = w[i] /\ u[i + 1] = w[i + 1]
        BY <3>2
      <4> QED BY <2>1, <4>1 DEF Walk
    <3> QED BY <3>1, <3>2
  <2> HIDE DEF u
  <2> QED BY <2>2, <2>3 DEF There, Walk
<1> QED BY <1>1, <1>2 DEF There

\* The recursive definition of Reachable: where an agent can be, at every time.
LEMMA ReachableAre ==
    ASSUME NEW V, NEW E, NEW s \in Cell
    PROVE  Reachable(V, E, s) = {r \in (0 .. MaxTime) \X Cell : r[2] \in There(V, E, s, r[1])}
<1> DEFINE Step(t, before) ==
              LET last == {r[2] : r \in {r \in before : r[1] = t - 1}}
              IN  before \cup
                     UNION {{<<t, q>> : q \in {q \in successors[p] \cup {p} :
                                Allowed(V, E, p, t - 1, q)}} : p \in last}
           Body(f) == [t \in 0 .. MaxTime |-> IF t = 0 THEN {<<0, s>>} ELSE Step(t, f[t - 1])]
           reach == CHOOSE f : f = Body(f)
           S == SUBSET (Nat \X Cell)
           F == [x \in Nat \X S |-> Step(x[1], x[2])]
<1>1. Reachable(V, E, s) = reach[MaxTime]
  BY DEF Reachable
<1>2. \A t \in Nat : \A before \in S : Step(t, before) \in S
  <2> SUFFICES ASSUME NEW t \in Nat, NEW before \in S, NEW r \in Step(t, before), r \notin before
               PROVE  r \in Nat \X Cell
    OBVIOUS
  <2>1. PICK p, q : r = <<t, q>> /\ <<t - 1, p>> \in before /\ Allowed(V, E, p, t - 1, q)
    OBVIOUS
  <2> QED BY <2>1, MoveStays
<1>3. \E f : f = Body(f)
  <2>1. F \in [Nat \X S -> S]
    <3> HIDE DEF Step
    <3> QED BY <1>2
  <2> DEFINE b == {<<0, s>>}
  <2>2. b \in S /\ MaxTime \in Nat
    BY GridAssumption
  <2>3. PICK f : Follows(f, S, b, F, MaxTime)
    <3>1. IsRecursion(S, b, F)
      <4> HIDE DEF F, S, b
      <4> QED BY <2>1, <2>2 DEF IsRecursion
    <3> HIDE DEF F, S, b
    <3> QED BY <2>2, <3>1, Recursion
  <2>4. ASSUME NEW t \in 1 .. MaxTime PROVE f[t] = Step(t, f[t - 1])
    <3>1. t \in Nat /\ t - 1 \in 0 .. MaxTime
      BY <2>2
    <3>2. f[t - 1] \in S
      <4> HIDE DEF F, S, b
      <4> QED BY <2>3, <3>1 DEF Follows
    <3>3. F[<<t, f[t - 1]>>] = Step(t, f[t - 1])
      <4> HIDE DEF Step, S
      <4> QED BY <3>1, <3>2
    <3> HIDE DEF F, Step, S, b
    <3> QED BY <2>3, <3>3 DEF Follows
  <2>5. f = Body(f)
    <3>1. ASSUME NEW t \in 0 .. MaxTime
          PROVE  f[t] = IF t = 0 THEN {<<0, s>>} ELSE Step(t, f[t - 1])
      <4>1. t = 0 \/ t \in 1 .. MaxTime
        BY <2>2
      <4>2. f[0] = {<<0, s>>}
        <5> HIDE DEF Step, S, F
        <5> QED BY <2>3 DEF Follows
      <4> HIDE DEF Step, S, F
      <4> QED BY <2>4, <4>1, <4>2
    <3>2. f \in [0 .. MaxTime -> S]
      <4> HIDE DEF S, F, b
      <4> QED BY <2>3 DEF Follows
    <3> HIDE DEF Step, S, F
    <3> QED BY <3>1, <3>2
  <2> QED BY <2>5
<1>4. reach = Body(reach)
  <2> HIDE DEF Body
  <2> QED BY <1>3
<1> DEFINE Upto(t) == {r \in (0 .. t) \X Cell : r[2] \in There(V, E, s, r[1])}
           T == {t \in Nat : t <= MaxTime => reach[t] = Upto(t)}
<1>5. 0 \in T
  <2>1. reach[0] = {<<0, s>>}
    <3>1. 0 \in 0 .. MaxTime
      BY GridAssumption
    <3> HIDE DEF reach, Step
    <3> QED BY <1>4, <3>1
  <2>2. There(V, E, s, 0) = {s}
    <3>1. ASSUME NEW c \in There(V, E, s, 0) PROVE c = s
      BY <3>1 DEF There
    <3>2. Walk(V, E, 0, 0, [i \in 1 .. 1 |-> s])
      BY DEF Walk
    <3>3. [i \in 1 .. 1 |-> s][1] = s /\ 0 + 1 = 1
      OBVIOUS
    <3> QED BY <3>1, <3>2, <3>3 DEF There
  <2>3. Upto(0) = {<<0, s>>}
    BY <2>2
  <2> QED BY <2>1, <2>3
<1>6. ASSUME NEW t \in Nat, t \in T PROVE t + 1 \in T
  <2> SUFFICES ASSUME t + 1 <= MaxTime PROVE reach[t + 1] = Upto(t + 1)
    OBVIOUS
  <2>1. reach[t] = Upto(t)
    <3> HIDE DEF reach, Upto, Step
    <3> QED BY <1>6, GridAssumption
  <2>2. reach[t + 1] = Step(t + 1, reach[t])
    <3>1. t + 1 \in 0 .. MaxTime /\ t + 1 # 0 /\ (t + 1) - 1 = t
      BY GridAssumption
    <3> HIDE DEF reach, Step
    <3> QED BY <1>4, <3>1
  <2>3. \A q : q \in There(V, E, s, t + 1) <=>
                  q \in Cell /\ \E p \in There(V, E, s, t) : Allowed(V, E, p, t, q)
    <3> HIDE DEF reach, Upto, Step, T
    <3> QED BY OneMoveOn
  <2> HIDE DEF reach, T
  <2>4. ASSUME NEW r \in Step(t + 1, Upto(t)) PROVE r \in Upto(t + 1)
    <3>1. CASE r \in Upto(t)
      BY <3>1
    <3>2. CASE r \notin Upto(t)
      <4>1. PICK p, q : /\ r = <<t + 1, q>> /\ <<(t + 1) - 1, p>> \in Upto(t)
                        /\ Allowed(V, E, p, (t + 1) - 1, q)
        BY <2>4, <3>2
      <4>2. (t + 1) - 1 = t
        OBVIOUS
      <4>3. p \in Cell /\ p \in There(V, E, s, t) /\ Allowed(V, E, p, t, q)
        BY <4>1, <4>2
      <4>4. q \in There(V, E, s, t + 1)
        BY <2>3, <4>3, MoveStays
      <4> QED BY <4>1, <4>4 DEF There
    <3> QED BY <3>1, <3>2
  <2>5. ASSUME NEW r \in Upto(t + 1) PROVE r \in Step(t + 1, Upto(t))
    <3>1. CASE r[1] # t + 1
      <4>1. r \in Upto(t)
        BY <2>5, <3>1
      <4> QED BY <4>1
    <3>2. CASE r[1] = t + 1
      <4>1. PICK p \in There(V, E, s, t) : Allowed(V, E, p, t, r[2])
        BY <2>3, <2>5, <3>2
      <4>2. <<t, p>> \in Upto(t) /\ (t + 1) - 1 = t /\ r = <<t + 1, r[2]>>
        BY <2>5, <3>2 DEF There
      <4>3. p \in {x[2] : x \in {x \in Upto(t) : x[1] = (t + 1) - 1}}
        <5> HIDE DEF Upto
        <5> QED BY <4>2
      <4>4. r[2] \in successors[p] \cup {p} /\ Allowed(V, E, p, (t + 1) - 1, r[2])
        BY <4>1, <4>2 DEF Allowed
      <4> HIDE DEF Upto
      <4> QED BY <4>2, <4>3, <4>4
    <3> QED BY <3>1, <3>2
  <2>6. Step(t + 1, Upto(t)) = Upto(t + 1)
    <3> HIDE DEF Step, Upto
    <3> QED BY <2>4, <2>5
  <2> HIDE DEF Step, Upto
  <2> QED BY <2>1, <2>2, <2>6
<1>7. MaxTime \in T
  <2> HIDE DEF T
  <2> QED BY <1>5, <1>6, SetInduction, GridAssumption
<1> HIDE DEF reach
<1> QED BY <1>1, <1>7

\* A sequence of n + 1 cells is its first cell and the rest.
LEMMA FirstAndRest ==
    ASSUME NEW n \in Nat
    PROVE  /\ \A p \in Cell, w \in [1 .. n -> Cell] :
                /\ <<p>> \o w \in [1 .. n + 1 -> Cell]
                /\ (<<p>> \o w)[1] = p
                /\ \A i \in 1 .. n : (<<p>> \o w)[i + 1] = w[i]
           /\ \A u \in [1 .. n + 1 -> Cell] :
                /\ u[1] \in Cell
                /\ [i \in 1 .. n |-> u[i + 1]] \in [1 .. n -> Cell]
                /\ u = <<u[1]>> \o [i \in 1 .. n |-> u[i + 1]]
<1>1. ASSUME NEW p \in Cell, NEW w \in [1 .. n -> Cell]
      PROVE  /\ <<p>> \o w \in [1 .. n + 1 -> Cell]
             /\ (<<p>> \o w)[1] = p
             /\ \A i \in 1 .. n : (<<p>> \o w)[i + 1] = w[i]
  <2> DEFINE x == <<p>> \o w
  <2>1. w \in Seq(Cell) /\ Len(w) = n
    OBVIOUS
  <2>2. x \in Seq(Cell) /\ Len(x) = n + 1
    BY <2>1
  <2>3. \A i \in 1 .. n + 1 : (<<p>> \o w)[i] = IF i <= 1 THEN <<p>>[i] ELSE w[i - 1]
    BY <2>1
  <2>4. ASSUME NEW i \in 1 .. n PROVE (<<p>> \o w)[i + 1] = w[i]
    <3>1. i + 1 \in 1 .. n + 1 /\ ~(i + 1 <= 1) /\ (i + 1) - 1 = i
      OBVIOUS
    <3> QED BY <2>3, <3>1
  <2>5. x \in [1 .. n + 1 -> Cell]
    <3> HIDE DEF x
    <3> QED BY <2>2
  <2>6. x[1] = p
    BY <2>3
  <2> QED BY <2>4, <2>5, <2>6
<1>2. ASSUME NEW u \in [1 .. n + 1 -> Cell]
      PROVE  /\ u[1] \in Cell
             /\ [i \in 1 .. n |-> u[i + 1]] \in [1 .. n -> Cell]
             /\ u = <<u[1]>> \o [i \in 1 .. n |-> u[i + 1]]
  <2> DEFINE w == [i \in 1 .. n |-> u[i + 1]]
             x == <<u[1]>> \o w
  <2>1. u[1] \in Cell /\ w \in [1 .. n -> Cell]
    OBVIOUS
  <2>2. x \in [1 .. n + 1 -> Cell] /\ x[1] = u[1] /\ \A i \in 1 .. n : x[i + 1] = w[i]
    <3> HIDE DEF w
    <3> QED BY <1>1, <2>1
  <2>3. ASSUME NEW i \in 1 .. n + 1 PROVE x[i] = u[i]
    <3>1. CASE i = 1
      BY <2>2, <3>1
    <3>2. CASE i # 1
      <4>1. i - 1 \in 1 .. n /\ (i - 1) + 1 = i
        BY <3>2
      <4>2. x[(i - 1) + 1] = w[i - 1] /\ w[i - 1] = u[(i - 1) + 1]
        BY <2>2, <4>1
      <4> QED BY <4>1, <4>2
    <3> QED BY <3>1, <3>2
  <2>4. x = u
    <3> HIDE DEF x
    <3> QED BY <2>2, <2>3
  <2> QED BY <2>1, <2>4
<1> QED BY <1>1, <1>2

\* The walks of the recursive definition, through the pairs of R, that take n of
\* t moves and end in g.
Through(V, E, R, g, t, n, w) ==
    /\ Walk(V, E, t - n, n, w) /\ w[n + 1] = g
    /\ \A i \in 1 .. n : <<t - n + i - 1, w[i]>> \in R

\* One move put before a walk.
LEMMA OneMoveBefore ==
    ASSUME NEW V, NEW E, NEW R, NEW g \in Cell, NEW t \in Nat, NEW n \in 0 .. t - 1,
           NEW w, Through(V, E, R, g, t, n, w),
           NEW p \in Cell, <<t - (n + 1), p>> \in R, Allowed(V, E, p, t - (n + 1), w[1])
    PROVE  Through(V, E, R, g, t, n + 1, <<p>> \o w)
<1>0. n \in Nat /\ n + 1 \in Nat /\ t - n \in Nat /\ t - (n + 1) \in Nat
  OBVIOUS
<1> DEFINE u == <<p>> \o w
<1>1. /\ w \in [1 .. n + 1 -> Cell]
      /\ \A i \in 1 .. n : Allowed(V, E, w[i], t - n + i - 1, w[i + 1])
      /\ \A i \in 1 .. n : <<t - n + i - 1, w[i]>> \in R
      /\ w[n + 1] = g
  BY DEF Through, Walk
<1>2. /\ u \in [1 .. (n + 1) + 1 -> Cell] /\ u[1] = p
      /\ \A i \in 1 .. n + 1 : u[i + 1] = w[i]
  <2> HIDE DEF u
  <2> DEFINE m == n + 1
  <2>1. m \in Nat /\ w \in [1 .. m -> Cell]
    BY <1>0, <1>1
  <2> HIDE DEF m
  <2>2. /\ u \in [1 .. m + 1 -> Cell] /\ u[1] = p
        /\ \A i \in 1 .. m : u[i + 1] = w[i]
    BY <2>1, FirstAndRest DEF u
  <2> QED BY <2>2 DEF m
<1> HIDE DEF u
<1>3. u[(n + 1) + 1] = g
  <2>1. n + 1 \in 1 .. n + 1
    BY <1>0
  <2> QED BY <1>1, <1>2, <2>1
<1>4. ASSUME NEW i \in 1 .. n + 1
      PROVE  /\ Allowed(V, E, u[i], t - (n + 1) + i - 1, u[i + 1])
             /\ <<t - (n + 1) + i - 1, u[i]>> \in R
  <2>1. CASE i = 1
    <3>1. t - (n + 1) + i - 1 = t - (n + 1) /\ u[i] = p /\ u[i + 1] = w[1]
      BY <1>2, <2>1, <1>0
    <3> QED BY <3>1
  <2>2. CASE i # 1
    <3>1. i - 1 \in 1 .. n /\ (i - 1) + 1 = i /\ t - (n + 1) + i - 1 = t - n + (i - 1) - 1
      BY <2>2, <1>0
    <3>2. u[i] = w[i - 1] /\ u[i + 1] = w[i]
      <4>1. i - 1 \in 1 .. n + 1 /\ u[(i - 1) + 1] = w[i - 1]
        BY <3>1, <1>2, <1>0
      <4> QED BY <3>1, <4>1, <1>2
    <3>3. /\ Allowed(V, E, w[i - 1], t - n + (i - 1) - 1, w[(i - 1) + 1])
          /\ <<t - n + (i - 1) - 1, w[i - 1]>> \in R
      BY <1>1, <3>1
    <3> QED BY <3>1, <3>2, <3>3
  <2> QED BY <2>1, <2>2
<1> QED BY <1>2, <1>3, <1>4 DEF Through, Walk, u

\* The first move taken off a walk.
LEMMA FirstMoveOff ==
    ASSUME NEW V, NEW E, NEW R, NEW g \in Cell, NEW t \in Nat, NEW n \in 0 .. t - 1,
           NEW u, Through(V, E, R, g, t, n + 1, u)
    PROVE  /\ u[1] \in Cell /\ <<t - (n + 1), u[1]>> \in R
           /\ \E w : /\ Through(V, E, R, g, t, n, w) /\ u = <<u[1]>> \o w
                     /\ Allowed(V, E, u[1], t - (n + 1), w[1])
<1>0. n \in Nat /\ n + 1 \in Nat /\ t - n \in Nat /\ t - (n + 1) \in Nat
  OBVIOUS
<1> DEFINE w == [i \in 1 .. n + 1 |-> u[i + 1]]
<1>1. /\ u \in [1 .. (n + 1) + 1 -> Cell]
      /\ \A i \in 1 .. n + 1 : Allowed(V, E, u[i], t - (n + 1) + i - 1, u[i + 1])
      /\ \A i \in 1 .. n + 1 : <<t - (n + 1) + i - 1, u[i]>> \in R
      /\ u[(n + 1) + 1] = g
  BY DEF Through, Walk
<1>2. u[1] \in Cell /\ w \in [1 .. n + 1 -> Cell] /\ u = <<u[1]>> \o w
  <2>1. n + 1 \in Nat
    BY <1>0
  <2> QED BY <1>1, <2>1, FirstAndRest
<1>3. \A i \in 1 .. n + 1 : w[i] = u[i + 1]
  OBVIOUS
<1> HIDE DEF w
<1>4. /\ Allowed(V, E, u[1], t - (n + 1), w[1])
      /\ <<t - (n + 1), u[1]>> \in R
  <2>1. 1 \in 1 .. n + 1 /\ t - (n + 1) + 1 - 1 = t - (n + 1) /\ w[1] = u[1 + 1]
    BY <1>0, <1>3
  <2>2. Allowed(V, E, u[1], t - (n + 1) + 1 - 1, u[1 + 1]) /\ <<t - (n + 1) + 1 - 1, u[1]>> \in R
    BY <1>1, <2>1
  <2> QED BY <2>1, <2>2
<1>5. ASSUME NEW i \in 1 .. n
      PROVE  /\ Allowed(V, E, w[i], t - n + i - 1, w[i + 1])
             /\ <<t - n + i - 1, w[i]>> \in R
  <2>1. i + 1 \in 1 .. n + 1 /\ i \in 1 .. n + 1 /\ t - (n + 1) + (i + 1) - 1 = t - n + i - 1
    BY <1>0
  <2>2. w[i] = u[i + 1] /\ w[i + 1] = u[(i + 1) + 1]
    BY <2>1, <1>3
  <2>3. /\ Allowed(V, E, u[i + 1], t - (n + 1) + (i + 1) - 1, u[(i + 1) + 1])
        /\ <<t - (n + 1) + (i + 1) - 1, u[i + 1]>> \in R
    BY <1>1, <2>1
  <2> QED BY <2>1, <2>2, <2>3
<1>6. w[n + 1] = g
  BY <1>1, <1>3, <1>0
<1>7. Through(V, E, R, g, t, n, w)
  BY <1>2, <1>5, <1>6 DEF Through, Walk
<1> QED BY <1>2, <1>4, <1>7

\* The recursive definition of Walks: the walks through R that end in g at time t.
LEMMA WalksAre ==
    ASSUME NEW V, NEW E, NEW R \in SUBSET (Nat \X Cell), NEW g \in Cell, NEW t \in Nat
    PROVE  \A w : w \in Walks(V, E, R, g, t) <=> Through(V, E, R, g, t, t, w)
<1> DEFINE Ext(n, ends) ==
              UNION {{<<p>> \o w : p \in
                         {q \in {r[2] : r \in {r \in R : r[1] = t - n}} :
                             Allowed(V, E, q, t - n, w[1])}} : w \in ends}
           Body(f) == [n \in 0 .. t |-> IF n = 0 THEN {<<g>>} ELSE Ext(n, f[n - 1])]
           walk == CHOOSE f : f = Body(f)
           S == SUBSET Seq(Cell)
           F == [x \in Nat \X S |-> Ext(x[1], x[2])]
           b == {<<g>>}
<1>1. Walks(V, E, R, g, t) = walk[t]
  BY DEF Walks
<1>2. ASSUME NEW n \in Nat, NEW ends
      PROVE  \A u : u \in Ext(n, ends) <=>
                \E w \in ends, p \in Cell :
                    u = <<p>> \o w /\ <<t - n, p>> \in R /\ Allowed(V, E, p, t - n, w[1])
  <2>1. ASSUME NEW u \in Ext(n, ends)
        PROVE  \E w \in ends, p \in Cell :
                    u = <<p>> \o w /\ <<t - n, p>> \in R /\ Allowed(V, E, p, t - n, w[1])
    <3>1. PICK w \in ends, r \in R : /\ r[1] = t - n /\ u = <<r[2]>> \o w
                                     /\ Allowed(V, E, r[2], t - n, w[1])
      OBVIOUS
    <3>2. r[2] \in Cell /\ r = <<t - n, r[2]>>
      BY <3>1
    <3> QED BY <3>1, <3>2
  <2>2. ASSUME NEW w \in ends, NEW p \in Cell, <<t - n, p>> \in R, Allowed(V, E, p, t - n, w[1])
        PROVE  <<p>> \o w \in Ext(n, ends)
    <3> DEFINE P(v) == {q \in {r[2] : r \in {r \in R : r[1] = t - n}} :
                            Allowed(V, E, q, t - n, v[1])}
    <3>1. p \in P(w)
      BY <2>2
    <3>2. <<p>> \o w \in {<<q>> \o w : q \in P(w)}
      BY <3>1
    <3> HIDE DEF P
    <3>3. <<p>> \o w \in UNION {{<<q>> \o v : q \in P(v)} : v \in ends}
      BY <3>2
    <3> QED BY <3>3 DEF P
  <2> HIDE DEF Ext
  <2> QED BY <2>1, <2>2
<1> HIDE DEF Ext
<1>3. ASSUME NEW n \in Nat, NEW ends \in S PROVE Ext(n, ends) \in S
  <2> SUFFICES ASSUME NEW u \in Ext(n, ends) PROVE u \in Seq(Cell)
    OBVIOUS
  <2>1. \E w \in ends, p \in Cell :
            u = <<p>> \o w /\ <<t - n, p>> \in R /\ Allowed(V, E, p, t - n, w[1])
    <3> HIDE DEF S
    <3> QED BY <1>2
  <2>2. PICK w \in ends, p \in Cell : u = <<p>> \o w
    BY <2>1
  <2>3. w \in Seq(Cell)
    OBVIOUS
  <2> QED BY <2>2, <2>3
<1>4. \E f : f = Body(f)
  <2>1. IsRecursion(S, b, F)
    <3>1. F \in [Nat \X S -> S]
      <4> HIDE DEF S
      <4> QED BY <1>3
    <3>2. b \in S
      OBVIOUS
    <3> HIDE DEF F, S, b
    <3> QED BY <3>1, <3>2 DEF IsRecursion
  <2>2. PICK f : Follows(f, S, b, F, t)
    <3> HIDE DEF F, S, b
    <3> QED BY <2>1, Recursion
  <2>3. f \in [0 .. t -> S] /\ f[0] = b /\ \A n \in 1 .. t : f[n] = F[<<n, f[n - 1]>>]
    <3> HIDE DEF F, S, b
    <3> QED BY <2>2 DEF Follows
  <2>4. ASSUME NEW n \in 0 .. t
        PROVE  f[n] = IF n = 0 THEN {<<g>>} ELSE Ext(n, f[n - 1])
    <3>1. CASE n = 0
      BY <2>3, <3>1
    <3>2. CASE n # 0
      <4>1. n \in 1 .. t /\ n \in Nat /\ n - 1 \in 0 .. t
        BY <3>2
      <4>2. f[n - 1] \in S /\ f[n] = F[<<n, f[n - 1]>>]
        <5> HIDE DEF F, S, b
        <5> QED BY <2>3, <4>1
      <4>3. F[<<n, f[n - 1]>>] = Ext(n, f[n - 1])
        <5> HIDE DEF S
        <5> QED BY <4>1, <4>2
      <4> QED BY <3>2, <4>2, <4>3
    <3> QED BY <3>1, <3>2
  <2>5. f = Body(f)
    <3> HIDE DEF S, F, b
    <3> QED BY <2>3, <2>4
  <2> QED BY <2>5
<1>5. walk = Body(walk)
  <2> HIDE DEF Body
  <2> QED BY <1>4
<1>6. walk[0] = {<<g>>} /\ \A n \in 0 .. t - 1 : walk[n + 1] = Ext(n + 1, walk[n])
  <2>1. walk[0] = {<<g>>}
    <3>1. 0 \in 0 .. t
      OBVIOUS
    <3> HIDE DEF walk
    <3> QED BY <1>5, <3>1
  <2>2. ASSUME NEW n \in 0 .. t - 1 PROVE walk[n + 1] = Ext(n + 1, walk[n])
    <3>1. n + 1 \in 0 .. t /\ n + 1 # 0 /\ (n + 1) - 1 = n
      OBVIOUS
    <3> HIDE DEF walk
    <3> QED BY <1>5, <3>1
  <2> HIDE DEF walk
  <2> QED BY <2>1, <2>2
<1> HIDE DEF walk, Body, S, F, b
<1> DEFINE Right(n) == \A w : w \in walk[n] <=> Through(V, E, R, g, t, n, w)
           T == {n \in Nat : n <= t => Right(n)}
<1>7. 0 \in T
  <2>1. <<g>> \in [1 .. 0 + 1 -> Cell] /\ <<g>>[0 + 1] = g
    OBVIOUS
  <2>2. Through(V, E, R, g, t, 0, <<g>>)
    BY <2>1 DEF Through, Walk
  <2>3. ASSUME NEW w, Through(V, E, R, g, t, 0, w) PROVE w = <<g>>
    <3>1. w \in [1 .. 1 -> Cell] /\ w[1] = g
      BY <2>3 DEF Through, Walk
    <3> QED BY <3>1
  <2> QED BY <1>6, <2>2, <2>3
<1>8. ASSUME NEW n \in Nat, n \in T PROVE n + 1 \in T
  <2> SUFFICES ASSUME n + 1 <= t PROVE Right(n + 1)
    OBVIOUS
  <2>1. n \in 0 .. t - 1 /\ n + 1 \in Nat /\ Right(n)
    BY <1>8
  <2> HIDE DEF T
  <2>2. \A u : u \in walk[n + 1] <=>
            \E w \in walk[n], p \in Cell :
                /\ u = <<p>> \o w /\ <<t - (n + 1), p>> \in R
                /\ Allowed(V, E, p, t - (n + 1), w[1])
    <3>1. walk[n + 1] = Ext(n + 1, walk[n])
      BY <1>6, <2>1
    <3>2. \A u : u \in Ext(n + 1, walk[n]) <=>
              \E w \in walk[n], p \in Cell :
                  /\ u = <<p>> \o w /\ <<t - (n + 1), p>> \in R
                  /\ Allowed(V, E, p, t - (n + 1), w[1])
      <4> HIDE DEF Right
      <4> QED BY <1>2, <2>1
    <3> QED BY <3>1, <3>2
  <2>3. ASSUME NEW u \in walk[n + 1] PROVE Through(V, E, R, g, t, n + 1, u)
    <3>1. PICK w \in walk[n], p \in Cell :
              /\ u = <<p>> \o w /\ <<t - (n + 1), p>> \in R
              /\ Allowed(V, E, p, t - (n + 1), w[1])
      BY <2>2
    <3>2. Through(V, E, R, g, t, n, w)
      BY <2>1
    <3> QED BY <2>1, <3>1, <3>2, OneMoveBefore
  <2>4. ASSUME NEW u, Through(V, E, R, g, t, n + 1, u) PROVE u \in walk[n + 1]
    <3>1. u[1] \in Cell /\ <<t - (n + 1), u[1]>> \in R
      BY <2>1, <2>4, FirstMoveOff
    <3>2. PICK w : /\ Through(V, E, R, g, t, n, w) /\ u = <<u[1]>> \o w
                   /\ Allowed(V, E, u[1], t - (n + 1), w[1])
      BY <2>1, <2>4, FirstMoveOff
    <3>3. w \in walk[n]
      BY <2>1, <3>2
    <3> QED BY <2>2, <3>1, <3>2, <3>3
  <2> QED BY <2>3, <2>4
<1>9. Right(t)
  <2>1. Nat \subseteq T
    <3> HIDE DEF T
    <3> QED BY <1>7, <1>8, SetInduction
  <2> HIDE DEF Right
  <2> QED BY <2>1
<1> QED BY <1>1, <1>9

------------------------------------------------------------------------------
\* A path of n moves from s to g.
IsPath(V, E, s, g, n, w) == Walk(V, E, 0, n, w) /\ w[1] = s /\ w[n + 1] = g

\* Along a path the agent is where it can be.
LEMMA PathPassesThere ==
    ASSUME NEW V, NEW E, NEW s, NEW g, NEW n \in Nat, NEW w, IsPath(V, E, s, g, n, w),
           NEW i \in 1 .. n + 1
    PROVE  w[i] \in There(V, E, s, i - 1)
<1> DEFINE u == [j \in 1 .. i |-> w[j]]
<1>1. /\ w \in [1 .. n + 1 -> Cell] /\ w[1] = s
      /\ \A j \in 1 .. n : Allowed(V, E, w[j], 0 + j - 1, w[j + 1])
  BY DEF IsPath, Walk
<1>2. (i - 1) + 1 = i /\ i - 1 \in Nat
  OBVIOUS
<1>3. u \in [1 .. (i - 1) + 1 -> Cell] /\ u[1] = s /\ u[(i - 1) + 1] = w[i]
  BY <1>1, <1>2
<1>4. ASSUME NEW j \in 1 .. i - 1 PROVE Allowed(V, E, u[j], 0 + j - 1, u[j + 1])
  <2>1. j \in 1 .. n /\ u[j] = w[j] /\ u[j + 1] = w[j + 1]
    OBVIOUS
  <2> QED BY <1>1, <2>1
<1> HIDE DEF u
<1>5. Walk(V, E, 0, i - 1, u)
  BY <1>3, <1>4 DEF Walk
<1> QED BY <1>1, <1>3, <1>5 DEF There

\* At time 0 an agent is where it starts.
LEMMA AtTimeZero == ASSUME NEW V, NEW E, NEW s \in Cell PROVE There(V, E, s, 0) = {s}
<1>1. ASSUME NEW c \in There(V, E, s, 0) PROVE c = s
  BY <1>1 DEF There
<1>2. Walk(V, E, 0, 0, [i \in 1 .. 1 |-> s])
  BY DEF Walk
<1>3. [i \in 1 .. 1 |-> s][1] = s /\ 0 + 1 = 1
  OBVIOUS
<1> QED BY <1>1, <1>2, <1>3 DEF There

\* The walks that shortest paths are chosen from are the paths.
LEMMA WalksArePaths ==
    ASSUME NEW V, NEW E, NEW s \in Cell, NEW g \in Cell,
           NEW t \in 0 .. MaxTime, g \in There(V, E, s, t)
    PROVE  \A w : w \in Walks(V, E, Reachable(V, E, s), g, t) <=> IsPath(V, E, s, g, t, w)
<1> DEFINE R == Reachable(V, E, s)
<1>1. R = {r \in (0 .. MaxTime) \X Cell : r[2] \in There(V, E, s, r[1])}
  BY ReachableAre
<1>2. R \in SUBSET (Nat \X Cell)
  BY <1>1
<1> HIDE DEF R
<1> SUFFICES ASSUME NEW w PROVE w \in Walks(V, E, R, g, t) <=> IsPath(V, E, s, g, t, w)
  BY DEF R
<1>3. t \in Nat /\ t - t = 0
  BY GridAssumption
<1>4. w \in Walks(V, E, R, g, t) <=> Through(V, E, R, g, t, t, w)
  BY <1>2, <1>3, WalksAre
<1>5. ASSUME Through(V, E, R, g, t, t, w) PROVE IsPath(V, E, s, g, t, w)
  <2>1. Walk(V, E, 0, t, w) /\ w[t + 1] = g /\ \A i \in 1 .. t : <<0 + i - 1, w[i]>> \in R
    BY <1>3, <1>5 DEF Through
  <2>2. CASE t = 0
    BY <1>3, <2>1, <2>2, AtTimeZero DEF IsPath
  <2>3. CASE t # 0
    <3>1. 1 \in 1 .. t /\ 0 + 1 - 1 = 0
      BY <1>3, <2>3
    <3>2. <<0, w[1]>> \in R
      BY <2>1, <3>1
    <3>3. w[1] \in There(V, E, s, 0)
      BY <1>1, <3>2
    <3> QED BY <2>1, <3>3, AtTimeZero DEF IsPath
  <2> QED BY <2>2, <2>3
<1>6. ASSUME IsPath(V, E, s, g, t, w) PROVE Through(V, E, R, g, t, t, w)
  <2>1. ASSUME NEW i \in 1 .. t PROVE <<t - t + i - 1, w[i]>> \in R
    <3>1. i \in 1 .. t + 1 /\ t - t + i - 1 = i - 1 /\ i - 1 \in 0 .. MaxTime
      BY <1>3, GridAssumption
    <3>2. w[i] \in There(V, E, s, i - 1)
      BY <1>3, <1>6, <3>1, PathPassesThere
    <3>3. w[i] \in Cell
      BY <3>2 DEF There
    <3> QED BY <1>1, <3>1, <3>2, <3>3
  <2> QED BY <1>3, <1>6, <2>1 DEF Through, IsPath
<1> QED BY <1>4, <1>5, <1>6

\* What the recursive definition of ShortestPaths means: the paths of as few
\* moves as reach the goal, and nothing when none does within MaxTime.
THEOREM ShortestPathsAre ==
    ASSUME NEW V, NEW E, NEW s \in Cell, NEW g \in Cell
    PROVE  /\ ShortestPaths(V, E, s, g) = {} <=> \A n \in 0 .. MaxTime : g \notin There(V, E, s, n)
           /\ \A w : w \in ShortestPaths(V, E, s, g) <=>
                 \E n \in 0 .. MaxTime : /\ IsPath(V, E, s, g, n, w)
                                         /\ \A m \in 0 .. n - 1 : g \notin There(V, E, s, m)
<1> DEFINE R == Reachable(V, E, s)
           arrivals == {r[1] : r \in {r \in R : r[2] = g}}
           t == CHOOSE t \in arrivals : \A u \in arrivals : t <= u
<1>1. R = {r \in (0 .. MaxTime) \X Cell : r[2] \in There(V, E, s, r[1])}
  BY ReachableAre
<1>2. R \in SUBSET (Nat \X Cell)
  BY <1>1
<1>3. \A n : n \in arrivals <=> n \in 0 .. MaxTime /\ g \in There(V, E, s, n)
  <2>1. ASSUME NEW n \in arrivals PROVE n \in 0 .. MaxTime /\ g \in There(V, E, s, n)
    BY <1>1
  <2>2. ASSUME NEW n \in 0 .. MaxTime, g \in There(V, E, s, n) PROVE n \in arrivals
    <3>1. <<n, g>> \in R
      BY <1>1, <2>2
    <3> HIDE DEF R
    <3> QED BY <3>1
  <2> HIDE DEF arrivals
  <2> QED BY <2>1, <2>2
<1>4. ShortestPaths(V, E, s, g) = IF arrivals = {} THEN {} ELSE Walks(V, E, R, g, t)
  BY DEF ShortestPaths
<1> HIDE DEF R, arrivals
<1>5. ASSUME arrivals # {}
      PROVE  /\ t \in arrivals /\ \A u \in arrivals : t <= u
             /\ t \in 0 .. MaxTime /\ \A m \in 0 .. t - 1 : g \notin There(V, E, s, m)
  <2>1. arrivals \subseteq Nat
    BY <1>3
  <2>2. \E n \in arrivals : \A u \in arrivals : n <= u
    BY <1>5, <2>1, LeastNumber
  <2>3. t \in arrivals /\ \A u \in arrivals : t <= u
    BY <2>2
  <2> HIDE DEF t
  <2>4. ASSUME NEW m \in 0 .. t - 1 PROVE g \notin There(V, E, s, m)
    <3>1. t \in 0 .. MaxTime
      BY <1>3, <2>3
    <3>2. m \in 0 .. MaxTime /\ ~(t <= m)
      BY <3>1, GridAssumption
    <3> QED BY <1>3, <2>3, <3>2
  <2> QED BY <1>3, <2>3, <2>4
<1> HIDE DEF t
<1>6. ASSUME arrivals # {}, NEW w PROVE w \in Walks(V, E, R, g, t) <=> IsPath(V, E, s, g, t, w)
  <2>1. t \in 0 .. MaxTime /\ g \in There(V, E, s, t)
    BY <1>3, <1>5, <1>6
  <2> QED BY <2>1, WalksArePaths DEF R
<1>7. ASSUME NEW n \in 0 .. MaxTime, NEW w, IsPath(V, E, s, g, n, w),
             \A m \in 0 .. n - 1 : g \notin There(V, E, s, m)
      PROVE  arrivals # {} /\ n = t
  <2>1. n \in Nat /\ n + 1 \in 1 .. n + 1 /\ (n + 1) - 1 = n
    BY GridAssumption
  <2>2. g \in There(V, E, s, n)
    <3>1. w[n + 1] \in There(V, E, s, (n + 1) - 1)
      BY <1>7, <2>1, PathPassesThere
    <3> QED BY <1>7, <2>1, <3>1 DEF IsPath
  <2>3. n \in arrivals
    BY <1>3, <2>2
  <2>4. t \in 0 .. MaxTime /\ t <= n /\ g \in There(V, E, s, t)
    BY <1>3, <1>5, <2>3
  <2>5. ~(t < n)
    BY <1>7, <2>1, <2>4
  <2> QED BY <2>1, <2>3, <2>4, <2>5
<1>8. ASSUME arrivals # {} PROVE \E w : IsPath(V, E, s, g, t, w)
  <2>1. g \in There(V, E, s, t)
    BY <1>3, <1>5, <1>8
  <2> QED BY <2>1 DEF There, IsPath
<1>9. ASSUME arrivals = {} PROVE \A n \in 0 .. MaxTime : g \notin There(V, E, s, n)
  BY <1>3, <1>9
<1>10. ASSUME arrivals # {} PROVE \E n \in 0 .. MaxTime : g \in There(V, E, s, n)
  BY <1>3, <1>10
<1>11. CASE arrivals = {}
  <2>1. ShortestPaths(V, E, s, g) = {}
    BY <1>4, <1>11
  <2>2. \A n \in 0 .. MaxTime : \A w : ~(/\ IsPath(V, E, s, g, n, w)
                                         /\ \A m \in 0 .. n - 1 : g \notin There(V, E, s, m))
    BY <1>7, <1>11
  <2> QED BY <1>9, <1>11, <2>1, <2>2
<1>12. CASE arrivals # {}
  <2>1. \A w : w \in ShortestPaths(V, E, s, g) <=> IsPath(V, E, s, g, t, w)
    BY <1>4, <1>6, <1>12
  <2>2. t \in 0 .. MaxTime /\ \A m \in 0 .. t - 1 : g \notin There(V, E, s, m)
    BY <1>5, <1>12
  <2>3. \E w : w \in ShortestPaths(V, E, s, g)
    BY <1>8, <1>12, <2>1
  <2> QED BY <1>7, <1>10, <1>12, <2>1, <2>2, <2>3
<1> QED BY <1>11, <1>12
=============================================================================

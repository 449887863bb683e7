------------------------------ MODULE Toolpath -------------------------------
(***************************************************************************)
(* The toolpath of high_precision_optical_simulator/src/optical/           *)
(* ToolpathGenerator.cpp: a cubic spline through the sag of the lens at    *)
(* evenly spaced radii, its evaluation, the path, and the comparison of a  *)
(* measured path with it.  The sag is data: z, a sequence of whole         *)
(* heights.  Radii are in thirds of the knot distance h, and a second      *)
(* derivative in units of 6 / h^2, so that h drops out of fit and eval.    *)
(***************************************************************************)
EXTENDS Rational, Sequences, FiniteSetsExt, Functions

\* The constructor refuses fewer than two radii, no angle, no aperture.
Refused(nRadial, nAngles, rMax) == nRadial < 2 \/ nAngles < 1 \/ rMax <= 0

\* fitSpline(): the interior second derivatives by forward sweep and back
\* substitution, none at the ends.
\* Mutation: the back substitution subtracts the neighbour unweighted.
fitSplineUnweighted(z) ==
    LET m == Len(z) - 2
        rhs(i) == Whole(z[i + 2] - 2 * z[i + 1] + z[i])
        c[i \in 1 .. m] == Whole(1) (/) (IF i = 1 THEN Whole(4) ELSE Whole(4) (-) c[i - 1])
        d[i \in 1 .. m] == IF i = 1 THEN rhs(1) (.) c[1] ELSE (rhs(i) (-) d[i - 1]) (.) c[i]
        M[i \in 1 .. m] == IF i = m THEN d[m] ELSE d[i] (-) M[i + 1]
    IN  [i \in 1 .. Len(z) |-> IF i \in 2 .. m + 1 THEN M[i - 1] ELSE Whole(0)]

fitSpline(z) ==
    LET m == Len(z) - 2
        rhs(i) == Whole(z[i + 2] - 2 * z[i + 1] + z[i])
        c[i \in 1 .. m] == Whole(1) (/) (IF i = 1 THEN Whole(4) ELSE Whole(4) (-) c[i - 1])
        d[i \in 1 .. m] == IF i = 1 THEN rhs(1) (.) c[1] ELSE (rhs(i) (-) d[i - 1]) (.) c[i]
        M[i \in 1 .. m] == IF i = m THEN d[m] ELSE d[i] (-) c[i] (.) M[i + 1]
    IN  [i \in 1 .. Len(z) |-> IF i \in 2 .. m + 1 THEN M[i - 1] ELSE Whole(0)]

\* Interval i of the spline at fraction t.
eval(z, M, i, t) ==
    LET a == Whole(1) (-) t
        bend(x) == x (.) x (.) x (-) x
    IN  a (.) Whole(z[i]) (+) t (.) Whole(z[i + 1]) (+) bend(a) (.) M[i] (+) bend(t) (.) M[i + 1]

\* evalAt(): the radius is clamped to the aperture, the last radius belongs
\* to the last interval, where t is 1.
evalAt(z, r) ==
    LET k == Max({0, Min({r, 3 * (Len(z) - 1)})})
        i == Min({k \div 3, Len(z) - 2})
    IN  eval(z, fitSpline(z), i + 1, Q(k - 3 * i, 3))

\* generate(): every profile from the centre outwards, one angle after the
\* other.
generate(z, nAngles) ==
    [k \in 1 .. nAngles * Len(z) |->
        [r |-> (k - 1) % Len(z), theta |-> (k - 1) \div Len(z), z |-> z[((k - 1) % Len(z)) + 1]]]

\* analyseDeviation() of two sequences of heights: n, the square of the RMS
\* error, and the peak.
\* Mutation: the sign of a deviation is kept.
DeviationSigned(expected, actual, i) == actual[i] - expected[i]
Deviation(expected, actual, i) ==
    IF actual[i] < expected[i] THEN expected[i] - actual[i] ELSE actual[i] - expected[i]

analyseDeviation(expected, actual) ==
    LET n == Len(expected)
        d(i) == Deviation(expected, actual, i)
    IN  IF n = 0 \/ Len(actual) # n THEN [n |-> 0, meanSquare |-> Whole(0), peak |-> 0]
        ELSE [n |-> n, peak |-> Max({d(i) : i \in 1 .. n} \cup {0}),
              meanSquare |-> Q(SumFunction([i \in 1 .. n |-> d(i) * d(i)]), n)]

------------------------------------------------------------------------------
\* Twice the slope of a cubic at the ends of an interval, and a ninth of its
\* second derivative, from its values at 0, 1/3, 2/3 and 1.
Mix4(k, f) == Whole(k[1]) (.) f[1] (+) Whole(k[2]) (.) f[2]
              (+) Whole(k[3]) (.) f[3] (+) Whole(k[4]) (.) f[4]
SlopeLeft(f)  == Mix4(<<-11, 18, -9, 2>>, f)
SlopeRight(f) == Mix4(<<-2, 9, -18, 11>>, f)
BendLeft(f)   == Mix4(<<2, -5, 4, -1>>, f)
BendRight(f)  == Mix4(<<-1, 4, -5, 2>>, f)

\* What evalAt() returns, looked at from outside, is the natural cubic spline
\* of the heights: it passes through them, is smooth to the second derivative
\* where intervals meet, straight at its ends, constant beyond the aperture.
\* The path that generate() lists lies on it, each point once and in order.
IsNaturalSpline(z, nAngles) ==
    LET n == Len(z)
        at(i) == [j \in 1 .. 4 |-> evalAt(z, 3 * (i - 1) + j - 1)]
        path == generate(z, nAngles)
    IN  /\ \A i \in 1 .. n : evalAt(z, 3 * (i - 1)) = Whole(z[i])
        /\ evalAt(z, -1) = Whole(z[1]) /\ evalAt(z, 3 * n) = Whole(z[n])
        /\ \A i \in 1 .. n - 2 : /\ SlopeRight(at(i)) = SlopeLeft(at(i + 1))
                                 /\ BendRight(at(i)) = BendLeft(at(i + 1))
        /\ BendLeft(at(1)) = Whole(0) /\ BendRight(at(n - 1)) = Whole(0)
        /\ \A k \in DOMAIN path : evalAt(z, 3 * path[k].r) = Whole(path[k].z)
        /\ {<<path[k].theta, path[k].r>> : k \in DOMAIN path}
             = (0 .. nAngles - 1) \X (0 .. n - 1)
        /\ \A k \in 2 .. Len(path) : path[k - 1].theta * n + path[k - 1].r
                                       < path[k].theta * n + path[k].r

\* The peak is a deviation that occurs, no deviation exceeds it, the mean
\* square lies between the peak's share and its square; nothing is said of
\* paths of different length.
DeviationIsHonest(expected, actual) ==
    LET s == analyseDeviation(expected, actual)
        gaps == {actual[i] - expected[i] : i \in 1 .. s.n}
        msq == s.meanSquare
    IN  /\ s.n = IF Len(expected) = Len(actual) THEN Len(expected) ELSE 0
        /\ s.n > 0 => s.peak \in gaps \/ -s.peak \in gaps
        /\ \A g \in gaps : g \in -s.peak .. s.peak
        /\ s.peak * s.peak * msq[2] <= s.n * msq[1]
        /\ msq[1] <= s.peak * s.peak * msq[2]
==============================================================================

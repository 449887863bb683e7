-------------------------------- MODULE Ieee ---------------------------------
(***************************************************************************)
(* Floats as whole numbers of some unit and the three that are no numbers, *)
(* which every operation and comparison treats as IEEE 754 does.           *)
(***************************************************************************)
EXTENDS Integers

CONSTANTS Inf, NegInf, NaN   \* model values

Floats == Int \cup {Inf, NegInf, NaN}

ASSUME IeeeAssumption ==
    /\ Inf \notin Int /\ NegInf \notin Int /\ NaN \notin Int
    /\ Inf # NegInf /\ Inf # NaN /\ NegInf # NaN

Neg(x) == IF x = NaN THEN NaN ELSE IF x = Inf THEN NegInf ELSE IF x = NegInf THEN Inf ELSE -x
Add(x, y) ==
    IF x = NaN \/ y = NaN \/ (x = Inf /\ y = NegInf) \/ (x = NegInf /\ y = Inf) THEN NaN
    ELSE IF x = Inf \/ y = Inf THEN Inf
    ELSE IF x = NegInf \/ y = NegInf THEN NegInf ELSE x + y
Sub(x, y) == Add(x, Neg(y))
Scale(k, x) == IF x \in {NaN, Inf, NegInf} THEN x ELSE k * x     \* k > 0

\* By a time that is one or none.
Times(x, dt) == IF dt = 1 THEN x ELSE IF x \in {NaN, Inf, NegInf} THEN NaN ELSE 0
Over(x, dt) ==
    IF dt = 1 \/ x \in {NaN, Inf, NegInf} THEN x
    ELSE IF x = 0 THEN NaN ELSE IF x > 0 THEN Inf ELSE NegInf

\* x < y and x > y for a number y.
Below(x, y) == x = NegInf \/ (x \notin {NaN, Inf} /\ x < y)
Above(x, y) == x = Inf \/ (x \notin {NaN, NegInf} /\ x > y)
==============================================================================

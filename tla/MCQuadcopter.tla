---------------------------- MODULE MCQuadcopter -----------------------------
(* Gains in the proportions of the code, level flight, errors along one axis *)
(* and along all, and the floats that are no numbers.                        *)
EXTENDS Quadcopter

At(p, r, y) == [pitch |-> p, roll |-> r, yaw |-> y]
SomeAttitudes ==
    { At(0, 0, 0), At(1, 0, 2), At(-2, 1, 0), At(1, -1, 1),
      At(Inf, 0, 0), At(NegInf, 1, 0), At(0, NaN, 0), At(Inf, NegInf, 0) }
Gain(tilt, turn) == [pitch |-> tilt, roll |-> tilt, yaw |-> turn]
TiltKp == Gain(3, 4)
TiltKi == Gain(2, 1)
TiltKd == Gain(1, 2)
==============================================================================

---------------------------- MODULE PoseConsensus ----------------------------
(***************************************************************************)
(* The position fusion of uav_swarm_coordinator/swarm_algorithms/src/      *)
(* pose_consensus/mod.rs: the newest estimate of each drone, and their     *)
(* mean weighted with the inverse of each variance, the variance raised to *)
(* at least Floor.  The axes do not touch each other: one is modelled.     *)
(*                                                                         *)
(* A variance is a float in units in which Floor is whole, a fused value a *)
(* fraction, NaN or None.                                                  *)
(***************************************************************************)
EXTENDS Rational, Ieee, FiniteSetsExt, Functions

CONSTANTS Drones, Positions, Variances,
          None,    \* no position, a model value
          Floor,   \* the smallest variance counted, 1e-9 in the code
          Unit     \* a multiple of Floor and of every variance above it

Counted == {v \in Variances : v \in Int /\ v > Floor} \cup {Floor}
ASSUME PoseAssumption ==
    /\ Positions \subseteq Int /\ Variances \subseteq Floats /\ Floor \in Nat \ {0}
    /\ Unit \in Nat \ {0} /\ \A v \in Counted : Unit % v = 0
    /\ None \notin Int \X Int /\ NaN \notin Int \X Int

VARIABLE states           \* the estimates, [a set of drones -> ...]
PoseInit == states = <<>>

update(drone, position, variance) ==
    states' = [d \in DOMAIN states \cup {drone} |->
                  IF d = drone THEN [position |-> position, variance |-> variance]
                  ELSE states[d]]
PoseNext == \E d \in Drones, p \in Positions, v \in Variances : update(d, p, v)

\* 1 / max(variance, Floor), times Unit.  f64::max() drops a NaN.
\* Mutation: without the floor a variance of zero or less is a weight too.
WeightNoFloor(v) == IF v \in {Inf, NegInf} THEN 0
                    ELSE IF v \in {NaN, 0} THEN Unit \div Floor
                    ELSE IF v < 0 THEN -(Unit \div (-v)) ELSE Unit \div v
Weight(v) == IF v = Inf THEN 0
             ELSE IF Above(v, Floor) THEN Unit \div v ELSE Unit \div Floor

\* None without an estimate; 0 / 0 when no estimate has a weight.
fused_position ==
    LET weight == [d \in DOMAIN states |-> Weight(states[d].variance)]
        num == SumFunction([d \in DOMAIN states |-> weight[d] * states[d].position])
        den == SumFunction(weight)
    IN  IF DOMAIN states = {} THEN None ELSE IF den = 0 THEN NaN ELSE Q(num, den)

drone_count == Cardinality(DOMAIN states)
swarm_centroid ==
    IF DOMAIN states = {} THEN None
    ELSE Q(SumFunction([d \in DOMAIN states |-> states[d].position]), drone_count)

------------------------------------------------------------------------------
q \preceq r == q[1] * r[2] <= r[1] * q[2]

\* How much an estimate is to be trusted: a variance below the floor, and
\* one that is no number, counts as the floor.
Certainty(v) == IF v \in Counted THEN v ELSE Floor

\* Among the drones that know anything, the fused position lies between the
\* extreme positions, is the centroid when they are equally certain, and of
\* two drones it is at least as near to the more certain one.  It is lost
\* only when every estimate says it knows nothing.  Variances of zero, below
\* zero and NaN make an estimate strong, never wild.
FusionIsBounded ==
    LET known == {d \in DOMAIN states : states[d].variance # Inf}
        at(d) == states[d].position
        rank(d) == Certainty(states[d].variance)
    IN  IF known = {}
        THEN fused_position = IF DOMAIN states = {} THEN None ELSE NaN
        ELSE LET f == fused_position IN
             /\ f # NaN
             /\ Whole(Min({at(d) : d \in known})) \preceq f
             /\ f \preceq Whole(Max({at(d) : d \in known}))
             /\ (\A d, e \in DOMAIN states : d \in known /\ rank(d) = rank(e))
                    => f = swarm_centroid
             /\ \A d, e \in DOMAIN states :
                    known = {d, e} /\ rank(d) <= rank(e) /\ at(d) <= at(e)
                        => Whole(2) (.) f \preceq Whole(at(d) + at(e))
             /\ \A d, e \in DOMAIN states :
                    known = {d, e} /\ rank(d) <= rank(e) /\ at(d) >= at(e)
                        => Whole(at(d) + at(e)) \preceq (Whole(2) (.) f)
==============================================================================

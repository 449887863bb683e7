---------------------------- MODULE PhysicsModel -----------------------------
(***************************************************************************)
(* The engine physics of zephyr_canfd_ecu_node/ecu/src/physics_model.cpp   *)
(* at the main loop's step, dt = 1/50 or 1/100 s, with the throttle        *)
(* commands of ecu_state_machine.cpp:126-132.                              *)
(*                                                                         *)
(* Each quantity is known to the nearest unit (rpm, degree C, kPa, 0.01 V, 0.1 %,  *)
(* 0.1 km/h).  A first-order lag x += (target - x) * dt / tau with         *)
(* 0 < dt / tau < 1 leaves x between its old value and the target.         *)
(***************************************************************************)
EXTENDS Integers

Byte == 0 .. 255

CONSTANTS Param,   \* command parameters tried, bytes
          Grain,   \* resolution: [quantity -> step] of the values besides the targets
          Levels   \* bound: how many multiples of a grain are kept

ASSUME PhysicsAssumption == Param \subseteq Byte

VARIABLES throttle, rpm, temp, oil, volt, fuel, speed

vars == <<throttle, rpm, temp, oil, volt, fuel, speed>>

Init ==
    /\ throttle = 0 /\ rpm = 800 /\ temp = 25 /\ oil = 214
    /\ volt = 1260 /\ fuel = 1000 /\ speed = 0

Between(x, y) == IF x <= y THEN x .. y ELSE y .. x
Lag(q, x, target) ==
    {v \in {x, target} \cup {k * Grain[q] : k \in 1 .. Levels} : v \in Between(x, target)}

TargetRpm(t)  == 800 + 52 * t
TargetTemp(r) == 25 + r \div 80
TargetOil(r)  == 150 + (8 * r) \div 100
TargetVolt(r) == IF r > 400 THEN 1380 ELSE 1150
TargetSpeed(t) == 18 * t

\* The rpm of this step is what the other targets follow.
Step ==
    /\ rpm'   \in Lag("rpm", rpm, TargetRpm(throttle))
    /\ temp'  \in Lag("temp", temp, TargetTemp(rpm'))
    /\ oil'   \in Lag("oil", oil, TargetOil(rpm'))
    /\ volt'  \in Lag("volt", volt, TargetVolt(rpm'))
    /\ speed' \in Lag("speed", speed, TargetSpeed(throttle))
    /\ fuel'  \in Lag("fuel", fuel, 0)
    /\ UNCHANGED throttle

\* SET_THROTTLE: out of range is refused; set_throttle() would clamp as well.
Clamp(t) == IF t > 100 THEN 100 ELSE t
\* Mutation: the parameter is neither checked nor clamped.
SetThrottleRaw(p) ==
    /\ throttle' = p
    /\ UNCHANGED <<rpm, temp, oil, volt, fuel, speed>>

SetThrottle(p) ==
    /\ p <= 100
    /\ throttle' = Clamp(p)
    /\ UNCHANGED <<rpm, temp, oil, volt, fuel, speed>>

Next == Step \/ \E p \in Param : SetThrottle(p)

Spec == Init /\ [][Next]_vars

\* update() runs in every round of the main loop: while a quantity is off its
\* target, one moves.
FairSpec == Spec /\ WF_vars(Step)

------------------------------------------------------------------------------
\* The invariant the thresholds are compared with.
InRange ==
    /\ throttle \in 0 .. 100 /\ rpm \in 800 .. 6000 /\ temp \in 25 .. 100
    /\ oil \in 214 .. 630 /\ volt \in 1260 .. 1380 /\ fuel \in 0 .. 1000
    /\ speed \in 0 .. 1800

\* What evaluate_faults() reads of each sensor (ecu_state_machine.cpp:47-69).
OverTemp   == IF temp > 110 THEN "bad" ELSE IF temp < 105 THEN "good" ELSE "band"
LowOil     == IF rpm > 800 /\ oil < 150 THEN "bad"
              ELSE IF rpm <= 800 \/ oil > 180 THEN "good" ELSE "band"
LowBattery == IF volt < 1100 THEN "bad" ELSE IF volt > 1150 THEN "good" ELSE "band"

\* The code's own limit: no throttle command, whenever it comes, takes a
\* sensor out of its good range, as the coolant's target ends at 100 degrees.
NoPhysicalFault == OverTemp = "good" /\ LowOil = "good" /\ LowBattery = "good"

\* What the ECU's own test says of the engine (ecu/tests/src/main.cpp:52-59):
\* held at full throttle it heats up until the over-temperature bit is set.
FullThrottleOverheats == throttle = 100 ~> (throttle # 100 \/ OverTemp = "bad")
==============================================================================

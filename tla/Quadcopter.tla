----------------------------- MODULE Quadcopter ------------------------------
(***************************************************************************)
(* The control loop of edge_ai_quadcopter_controller: three PID            *)
(* controllers, the braking on an obstacle, and the motor mixer, tick by   *)
(* tick as in main_sim.cpp and arm_smoke.cpp.  A tick takes one unit of    *)
(* time or, for a clock that stands still, none.                           *)
(***************************************************************************)
EXTENDS Ieee

CONSTANTS Kp, Ki, Kd,     \* gains, [Axes -> Nat \ {0}]
          Limit,          \* bound of an integral, 10 in the code
          Full,           \* full thrust of a motor, 1 in the code
          Attitudes,      \* errors a tick may find, [Axes -> Floats]
          Throttles       \* throttles asked for, even: braking halves them

Axes == {"pitch", "roll", "yaw"}

ASSUME QuadcopterAssumption ==
    /\ Kp \in [Axes -> Nat \ {0}] /\ Ki \in [Axes -> Nat \ {0}] /\ Kd \in [Axes -> Nat \ {0}]
    /\ Limit \in Nat /\ Full \in Nat \ {0}
    /\ Attitudes \subseteq [Axes -> Floats] /\ Throttles \subseteq Nat

\* std::clamp(): a NaN is neither below nor above, and passes.
\* Mutation: only the upper bound.
ClampUpper(x, lo, hi) == IF Above(x, hi) THEN hi ELSE x
Clamp(x, lo, hi) == IF Below(x, lo) THEN lo ELSE IF Above(x, hi) THEN hi ELSE x

------------------------------------------------------------------------------
VARIABLES integral, prev_error,  \* of each PidController
          ready,                 \* the inference engine is initialized
          command, motors,       \* what the last tick computed
          spoiled                \* history: the axes whose sum has met a NaN
                                 \* since they were reset
vars == <<integral, prev_error, ready, command, motors, spoiled>>

Motors == {"fl", "fr", "br", "bl"}

Init ==
    /\ integral = [a \in Axes |-> 0] /\ prev_error = [a \in Axes |-> 0] /\ ready = FALSE
    /\ command = [a \in Axes |-> 0] /\ motors = [m \in Motors |-> 0]
    /\ spoiled = {}

\* InferenceEngine::init().
Boot == /\ ~ready /\ ready' = TRUE
        /\ UNCHANGED <<integral, prev_error, command, motors, spoiled>>

\* PidController::update(), its integral and its result.
Sum(a, error, dt) == Clamp(Add(integral[a], Times(error, dt)), -Limit, Limit)
Control(a, error, sum, dt) ==
    Add(Add(Scale(Kp[a], error), Scale(Ki[a], sum)),
        Scale(Kd[a], Over(Sub(error, prev_error[a]), dt)))

\* MotorMixer::mix().
\* Mutation: roll is mixed into the rear motors with the wrong sign.
MixCrossed(throttle, u) ==
    LET front == Sub(throttle, u.pitch)
        rear  == Add(throttle, u.pitch)
    IN  [fl |-> Clamp(Add(Sub(front, u.roll), u.yaw), 0, Full),
         fr |-> Clamp(Sub(Add(front, u.roll), u.yaw), 0, Full),
         br |-> Clamp(Add(Sub(rear, u.roll), u.yaw), 0, Full),
         bl |-> Clamp(Sub(Sub(rear, u.roll), u.yaw), 0, Full)]
Mix(throttle, u) ==
    LET front == Sub(throttle, u.pitch)
        rear  == Add(throttle, u.pitch)
    IN  [fl |-> Clamp(Add(Sub(front, u.roll), u.yaw), 0, Full),
         fr |-> Clamp(Sub(Add(front, u.roll), u.yaw), 0, Full),
         br |-> Clamp(Add(Add(rear, u.roll), u.yaw), 0, Full),
         bl |-> Clamp(Sub(Sub(rear, u.roll), u.yaw), 0, Full)]

\* One tick; obstacle is what the network says of the scan.  Before init() it
\* says NaN, which is not above the threshold: the motors are driven unbraked.
Tick(errors, dt, throttle, obstacle) ==
    /\ obstacle => ready
    /\ integral' = [a \in Axes |-> Sum(a, errors[a], dt)]
    /\ prev_error' = errors
    /\ command' = [a \in Axes |-> Control(a, errors[a], integral'[a], dt)]
    /\ motors' = Mix(IF obstacle THEN throttle \div 2 ELSE throttle, command')
    /\ spoiled' = spoiled \cup {a \in Axes : Times(errors[a], dt) = NaN}
    /\ UNCHANGED ready

\* AttitudePid::reset(), which only its owner can call.
\* Mutation: the last error is kept and the integral too.
ResetNothing ==
    /\ spoiled' = {}
    /\ UNCHANGED <<integral, prev_error, ready, command, motors>>
Reset ==
    /\ integral' = [a \in Axes |-> 0]
    /\ prev_error' = [a \in Axes |-> 0]
    /\ spoiled' = {}
    /\ UNCHANGED <<ready, command, motors>>

Next ==
    \/ Boot \/ Reset
    \/ \E e \in Attitudes, dt \in {0, 1}, t \in Throttles, o \in BOOLEAN : Tick(e, dt, t, o)

Spec == Init /\ [][Next]_vars

------------------------------------------------------------------------------
\* The anti-windup clamp holds whatever the errors, infinite ones and a clock
\* that stands still included, and only one thing breaks it: a NaN in the
\* product of error and dt stays in the integral until a reset.
IntegralHolds ==
    \A a \in Axes : IF a \in spoiled THEN integral[a] = NaN
                    ELSE integral[a] \in -Limit .. Limit

\* An axis a tick can rely on: never spoiled, with finite errors on both
\* sides of the difference.
Calm(errors, a) == a \notin spoiled /\ errors[a] \in Int /\ prev_error[a] \in Int

\* When time passes, a tick with three calm axes drives every motor within
\* its range, whatever the ticks before it did, and saturation does not turn
\* a pitch command around: the rear motors get no less than the front ones
\* for a positive command, no more for a negative one, as long as roll or yaw
\* is level.
MotorsFollow ==
    \A e \in Attitudes, t \in Throttles, o \in BOOLEAN :
        (\A a \in Axes : Calm(e, a)) /\ Tick(e, 1, t, o) =>
            /\ \A m \in Motors : motors'[m] \in 0 .. Full
            /\ command'.roll = 0 \/ command'.yaw = 0 =>
                 LET front == motors'.fl + motors'.fr
                     rear  == motors'.br + motors'.bl
                 IN  /\ command'.pitch >= 0 => rear >= front
                     /\ command'.pitch <= 0 => rear <= front
MotorsAlwaysFollow == [][MotorsFollow]_vars
==============================================================================

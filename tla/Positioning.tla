---------------------------- MODULE Positioning ------------------------------
(***************************************************************************)
(* The PLC lifecycle of high_precision_optical_simulator: PositioningFsm   *)
(* over the four devices of src/hal, and the control loop that commands    *)
(* the devices directly, in whatever state the lifecycle is.  All calls    *)
(* come from one thread (PositioningFsm.h:19), so each is one step.        *)
(*                                                                         *)
(* Speeds are in units of the resolution kept; time in ticks of one        *)
(* control period.  The devices of src/hal never fail init(); Fallible     *)
(* names those whose driver may (IDevice.h lets any device).               *)
(***************************************************************************)
EXTENDS Integers, Sequences, SequencesExt

CONSTANTS Devices,    \* the order in which the lifecycle drives them
          Fallible,   \* devices whose init() or selfTest() may return false
          MaxRpm, Ramp,           \* spindle: limit, change per control period
          RpmRequest, Position,   \* what the control loop asks for
          Interval                \* watchdog limit in ticks

ASSUME PositioningAssumption ==
    /\ Devices \in Seq(STRING) /\ {"axis", "spindle"} \subseteq ToSet(Devices)
    /\ Fallible \subseteq ToSet(Devices)
    /\ MaxRpm \in Nat /\ Ramp \in Nat \ {0} /\ Interval \in Nat
    /\ RpmRequest \subseteq Int /\ Position \subseteq Int

All == ToSet(Devices)
NoError == <<>>

VARIABLES state, lastError,
          on,                 \* devices with initialised_ set
          rpm, targetRpm,     \* SpindleMotor
          pos, targetPos,     \* LinearAxis
          force,              \* PressureSensor, its base force is set
          silence,            \* SafetyInterlock: ticks since the last ping
          commanded           \* history: what was given a target since the last
                              \* start() or fault

lifecycle == <<state, lastError>>
spindle   == <<rpm, targetRpm>>
axis      == <<pos, targetPos>>
devices   == <<on, commanded>>
vars == <<lifecycle, devices, spindle, axis, force, silence>>

Init ==
    /\ state = "IDLE" /\ lastError = NoError /\ on = {}
    /\ rpm = 0 /\ targetRpm = 0 /\ pos = 0 /\ targetPos = 0
    /\ force = FALSE
    /\ silence = Interval + 1     \* never pinged
    /\ commanded = {}

------------------------------------------------------------------------------
(* Devices. *)

\* init() of the motor, the axis and the interlock.  PressureSensor::init()
\* keeps the base force.
InitSpindle   == rpm' = 0 /\ targetRpm' = 0
InitAxis      == pos' = 0 /\ targetPos' = 0
InitInterlock == silence' = 0

\* init() of the first k devices: they are on and at zero.
\* Mutation: init() only takes note that the device is on.
InitDevicesOnly(k) ==
    LET S == ToSet(SubSeq(Devices, 1, k))
    IN  /\ on' = on \cup S
        /\ IF "interlock" \in S THEN InitInterlock ELSE UNCHANGED silence
        /\ UNCHANGED <<spindle, axis, force>>
InitDevices(k) ==
    LET S == ToSet(SubSeq(Devices, 1, k))
    IN  /\ on' = on \cup S
        /\ IF "spindle" \in S THEN InitSpindle ELSE UNCHANGED spindle
        /\ IF "axis" \in S THEN InitAxis ELSE UNCHANGED axis
        /\ IF "interlock" \in S THEN InitInterlock ELSE UNCHANGED silence
        /\ UNCHANGED force

\* shutdown() of the motor, the axis and the sensor; the interlock's leaves
\* its last ping alone.
ShutdownSpindle == rpm' = 0 /\ targetRpm' = 0
ShutdownAxis    == pos' = 0 /\ targetPos' = 0
ShutdownSensor  == force' = FALSE

\* Mutation: only the devices that came up are shut down.
ShutdownInitialised ==
    /\ on' = {}
    /\ IF "spindle" \in on THEN ShutdownSpindle ELSE UNCHANGED spindle
    /\ IF "axis" \in on THEN ShutdownAxis ELSE UNCHANGED axis
    /\ ShutdownSensor

\* shutdown() of every device.
ShutdownAll == on' = {} /\ ShutdownSpindle /\ ShutdownAxis /\ ShutdownSensor

------------------------------------------------------------------------------
(* PositioningFsm. *)

Fail(reason) ==
    /\ state' = "FAULT"
    /\ lastError' = reason
    /\ ShutdownAll
    /\ commanded' = {}

\* start(): the devices in order, up to the first one whose init() fails.
StartOk ==
    /\ state = "IDLE"
    /\ state' = "INITIALISING"
    /\ InitDevices(Len(Devices))
    /\ commanded' = {}
    /\ UNCHANGED lastError

StartFails ==
    /\ state = "IDLE"
    /\ \E k \in 1 .. Len(Devices) :
        /\ Devices[k] \in Fallible
        /\ Fail(<<"init", Devices[k]>>)
        /\ silence' = IF "interlock" \in ToSet(SubSeq(Devices, 1, k - 1)) THEN 0 ELSE silence

\* calibrate(): a self-test passes only on an initialised device.
CalibrateOk ==
    /\ state = "INITIALISING"
    /\ All \subseteq on
    /\ state' = "READY"
    /\ UNCHANGED <<lastError, devices, spindle, axis, force, silence>>

CalibrateFails ==
    /\ state = "INITIALISING"
    /\ \E k \in 1 .. Len(Devices) :
        /\ Devices[k] \in Fallible \/ Devices[k] \notin on
        /\ Fail(<<"selfTest", Devices[k]>>)
    /\ UNCHANGED silence

Activate ==
    /\ state = "READY"
    /\ state' = "ACTIVE"
    /\ UNCHANGED <<lastError, devices, spindle, axis, force, silence>>

Pause ==
    /\ state = "ACTIVE"
    /\ state' = "READY"
    /\ UNCHANGED <<lastError, devices, spindle, axis, force, silence>>

\* fault() may be called in any state, by anyone who saw something wrong.
RaiseFault == Fail(<<"reason">>) /\ UNCHANGED silence

Reset ==
    /\ state = "FAULT"
    /\ state' = "IDLE" /\ lastError' = NoError
    /\ UNCHANGED <<devices, spindle, axis, force, silence>>

------------------------------------------------------------------------------
(* The control loop on the devices; none of these calls looks at on.       *)

Least(a, b) == IF a < b THEN a ELSE b
\* Mutation: only the lower limit is applied.
ClampLow(r) == IF r > 0 THEN r ELSE 0
Clamp(r) == IF Least(r, MaxRpm) > 0 THEN Least(r, MaxRpm) ELSE 0

SetTargetRpm(r) ==
    /\ targetRpm' = Clamp(r)
    /\ commanded' = commanded \cup {"spindle"}
    /\ UNCHANGED <<lifecycle, on, rpm, axis, force, silence>>

\* Mutation: a deceleration steps up as well (the sign of delta is lost).
SpinUnsigned ==
    /\ rpm # targetRpm
    /\ rpm' = IF targetRpm - rpm \in 0 .. Ramp THEN targetRpm ELSE Least(rpm + Ramp, MaxRpm)
    /\ UNCHANGED <<lifecycle, devices, targetRpm, axis, force, silence>>

Spin ==
    /\ rpm # targetRpm
    /\ rpm' = IF targetRpm - rpm \in -Ramp .. Ramp THEN targetRpm
              ELSE IF targetRpm > rpm THEN rpm + Ramp ELSE rpm - Ramp
    /\ UNCHANGED <<lifecycle, devices, targetRpm, axis, force, silence>>

SetTarget(p) ==
    /\ targetPos' = p
    /\ commanded' = commanded \cup {"axis"}
    /\ UNCHANGED <<lifecycle, on, spindle, pos, force, silence>>

Move ==
    /\ pos' = targetPos
    /\ UNCHANGED <<lifecycle, devices, spindle, targetPos, force, silence>>

SetBaseForce ==
    /\ force' = TRUE
    /\ UNCHANGED <<lifecycle, devices, spindle, axis, silence>>

Ping ==
    /\ silence' = 0
    /\ UNCHANGED <<lifecycle, devices, spindle, axis, force>>

\* Time passes; beyond the limit the watchdog stays tripped until a ping.
Tick ==
    /\ silence <= Interval
    /\ silence' = silence + 1
    /\ UNCHANGED <<lifecycle, devices, spindle, axis, force>>

------------------------------------------------------------------------------
Next ==
    \/ StartOk \/ StartFails \/ CalibrateOk \/ CalibrateFails
    \/ Activate \/ Pause \/ RaiseFault \/ Reset
    \/ \E r \in RpmRequest : SetTargetRpm(r)
    \/ Spin
    \/ \E p \in Position : SetTarget(p)
    \/ Move \/ SetBaseForce \/ Ping \/ Tick

\* The control loop steps the spindle in every period.
Spec == Init /\ [][Next]_vars /\ WF_vars(Spin)

------------------------------------------------------------------------------
TypeOK ==
    /\ state \in {"IDLE", "INITIALISING", "READY", "ACTIVE", "FAULT"}
    /\ on \subseteq All /\ force \in BOOLEAN
    /\ rpm \in 0 .. MaxRpm /\ targetRpm \in 0 .. MaxRpm
    /\ pos \in Position \cup {0} /\ targetPos \in Position \cup {0}
    /\ silence \in 0 .. Interval + 1 /\ commanded \subseteq All

\* Commands do not look at the lifecycle, so a device may be given a target in
\* FAULT or in IDLE, after the shutdown and before the next start().  None of
\* them outlives start(): what moves, or is about to, was commanded since; and
\* nothing is operated that has not come up.
NothingMovesUnasked ==
    /\ state \in {"READY", "ACTIVE"} => on = All
    /\ rpm # 0 \/ targetRpm # 0 => "spindle" \in commanded
    /\ pos # 0 \/ targetPos # 0 => "axis" \in commanded

\* Falling into FAULT stops everything that moves, even what was moving
\* without having been initialised.
FaultStopsMotion ==
    [][state # "FAULT" /\ state' = "FAULT" =>
         rpm' = 0 /\ targetRpm' = 0 /\ pos' = 0 /\ targetPos' = 0]_vars

\* The spindle settles at a request that stands, from either side.
SpindleSettles ==
    \A r \in 0 .. MaxRpm : (targetRpm = r) ~> (rpm = r \/ targetRpm # r)
==============================================================================

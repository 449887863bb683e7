--------------------------- MODULE EcuStateMachine ---------------------------
(***************************************************************************)
(* The engine controller's mode machine,                                   *)
(* zephyr_canfd_ecu_node/ecu/src/ecu_state_machine.cpp, driven by its      *)
(* three callers one call at a time: update() from the main loop,          *)
(* handle_command() for each command frame, set_bus_off() from the CAN     *)
(* state-change callback.  EcuNode interleaves them.                       *)
(*                                                                         *)
(* The bitmap is the set of its bits.  A sensor reading matters to         *)
(* evaluate_faults() only by the side of its two thresholds it is on:      *)
(* "bad" sets the bit, "good" clears it, "band" lies between and keeps it. *)
(* Time is counted in telemetry periods of 10 ms.                          *)
(***************************************************************************)
EXTENDS Naturals

CONSTANTS Reading,   \* the readings physics_ can produce, [Sensor -> class]
          DiagTime   \* periods until DIAGNOSTIC times out, 500 in the code

Sensor  == {"OVER_TEMP", "LOW_OIL_PRESSURE", "LOW_BATTERY"}
Class   == {"good", "band", "bad"}
BusOff  == "BUS_OFF"
Fault   == Sensor \cup {BusOff}
Mode    == {"INIT", "NORMAL", "DIAGNOSTIC", "FAULT"}

ASSUME EcuAssumption ==
    /\ Reading \subseteq [Sensor -> Class]
    /\ [s \in Sensor |-> "good"] \in Reading
    /\ DiagTime \in Nat \ {0}

\* Command frames by what handle_command() tells apart: SET_MODE with each
\* target or an unknown one, SET_THROTTLE in and out of range, the others.
Command == {"SET_INIT", "SET_NORMAL", "SET_DIAGNOSTIC", "SET_FAULT", "SET_UNKNOWN",
            "THROTTLE", "THROTTLE_RANGE", "REQUEST_DIAG", "CLEAR_FAULTS", "UNKNOWN"}

VARIABLES state, fault, diagTimer, busOff,   \* the object's members
          reading,                           \* what physics_ shows
          status                             \* the reply to the last call

ecuVars == <<state, fault, diagTimer, busOff, reading, status>>

EcuInit ==
    /\ state = "INIT" /\ fault = {} /\ diagTimer = 0 /\ busOff = FALSE
    /\ reading = [s \in Sensor |-> "good"]   \* PhysicsModel::reset()
    /\ status = "none"

\* Mutation: the hysteresis band clears the bit.
LatchNoBand(f, r) == {s \in Sensor : r[s] = "bad"} \cup (f \cap {BusOff})
\* evaluate_faults() on bitmap f: latch each sensor, then re-assert bus-off.
Latch(f, r) == {s \in Sensor : r[s] = "bad" \/ (r[s] = "band" /\ s \in f)}
               \cup (f \cap {BusOff})
Evaluate(f, b, r) == Latch(f, r) \cup (IF b THEN {BusOff} ELSE {})

\* get_telemetry_rate(): the period of one loop, in units of 10 ms.
Period(s) == IF s = "DIAGNOSTIC" THEN 1 ELSE 2

------------------------------------------------------------------------------
\* update() of an initialised machine; dt is in periods.
\* Mutation: a raised fault does not force FAULT while DIAGNOSTIC runs.
RunDiagnosticDeaf(dt) ==
    /\ state # "INIT"
    /\ reading' \in Reading
    /\ fault' = Evaluate(fault, busOff, reading')
    /\ LET next == IF fault' # {} /\ state = "NORMAL" THEN "FAULT" ELSE state
           over == next = "DIAGNOSTIC" /\ diagTimer + dt >= DiagTime
       IN  /\ state' = IF over THEN "NORMAL" ELSE next
           /\ diagTimer' = IF over THEN 0
                           ELSE IF next = "DIAGNOSTIC" THEN diagTimer + dt ELSE diagTimer
    /\ status' = "none"
    /\ UNCHANGED busOff

Run(dt) ==
    /\ state # "INIT"
    /\ reading' \in Reading
    /\ fault' = Evaluate(fault, busOff, reading')
    /\ LET next == IF fault' # {} THEN "FAULT" ELSE state
           over == next = "DIAGNOSTIC" /\ diagTimer + dt >= DiagTime
       IN  /\ state' = IF over THEN "NORMAL" ELSE next
           /\ diagTimer' = IF over THEN 0
                           ELSE IF next = "DIAGNOSTIC" THEN diagTimer + dt ELSE diagTimer
    /\ status' = "none"
    /\ UNCHANGED busOff

\* update() of a machine in INIT only leaves INIT.
LeaveInit ==
    /\ state = "INIT"
    /\ state' = "NORMAL"
    /\ status' = "none"
    /\ UNCHANGED <<fault, diagTimer, busOff, reading>>

Update(dt) == LeaveInit \/ Run(dt)

------------------------------------------------------------------------------
\* handle_command(), by what the command asks for.

Reply(s) == status' = s /\ UNCHANGED <<fault, busOff, reading>>

SetInit == state' = "INIT" /\ Reply("success") /\ UNCHANGED diagTimer

\* Mutation: NORMAL is granted whatever the bitmap says.
SetNormalAlways == state' = "NORMAL" /\ Reply("success") /\ UNCHANGED diagTimer

SetNormal ==
    /\ IF state = "FAULT" /\ fault # {}
       THEN Reply("forbidden") /\ UNCHANGED state
       ELSE Reply("success") /\ state' = "NORMAL"
    /\ UNCHANGED diagTimer

\* SET_MODE(2) and REQUEST_DIAG are the same code.
EnterDiagnostic ==
    IF state = "FAULT"
    THEN Reply("forbidden") /\ UNCHANGED <<state, diagTimer>>
    ELSE Reply("success") /\ state' = "DIAGNOSTIC" /\ diagTimer' = 0

SetFault == state' = "FAULT" /\ Reply("success") /\ UNCHANGED diagTimer

\* SET_THROTTLE only changes physics_, which any later reading reflects.
OnlyReply(s) == Reply(s) /\ UNCHANGED <<state, diagTimer>>

\* trigger_bus_recovery(), then evaluate_faults() on the current reading.
\* Mutation: the recovery forgets the bit and clears only the flag.
ClearFaultsKeepBit ==
    IF state # "FAULT" THEN OnlyReply("success")
    ELSE /\ busOff' = FALSE
         /\ fault' = Evaluate(fault, FALSE, reading)
         /\ state' = IF fault' = {} THEN "NORMAL" ELSE state
         /\ status' = IF fault' = {} THEN "success" ELSE "forbidden"
         /\ UNCHANGED <<diagTimer, reading>>

ClearFaults ==
    IF state # "FAULT" THEN OnlyReply("success")
    ELSE /\ busOff' = FALSE
         /\ fault' = Evaluate(fault \ {BusOff}, FALSE, reading)
         /\ state' = IF fault' = {} THEN "NORMAL" ELSE state
         /\ status' = IF fault' = {} THEN "success" ELSE "forbidden"
         /\ UNCHANGED <<diagTimer, reading>>

HandleCommand(cmd) ==
    \/ cmd = "SET_INIT" /\ SetInit
    \/ cmd = "SET_NORMAL" /\ SetNormal
    \/ cmd \in {"SET_DIAGNOSTIC", "REQUEST_DIAG"} /\ EnterDiagnostic
    \/ cmd = "SET_FAULT" /\ SetFault
    \/ cmd = "THROTTLE" /\ OnlyReply("success")
    \/ cmd = "CLEAR_FAULTS" /\ ClearFaults
    \/ cmd \in {"SET_UNKNOWN", "THROTTLE_RANGE", "UNKNOWN"} /\ OnlyReply("invalid")

------------------------------------------------------------------------------
\* set_bus_off(), from the callback of main.cpp:17-27, which passes FALSE
\* only to a machine in FAULT.
BusWentOff ==
    /\ busOff' = TRUE
    /\ fault' = fault \cup {BusOff}
    /\ state' = "FAULT"
    /\ status' = "none"
    /\ UNCHANGED <<diagTimer, reading>>

BusCameBack ==
    /\ state = "FAULT"
    /\ busOff' = FALSE
    /\ fault' = fault \ {BusOff}
    /\ status' = "none"
    /\ UNCHANGED <<state, diagTimer, reading>>

EcuNext ==
    \/ \E dt \in {1, 2} : Update(dt)
    \/ \E cmd \in Command : HandleCommand(cmd)
    \/ BusWentOff
    \/ BusCameBack

EcuSpec == EcuInit /\ [][EcuNext]_ecuVars

------------------------------------------------------------------------------
EcuTypeOK ==
    /\ state \in Mode /\ fault \subseteq Fault /\ busOff \in BOOLEAN
    /\ diagTimer \in 0 .. DiagTime - 1
    /\ reading \in Reading
    /\ status \in {"none", "success", "invalid", "forbidden"}

\* The flag bus_off_ and bit 3 of the bitmap are written apart, by five
\* functions; after every call they agree.
FlagMatchesBit == busOff <=> BusOff \in fault

\* Together they are inductive: without the flag agreeing with the bit,
\* evaluate_faults() could bring back a bit that CLEAR_FAULTS has cleared.
EcuInv == EcuTypeOK /\ FlagMatchesBit

\* No call takes the machine from FAULT to NORMAL or DIAGNOSTIC while the
\* bitmap it leaves behind still reports a fault.
LeavesFaultClean ==
    [][state = "FAULT" /\ state' \in {"NORMAL", "DIAGNOSTIC"} => fault' = {}]_ecuVars

\* A fault never goes unseen by an update: unless the machine was in INIT,
\* it is in FAULT after an update or a callback that leaves a bit set.
UpdateSeesFault ==
    [][status' = "none" /\ state # "INIT" /\ fault' # {} => state' = "FAULT"]_ecuVars

\* A sensor bit changes only on the far side of its threshold: never while
\* the reading lies in the hysteresis band, by whatever call.
Hysteresis ==
    [][\A s \in Sensor : (s \in fault) # (s \in fault')
           => reading'[s] = IF s \in fault' THEN "bad" ELSE "good"]_ecuVars
==============================================================================

------------------------------- MODULE EcuNode -------------------------------
(***************************************************************************)
(* The whole ECU of zephyr_canfd_ecu_node/ecu/src/main.cpp: the main loop, *)
(* the command queue filled by the CAN receive filter, the controller and  *)
(* its state-change callback.                                              *)
(*                                                                         *)
(* The callback runs at interrupt level and writes state_, fault_bitmap_   *)
(* and bus_off_ while the main loop may be inside handle_command() or      *)
(* update() on the same members; nothing locks them.  So the callback is   *)
(* one step, and the main loop takes a step for each access: a compound    *)
(* assignment to the bitmap loads it into reg in one step and stores it    *)
(* in another, a test of a member and the write it guards are two steps.   *)
(***************************************************************************)
EXTENDS EcuStateMachine, Sequences

CONSTANTS Commands,     \* the commands masters send, a subset of Command
          QueueSize,    \* cmd_msgq, 8 in the code
          MaxCommands,  \* bound: command frames put on the bus
          MaxOutages    \* bound: times the controller goes bus-off

ASSUME NodeAssumption ==
    /\ Commands \subseteq Command /\ QueueSize \in Nat \ {0}
    /\ MaxCommands \in Nat /\ MaxOutages \in Nat

VARIABLES pc, dt, cmd, reg,        \* the main loop: where it is, its locals
          queue,                   \* cmd_msgq
          bus, recovering,         \* the controller
          arrived, outages         \* how much of the bounds is used up

members == <<state, fault, diagTimer, busOff>>
local   == <<dt, cmd, reg, status, reading>>
outside == <<bus, recovering, arrived, outages>>
nodeVars == <<members, local, pc, queue, outside>>

None == "none"
NodeInit ==
    /\ EcuInit
    /\ pc = "boot" /\ dt = 2 /\ cmd = None /\ reg = {}
    /\ queue = <<>>
    /\ bus = "on" /\ recovering = FALSE /\ arrived = 0 /\ outages = 0

------------------------------------------------------------------------------
(* The bus.  A node that is bus-off neither receives nor sends; frames      *)
(* reach the queue once main() has set its filter, the callback runs once   *)
(* it is registered.                                                        *)

Arrive(c) ==
    /\ pc \notin {"boot", "filter", "halted"}
    /\ bus = "on" /\ arrived < MaxCommands
    /\ arrived' = arrived + 1
    /\ queue' = IF Len(queue) < QueueSize THEN Append(queue, c) ELSE queue
    /\ UNCHANGED <<members, local, pc, bus, recovering, outages>>

\* The controller goes bus-off: its interrupt calls set_bus_off(true).
GoBusOff ==
    /\ pc # "boot"
    /\ bus = "on" /\ outages < MaxOutages
    /\ bus' = "off" /\ outages' = outages + 1
    /\ busOff' = TRUE /\ fault' = fault \cup {BusOff} /\ state' = "FAULT"
    /\ UNCHANGED <<diagTimer, local, pc, queue, recovering, arrived>>

\* It is back, because can_recover() was called or on its own:
\* set_bus_off(false), but only on a machine in FAULT.
ComeBack ==
    /\ bus = "off"
    /\ bus' = "on" /\ recovering' = FALSE
    /\ IF state = "FAULT"
       THEN busOff' = FALSE /\ fault' = fault \ {BusOff}
       ELSE UNCHANGED <<busOff, fault>>
    /\ UNCHANGED <<state, diagTimer, local, pc, queue, arrived, outages>>

------------------------------------------------------------------------------
(* The main loop.                                                          *)

Goto(there) == pc' = there
Answer(s) == status' = s /\ Goto("respond")

\* Start-up: the device and its CAN FD mode, then, with the callback in
\* place, the filter.  Each may fail, and main() returns.
Boot ==
    /\ pc = "boot"
    /\ pc' \in {"filter", "halted"}
    /\ UNCHANGED <<members, local, queue, outside>>

AddFilter ==
    /\ pc = "filter"
    /\ pc' \in {"top", "halted"}
    /\ UNCHANGED <<members, local, queue, outside>>

Top ==
    /\ pc = "top"
    /\ dt' = Period(state)
    /\ Goto("drain")
    /\ UNCHANGED <<members, cmd, reg, status, reading, queue, outside>>

Drain ==
    /\ pc = "drain"
    /\ IF queue = <<>>
       THEN Goto("update") /\ UNCHANGED <<cmd, queue>>
       ELSE Goto("handle") /\ cmd' = Head(queue) /\ queue' = Tail(queue)
    /\ UNCHANGED <<members, dt, reg, status, reading, outside>>

\* handle_command() up to its first write.
Handle ==
    /\ pc = "handle"
    /\ \/ /\ cmd \in {"SET_INIT", "SET_FAULT"}
          /\ state' = IF cmd = "SET_INIT" THEN "INIT" ELSE "FAULT"
          /\ Answer("success")
          /\ UNCHANGED busOff
       \/ /\ cmd = "SET_NORMAL"
          /\ IF state = "FAULT" /\ fault # {}
             THEN Answer("forbidden") ELSE Goto("setNormal") /\ UNCHANGED status
          /\ UNCHANGED <<state, busOff>>
       \/ /\ cmd \in {"SET_DIAGNOSTIC", "REQUEST_DIAG"}
          /\ IF state = "FAULT"
             THEN Answer("forbidden") ELSE Goto("setDiag") /\ UNCHANGED status
          /\ UNCHANGED <<state, busOff>>
       \/ /\ cmd = "CLEAR_FAULTS"
          /\ IF state = "FAULT"
             THEN Goto("clearFlag") /\ UNCHANGED status ELSE Answer("success")
          /\ UNCHANGED <<state, busOff>>
       \/ /\ cmd \in {"THROTTLE", "THROTTLE_RANGE", "SET_UNKNOWN", "UNKNOWN"}
          /\ Answer(IF cmd = "THROTTLE" THEN "success" ELSE "invalid")
          /\ UNCHANGED <<state, busOff>>
    /\ UNCHANGED <<fault, diagTimer, dt, cmd, reg, reading, queue, outside>>

SetNormalStep ==
    /\ pc = "setNormal"
    /\ state' = "NORMAL"
    /\ Answer("success")
    /\ UNCHANGED <<fault, diagTimer, busOff, dt, cmd, reg, reading, queue, outside>>

SetDiagStep ==
    /\ pc = "setDiag"
    /\ state' = "DIAGNOSTIC" /\ diagTimer' = 0
    /\ Answer("success")
    /\ UNCHANGED <<fault, busOff, dt, cmd, reg, reading, queue, outside>>

\* trigger_bus_recovery(): the flag, then the bit.
ClearFlag ==
    /\ pc = "clearFlag"
    /\ busOff' = FALSE
    /\ Goto("clearLoad")
    /\ UNCHANGED <<state, fault, diagTimer, local, queue, outside>>

ClearLoad ==
    /\ pc = "clearLoad"
    /\ reg' = fault
    /\ Goto("clearStore")
    /\ UNCHANGED <<members, dt, cmd, status, reading, queue, outside>>

ClearStore ==
    /\ pc = "clearStore"
    /\ fault' = reg \ {BusOff}
    /\ Goto("evalLoad")
    /\ UNCHANGED <<state, diagTimer, busOff, local, queue, outside>>

\* evaluate_faults(), from CLEAR_FAULTS (a command is in hand) or update().
EvalLoad ==
    /\ pc = "evalLoad"
    /\ reg' = fault
    /\ Goto("evalStore")
    /\ UNCHANGED <<members, dt, cmd, status, reading, queue, outside>>

EvalStore ==
    /\ pc = "evalStore"
    /\ fault' = Latch(reg, reading)
    /\ Goto("evalBus")
    /\ UNCHANGED <<state, diagTimer, busOff, local, queue, outside>>

EvalReturn == Goto(IF cmd = None THEN "decide" ELSE "clearDecide")

\* Mutation: the bus-off flag is not consulted again (lines 71-73 dropped).
EvalBusNever ==
    /\ pc = "evalBus"
    /\ EvalReturn
    /\ UNCHANGED <<members, local, queue, outside>>

EvalBus ==
    /\ pc = "evalBus"
    /\ IF busOff
       THEN Goto("evalAssert") /\ reg' = fault
       ELSE EvalReturn /\ UNCHANGED reg
    /\ UNCHANGED <<members, dt, cmd, status, reading, queue, outside>>

EvalAssert ==
    /\ pc = "evalAssert"
    /\ fault' = reg \cup {BusOff}
    /\ EvalReturn
    /\ UNCHANGED <<state, diagTimer, busOff, local, queue, outside>>

\* Mutation: CLEAR_FAULTS leaves FAULT to the next SET_MODE.
ClearDecideStay ==
    /\ pc = "clearDecide"
    /\ Answer(IF fault = {} THEN "success" ELSE "forbidden")
    /\ UNCHANGED <<members, dt, cmd, reg, reading, queue, outside>>

ClearDecide ==
    /\ pc = "clearDecide"
    /\ IF fault = {} THEN Goto("setNormal") /\ UNCHANGED status ELSE Answer("forbidden")
    /\ UNCHANGED <<members, dt, cmd, reg, reading, queue, outside>>

\* The response frame; on a bus that is off can_send() fails and is logged.
Respond ==
    /\ pc = "respond"
    /\ cmd' = None
    /\ Goto("drain")
    /\ UNCHANGED <<members, dt, reg, status, reading, queue, outside>>

\* update(), one write at a time.
StartUpdate ==
    /\ pc = "update"
    /\ IF state = "INIT"
       THEN Goto("leaveInit") /\ UNCHANGED reading
       ELSE Goto("evalLoad") /\ reading' \in Reading
    /\ UNCHANGED <<members, dt, cmd, reg, status, queue, outside>>

LeaveInitStep ==
    /\ pc = "leaveInit"
    /\ state' = "NORMAL"
    /\ Goto("recover")
    /\ UNCHANGED <<fault, diagTimer, busOff, local, queue, outside>>

Decide ==
    /\ pc = "decide"
    /\ Goto(IF state # "FAULT" /\ fault # {} THEN "setFault" ELSE "diag")
    /\ UNCHANGED <<members, local, queue, outside>>

SetFaultStep ==
    /\ pc = "setFault"
    /\ state' = "FAULT"
    /\ Goto("diag")
    /\ UNCHANGED <<fault, diagTimer, busOff, local, queue, outside>>

\* Mutation: the timer restarts at every update instead of running on.
DiagnoseNoTimer ==
    /\ pc = "diag"
    /\ diagTimer' = 0
    /\ Goto("recover")
    /\ UNCHANGED <<state, fault, busOff, local, queue, outside>>

Diagnose ==
    /\ pc = "diag"
    /\ IF state = "DIAGNOSTIC" /\ diagTimer + dt >= DiagTime
       THEN Goto("expire") /\ diagTimer' = 0
       ELSE /\ Goto("recover")
            /\ diagTimer' = IF state = "DIAGNOSTIC" THEN diagTimer + dt ELSE diagTimer
    /\ UNCHANGED <<state, fault, busOff, local, queue, outside>>

Expire ==
    /\ pc = "expire"
    /\ state' = "NORMAL"
    /\ Goto("recover")
    /\ UNCHANGED <<fault, diagTimer, busOff, local, queue, outside>>

\* Lines 91-99: three questions, the last one to the controller.
ReadyToRecover ==
    /\ pc = "recover"
    /\ Goto(IF state # "FAULT" THEN "readBitmap" ELSE "send")
    /\ UNCHANGED <<members, local, queue, outside>>

BitmapIsClear ==
    /\ pc = "readBitmap"
    /\ Goto(IF fault = {} THEN "askController" ELSE "send")
    /\ UNCHANGED <<members, local, queue, outside>>

\* Mutation: the controller is not asked, only the flag is.
RecoverByFlag ==
    /\ pc = "askController"
    /\ recovering' = (recovering \/ busOff)
    /\ Goto("send")
    /\ UNCHANGED <<members, local, queue, bus, arrived, outages>>

Recover ==
    /\ pc = "askController"
    /\ recovering' = (recovering \/ bus = "off")
    /\ Goto("send")
    /\ UNCHANGED <<members, local, queue, bus, arrived, outages>>

Send ==
    /\ pc = "send"
    /\ Goto("top")
    /\ UNCHANGED <<members, local, queue, outside>>

MainLoop ==
    \/ Boot \/ AddFilter \/ Top \/ Drain \/ Handle \/ SetNormalStep \/ SetDiagStep
    \/ ClearFlag \/ ClearLoad \/ ClearStore \/ EvalLoad \/ EvalStore \/ EvalBus
    \/ EvalAssert \/ ClearDecide \/ Respond \/ StartUpdate \/ LeaveInitStep
    \/ Decide \/ SetFaultStep \/ Diagnose \/ Expire
    \/ ReadyToRecover \/ BitmapIsClear \/ Recover \/ Send

\* main() has returned; the interrupt still finds the machine.
Halted == pc = "halted" /\ UNCHANGED nodeVars

NodeNext ==
    \/ MainLoop \/ Halted
    \/ \E c \in Commands : Arrive(c)
    \/ GoBusOff
    \/ ComeBack

\* The main thread is always ready to run again after its sleep, and a
\* controller that was asked to recover does so in bounded time; nothing is
\* asked of one that was not.  Nobody has to send.
NodeSpec == /\ NodeInit /\ [][NodeNext]_nodeVars
            /\ WF_nodeVars(MainLoop) /\ WF_nodeVars(recovering /\ ComeBack)

------------------------------------------------------------------------------
\* No race loses a reported bus-off: whatever the interrupt interrupts, the
\* flag surfaces as FAULT with its bit, unless it is taken back first.
BusOffSurfaces ==
    busOff ~> (~busOff \/ (state = "FAULT" /\ BusOff \in fault))

\* Wherever the interrupt strikes, a store of an old bitmap drops the bit only
\* where evaluate_faults() has still to consult the flag, and an update that
\* has looked at its faults leaves no bus-off without FAULT.
Evaluating == {"evalLoad", "evalStore", "evalBus", "evalAssert"}
OutageIsKept ==
    /\ busOff /\ BusOff \notin fault => pc \in Evaluating
    /\ busOff /\ pc = "diag" => state = "FAULT"

\* The node never sits bus-off believing all is well: it recovers or shows
\* FAULT, also when a command overwrote what the callback had written.
NoSilentOutage == (bus = "off") ~> (bus = "on" \/ state = "FAULT")

\* A CLEAR_FAULTS that was received takes the node out of FAULT, unless the
\* bus fails again (all sensors are good).
ClearWorks ==
    (\E i \in DOMAIN queue : queue[i] = "CLEAR_FAULTS") ~> (state # "FAULT" \/ bus = "off")

\* A diagnostic session ends, by its timer if by nothing else.
DiagnosticEnds == (state = "DIAGNOSTIC") ~> (state # "DIAGNOSTIC")

\* state_diagram.puml: a node in FAULT because of bus-off calls
\* can_recover(), and so is on the bus again some day.
RecoversFromBusOff ==
    (state = "FAULT" /\ bus = "off" /\ pc \notin {"filter", "halted"}) ~> (bus = "on")
==============================================================================

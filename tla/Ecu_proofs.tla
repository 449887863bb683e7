----------------------------- MODULE Ecu_proofs ------------------------------
(***************************************************************************)
(* Proofs about the firmware of the ECU: its state machine, for every set  *)
(* of readings and every diagnostic time, the engine it simulates, for     *)
(* every set of command bytes and every resolution, and its main loop with *)
(* the interrupt: no outage is forgotten, and commands are answered in the *)
(* order in which they came.                                               *)
(***************************************************************************)
EXTENDS EcuNode, PhysicsModel, SequenceTheorems, TLAPS

------------------------------------------------------------------------------
(* The state machine. *)

\* What evaluate_faults() leaves in the bitmap.
LEMMA EvaluateFacts ==
    ASSUME NEW f \in SUBSET Fault, NEW b \in BOOLEAN, NEW r \in [Sensor -> Class]
    PROVE  /\ Evaluate(f, b, r) \subseteq Fault
           /\ BusOff \in Evaluate(f, b, r) <=> (b \/ BusOff \in f)
           /\ \A s \in Sensor : /\ s \in Evaluate(f, b, r) /\ s \notin f => r[s] = "bad"
                                /\ s \notin Evaluate(f, b, r) /\ s \in f => r[s] = "good"
<1>1. BusOff \notin Sensor
  BY DEF BusOff, Sensor
<1> QED BY <1>1 DEF Evaluate, Latch, Fault, Class

LEMMA InitEcuInv == EcuInit => EcuInv
<1> SUFFICES ASSUME EcuInit PROVE EcuInv
  OBVIOUS
<1>1. reading \in Reading
  BY EcuAssumption DEF EcuInit
<1>2. diagTimer \in 0 .. DiagTime - 1
  BY EcuAssumption DEF EcuInit
<1>3. state \in Mode /\ fault \subseteq Fault /\ busOff \in BOOLEAN /\ status = "none"
  BY DEF EcuInit, Mode
<1>4. busOff = FALSE /\ BusOff \notin fault
  BY DEF EcuInit
<1> QED BY <1>1, <1>2, <1>3, <1>4 DEF EcuInv, EcuTypeOK, FlagMatchesBit

\* An update keeps the bitmap within its bits and re-asserts bus-off.
LEMMA UpdateEcuInv == ASSUME EcuInv, NEW d \in {1, 2}, Update(d) PROVE EcuInv'
<1>1. CASE LeaveInit
  BY <1>1 DEF LeaveInit, EcuInv, EcuTypeOK, FlagMatchesBit, Mode
<1>2. CASE Run(d)
  <2>1. reading' \in Reading /\ reading' \in [Sensor -> Class]
    BY <1>2, EcuAssumption DEF Run
  <2>2. fault' \subseteq Fault /\ (BusOff \in fault' <=> busOff')
    <3>1. fault' = Evaluate(fault, busOff, reading') /\ busOff' = busOff
      BY <1>2 DEF Run
    <3>2. fault \in SUBSET Fault /\ busOff \in BOOLEAN /\ (busOff <=> BusOff \in fault)
      BY DEF EcuInv, EcuTypeOK, FlagMatchesBit
    <3> QED BY <2>1, <3>1, <3>2, EvaluateFacts
  <2>3. state' \in Mode /\ diagTimer' \in 0 .. DiagTime - 1
    BY <1>2, EcuAssumption DEF Run, EcuInv, EcuTypeOK, Mode
  <2> QED BY <1>2, <2>1, <2>2, <2>3 DEF Run, EcuInv, EcuTypeOK, FlagMatchesBit
<1> QED BY <1>1, <1>2 DEF Update

\* No command separates the flag from the bit.
LEMMA CommandEcuInv ==
    ASSUME EcuInv, NEW c \in Command, HandleCommand(c) PROVE EcuInv'
<1> USE EcuAssumption DEF EcuInv, EcuTypeOK, FlagMatchesBit, Mode, Reply, OnlyReply
<1>1. CASE SetInit
  BY <1>1 DEF SetInit
<1>2. CASE SetNormal
  BY <1>2 DEF SetNormal
<1>3. CASE EnterDiagnostic
  BY <1>3 DEF EnterDiagnostic
<1>4. CASE SetFault
  BY <1>4 DEF SetFault
<1>5. CASE OnlyReply("success") \/ OnlyReply("invalid")
  BY <1>5
<1>6. CASE ClearFaults /\ state = "FAULT"
  <2>1. fault' = Evaluate(fault \ {BusOff}, FALSE, reading) /\ busOff' = FALSE
    BY <1>6 DEF ClearFaults
  <2>2. fault \ {BusOff} \in SUBSET Fault /\ reading \in [Sensor -> Class]
    OBVIOUS
  <2>3. fault' \subseteq Fault /\ BusOff \notin fault'
    BY <2>1, <2>2, EvaluateFacts
  <2> QED BY <1>6, <2>1, <2>3 DEF ClearFaults
<1>7. CASE ClearFaults /\ state # "FAULT"
  BY <1>7 DEF ClearFaults
<1> QED BY <1>1, <1>2, <1>3, <1>4, <1>5, <1>6, <1>7 DEF HandleCommand

LEMMA CallbackEcuInv ==
    ASSUME EcuInv, BusWentOff \/ BusCameBack \/ UNCHANGED ecuVars PROVE EcuInv'
<1>1. CASE BusWentOff
  <2>1. fault' \subseteq Fault /\ BusOff \in fault' /\ busOff' = TRUE
    BY <1>1 DEF BusWentOff, Fault, EcuInv, EcuTypeOK
  <2> QED BY <1>1, <2>1 DEF BusWentOff, EcuInv, EcuTypeOK, FlagMatchesBit, Mode
<1>2. CASE BusCameBack
  <2>1. fault' \subseteq Fault /\ BusOff \notin fault' /\ busOff' = FALSE
    BY <1>2 DEF BusCameBack, EcuInv, EcuTypeOK
  <2> QED BY <1>2, <2>1 DEF BusCameBack, EcuInv, EcuTypeOK, FlagMatchesBit
<1>3. CASE UNCHANGED ecuVars
  BY <1>3 DEF ecuVars, EcuInv, EcuTypeOK, FlagMatchesBit
<1> QED BY <1>1, <1>2, <1>3

\* Every state is well typed and bus_off_ agrees with bit 3 of the bitmap
\* after every call (ecu_state_machine.cpp:32-74, 141-149).
THEOREM EcuInvariant == EcuSpec => []EcuInv
<1>1. EcuInv /\ [EcuNext]_ecuVars => EcuInv'
  BY UpdateEcuInv, CommandEcuInv, CallbackEcuInv DEF EcuNext
<1> QED BY <1>1, InitEcuInv, PTL DEF EcuSpec

------------------------------------------------------------------------------
\* The machine leaves FAULT for a running mode only with an empty bitmap
\* (ecu_state_machine.cpp:107-116, 141-150).
THEOREM FaultLeftClean == EcuSpec => LeavesFaultClean
<1>1. ASSUME EcuTypeOK, [EcuNext]_ecuVars, state = "FAULT",
             state' \in {"NORMAL", "DIAGNOSTIC"}
      PROVE  fault' = {}
  <2> USE <1>1 DEF EcuTypeOK
  <2>1. CASE \E d \in {1, 2} : Update(d)
    BY <2>1 DEF Update, LeaveInit, Run
  <2>2. CASE \E c \in Command : HandleCommand(c)
    BY <2>2 DEF HandleCommand, SetInit, SetNormal, EnterDiagnostic, SetFault,
       OnlyReply, Reply, ClearFaults
  <2>3. CASE BusWentOff \/ BusCameBack \/ UNCHANGED ecuVars
    BY <2>3 DEF BusWentOff, BusCameBack, ecuVars
  <2> QED BY <2>1, <2>2, <2>3 DEF EcuNext
<1>2. EcuTypeOK /\ [EcuNext]_ecuVars
        => [state = "FAULT" /\ state' \in {"NORMAL", "DIAGNOSTIC"} => fault' = {}]_ecuVars
  BY <1>1
<1> QED BY <1>2, EcuInvariant, PTL DEF EcuSpec, EcuInv, LeavesFaultClean

\* An update or a callback that leaves a bit set leaves the machine in
\* FAULT, unless the update was the one that leaves INIT
\* (ecu_state_machine.cpp:32-40, 76-98).
THEOREM FaultSeen == EcuSpec => UpdateSeesFault
<1>1. ASSUME EcuTypeOK, [EcuNext]_ecuVars, ~UNCHANGED ecuVars,
             status' = "none", state # "INIT", fault' # {}
      PROVE  state' = "FAULT"
  <2> USE <1>1 DEF EcuTypeOK
  <2>1. CASE \E d \in {1, 2} : Update(d)
    BY <2>1 DEF Update, LeaveInit, Run
  <2>2. CASE \E c \in Command : HandleCommand(c)
    BY <2>2 DEF HandleCommand, SetInit, SetNormal, EnterDiagnostic, SetFault,
       OnlyReply, Reply, ClearFaults
  <2>3. CASE BusWentOff \/ BusCameBack
    BY <2>3 DEF BusWentOff, BusCameBack
  <2> QED BY <2>1, <2>2, <2>3 DEF EcuNext
<1>2. EcuTypeOK /\ [EcuNext]_ecuVars
        => [status' = "none" /\ state # "INIT" /\ fault' # {} => state' = "FAULT"]_ecuVars
  BY <1>1
<1> QED BY <1>2, EcuInvariant, PTL DEF EcuSpec, EcuInv, UpdateSeesFault

\* Sensor bits move only on the far side of their thresholds, whichever
\* call evaluates them (ecu_state_machine.cpp:47-69).
THEOREM BitsObeyHysteresis == EcuSpec => Hysteresis
<1>1. ASSUME EcuTypeOK, [EcuNext]_ecuVars, NEW s \in Sensor,
             (s \in fault) # (s \in fault')
      PROVE  reading'[s] = IF s \in fault' THEN "bad" ELSE "good"
  <2> USE <1>1
  <2>1. BusOff \notin Sensor /\ fault \in SUBSET Fault /\ busOff \in BOOLEAN
    BY DEF BusOff, Sensor, EcuTypeOK
  <2>2. CASE \E d \in {1, 2} : Run(d)
    <3>1. /\ fault' = Evaluate(fault, busOff, reading')
          /\ reading' \in [Sensor -> Class]
      BY <2>2, EcuAssumption DEF Run
    <3>2. /\ s \in fault' /\ s \notin fault => reading'[s] = "bad"
          /\ s \notin fault' /\ s \in fault => reading'[s] = "good"
      BY <2>1, <3>1, EvaluateFacts
    <3> QED BY <3>2
  <2>3. CASE ClearFaults /\ state = "FAULT"
    <3>1. fault' = Evaluate(fault \ {BusOff}, FALSE, reading) /\ reading' = reading
      BY <2>3 DEF ClearFaults
    <3>2. reading \in [Sensor -> Class]
      BY EcuAssumption DEF EcuTypeOK
    <3>3. fault \ {BusOff} \in SUBSET Fault /\ (s \in fault \ {BusOff} <=> s \in fault)
      BY <2>1
    <3>4. /\ s \in fault' /\ s \notin fault => reading[s] = "bad"
          /\ s \notin fault' /\ s \in fault => reading[s] = "good"
      BY <3>1, <3>2, <3>3, EvaluateFacts
    <3>5. /\ s \in fault' /\ s \notin fault => reading'[s] = "bad"
          /\ s \notin fault' /\ s \in fault => reading'[s] = "good"
      <4>1. reading'[s] = reading[s]
        BY <3>1
      <4> QED BY <3>4, <4>1
    <3> QED BY <3>5
  <2>4. CASE BusWentOff \/ BusCameBack
    BY <2>1, <2>4 DEF BusWentOff, BusCameBack
  <2>5. CASE fault' = fault
    BY <2>5
  <2> QED BY <2>2, <2>3, <2>4, <2>5 DEF EcuNext, Update, LeaveInit, HandleCommand,
       SetInit, SetNormal, EnterDiagnostic, SetFault, OnlyReply, Reply, ClearFaults, ecuVars
<1>2. EcuTypeOK /\ [EcuNext]_ecuVars
        => [\A s \in Sensor : (s \in fault) # (s \in fault')
              => reading'[s] = IF s \in fault' THEN "bad" ELSE "good"]_ecuVars
  BY <1>1
<1> QED BY <1>2, EcuInvariant, PTL DEF EcuSpec, EcuInv, Hysteresis

------------------------------------------------------------------------------
(* The engine. *)

\* A lag never leaves an interval that holds the value and the target.
LEMMA LagStays ==
    ASSUME NEW q, NEW lo \in Int, NEW hi \in Int,
           NEW x \in Int, NEW target \in Int,
           lo <= x, x <= hi, lo <= target, target <= hi,
           NEW v \in Lag(q, x, target)
    PROVE  v \in Int /\ lo <= v /\ v <= hi
<1>1. v \in Between(x, target)
  BY DEF Lag
<1> QED BY <1>1 DEF Between

\* What follows the engine speed stays in range as long as it does.
LEMMA TargetRanges ==
    ASSUME NEW r \in Int, 800 <= r, r <= 6000
    PROVE  /\ TargetTemp(r) \in Int /\ 25 <= TargetTemp(r) /\ TargetTemp(r) <= 100
           /\ TargetOil(r) \in Int /\ 214 <= TargetOil(r) /\ TargetOil(r) <= 630
<1>1. 25 + r \div 80 \in 25 .. 100
  OBVIOUS
<1>2. 150 + (8 * r) \div 100 \in 214 .. 630
  OBVIOUS
<1> QED BY <1>1, <1>2 DEF TargetTemp, TargetOil

\* One step of the engine keeps every quantity in its range: each target
\* lies in the range of the quantity that follows it.
LEMMA StepInRange == ASSUME InRange, Step PROVE InRange'
<1>1. rpm' \in Int /\ 800 <= rpm' /\ rpm' <= 6000
  <2>1. TargetRpm(throttle) \in Int /\ 800 <= TargetRpm(throttle) /\ TargetRpm(throttle) <= 6000
    BY DEF InRange, TargetRpm
  <2>2. rpm \in Int /\ 800 <= rpm /\ rpm <= 6000
    BY DEF InRange
  <2>3. rpm' \in Lag("rpm", rpm, TargetRpm(throttle))
    BY DEF Step
  <2> QED BY <2>1, <2>2, <2>3, LagStays
<1>2. temp' \in Int /\ 25 <= temp' /\ temp' <= 100
  <2>1. TargetTemp(rpm') \in Int /\ 25 <= TargetTemp(rpm') /\ TargetTemp(rpm') <= 100
    BY <1>1, TargetRanges
  <2>2. temp \in Int /\ 25 <= temp /\ temp <= 100
    BY DEF InRange
  <2>3. temp' \in Lag("temp", temp, TargetTemp(rpm'))
    BY DEF Step
  <2> QED BY <2>1, <2>2, <2>3, LagStays
<1>3. oil' \in Int /\ 214 <= oil' /\ oil' <= 630
  <2>1. TargetOil(rpm') \in Int /\ 214 <= TargetOil(rpm') /\ TargetOil(rpm') <= 630
    BY <1>1, TargetRanges
  <2>2. oil \in Int /\ 214 <= oil /\ oil <= 630
    BY DEF InRange
  <2>3. oil' \in Lag("oil", oil, TargetOil(rpm'))
    BY DEF Step
  <2> QED BY <2>1, <2>2, <2>3, LagStays
<1>4. volt' \in Int /\ 1260 <= volt' /\ volt' <= 1380
  <2>1. TargetVolt(rpm') \in Int /\ 1260 <= TargetVolt(rpm') /\ TargetVolt(rpm') <= 1380
    BY <1>1 DEF TargetVolt
  <2>2. volt \in Int /\ 1260 <= volt /\ volt <= 1380
    BY DEF InRange
  <2>3. volt' \in Lag("volt", volt, TargetVolt(rpm'))
    BY DEF Step
  <2> QED BY <2>1, <2>2, <2>3, LagStays
<1>5. speed' \in Int /\ 0 <= speed' /\ speed' <= 1800
  <2>1. TargetSpeed(throttle) \in Int /\ 0 <= TargetSpeed(throttle) /\ TargetSpeed(throttle) <= 1800
    BY DEF InRange, TargetSpeed
  <2>2. speed \in Int /\ 0 <= speed /\ speed <= 1800
    BY DEF InRange
  <2>3. speed' \in Lag("speed", speed, TargetSpeed(throttle))
    BY DEF Step
  <2> QED BY <2>1, <2>2, <2>3, LagStays
<1>6. fuel' \in Int /\ 0 <= fuel' /\ fuel' <= 1000
  <2>1. 0 \in Int /\ 0 <= 0 /\ 0 <= 1000
    OBVIOUS
  <2>2. fuel \in Int /\ 0 <= fuel /\ fuel <= 1000
    BY DEF InRange
  <2>3. fuel' \in Lag("fuel", fuel, 0)
    BY DEF Step
  <2> QED BY <2>1, <2>2, <2>3, LagStays
<1>7. throttle' \in 0 .. 100
  BY DEF Step, InRange
<1> QED BY <1>1, <1>2, <1>3, <1>4, <1>5, <1>6, <1>7 DEF InRange

\* Every quantity stays in the range the lags span (physics_model.cpp:12-40).
THEOREM EngineInRange == Spec => []InRange
<1>1. Init => InRange
  BY DEF Init, InRange
<1>2. InRange /\ [Next]_vars => InRange'
  <2> SUFFICES ASSUME InRange, [Next]_vars PROVE InRange'
    OBVIOUS
  <2>1. CASE Step
    BY <2>1, StepInRange
  <2>2. CASE \E p \in Param : SetThrottle(p)
    BY <2>2, PhysicsAssumption DEF SetThrottle, Clamp, InRange, Byte
  <2>3. CASE UNCHANGED vars
    BY <2>3 DEF vars, InRange
  <2> QED BY <2>1, <2>2, <2>3 DEF Next
<1> QED BY <1>1, <1>2, PTL DEF Spec

\* No throttle history raises a sensor fault: of the four faults the bitmap
\* can report, the running ECU can only ever meet bus-off.  The ECU's own test
\* expects the contrary of the engine (ecu/tests/src/main.cpp:52-59); the run
\* EngineOverheats puts that to the model.
THEOREM EngineNeverFaults == Spec => []NoPhysicalFault
<1>1. InRange => NoPhysicalFault
  BY DEF InRange, NoPhysicalFault, OverTemp, LowOil, LowBattery
<1> QED BY <1>1, EngineInRange, PTL

------------------------------------------------------------------------------
(* The main loop, with the callback at interrupt level. *)

LEMMA InitOutage == NodeInit => OutageIsKept
BY DEF NodeInit, EcuInit, OutageIsKept, BusOff

\* The bit is dropped by two stores only, and both lead to the test of the flag.
LEMMA LoopKeepsOutage == OutageIsKept /\ MainLoop => OutageIsKept'
<1> USE DEF OutageIsKept, Evaluating, Goto, Answer, EvalReturn, members, local, outside
<1>1. CASE OutageIsKept /\ (Boot \/ AddFilter \/ Top \/ Drain \/ Handle \/ Respond \/ Send)
  BY <1>1 DEF Boot, AddFilter, Top, Drain, Handle, Respond, Send
<1>2. CASE OutageIsKept /\ (SetNormalStep \/ SetDiagStep \/ LeaveInitStep \/ Expire)
  BY <1>2 DEF SetNormalStep, SetDiagStep, LeaveInitStep, Expire
<1>3. CASE OutageIsKept /\ (ClearFlag \/ ClearLoad \/ ClearStore \/ ClearDecide)
  BY <1>3 DEF ClearFlag, ClearLoad, ClearStore, ClearDecide
<1>4. CASE OutageIsKept /\ (EvalLoad \/ EvalStore \/ EvalBus \/ EvalAssert)
  BY <1>4 DEF EvalLoad, EvalStore, EvalBus, EvalAssert
<1>5. CASE OutageIsKept /\ (StartUpdate \/ Decide \/ SetFaultStep \/ Diagnose)
  BY <1>5 DEF StartUpdate, Decide, SetFaultStep, Diagnose
<1>6. CASE OutageIsKept /\ (ReadyToRecover \/ BitmapIsClear \/ Recover)
  BY <1>6 DEF ReadyToRecover, BitmapIsClear, Recover
<1> QED BY <1>1, <1>2, <1>3, <1>4, <1>5, <1>6 DEF MainLoop

\* Whatever access of the main loop the bus-off interrupts, and whatever the
\* commands, it is not forgotten (ecu_state_machine.cpp:32-98, main.cpp:55-110).
THEOREM OutageKept == NodeSpec => []OutageIsKept
<1>1. OutageIsKept /\ [NodeNext]_nodeVars => OutageIsKept'
  <2> SUFFICES ASSUME OutageIsKept, [NodeNext]_nodeVars PROVE OutageIsKept'
    OBVIOUS
  <2>1. CASE MainLoop
    BY <2>1, LoopKeepsOutage
  <2>2. CASE \E c \in Commands : Arrive(c)
    BY <2>2 DEF Arrive, OutageIsKept, members, local
  <2>3. CASE GoBusOff
    BY <2>3 DEF GoBusOff, OutageIsKept
  <2>4. CASE ComeBack
    BY <2>4 DEF ComeBack, OutageIsKept, local
  <2>5. CASE Halted \/ UNCHANGED nodeVars
    BY <2>5 DEF Halted, nodeVars, members, local, outside, OutageIsKept
  <2> QED BY <2>1, <2>2, <2>3, <2>4, <2>5 DEF NodeNext
<1> QED BY <1>1, InitOutage, PTL DEF NodeSpec

------------------------------------------------------------------------------
(* Command frames: from the filter to the response.  Three history variables *)
(* record what happens to them and change nothing of what the node does.     *)

VARIABLES received,   \* commands the filter put into cmd_msgq, in order
          answered,   \* commands answered by a response frame, in order
          refused     \* how many found the queue full

history == <<received, answered, refused>>

RecordInit == NodeInit /\ received = <<>> /\ answered = <<>> /\ refused = 0

RecordArrival(c) ==
    /\ Arrive(c)
    /\ IF Len(queue) < QueueSize
       THEN received' = Append(received, c) /\ UNCHANGED refused
       ELSE refused' = refused + 1 /\ UNCHANGED received
    /\ UNCHANGED answered

RecordLoop ==
    /\ MainLoop
    /\ answered' = IF pc = "respond" THEN Append(answered, cmd) ELSE answered
    /\ UNCHANGED <<received, refused>>

RecordNext == \/ \E c \in Commands : RecordArrival(c)
              \/ RecordLoop
              \/ (Halted \/ GoBusOff \/ ComeBack) /\ UNCHANGED history

RecordSpec == RecordInit /\ [][RecordNext]_<<nodeVars, history>>

\* The queue holds QueueSize commands and the main loop one.
Line == INSTANCE LossyFifo
          WITH Item <- Commands, Room <- QueueSize + 1,
               accepted <- received, delivered <- answered, dropped <- refused

\* Where the main loop has a command in hand, and where it has none; the
\* evaluation of the faults is entered with and without one.
Busy == {"handle", "setNormal", "setDiag", "clearFlag", "clearLoad", "clearStore",
         "clearDecide", "respond"}
Idle == {"boot", "filter", "halted", "top", "drain", "update", "leaveInit", "decide",
         "setFault", "diag", "expire", "recover", "readBitmap", "askController", "send"}

InHand == IF cmd = None THEN 0 ELSE 1

\* What was received is what was answered, what is in hand and what is queued.
InLine ==
    /\ queue \in Seq(Commands) /\ received \in Seq(Commands) /\ answered \in Seq(Commands)
    /\ refused \in Nat
    /\ cmd \in Commands \cup {None}
    /\ pc \in Busy => cmd # None
    /\ pc \in Idle => cmd = None
    /\ pc \in Busy \cup Idle \cup Evaluating
    /\ Len(queue) <= QueueSize
    /\ Len(received) = Len(answered) + InHand + Len(queue)
    /\ \A i \in 1 .. Len(answered) : answered[i] = received[i]
    /\ cmd # None => cmd = received[Len(answered) + 1]
    /\ \A i \in 1 .. Len(queue) : queue[i] = received[Len(answered) + InHand + i]

\* What is recorded is a behaviour of the node.
LEMMA RecordsOfTheNode == RecordSpec => NodeInit /\ [][NodeNext]_nodeVars
<1>1. RecordInit => NodeInit
  BY DEF RecordInit
<1>2. [RecordNext]_<<nodeVars, history>> => [NodeNext]_nodeVars
  BY DEF RecordNext, RecordArrival, RecordLoop, NodeNext
<1> QED BY <1>1, <1>2, PTL DEF RecordSpec

LEMMA InitLine == RecordInit => InLine
  BY NodeAssumption DEF RecordInit, NodeInit, InLine, InHand, Busy, Idle, None

LEMMA NoneIsNoCommand == None \notin Commands
  BY NodeAssumption DEF Command, None

\* A frame joins the line at its end, or is refused.
LEMMA ArrivalInLine ==
    ASSUME InLine, NEW c \in Commands, RecordArrival(c)
    PROVE  InLine' /\ [Line!Next]_(Line!vars)
<1> PICK a, h, q : a = Len(answered) /\ h = InHand /\ q = Len(queue)
  OBVIOUS
<1>1. /\ a \in Nat /\ h \in {0, 1} /\ q \in Nat /\ QueueSize \in Nat
      /\ Len(received) = a + h + q /\ q <= QueueSize
      /\ queue \in Seq(Commands) /\ received \in Seq(Commands)
  BY NodeAssumption DEF InLine, InHand
<1>2. UNCHANGED <<answered, cmd, pc>> /\ InHand' = InHand
  BY DEF RecordArrival, Arrive, local, InHand
<1>3. CASE q < QueueSize
  <2>1. queue' = Append(queue, c) /\ received' = Append(received, c) /\ UNCHANGED refused
    BY <1>3 DEF RecordArrival, Arrive
  <2>2. /\ queue' \in Seq(Commands) /\ received' \in Seq(Commands)
        /\ Len(queue') = q + 1 /\ Len(received') = a + h + q + 1
        /\ \A i \in 1 .. q : queue'[i] = queue[i]
        /\ queue'[q + 1] = c
        /\ \A i \in 1 .. a + h + q : received'[i] = received[i]
        /\ received'[a + h + q + 1] = c
    BY <1>1, <2>1
  <2>3. \A i \in 1 .. Len(queue') : queue'[i] = received'[a + h + i]
    <3> TAKE i \in 1 .. Len(queue')
    <3>1. CASE i = q + 1
      BY <1>1, <2>2, <3>1
    <3>2. CASE i # q + 1
      <4>1. i \in 1 .. q /\ a + h + i \in 1 .. a + h + q
        BY <1>1, <2>2, <3>2
      <4>2. queue[i] = received[a + h + i]
        BY <4>1 DEF InLine
      <4> QED BY <2>2, <4>1, <4>2
    <3> QED BY <3>1, <3>2
  <2>4. \A i \in 1 .. a : answered[i] = received'[i]
    <3> TAKE i \in 1 .. a
    <3>1. i \in 1 .. a + h + q /\ answered[i] = received[i]
      BY <1>1 DEF InLine
    <3> QED BY <2>2, <3>1
  <2>5. cmd # None => cmd = received'[a + 1]
    <3> SUFFICES ASSUME cmd # None PROVE cmd = received'[a + 1]
      OBVIOUS
    <3>1. h = 1
      BY DEF InHand
    <3>2. a + 1 \in 1 .. a + h + q /\ cmd = received[a + 1]
      BY <1>1, <3>1 DEF InLine
    <3> QED BY <2>2, <3>2
  <2>6. InLine'
    <3>1. Len(queue') <= QueueSize /\ Len(received') = Len(answered) + InHand + Len(queue')
      <4>1. q + 1 <= QueueSize /\ a + h + q + 1 = a + h + (q + 1)
        BY <1>1, <1>3
      <4> QED BY <2>2, <4>1
    <3> QED BY <1>2, <2>1, <2>2, <2>3, <2>4, <2>5, <3>1 DEF InLine
  <2>7. Line!Accept(c)
    <3>1. Len(received) - Len(answered) < QueueSize + 1
      BY <1>1, <1>3
    <3> QED BY <1>2, <2>1, <3>1 DEF Line!Accept
  <2> QED BY <2>6, <2>7 DEF Line!Next
<1>4. CASE ~(q < QueueSize)
  <2>1. queue' = queue /\ refused' = refused + 1 /\ UNCHANGED received
    BY <1>4 DEF RecordArrival, Arrive
  <2>2. InLine'
    BY <1>2, <2>1 DEF InLine
  <2> QED BY <1>2, <2>1, <2>2 DEF Line!Next, Line!Refuse
<1> QED BY <1>3, <1>4

\* k_msgq_get() takes the command that came first into a hand that is empty.
LEMMA DrainInLine ==
    ASSUME InLine, Drain, UNCHANGED history PROVE InLine'
<1>1. UNCHANGED <<received, answered, refused>> /\ pc = "drain" /\ cmd = None /\ InHand = 0
  BY DEF history, Drain, InLine, Idle, InHand
<1>2. CASE queue = <<>>
  <2>1. pc' = "update" /\ UNCHANGED <<cmd, queue>> /\ InHand' = InHand
    BY <1>2 DEF Drain, Goto, InHand
  <2> QED BY <1>1, <2>1 DEF InLine, Busy, Idle
<1>3. CASE queue # <<>>
  <2> PICK a, q : a = Len(answered) /\ q = Len(queue)
    OBVIOUS
  <2>1. pc' = "handle" /\ cmd' = Head(queue) /\ queue' = Tail(queue)
    BY <1>3 DEF Drain, Goto
  <2>2. /\ a \in Nat /\ q \in Nat /\ q > 0 /\ queue \in Seq(Commands) /\ QueueSize \in Nat
        /\ q <= QueueSize /\ Len(received) = a + 0 + q
    BY <1>1, <1>3, NodeAssumption, EmptySeq DEF InLine
  <2>3. /\ cmd' = queue[1] /\ cmd' \in Commands /\ cmd' # None /\ InHand' = 1
        /\ queue' \in Seq(Commands) /\ Len(queue') = q - 1
        /\ \A i \in 1 .. q - 1 : queue'[i] = queue[i + 1]
    BY <2>1, <2>2, <1>3, NoneIsNoCommand DEF InHand
  <2>4. \A i \in 1 .. q : queue[i] = received[a + 0 + i]
    BY <1>1 DEF InLine
  <2>5. cmd' = received[a + 1]
    <3>1. 1 \in 1 .. q /\ a + 0 + 1 = a + 1
      BY <2>2
    <3> QED BY <2>3, <2>4, <3>1
  <2>6. \A i \in 1 .. q - 1 : queue'[i] = received[a + 1 + i]
    <3> TAKE i \in 1 .. q - 1
    <3>1. i + 1 \in 1 .. q /\ a + 0 + (i + 1) = a + 1 + i
      BY <2>2
    <3> QED BY <2>3, <2>4, <3>1
  <2>7. q - 1 <= QueueSize /\ Len(received) = a + 1 + (q - 1)
    BY <2>2
  <2> QED BY <1>1, <2>1, <2>3, <2>5, <2>6, <2>7 DEF InLine, Busy, Idle
<1> QED BY <1>2, <1>3

\* The response goes to the command that came first of all not yet answered.
LEMMA RespondInLine ==
    ASSUME InLine, Respond, answered' = Append(answered, cmd), UNCHANGED <<received, refused>>
    PROVE  InLine' /\ Line!Deliver
<1> PICK a, q : a = Len(answered) /\ q = Len(queue)
  OBVIOUS
<1>1. /\ pc = "respond" /\ pc' = "drain" /\ cmd' = None /\ UNCHANGED queue
      /\ cmd # None /\ InHand = 1 /\ InHand' = 0
  BY DEF Respond, Goto, InLine, Busy, InHand
<1>2. /\ a \in Nat /\ q \in Nat /\ Len(received) = a + 1 + q
      /\ cmd = received[a + 1] /\ cmd \in Commands /\ answered \in Seq(Commands)
  BY <1>1 DEF InLine
<1>3. /\ answered' \in Seq(Commands) /\ Len(answered') = a + 1
      /\ \A i \in 1 .. a : answered'[i] = answered[i]
      /\ answered'[a + 1] = cmd
  BY <1>2
<1>4. \A i \in 1 .. a + 1 : answered'[i] = received[i]
  <2> TAKE i \in 1 .. a + 1
  <2>1. CASE i = a + 1
    BY <1>2, <1>3, <2>1
  <2>2. CASE i # a + 1
    <3>1. i \in 1 .. a
      BY <1>2, <2>2
    <3>2. answered[i] = received[i]
      BY <3>1 DEF InLine
    <3> QED BY <1>3, <3>1, <3>2
  <2> QED BY <2>1, <2>2
<1>5. \A i \in 1 .. q : queue[i] = received[(a + 1) + 0 + i]
  <2> TAKE i \in 1 .. q
  <2>1. queue[i] = received[a + 1 + i] /\ (a + 1) + 0 + i = a + 1 + i
    BY <1>1, <1>2 DEF InLine
  <2> QED BY <2>1
<1>6. Len(received) = (a + 1) + 0 + q
  BY <1>2
<1>7. InLine'
  BY <1>1, <1>3, <1>4, <1>5, <1>6 DEF InLine, Busy, Idle
<1>8. Len(answered) < Len(received)
  BY <1>2
<1>9. Line!Deliver
  BY <1>2, <1>8 DEF Line!Deliver
<1> QED BY <1>7, <1>9

\* The other steps leave the command in hand, and the queue, alone.
LEMMA OthersInLine ==
    ASSUME InLine, UNCHANGED <<history, queue, cmd>>,
           pc' = pc \/ (pc \in Busy \cup Evaluating /\ pc' \in Busy \cup Evaluating /\ cmd # None)
                    \/ (pc \in Idle \cup Evaluating /\ pc' \in Idle \cup Evaluating /\ cmd = None)
    PROVE  InLine'
  BY DEF InLine, InHand, history, Busy, Idle, Evaluating

LEMMA LoopInLine ==
    ASSUME InLine, RecordLoop PROVE InLine' /\ [Line!Next]_(Line!vars)
<1>1. CASE Drain
  <2>1. UNCHANGED history
    BY <1>1 DEF RecordLoop, history, Drain
  <2> QED BY <1>1, <2>1, DrainInLine DEF history, Line!vars
<1>2. CASE Respond
  <2>1. answered' = Append(answered, cmd) /\ UNCHANGED <<received, refused>>
    BY <1>2 DEF RecordLoop, Respond
  <2> QED BY <1>2, <2>1, RespondInLine DEF Line!Next
<1>3. CASE ~Drain /\ ~Respond
  <2> USE DEF Goto, Answer, EvalReturn, local, members, outside
  <2>1. /\ UNCHANGED <<queue, cmd>> /\ pc # "respond"
        /\ \/ pc \in Busy \cup Evaluating /\ pc' \in Busy \cup Evaluating /\ cmd # None
           \/ pc \in Idle \cup Evaluating /\ pc' \in Idle \cup Evaluating /\ cmd = None
    <3> USE DEF InLine, Busy, Idle, Evaluating
    <3>1. CASE Boot \/ AddFilter \/ Top \/ Send \/ Handle
      BY <3>1 DEF Boot, AddFilter, Top, Send, Handle
    <3>2. CASE SetNormalStep \/ SetDiagStep \/ LeaveInitStep \/ Expire
      BY <3>2 DEF SetNormalStep, SetDiagStep, LeaveInitStep, Expire
    <3>3. CASE ClearFlag \/ ClearLoad \/ ClearStore \/ ClearDecide
      BY <3>3 DEF ClearFlag, ClearLoad, ClearStore, ClearDecide
    <3>4. CASE EvalLoad \/ EvalStore \/ EvalBus \/ EvalAssert
      BY <3>4 DEF EvalLoad, EvalStore, EvalBus, EvalAssert
    <3>5. CASE StartUpdate \/ Decide \/ SetFaultStep \/ Diagnose
      BY <3>5 DEF StartUpdate, Decide, SetFaultStep, Diagnose
    <3>6. CASE ReadyToRecover \/ BitmapIsClear \/ Recover
      BY <3>6 DEF ReadyToRecover, BitmapIsClear, Recover
    <3> QED BY <1>3, <3>1, <3>2, <3>3, <3>4, <3>5, <3>6 DEF RecordLoop, MainLoop
  <2>2. UNCHANGED history
    BY <2>1 DEF RecordLoop, history
  <2> QED BY <2>1, <2>2, OthersInLine DEF history, Line!vars
<1> QED BY <1>1, <1>2, <1>3

LEMMA LineStep ==
    ASSUME InLine, [RecordNext]_<<nodeVars, history>>
    PROVE  InLine' /\ [Line!Next]_(Line!vars)
<1>1. CASE \E c \in Commands : RecordArrival(c)
  BY <1>1, ArrivalInLine
<1>2. CASE RecordLoop
  BY <1>2, LoopInLine
<1>3. CASE (Halted \/ GoBusOff \/ ComeBack) /\ UNCHANGED history
  <2>1. UNCHANGED <<history, queue, cmd, pc>>
    BY <1>3 DEF Halted, GoBusOff, ComeBack, nodeVars, local, members, outside
  <2> QED BY <2>1, OthersInLine DEF history, Line!vars
<1>4. CASE UNCHANGED <<nodeVars, history>>
  <2>1. UNCHANGED <<history, queue, cmd, pc>>
    BY <1>4 DEF nodeVars, local
  <2> QED BY <2>1, OthersInLine DEF history, Line!vars
<1> QED BY <1>1, <1>2, <1>3, <1>4 DEF RecordNext

\* A command is refused only while QueueSize others wait for their answer:
\* k_msgq_put() fails on a full queue and on no other (ecu/src/main.cpp:13, 52).
RefusedWhenFull ==
    [][refused' # refused => Len(received) - Len(answered) >= QueueSize]_<<nodeVars, history>>

LEMMA RefusalStep ==
    ASSUME InLine, [RecordNext]_<<nodeVars, history>>, refused' # refused
    PROVE  Len(received) - Len(answered) >= QueueSize
<1>1. PICK c \in Commands : RecordArrival(c)
  BY DEF RecordNext, RecordLoop, history
<1>2. ~(Len(queue) < QueueSize)
  BY <1>1 DEF RecordArrival
<1>3. /\ Len(answered) \in Nat /\ Len(queue) \in Nat /\ InHand \in {0, 1} /\ QueueSize \in Nat
      /\ Len(received) = Len(answered) + InHand + Len(queue)
  BY NodeAssumption DEF InLine, InHand
<1> QED BY <1>2, <1>3

\* Safety of the command line, whatever the callback does at interrupt level:
\* no command that was not received is answered, none twice and none out of
\* order, at most QueueSize and the one in hand wait, and a command is refused
\* only when the queue is full (ecu/src/main.cpp:13 and 47-87).  That each is
\* answered in the end is not claimed here.
THEOREM CommandsKeepTheirOrder == RecordSpec => Line!Spec /\ RefusedWhenFull
<1>1. RecordInit => Line!Init
  BY DEF RecordInit, Line!Init
<1>2. InLine /\ [RecordNext]_<<nodeVars, history>> => InLine' /\ [Line!Next]_(Line!vars)
  BY LineStep
<1>3. InLine /\ [RecordNext]_<<nodeVars, history>>
        => [refused' # refused => Len(received) - Len(answered) >= QueueSize]_<<nodeVars, history>>
  BY RefusalStep
<1> QED BY <1>1, <1>2, <1>3, InitLine, PTL DEF RecordSpec, Line!Spec, RefusedWhenFull

==============================================================================

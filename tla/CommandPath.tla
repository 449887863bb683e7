---------------------------- MODULE CommandPath ------------------------------
(***************************************************************************)
(* A command from an MQTT client to the engine and its answer, through the *)
(* codecs of both programs: message_arrived() and encode_command() in the  *)
(* gateway, unpack_command(), the checks of handle_command() and           *)
(* pack_response() in the ECU, decode_response() in the gateway.           *)
(***************************************************************************)
EXTENDS Integers, Sequences

CommandId == [set_mode |-> 1, set_throttle |-> 2, request_diag |-> 3, clear_faults |-> 4]
WithParam == {"set_mode", "set_throttle"}

\* message_arrived(): the command a message becomes, or none.  A payload
\* that is not JSON throws, so does looking up the parameter in one that is
\* JSON but no object; the parameter, an int, is cut to a byte.
Translate(m) ==
    IF \/ m.topic \notin DOMAIN CommandId
       \/ m.payload = "malformed"
       \/ m.payload = "plain" /\ m.topic \in WithParam
    THEN <<>>
    ELSE <<[id |-> CommandId[m.topic],
            param |-> IF m.topic \in WithParam THEN m.value % 256 ELSE 0]>>

\* CommandFrame and ResponseFrame: two bytes and six reserved ones; a
\* frame that is too short is refused.
encode_command(c) == <<c.id, c.param, 0, 0, 0, 0, 0, 0>>
unpack_command(b) == IF Len(b) < 8 THEN <<>> ELSE <<[id |-> b[1], param |-> b[2]]>>
pack_response(id, status) == <<id, status, 0, 0, 0, 0, 0, 0>>
decode_response(b) == IF Len(b) < 8 THEN <<>> ELSE <<[id |-> b[1], status |-> b[2]]>>

\* What handle_command() refuses with status 1: a command or a mode it does
\* not know, and a throttle beyond 100.
UnknownCommand(c) == c.id \notin 1 .. 4
UnknownMode(c) == c.id = 1 /\ c.param > 3
\* Mutation: the throttle is left to the clamp in the engine.
OutOfRangeNever(c) == FALSE
OutOfRange(c) == c.id = 2 /\ c.param > 100

\* PhysicsModel::set_throttle() on a percentage that is not negative.
set_throttle(t) == IF t > 100 THEN 100 ELSE t

\* What a SET_THROTTLE message does: the throttle of the engine after it and
\* the answer the gateway prints.
Deliver(m, throttle) ==
    LET c == unpack_command(encode_command(Translate(m)[1]))[1]
        status == IF UnknownCommand(c) \/ UnknownMode(c) \/ OutOfRange(c) THEN 1 ELSE 0
    IN  [throttle |-> IF c.id = 2 /\ status = 0 THEN set_throttle(c.param) ELSE throttle,
         answer |-> decode_response(pack_response(c.id, status))[1]]

------------------------------------------------------------------------------
\* Of a number that fits the byte of the frame: a percentage is set as asked
\* and answered with success, any other is refused and leaves the throttle
\* alone; the answer names the command.
ThrottleAsAsked(m, throttle) ==
    m.value \in 0 .. 255 =>
        LET d == Deliver(m, throttle) IN
        /\ d.answer.id = CommandId[m.topic]
        /\ IF m.value <= 100 THEN d.throttle = m.value /\ d.answer.status = 0
                             ELSE d.throttle = throttle /\ d.answer.status # 0

\* Whatever the number, the engine is never asked for more than it has.
ThrottleInRange(m, throttle) == Deliver(m, throttle).throttle \in 0 .. 100

\* What docs/can_fd_frame_format.md:56 gives as the range of the parameter,
\* asked of the number the client sent.
RefusedBeyondRange(m, throttle) ==
    m.value \notin 0 .. 100 =>
        LET d == Deliver(m, throttle) IN d.throttle = throttle /\ d.answer.status # 0
==============================================================================

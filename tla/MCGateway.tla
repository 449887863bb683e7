----------------------------- MODULE MCGateway -------------------------------
(* A message that becomes a command frame, its value cut to a byte, and one  *)
(* that is dropped as malformed; the other kinds end in one of these ways.   *)
EXTENDS Gateway

SomeMessages ==
    { [topic |-> "set_throttle", payload |-> "object", value |-> 300],
      [topic |-> "set_throttle", payload |-> "malformed", value |-> 0] }
==============================================================================

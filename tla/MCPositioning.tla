--------------------------- MODULE MCPositioning -----------------------------
(* The four devices of the simulator in order; the axis and the interlock   *)
(* stand for drivers that may fail before and after others came up.         *)
EXTENDS Positioning

DeviceOrder == <<"axis", "spindle", "interlock", "sensor">>
MayFail == {"axis", "sensor"}
Requests == {-1, 0, 2, 3, 5}
==============================================================================

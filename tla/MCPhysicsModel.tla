--------------------------- MODULE MCPhysicsModel ----------------------------
(* Coarse steps of each quantity besides its targets.  The two throttles     *)
(* that take every lag from end to end, one in between, two out of range.    *)
EXTENDS PhysicsModel

Params == {0, 60, 100, 101, 255}
Grains == [rpm |-> 3000, temp |-> 35, oil |-> 300, volt |-> 1400, fuel |-> 1001, speed |-> 2000]
==============================================================================

----------------------------- MODULE MCEcuNode -------------------------------
(* The node with the steady physics that PhysicsModel proves, one command of *)
(* each kind that handle_command() distinguishes.                            *)
EXTENDS EcuNode

SteadyReading == {[s \in Sensor |-> "good"]}
==============================================================================

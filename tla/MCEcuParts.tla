----------------------------- MODULE MCEcuParts ------------------------------
(* The mode machine under every combination of the three sensors, and the   *)
(* engine under every sequence of throttles, each alone: the machine's      *)
(* readings are more than the engine's, so neither needs the other.         *)
EXTENDS EcuStateMachine, MCPhysicsModel

AnyReading == [Sensor -> Class]

VARIABLE part   \* which of the two runs
partsVars == <<part, ecuVars, vars>>

PartsInit == part \in {"machine", "engine"} /\ EcuInit /\ Init
PartsNext ==
    \/ part = "machine" /\ EcuNext /\ UNCHANGED <<part, vars>>
    \/ part = "engine" /\ Next /\ UNCHANGED <<part, ecuVars>>
PartsSpec == PartsInit /\ [][PartsNext]_partsVars
==============================================================================

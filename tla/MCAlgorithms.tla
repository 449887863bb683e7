---------------------------- MODULE MCAlgorithms -----------------------------
(* The algorithms of Numerics on their inputs and, as one more input, the   *)
(* flight controller with its ticks.  No input changes into another.        *)
EXTENDS MCNumerics, MCQuadcopter

algorithmsVars == <<numericsVars, vars>>

AlgorithmsInit == PoseInit /\ Init /\ input \in Inputs \cup [kind : {"flight"}]
AlgorithmsNext ==
    \/ input.kind # "flight" /\ NumericsNext /\ UNCHANGED vars
    \/ input.kind = "flight" /\ Next /\ UNCHANGED numericsVars
AlgorithmsSpec == AlgorithmsInit /\ [][AlgorithmsNext]_algorithmsVars
==============================================================================

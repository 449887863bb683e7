------------------------------- MODULE MCCbs ---------------------------------
(* The planner with two agents, held against all plans there are for them.   *)
EXTENDS Cbs

Agents == {1, 2}

\* All starts and goals in which neither is asked for what the other is; the
\* reflections of the grid bring agent 1 into one quarter of it.
Problems == {p \in [Agents -> [start : Cell, goal : Cell]] :
               /\ p[1].start # p[2].start /\ p[1].goal # p[2].goal
               /\ 2 * p[1].start[1] < Width /\ 2 * p[1].start[2] < Height}
==============================================================================

------------------------------ MODULE SwarmGrid ------------------------------
(***************************************************************************)
(* The world of the swarm planner, conflict_solver/grid.rs and types.rs of *)
(* uav_swarm_coordinator: cells of a box, some of them blocked, and the    *)
(* moves an agent may make under its constraints.  A vertex constraint is  *)
(* <<cell, time>>, an edge constraint <<from, to, time>>.                  *)
(*                                                                         *)
(* ShortestPaths is what the low-level search promises; AStar shows that   *)
(* the code's search keeps the promise, Cbs builds on it.                  *)
(***************************************************************************)
EXTENDS Integers, Sequences, FiniteSets

CONSTANTS Width, Height, Depth, Blocked,
          MaxTime   \* MAX_TIME, 200 in the code

Cell == (0 .. Width - 1) \X (0 .. Height - 1) \X (0 .. Depth - 1)

ASSUME GridAssumption ==
    /\ Width \in Nat /\ Height \in Nat /\ Depth \in Nat /\ MaxTime \in Nat
    /\ Blocked \subseteq Cell

Abs(n) == IF n < 0 THEN -n ELSE n
\* Mutation: a heuristic that overestimates.
ManhattanTwice(p, q) == 2 * (Abs(p[1] - q[1]) + Abs(p[2] - q[2]) + Abs(p[3] - q[3]))
manhattan(p, q) == Abs(p[1] - q[1]) + Abs(p[2] - q[2]) + Abs(p[3] - q[3])

\* successors(): the free cells one step away along one axis.
successors == [p \in Cell |-> {q \in Cell \ Blocked :
                  Abs(p[1] - q[1]) + Abs(p[2] - q[2]) + Abs(p[3] - q[3]) = 1}]

\* May an agent under constraints V and E be at p at time t and at q next?
Allowed(V, E, p, t, q) ==
    /\ q \in successors[p] \cup {p}
    /\ <<q, t + 1>> \notin V
    /\ <<p, q, t>> \notin E

------------------------------------------------------------------------------
(* The promise: a path reaches the goal as early as any does. *)

\* The cells in which an agent that left s at time 0 can be up to time
\* MaxTime, as pairs <<time, cell>>.
Reachable(V, E, s) ==
    LET reach[t \in 0 .. MaxTime] ==
            IF t = 0 THEN {<<0, s>>}
            ELSE LET before == reach[t - 1]
                     last == {r[2] : r \in {r \in before : r[1] = t - 1}}
                 IN  before \cup
                     UNION {{<<t, q>> : q \in {q \in successors[p] \cup {p} :
                                Allowed(V, E, p, t - 1, q)}} : p \in last}
    IN  reach[MaxTime]

\* The walks of n steps that end in cell g at time t, through pairs of R.
Walks(V, E, R, g, t) ==
    LET walk[n \in 0 .. t] ==
            IF n = 0 THEN {<<g>>}
            ELSE LET ends == walk[n - 1]
                 IN  UNION {{<<p>> \o w : p \in
                                {q \in {r[2] : r \in {r \in R : r[1] = t - n}} :
                                    Allowed(V, E, q, t - n, w[1])}} : w \in ends}
    IN  walk[t]

\* All shortest paths, as sequences; empty when the goal is out of reach.
ShortestPaths(V, E, s, g) ==
    LET R == Reachable(V, E, s)
        arrivals == {r[1] : r \in {r \in R : r[2] = g}}
    IN  IF arrivals = {} THEN {}
        ELSE Walks(V, E, R, g, CHOOSE t \in arrivals : \A u \in arrivals : t <= u)
==============================================================================

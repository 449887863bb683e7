-------------------------------- MODULE AStar --------------------------------
(***************************************************************************)
(* The low level of the swarm planner: astar_single() of                   *)
(* uav_swarm_coordinator/swarm_algorithms/src/conflict_solver/astar.rs, a  *)
(* search over cells and time for one agent.  One step is one iteration of *)
(* the loop over the open heap.                                            *)
(*                                                                         *)
(* An entry of the heap is <<f, g, cell, time>>; the heap pops the least   *)
(* in the lexicographic order of its components.                           *)
(***************************************************************************)
EXTENDS SwarmGrid

CONSTANTS Start, Goal,      \* where the agent may start, where it may have to go
          VertexChoice,     \* constraint sets tried
          EdgeChoice

ASSUME AStarAssumption == Start \subseteq Cell /\ Goal \subseteq Cell

VARIABLES start, goal, V, E,       \* the arguments
          open, cameFrom, bestG,   \* the search
          done, path               \* has it returned, and what

args == <<start, goal, V, E>>
vars == <<args, open, cameFrom, bestG, done, path>>

None == <<>>        \* Option::None: a path is never empty

Entry(g, p, t) == <<g + manhattan(p, goal), g, p, t>>

Init ==
    /\ start \in Start /\ goal \in Goal
    /\ V \in VertexChoice /\ E \in EdgeChoice
    /\ open = {Entry(0, start, 0)}
    /\ bestG = [k \in {<<start, 0>>} |-> 0]
    /\ cameFrom = [k \in {} |-> k]
    /\ done = FALSE /\ path = None

\* The order of the tuples (f, g, x, y, z, time).
Key(e) == <<e[1], e[2], e[3][1], e[3][2], e[3][3], e[4]>>
Before(e, o) ==
    \E k \in 1 .. 6 : Key(e)[k] < Key(o)[k] /\ \A i \in 1 .. k - 1 : Key(e)[i] = Key(o)[i]

\* reconstruct_path(): back along cameFrom, whose times fall by one.
Reconstruct(t) ==
    LET at[k \in 0 .. t] == IF k = t THEN goal ELSE cameFrom[<<at[k + 1], k + 1>>][1]
    IN  [i \in 1 .. t + 1 |-> at[i - 1]]

\* The neighbours and the wait, as far as no constraint forbids them and no
\* way as good is known.
\* Mutation: an edge constraint is tested at the time of arrival.
BetterLateEdge(p, t) ==
    {q \in successors[p] \cup {p} :
        /\ <<q, t + 1>> \notin V
        /\ <<p, q, t + 1>> \notin E
        /\ <<q, t + 1>> \in DOMAIN bestG => bestG[<<p, t>>] + 1 < bestG[<<q, t + 1>>]}

Better(p, t) ==
    {q \in successors[p] \cup {p} :
        /\ <<q, t + 1>> \notin V
        /\ <<p, q, t>> \notin E
        /\ <<q, t + 1>> \in DOMAIN bestG => bestG[<<p, t>>] + 1 < bestG[<<q, t + 1>>]}

\* Expanding an entry <<f, g, p, t>>; one that is stale or out of time adds
\* nothing.
Push(e) ==
    LET p == e[3]
        t == e[4]
        new == IF e[2] > bestG[<<p, t>>] \/ t >= MaxTime THEN {} ELSE Better(p, t)
        keys == {<<q, t + 1>> : q \in new}
    IN  /\ open' = (open \ {e}) \cup {Entry(e[2] + 1, q, t + 1) : q \in new}
        /\ bestG' = [k \in DOMAIN bestG \cup keys |->
                        IF k \in keys THEN e[2] + 1 ELSE bestG[k]]
        /\ cameFrom' = [k \in DOMAIN cameFrom \cup keys |->
                           IF k \in keys THEN <<p, t>> ELSE cameFrom[k]]

Pop ==
    /\ ~done
    /\ \E e \in open :
        /\ \A o \in open \ {e} : Before(e, o)
        /\ IF e[3] = goal /\ e[2] <= bestG[<<goal, e[4]>>]
           THEN /\ done' = TRUE /\ path' = Reconstruct(e[4])
                /\ open' = open \ {e}
                /\ UNCHANGED <<cameFrom, bestG>>
           ELSE Push(e) /\ UNCHANGED <<done, path>>
    /\ UNCHANGED args

Exhausted ==
    /\ ~done /\ open = {}
    /\ done' = TRUE
    /\ UNCHANGED <<args, open, cameFrom, bestG, path>>

Returned == done /\ UNCHANGED vars

Next == Pop \/ Exhausted \/ Returned

Spec == Init /\ [][Next]_vars

------------------------------------------------------------------------------
\* The search returns a shortest path that keeps every constraint on its
\* way, and gives up only when there is none within the time limit.
ReturnsShortest ==
    done =>
        LET S == ShortestPaths(V, E, start, goal)
        IN  IF S = {} THEN path = None ELSE path \in S

\* The keys that leave the heap never fall: the estimate is consistent, so
\* the first entry for the goal is the earliest.
KeysNeverFall ==
    [][\A e \in open \ open' : \A o \in open' : e[1] <= o[1]]_vars
==============================================================================

--------------------------------- MODULE Cbs ---------------------------------
(***************************************************************************)
(* The high level of the swarm planner: Cbs::plan() of                     *)
(* uav_swarm_coordinator/swarm_algorithms/src/conflict_solver/cbs.rs.  It  *)
(* searches a tree of constraint sets, best total path length first, and   *)
(* splits the first conflict it finds among a node's paths.                *)
(*                                                                         *)
(* The low level may return any shortest path (AStar!ReturnsShortest), so  *)
(* nothing here rests on how its heap breaks ties.  A constraint on an     *)
(* agent is <<agent, cell, time>> or <<agent, from, to, time>>.            *)
(***************************************************************************)
EXTENDS SwarmGrid, FiniteSetsExt, Functions

CONSTANTS Agent,       \* the ids, numbers
          Instances,   \* [start, goal] of each agent, the problems tried
          MaxNodes     \* max_nodes

ASSUME CbsAssumption ==
    /\ Agent \subseteq Nat /\ IsFiniteSet(Agent) /\ MaxNodes \in Nat
    /\ Instances \subseteq [Agent -> [start : Cell, goal : Cell]]

VARIABLES problem,         \* the agents' starts and goals
          opened, counter, \* the heap with its nodes; ids given so far
          node, todo,      \* the node being split, the constraints left to try
          result           \* "running", "ok", "timeout" or "no path"

vars == <<problem, opened, counter, node, todo, result>>

Nothing == [id |-> -1]

Total(paths) == SumFunction([a \in DOMAIN paths |-> Len(paths[a])])

\* astar_single() for agent a under the constraints V and E of a node.
Search(a, V, E) ==
    ShortestPaths({<<v[2], v[3]>> : v \in {w \in V : w[1] = a}},
                  {<<e[2], e[3], e[4]>> : e \in {w \in E : w[1] = a}},
                  problem[a].start, problem[a].goal)

Init ==
    /\ problem \in Instances
    /\ opened = {} /\ counter = 0 /\ node = Nothing /\ todo = <<>>
    /\ result = "running"

------------------------------------------------------------------------------
(* Conflicts. *)

\* pos_at(): an agent stays where its path ends.
At(path, t) == IF t < Len(path) THEN path[t + 1] ELSE path[Len(path)]

Horizon(paths) == Max({Len(paths[a]) : a \in Agent})
Meet(paths, a, b, t) == At(paths[a], t) = At(paths[b], t)
Swap(paths, a, b, t) == At(paths[a], t) = At(paths[b], t + 1)
                        /\ At(paths[a], t + 1) = At(paths[b], t)

\* Mutation: two agents that change places are not noticed.
ConflictsMeet(paths) ==
    {c \in (0 .. Horizon(paths) - 1) \X Agent \X Agent :
        c[2] < c[3] /\ Meet(paths, c[2], c[3], c[1])}
Conflicts(paths) ==
    {c \in (0 .. Horizon(paths) - 1) \X Agent \X Agent :
        /\ c[2] < c[3]
        /\ \/ Meet(paths, c[2], c[3], c[1])
           \/ c[1] + 1 < Horizon(paths) /\ Swap(paths, c[2], c[3], c[1])}

Earlier(c, d) == \/ c[1] < d[1]
                 \/ c[1] = d[1] /\ (c[2] < d[2] \/ (c[2] = d[2] /\ c[3] < d[3]))
first_conflict(paths) ==
    LET C == Conflicts(paths) IN CHOOSE c \in C : \A d \in C \ {c} : Earlier(c, d)

\* expand(): for each of the two agents the constraint that rules the
\* conflict out.
\* Mutation: both constraints of a swap are those of the first agent.
expandOneSide(paths) ==
    LET c == first_conflict(paths)
        here(a) == At(paths[a], c[1])
        next(a) == At(paths[a], c[1] + 1)
        vertex(a) == [kind |-> "vertex", c |-> <<a, here(a), c[1]>>]
        edge(a) == [kind |-> "edge", c |-> <<a, here(a), next(a), c[1]>>]
    IN  IF Meet(paths, c[2], c[3], c[1])
        THEN <<vertex(c[2]), vertex(c[2])>> ELSE <<edge(c[2]), edge(c[2])>>

expand(paths) ==
    LET c == first_conflict(paths)
        here(a) == At(paths[a], c[1])
        next(a) == At(paths[a], c[1] + 1)
        vertex(a) == [kind |-> "vertex", c |-> <<a, here(a), c[1]>>]
        edge(a) == [kind |-> "edge", c |-> <<a, here(a), next(a), c[1]>>]
    IN  IF Meet(paths, c[2], c[3], c[1])
        THEN <<vertex(c[2]), vertex(c[3])>> ELSE <<edge(c[2]), edge(c[3])>>

------------------------------------------------------------------------------
(* plan(). *)

Root ==
    /\ result = "running" /\ counter = 0
    /\ LET S == {{<<a, p>> : p \in Search(a, {}, {})} : a \in Agent}
       IN  \/ /\ {} \in S
              /\ result' = "no path"
              /\ UNCHANGED <<opened, counter>>
           \/ /\ \E paths \in [Agent -> {x[2] : x \in UNION S}] :
                    /\ \A a \in Agent : <<a, paths[a]>> \in UNION S
                    /\ opened' = {[v |-> {}, e |-> {}, paths |-> paths,
                                   cost |-> Total(paths), id |-> 0]}
              /\ counter' = 1
              /\ UNCHANGED result
    /\ UNCHANGED <<problem, node, todo>>

Pop ==
    /\ result = "running" /\ node = Nothing
    /\ \E n \in opened :
        /\ \A m \in opened \ {n} : n.cost < m.cost \/ (n.cost = m.cost /\ n.id < m.id)
        /\ opened' = opened \ {n}
        /\ IF Conflicts(n.paths) = {}
           THEN result' = "ok" /\ node' = n /\ UNCHANGED todo
           ELSE node' = n /\ todo' = expand(n.paths) /\ UNCHANGED result
    /\ UNCHANGED <<problem, counter>>

\* One constraint of the split: the node's paths with that agent's replaced.
Child(k, paths) ==
    [v |-> IF k.kind = "vertex" THEN node.v \cup {k.c} ELSE node.v,
     e |-> IF k.kind = "edge" THEN node.e \cup {k.c} ELSE node.e,
     paths |-> paths, cost |-> Total(paths), id |-> counter]

\* Mutation: a node is done with when its first child is.
AdvanceOnce == todo' = <<>> /\ node' = Nothing
Advance == /\ todo' = Tail(todo)
           /\ node' = IF Len(todo) = 1 THEN Nothing ELSE node

Branch ==
    /\ result = "running" /\ todo # <<>>
    /\ LET k == Head(todo)
           a == k.c[1]
           V == Child(k, node.paths).v
           E == Child(k, node.paths).e
       IN  \/ /\ Search(a, V, E) = {}
              /\ Advance
              /\ UNCHANGED <<opened, counter, result>>
           \/ \E p \in Search(a, V, E) :
                /\ counter' = counter + 1
                /\ IF counter + 1 > MaxNodes
                   THEN result' = "timeout" /\ UNCHANGED <<opened, node, todo>>
                   ELSE /\ opened' = opened \cup {Child(k, [node.paths EXCEPT ![a] = p])}
                        /\ Advance
                        /\ UNCHANGED result
    /\ UNCHANGED problem

Exhausted ==
    /\ result = "running" /\ node = Nothing /\ counter > 0 /\ opened = {}
    /\ result' = "no path"
    /\ UNCHANGED <<problem, opened, counter, node, todo>>

Returned == result # "running" /\ UNCHANGED vars

Next == Root \/ Pop \/ Branch \/ Exhausted \/ Returned

Spec == Init /\ [][Next]_vars

------------------------------------------------------------------------------
(* What the planner promises. *)

\* The ways an agent can go, waits and detours included, that reach its goal
\* within the time limit.
Ways(start, goal) ==
    LET R == Reachable({}, {}, start)
    IN  UNION {Walks({}, {}, R, goal, t) : t \in {r[1] : r \in {r \in R : r[2] = goal}}}

\* Two paths on which nobody collides at any time, the times after an agent has
\* arrived included, and nobody moves through the other.
Apart(p, q) ==
    \A t \in 0 .. MaxTime :
        /\ At(p, t) # At(q, t)
        /\ ~(At(p, t) = At(q, t + 1) /\ At(p, t + 1) = At(q, t))

\* All plans for a problem.
Plans ==
    [i \in Instances |->
        {P \in [Agent -> UNION {Ways(i[a].start, i[a].goal) : a \in Agent}] :
            /\ \A a \in Agent : P[a][1] = i[a].start /\ P[a][Len(P[a])] = i[a].goal
            /\ \A a, b \in Agent : a # b => Apart(P[a], P[b])}]
Cheapest == [i \in Instances |-> Min({Total(P) : P \in Plans[i]})]

\* An answer is a plan, and none is cheaper; "no path" means there is no plan.
AnswerIsOptimal ==
    /\ result = "ok" => node.paths \in Plans[problem] /\ node.cost = Cheapest[problem]
    /\ result = "no path" => Plans[problem] = {}

\* The split of a conflict loses no plan: as long as the search runs, some node
\* that is open, or still has children to come, costs no more than the cheapest
\* plan.  A search that is stopped at any moment has a lower bound.
NoPlanIsLost ==
    result = "running" /\ counter > 0 /\ Plans[problem] # {} =>
        \/ \E n \in opened : n.cost <= Cheapest[problem]
        \/ node # Nothing /\ todo # <<>> /\ node.cost <= Cheapest[problem]
==============================================================================

----------------------------- MODULE Cbs_proofs -----------------------------
(***************************************************************************)
(* Conflict-based search is right for every grid, every set of agents and  *)
(* every limit on its nodes: a plan that plan() of cbs.rs returns keeps    *)
(* the agents apart at all times and costs no more than any other, and it  *)
(* answers that there is no path only when there is no plan.               *)
(*                                                                         *)
(* The argument follows one plan through the tree.  Whatever conflict a    *)
(* node has, the plan is free of it, so the plan keeps at least one of the *)
(* two constraints of the split (SplitLosesNothing): some open node, or    *)
(* some child still to be made, always has only constraints that the plan  *)
(* keeps (Kept).  The paths of that node are the shortest under their      *)
(* constraints (ShortestPathsAre), so it costs no more than the plan       *)
(* (NodeIsBound), and the node taken off the heap costs no more than it.   *)
(***************************************************************************)
EXTENDS Cbs, SwarmGrid_proofs

------------------------------------------------------------------------------
(* What paths and their totals are. *)

\* Paths that are no longer, agent by agent, are no longer altogether.
LEMMA TotalMonotone ==
    ASSUME NEW p, NEW q, IsFiniteSet(DOMAIN p), DOMAIN q = DOMAIN p,
           \A x \in DOMAIN p : Len(p[x]) \in Nat /\ Len(q[x]) \in Nat /\ Len(p[x]) <= Len(q[x])
    PROVE  Total(p) \in Nat /\ Total(q) \in Nat /\ Total(p) <= Total(q)
<1>1. PICK F : F = [x \in DOMAIN p |-> Len(p[x])]
  OBVIOUS
<1>2. PICK G : G = [x \in DOMAIN q |-> Len(q[x])]
  OBVIOUS
<1>3. /\ DOMAIN F = DOMAIN p /\ DOMAIN G = DOMAIN p
      /\ \A x \in DOMAIN p : F[x] \in Nat /\ G[x] \in Nat /\ F[x] <= G[x]
  BY <1>1, <1>2
<1>4. Summable(F) /\ Summable(G)
  BY <1>3 DEF Summable
<1>5. SumFunction(F) \in Nat /\ SumFunction(G) \in Nat
  BY <1>3, <1>4, SumOfNaturals
<1>6. SumFunction(F) <= SumFunction(G)
  BY <1>3, <1>4, SumMonotone
<1>7. Total(p) = SumFunction(F) /\ Total(q) = SumFunction(G)
  BY <1>1, <1>2 DEF Total
<1> QED BY <1>5, <1>6, <1>7

\* The ways an agent can go are its unconstrained paths.
LEMMA WaysAre ==
    ASSUME NEW s \in Cell, NEW g \in Cell
    PROVE  \A w : w \in Ways(s, g) <=> \E n \in 0 .. MaxTime : IsPath({}, {}, s, g, n, w)
<1> DEFINE R == Reachable({}, {}, s)
           arrivals == {r[1] : r \in {r \in R : r[2] = g}}
           W(t) == Walks({}, {}, R, g, t)
<1>1. Ways(s, g) = UNION {W(t) : t \in arrivals}
  BY DEF Ways
<1>2. R = {r \in (0 .. MaxTime) \X Cell : r[2] \in There({}, {}, s, r[1])}
  BY ReachableAre
<1>3. \A n : n \in arrivals <=> n \in 0 .. MaxTime /\ g \in There({}, {}, s, n)
  <2>1. ASSUME NEW n \in arrivals PROVE n \in 0 .. MaxTime /\ g \in There({}, {}, s, n)
    BY <1>2
  <2>2. ASSUME NEW n \in 0 .. MaxTime, g \in There({}, {}, s, n) PROVE n \in arrivals
    <3>1. <<n, g>> \in R
      BY <1>2, <2>2
    <3> HIDE DEF R
    <3> QED BY <3>1
  <2> HIDE DEF arrivals
  <2> QED BY <2>1, <2>2
<1>4. ASSUME NEW t \in arrivals, NEW w PROVE w \in W(t) <=> IsPath({}, {}, s, g, t, w)
  <2> HIDE DEF arrivals
  <2> QED BY <1>3, WalksArePaths
<1>5. ASSUME NEW n \in 0 .. MaxTime, NEW w, IsPath({}, {}, s, g, n, w) PROVE n \in arrivals
  <2>1. n \in Nat /\ n + 1 \in 1 .. n + 1 /\ (n + 1) - 1 = n
    BY GridAssumption
  <2>2. w[n + 1] \in There({}, {}, s, (n + 1) - 1)
    BY <1>5, <2>1, PathPassesThere
  <2> HIDE DEF arrivals
  <2> QED BY <1>3, <1>5, <2>1, <2>2 DEF IsPath
<1> HIDE DEF W, arrivals
<1> QED BY <1>1, <1>3, <1>4, <1>5

\* A path's length is a number of moves and one.
LEMMA PathLength ==
    ASSUME NEW V, NEW E, NEW s, NEW g, NEW n \in Nat, NEW w, IsPath(V, E, s, g, n, w)
    PROVE  w \in Seq(Cell) /\ Len(w) = n + 1 /\ w[1] = s /\ w[Len(w)] = g
BY DEF IsPath, Walk

\* A path that keeps some constraints keeps more of them when the moves do.
LEMMA PathKeeps ==
    ASSUME NEW V, NEW E, NEW W, NEW F, NEW s, NEW g, NEW n \in Nat, NEW w,
           IsPath(V, E, s, g, n, w),
           \A i \in 1 .. n : <<w[i + 1], i>> \notin W \/ <<w[i + 1], i>> \in V,
           \A i \in 1 .. n : <<w[i], w[i + 1], i - 1>> \notin F \/ <<w[i], w[i + 1], i - 1>> \in E
    PROVE  IsPath(W, F, s, g, n, w)
<1>1. \A i \in 1 .. n : Allowed(V, E, w[i], 0 + i - 1, w[i + 1])
  BY DEF IsPath, Walk
<1>2. ASSUME NEW i \in 1 .. n PROVE Allowed(W, F, w[i], 0 + i - 1, w[i + 1])
  <2>1. 0 + i - 1 = i - 1 /\ (0 + i - 1) + 1 = i
    OBVIOUS
  <2> QED BY <1>1, <2>1 DEF Allowed
<1> QED BY <1>2 DEF IsPath, Walk

------------------------------------------------------------------------------
\* Search's constraints for one agent.
VOf(a, v) == {<<x[2], x[3]>> : x \in {y \in v : y[1] = a}}
EOf(a, e) == {<<x[2], x[3], x[4]>> : x \in {y \in e : y[1] = a}}
Best(i, a, v, e) == ShortestPaths(VOf(a, v), EOf(a, e), i[a].start, i[a].goal)

LEMMA SearchIs == ASSUME NEW a, NEW v, NEW e PROVE Search(a, v, e) = Best(problem, a, v, e)
BY DEF Search, Best, VOf, EOf

\* A constraint added to a node is added for its agent and no other.
LEMMA OneMoreV ==
    ASSUME NEW a, NEW v, NEW c, NEW x \in VOf(a, v \cup {c})
    PROVE  x \in VOf(a, v) \/ (c[1] = a /\ x = <<c[2], c[3]>>)
BY DEF VOf

LEMMA OneMoreE ==
    ASSUME NEW a, NEW e, NEW c, NEW x \in EOf(a, e \cup {c})
    PROVE  x \in EOf(a, e) \/ (c[1] = a /\ x = <<c[2], c[3], c[4]>>)
BY DEF EOf

\* The plan P keeps every agent to its constraints.
Obeys(i, P, v, e) ==
    \A a \in Agent : IsPath(VOf(a, v), EOf(a, e), i[a].start, i[a].goal, Len(P[a]) - 1, P[a])

\* A plan moves every agent along a path, and keeps them apart.
LEMMA PlansAre ==
    ASSUME NEW i \in Instances, NEW P
    PROVE  P \in Plans[i] <=>
               /\ P = [a \in Agent |-> P[a]]
               /\ \A a \in Agent : /\ Len(P[a]) - 1 \in 0 .. MaxTime
                                   /\ IsPath({}, {}, i[a].start, i[a].goal, Len(P[a]) - 1, P[a])
               /\ \A a, b \in Agent : a # b => Apart(P[a], P[b])
<1> DEFINE W(a) == Ways(i[a].start, i[a].goal)
           U == UNION {W(a) : a \in Agent}
<1>0. \A a \in Agent : i[a].start \in Cell /\ i[a].goal \in Cell
  BY CbsAssumption
<1>1. P \in Plans[i] <=> /\ P \in [Agent -> U]
                         /\ \A a \in Agent : P[a][1] = i[a].start /\ P[a][Len(P[a])] = i[a].goal
                         /\ \A a, b \in Agent : a # b => Apart(P[a], P[b])
  BY DEF Plans
<1> HIDE DEF U
<1>2. ASSUME P \in [Agent -> U], NEW a \in Agent,
             P[a][1] = i[a].start, P[a][Len(P[a])] = i[a].goal
      PROVE  /\ Len(P[a]) - 1 \in 0 .. MaxTime
             /\ IsPath({}, {}, i[a].start, i[a].goal, Len(P[a]) - 1, P[a])
  <2>1. PICK b \in Agent : P[a] \in W(b)
    BY <1>2 DEF U
  <2>2. PICK n \in 0 .. MaxTime : IsPath({}, {}, i[b].start, i[b].goal, n, P[a])
    BY <1>0, <2>1, WaysAre
  <2>3. n \in Nat /\ Len(P[a]) = n + 1 /\ Len(P[a]) - 1 = n
    BY <2>2, PathLength, GridAssumption
  <2> QED BY <1>2, <2>2, <2>3 DEF IsPath
<1>3. ASSUME NEW a \in Agent, Len(P[a]) - 1 \in 0 .. MaxTime,
             IsPath({}, {}, i[a].start, i[a].goal, Len(P[a]) - 1, P[a])
      PROVE  /\ P[a] \in U
             /\ P[a][1] = i[a].start /\ P[a][Len(P[a])] = i[a].goal
  <2>1. P[a] \in W(a)
    BY <1>0, <1>3, WaysAre
  <2>2. Len(P[a]) - 1 \in Nat
    BY <1>3, GridAssumption
  <2> QED BY <1>3, <2>1, <2>2, PathLength DEF U
<1> QED BY <1>1, <1>2, <1>3

\* A bounded set of naturals has a greatest element.
LEMMA GreatestNumber ==
    ASSUME NEW T, T \subseteq Nat, T # {}, NEW N \in Nat, \A x \in T : x <= N
    PROVE  Max(T) \in T /\ \A y \in T : y <= Max(T)
<1> DEFINE D == {N - x : x \in T}
<1>1. D \subseteq Nat /\ D # {}
  <2>1. ASSUME NEW x \in T PROVE N - x \in Nat
    <3>1. x \in Nat /\ x <= N
      OBVIOUS
    <3> QED BY <3>1
  <2> QED BY <2>1
<1>2. PICK d \in D : \A e \in D : d <= e
  <2> HIDE DEF D
  <2> QED BY <1>1, LeastNumber
<1>3. PICK m \in T : d = N - m
  OBVIOUS
<1>4. ASSUME NEW y \in T PROVE m >= y
  <2>1. N - m <= N - y
    BY <1>2, <1>3
  <2>2. m \in Nat /\ y \in Nat
    OBVIOUS
  <2> QED BY <2>1, <2>2
<1>5. \E m2 \in T : \A y \in T : m2 >= y
  BY <1>4
<1>6. Max(T) \in T /\ \A y \in T : Max(T) >= y
  BY <1>5 DEF Max
<1>7. \A y \in T : Max(T) \in Nat /\ y \in Nat
  BY <1>6
<1> QED BY <1>6, <1>7

\* The conflicts are ordered, by time and then by the agents: one is first.
LEMMA FirstExists ==
    ASSUME NEW C, C \subseteq Nat \X Nat \X Nat, C # {}
    PROVE  \E c \in C : \A d \in C \ {c} : Earlier(c, d)
<1>1. PICK t \in {c[1] : c \in C} : \A u \in {c[1] : c \in C} : t <= u
  <2> DEFINE T == {c[1] : c \in C}
  <2>1. T \subseteq Nat /\ T # {}
    OBVIOUS
  <2> HIDE DEF T
  <2>2. \E n \in T : \A m \in T : n <= m
    BY <2>1, LeastNumber
  <2> QED BY <2>2 DEF T
<1> DEFINE C1 == {c \in C : c[1] = t}
<1>2. C1 \subseteq Nat \X Nat \X Nat /\ C1 # {}
  OBVIOUS
<1>3. PICK x \in {c[2] : c \in C1} : \A u \in {c[2] : c \in C1} : x <= u
  <2> DEFINE T == {c[2] : c \in C1}
  <2>1. T \subseteq Nat /\ T # {}
    BY <1>2
  <2> HIDE DEF T
  <2>2. \E n \in T : \A m \in T : n <= m
    BY <2>1, LeastNumber
  <2> QED BY <2>2 DEF T
<1> DEFINE C2 == {c \in C1 : c[2] = x}
<1>4. C2 \subseteq Nat \X Nat \X Nat /\ C2 # {}
  BY <1>2
<1>5. PICK y \in {c[3] : c \in C2} : \A u \in {c[3] : c \in C2} : y <= u
  <2> DEFINE T == {c[3] : c \in C2}
  <2>1. T \subseteq Nat /\ T # {}
    BY <1>4
  <2> HIDE DEF T
  <2>2. \E n \in T : \A m \in T : n <= m
    BY <2>1, LeastNumber
  <2> QED BY <2>2 DEF T
<1>6. PICK c \in C2 : c[3] = y
  OBVIOUS
<1>7. c \in C /\ c[1] = t /\ c[2] = x /\ c[3] = y /\ c \in Nat \X Nat \X Nat
  BY <1>4, <1>6
<1>8. ASSUME NEW d \in C \ {c} PROVE Earlier(c, d)
  <2>1. d \in Nat \X Nat \X Nat /\ c # d
    OBVIOUS
  <2>2. t <= d[1]
    BY <1>1
  <2>3. d[1] = t => x <= d[2]
    BY <1>3
  <2>4. d[1] = t /\ d[2] = x => y <= d[3]
    BY <1>5
  <2>5. ~(d[1] = c[1] /\ d[2] = c[2] /\ d[3] = c[3])
    BY <1>7, <2>1
  <2> HIDE DEF C1, C2
  <2> QED BY <1>7, <2>1, <2>2, <2>3, <2>4, <2>5 DEF Earlier
<1> QED BY <1>7, <1>8

\* first_conflict finds one of the conflicts.
LEMMA FirstConflict ==
    ASSUME NEW p, Horizon(p) \in Nat, Conflicts(p) # {}
    PROVE  first_conflict(p) \in Conflicts(p)
<1>1. Conflicts(p) \subseteq Nat \X Nat \X Nat
  <2>1. 0 .. Horizon(p) - 1 \subseteq Nat /\ Agent \subseteq Nat
    BY CbsAssumption
  <2>2. Conflicts(p) \subseteq (0 .. Horizon(p) - 1) \X Agent \X Agent
    BY DEF Conflicts
  <2>3. ASSUME NEW T, T \subseteq Nat
        PROVE  T \X Agent \X Agent \subseteq Nat \X Nat \X Nat
    BY <2>1, <2>3
  <2> QED BY <2>1, <2>2, <2>3
<1>2. \E c \in Conflicts(p) : \A d \in Conflicts(p) \ {c} : Earlier(c, d)
  BY <1>1, FirstExists
<1> QED BY <1>2 DEF first_conflict

------------------------------------------------------------------------------
\* Every agent moves along a path to its goal.
OnPaths(i, p) ==
    \A a \in Agent : /\ Len(p[a]) - 1 \in 0 .. MaxTime
                     /\ IsPath({}, {}, i[a].start, i[a].goal, Len(p[a]) - 1, p[a])

\* An agent's path never leaves the grid, and after its end the agent stays.
LEMMA PathAt ==
    ASSUME NEW i, NEW p, OnPaths(i, p), NEW a \in Agent
    PROVE  /\ Len(p[a]) \in 1 .. MaxTime + 1
           /\ \A t \in Nat : /\ At(p[a], t) \in Cell
                             /\ t >= Len(p[a]) - 1 => At(p[a], t) = p[a][Len(p[a])]
<1>1. Len(p[a]) - 1 \in 0 .. MaxTime
  BY DEF OnPaths
<1>2. p[a] \in Seq(Cell)
  <2>1. Len(p[a]) - 1 \in Nat
    BY <1>1, GridAssumption
  <2> QED BY <2>1, PathLength DEF OnPaths
<1>3. Len(p[a]) \in 1 .. MaxTime + 1
  <2>1. Len(p[a]) \in Nat
    BY <1>2
  <2> QED BY <1>1, <2>1, GridAssumption
<1>4. \A j \in 1 .. Len(p[a]) : p[a][j] \in Cell
  BY <1>2
<1>5. ASSUME NEW t \in Nat PROVE At(p[a], t) \in Cell
  <2>1. Len(p[a]) \in Nat /\ Len(p[a]) \in 1 .. Len(p[a])
    BY <1>3, GridAssumption
  <2>2. t < Len(p[a]) => t + 1 \in 1 .. Len(p[a])
    BY <2>1
  <2> QED BY <1>4, <2>1, <2>2 DEF At
<1> QED BY <1>3, <1>5, GridAssumption DEF At

\* Every path has ended by the horizon.
LEMMA HorizonIs ==
    ASSUME NEW i, NEW p, OnPaths(i, p), NEW b \in Agent
    PROVE  Horizon(p) \in 1 .. MaxTime + 1 /\ \A a \in Agent : Len(p[a]) <= Horizon(p)
<1> DEFINE T == {Len(p[a]) : a \in Agent}
<1>1. T \subseteq 1 .. MaxTime + 1 /\ T # {}
  BY PathAt
<1>2. T \subseteq Nat /\ \A x \in T : x <= MaxTime + 1
  BY <1>1
<1>3. Max(T) \in T /\ \A y \in T : y <= Max(T)
  <2>1. MaxTime + 1 \in Nat
    BY GridAssumption
  <2> HIDE DEF T
  <2> QED BY <1>1, <1>2, <2>1, GreatestNumber
<1> QED BY <1>1, <1>3 DEF Horizon

\* Where no conflict is found there is none at any time: after the last agent
\* has arrived they all stand still.
LEMMA NoConflictsApart ==
    ASSUME NEW i, NEW p, OnPaths(i, p), Conflicts(p) = {}
    PROVE  \A a, b \in Agent : a # b => Apart(p[a], p[b])
<1>1. ASSUME NEW a \in Agent, NEW b \in Agent, a < b, NEW t \in 0 .. MaxTime
      PROVE  ~Meet(p, a, b, t) /\ ~Swap(p, a, b, t)
  <2> DEFINE H == Horizon(p)
  <2>1. H \in 1 .. MaxTime + 1 /\ Len(p[a]) <= H /\ Len(p[b]) <= H
    BY HorizonIs
  <2>2. Len(p[a]) \in 1 .. MaxTime + 1 /\ Len(p[b]) \in 1 .. MaxTime + 1
    BY PathAt
  <2>3. ASSUME NEW u \in 0 .. H - 1
        PROVE  ~Meet(p, a, b, u) /\ (u + 1 < H => ~Swap(p, a, b, u))
    <3>1. <<u, a, b>> \in (0 .. H - 1) \X Agent \X Agent
      OBVIOUS
    <3>2. <<u, a, b>>[1] = u /\ <<u, a, b>>[2] = a /\ <<u, a, b>>[3] = b
      OBVIOUS
    <3>3. <<u, a, b>> \notin Conflicts(p)
      OBVIOUS
    <3> HIDE DEF H
    <3> QED BY <1>1, <3>1, <3>2, <3>3 DEF Conflicts, H
  <2> HIDE DEF H
  <2>4. \A u \in Nat : u >= H - 1 => At(p[a], u) = At(p[a], H - 1) /\ At(p[b], u) = At(p[b], H - 1)
    <3>1. H - 1 \in Nat /\ H - 1 >= Len(p[a]) - 1 /\ H - 1 >= Len(p[b]) - 1
      BY <2>1, <2>2, GridAssumption
    <3>2. \A u \in Nat : u >= H - 1 => u >= Len(p[a]) - 1 /\ u >= Len(p[b]) - 1
      BY <2>1, <2>2, <3>1, GridAssumption
    <3> QED BY <3>1, <3>2, PathAt
  <2>5. CASE t < H - 1
    <3>1. t \in 0 .. H - 1 /\ t + 1 < H
      BY <2>1, <2>5, GridAssumption
    <3> QED BY <2>3, <3>1
  <2>6. CASE t >= H - 1
    <3>1. H - 1 \in 0 .. H - 1 /\ t \in Nat /\ t + 1 \in Nat /\ t + 1 >= H - 1
      BY <2>1, <2>6, GridAssumption
    <3>2. ~Meet(p, a, b, H - 1)
      BY <2>3, <3>1
    <3>3. At(p[a], t) = At(p[a], H - 1) /\ At(p[b], t + 1) = At(p[b], H - 1) /\ At(p[b], t) = At(p[b], H - 1)
      BY <2>4, <2>6, <3>1
    <3> QED BY <3>2, <3>3 DEF Meet, Swap
  <2>7. t < H - 1 \/ t >= H - 1
    BY <2>1, GridAssumption
  <2> QED BY <2>5, <2>6, <2>7
<1>2. ASSUME NEW a \in Agent, NEW b \in Agent, a # b PROVE Apart(p[a], p[b])
  <2>1. CASE a < b
    BY <1>1, <2>1 DEF Apart, Meet, Swap
  <2>2. CASE b < a
    BY <1>1, <2>2 DEF Apart, Meet, Swap
  <2>3. a < b \/ b < a
    BY <1>2, CbsAssumption
  <2> QED BY <2>1, <2>2, <2>3
<1> QED BY <1>2

\* A node's constraints with that of the split added.
WithV(n, k) == IF k.kind = "vertex" THEN n.v \cup {k.c} ELSE n.v
WithE(n, k) == IF k.kind = "edge" THEN n.e \cup {k.c} ELSE n.e

\* A plan that keeps an agent off a cell at a time keeps the vertex constraint,
LEMMA KeepsVertex ==
    ASSUME NEW i \in Instances, NEW P \in Plans[i], NEW v, NEW e, Obeys(i, P, v, e),
           NEW b \in Agent, NEW x, NEW t \in Nat, At(P[b], t) # x
    PROVE  Obeys(i, P, v \cup {<<b, x, t>>}, e)
<1> DEFINE c == <<b, x, t>>
           n(a) == Len(P[a]) - 1
<1>1. ASSUME NEW a \in Agent
      PROVE  IsPath(VOf(a, v \cup {c}), EOf(a, e), i[a].start, i[a].goal, n(a), P[a])
  <2>1. n(a) \in Nat /\ IsPath(VOf(a, v), EOf(a, e), i[a].start, i[a].goal, n(a), P[a])
    BY PlansAre, GridAssumption DEF Obeys
  <2>2. ASSUME NEW j \in 1 .. n(a), <<P[a][j + 1], j>> \in VOf(a, v \cup {c})
        PROVE  <<P[a][j + 1], j>> \in VOf(a, v)
    <3>1. CASE c[1] = a /\ <<P[a][j + 1], j>> = <<c[2], c[3]>>
      <4>1. b = a /\ j = t /\ P[a][j + 1] = x
        BY <3>1
      <4>2. At(P[a], j) = P[a][j + 1]
        BY <2>1 DEF At
      <4> QED BY <4>1, <4>2
    <3> QED BY <2>2, <3>1, OneMoreV
  <2> HIDE DEF n, c
  <2> QED BY <2>1, <2>2, PathKeeps
<1> QED BY <1>1 DEF Obeys

\* and one that keeps an agent from a move at a time the edge constraint.
LEMMA KeepsEdge ==
    ASSUME NEW i \in Instances, NEW P \in Plans[i], NEW v, NEW e, Obeys(i, P, v, e),
           NEW b \in Agent, NEW x, NEW y, NEW t \in Nat,
           ~(At(P[b], t) = x /\ At(P[b], t + 1) = y)
    PROVE  Obeys(i, P, v, e \cup {<<b, x, y, t>>})
<1> DEFINE c == <<b, x, y, t>>
           n(a) == Len(P[a]) - 1
<1>1. ASSUME NEW a \in Agent
      PROVE  IsPath(VOf(a, v), EOf(a, e \cup {c}), i[a].start, i[a].goal, n(a), P[a])
  <2>1. n(a) \in Nat /\ IsPath(VOf(a, v), EOf(a, e), i[a].start, i[a].goal, n(a), P[a])
    BY PlansAre, GridAssumption DEF Obeys
  <2>2. ASSUME NEW j \in 1 .. n(a), <<P[a][j], P[a][j + 1], j - 1>> \in EOf(a, e \cup {c})
        PROVE  <<P[a][j], P[a][j + 1], j - 1>> \in EOf(a, e)
    <3>1. CASE c[1] = a /\ <<P[a][j], P[a][j + 1], j - 1>> = <<c[2], c[3], c[4]>>
      <4>1. b = a /\ j - 1 = t /\ P[a][j] = x /\ P[a][j + 1] = y
        BY <3>1
      <4>2. At(P[a], j - 1) = P[a][j] /\ At(P[a], t + 1) = P[a][j + 1]
        BY <2>1, <4>1 DEF At
      <4> QED BY <4>1, <4>2
    <3> QED BY <2>2, <3>1, OneMoreE
  <2> HIDE DEF n, c
  <2> QED BY <2>1, <2>2, PathKeeps
<1> QED BY <1>1 DEF Obeys

\* The constraints a split gives.
Split == [kind : {"vertex"}, c : Agent \X Cell \X (0 .. MaxTime)]
         \cup [kind : {"edge"}, c : Agent \X Cell \X Cell \X (0 .. MaxTime)]

\* No plan runs into both agents' constraints.
LEMMA SplitLosesNothing ==
    ASSUME NEW i \in Instances, NEW n, OnPaths(i, n.paths), Conflicts(n.paths) # {}
    PROVE  LET X == expand(n.paths)
           IN  /\ X # <<>> /\ X \in Seq(Split)
               /\ \A P \in Plans[i] : Obeys(i, P, n.v, n.e) =>
                     \E j \in DOMAIN X : Obeys(i, P, WithV(n, X[j]), WithE(n, X[j]))
<1> DEFINE p == n.paths
           c == first_conflict(p)
           X == expand(p)
           a == c[2]
           b == c[3]
           t == c[1]
           vertex(x) == [kind |-> "vertex", c |-> <<x, At(p[x], t), t>>]
           edge(x) == [kind |-> "edge", c |-> <<x, At(p[x], t), At(p[x], t + 1), t>>]
<1>1. c \in Conflicts(p)
  <2>1. PICK d \in Conflicts(p) : TRUE
    OBVIOUS
  <2>2. d[2] \in Agent
    BY DEF Conflicts
  <2>3. Horizon(p) \in Nat
    BY <2>2, HorizonIs, GridAssumption
  <2> QED BY <2>3, FirstConflict
<1>2. a \in Agent /\ b \in Agent /\ a # b /\ t \in 0 .. MaxTime
      /\ (Meet(p, a, b, t) \/ Swap(p, a, b, t))
  <2>1. c \in (0 .. Horizon(p) - 1) \X Agent \X Agent /\ a < b
        /\ (Meet(p, a, b, t) \/ Swap(p, a, b, t))
    BY <1>1 DEF Conflicts
  <2>2. a \in Agent /\ b \in Agent /\ t \in 0 .. Horizon(p) - 1
    BY <2>1
  <2>3. Horizon(p) \in 1 .. MaxTime + 1
    BY <2>2, HorizonIs
  <2>4. t \in 0 .. MaxTime
    BY <2>2, <2>3, GridAssumption
  <2>5. a # b
    <3>1. \A x, y \in Agent : x < y => x # y
      BY CbsAssumption
    <3> HIDE DEF c
    <3> QED BY <2>1, <2>2, <3>1
  <2> QED BY <2>1, <2>2, <2>4, <2>5
<1>3. X = IF Meet(p, a, b, t) THEN <<vertex(a), vertex(b)>> ELSE <<edge(a), edge(b)>>
  BY DEF expand
<1> HIDE DEF c, X
<1>4. X # <<>> /\ X \in Seq(Split)
  <2>1. ASSUME NEW x \in {a, b} PROVE vertex(x) \in Split /\ edge(x) \in Split
    <3>1. x \in Agent /\ t \in Nat /\ t + 1 \in Nat
      BY <1>2, GridAssumption
    <3>2. At(p[x], t) \in Cell /\ At(p[x], t + 1) \in Cell
      BY <3>1, PathAt
    <3>3. <<x, At(p[x], t), t>> \in Agent \X Cell \X (0 .. MaxTime)
      BY <1>2, <3>1, <3>2
    <3>4. <<x, At(p[x], t), At(p[x], t + 1), t>> \in Agent \X Cell \X Cell \X (0 .. MaxTime)
      BY <1>2, <3>1, <3>2
    <3>5. vertex(x) \in [kind : {"vertex"}, c : Agent \X Cell \X (0 .. MaxTime)]
      BY <3>3
    <3>6. edge(x) \in [kind : {"edge"}, c : Agent \X Cell \X Cell \X (0 .. MaxTime)]
      BY <3>4
    <3> HIDE DEF vertex, edge
    <3> QED BY <3>5, <3>6 DEF Split
  <2> HIDE DEF vertex, edge
  <2> QED BY <1>3, <2>1
<1>5. ASSUME NEW P \in Plans[i], Obeys(i, P, n.v, n.e)
      PROVE  \E j \in DOMAIN X : Obeys(i, P, WithV(n, X[j]), WithE(n, X[j]))
  <2>1. Apart(P[a], P[b])
    BY <1>2, PlansAre
  <2>2. t \in Nat
    BY <1>2, GridAssumption
  <2>3. CASE Meet(p, a, b, t)
    <3>1. \E x \in {a, b} : At(P[x], t) # At(p[x], t)
      BY <1>2, <2>1, <2>3 DEF Apart, Meet
    <3>2. PICK x \in {a, b} : At(P[x], t) # At(p[x], t)
      BY <3>1
    <3>3. Obeys(i, P, n.v \cup {<<x, At(p[x], t), t>>}, n.e)
      BY <1>2, <1>5, <2>2, <3>2, KeepsVertex
    <3>4. WithV(n, vertex(x)) = n.v \cup {<<x, At(p[x], t), t>>} /\ WithE(n, vertex(x)) = n.e
      BY DEF WithV, WithE
    <3>5. Obeys(i, P, WithV(n, vertex(x)), WithE(n, vertex(x)))
      BY <3>3, <3>4
    <3>6. \E j \in DOMAIN X : X[j] = vertex(x)
      BY <1>3, <2>3
    <3> HIDE DEF vertex
    <3> QED BY <3>5, <3>6
  <2>4. CASE ~Meet(p, a, b, t)
    <3>1. \E x \in {a, b} : ~(At(P[x], t) = At(p[x], t) /\ At(P[x], t + 1) = At(p[x], t + 1))
      BY <1>2, <2>1, <2>4 DEF Apart, Swap
    <3>2. PICK x \in {a, b} : ~(At(P[x], t) = At(p[x], t) /\ At(P[x], t + 1) = At(p[x], t + 1))
      BY <3>1
    <3>3. Obeys(i, P, n.v, n.e \cup {<<x, At(p[x], t), At(p[x], t + 1), t>>})
      BY <1>2, <1>5, <2>2, <3>2, KeepsEdge
    <3>4. /\ WithV(n, edge(x)) = n.v
          /\ WithE(n, edge(x)) = n.e \cup {<<x, At(p[x], t), At(p[x], t + 1), t>>}
      BY DEF WithV, WithE
    <3>5. Obeys(i, P, WithV(n, edge(x)), WithE(n, edge(x)))
      BY <3>3, <3>4
    <3>6. \E j \in DOMAIN X : X[j] = edge(x)
      BY <1>3, <2>4
    <3> HIDE DEF edge
    <3> QED BY <3>5, <3>6
  <2> QED BY <2>3, <2>4
<1> QED BY <1>4, <1>5 DEF X

\* A node of the tree: shortest paths under its constraints, and their cost.
IsNode(i, n) ==
    /\ n.id \in Nat /\ n.cost = Total(n.paths)
    /\ n.paths = [a \in Agent |-> n.paths[a]]
    /\ \A a \in Agent : n.paths[a] \in Best(i, a, n.v, n.e)

\* What ShortestPathsAre says of the planner's own calls.
LEMMA BestAre ==
    ASSUME NEW i \in Instances, NEW a \in Agent, NEW v, NEW e, NEW w \in Best(i, a, v, e)
    PROVE  /\ Len(w) - 1 \in 0 .. MaxTime
           /\ IsPath({}, {}, i[a].start, i[a].goal, Len(w) - 1, w)
           /\ \A n \in 0 .. MaxTime : \A u :
                 IsPath(VOf(a, v), EOf(a, e), i[a].start, i[a].goal, n, u) => Len(w) - 1 <= n
<1>1. i[a].start \in Cell /\ i[a].goal \in Cell
  BY CbsAssumption
<1>2. PICK m \in 0 .. MaxTime :
          /\ IsPath(VOf(a, v), EOf(a, e), i[a].start, i[a].goal, m, w)
          /\ \A k \in 0 .. m - 1 : i[a].goal \notin There(VOf(a, v), EOf(a, e), i[a].start, k)
  BY <1>1, ShortestPathsAre DEF Best
<1>3. m \in Nat /\ Len(w) = m + 1 /\ Len(w) - 1 = m
  BY <1>2, PathLength, GridAssumption
<1>4. IsPath({}, {}, i[a].start, i[a].goal, m, w)
  BY <1>2, <1>3, PathKeeps
<1>5. ASSUME NEW n \in 0 .. MaxTime, NEW u,
             IsPath(VOf(a, v), EOf(a, e), i[a].start, i[a].goal, n, u)
      PROVE  m <= n
  <2>1. n \in Nat /\ n + 1 \in 1 .. n + 1 /\ (n + 1) - 1 = n
    BY GridAssumption
  <2>2. i[a].goal \in There(VOf(a, v), EOf(a, e), i[a].start, n)
    <3>1. u[n + 1] \in There(VOf(a, v), EOf(a, e), i[a].start, (n + 1) - 1)
      BY <1>5, <2>1, PathPassesThere
    <3> QED BY <1>5, <2>1, <3>1 DEF IsPath
  <2>3. n \notin 0 .. m - 1
    BY <1>2, <2>2
  <2> QED BY <1>3, <2>1, <2>3
<1> QED BY <1>2, <1>3, <1>4, <1>5

\* The low-level search finds a path when there is one.
LEMMA SomePath ==
    ASSUME NEW i \in Instances, NEW a \in Agent, NEW v, NEW e, NEW n \in 0 .. MaxTime, NEW w,
           IsPath(VOf(a, v), EOf(a, e), i[a].start, i[a].goal, n, w)
    PROVE  Best(i, a, v, e) # {}
<1>1. i[a].start \in Cell /\ i[a].goal \in Cell
  BY CbsAssumption
<1>2. n \in Nat /\ n + 1 \in 1 .. n + 1 /\ (n + 1) - 1 = n
  BY GridAssumption
<1>3. i[a].goal \in There(VOf(a, v), EOf(a, e), i[a].start, n)
  <2>1. w[n + 1] \in There(VOf(a, v), EOf(a, e), i[a].start, (n + 1) - 1)
    BY <1>2, PathPassesThere
  <2> QED BY <1>2, <2>1 DEF IsPath
<1> QED BY <1>1, <1>3, ShortestPathsAre DEF Best

\* A node's agents move along paths to their goals.
LEMMA NodeOnPaths ==
    ASSUME NEW i \in Instances, NEW n, IsNode(i, n)
    PROVE  OnPaths(i, n.paths)
BY BestAre DEF IsNode, OnPaths

\* The cost of a node bounds that of every plan that keeps its constraints.
LEMMA NodeIsBound ==
    ASSUME NEW i \in Instances, NEW n, IsNode(i, n), NEW P \in Plans[i], Obeys(i, P, n.v, n.e)
    PROVE  n.cost \in Nat /\ Total(P) \in Nat /\ n.cost <= Total(P)
<1>1. DOMAIN n.paths = Agent /\ DOMAIN P = Agent /\ IsFiniteSet(Agent)
  BY PlansAre, CbsAssumption DEF IsNode
<1>2. ASSUME NEW a \in Agent
      PROVE  Len(n.paths[a]) \in Nat /\ Len(P[a]) \in Nat /\ Len(n.paths[a]) <= Len(P[a])
  <2>1. OnPaths(i, n.paths) /\ OnPaths(i, P)
    BY NodeOnPaths, PlansAre DEF OnPaths
  <2>2. Len(n.paths[a]) \in 1 .. MaxTime + 1 /\ Len(P[a]) \in 1 .. MaxTime + 1
    BY <2>1, PathAt
  <2>3. Len(P[a]) - 1 \in 0 .. MaxTime
    BY <2>1 DEF OnPaths
  <2>4. Len(n.paths[a]) - 1 <= Len(P[a]) - 1
    BY <2>3, BestAre DEF IsNode, Obeys
  <2> QED BY <2>2, <2>4, GridAssumption
<1>3. Total(n.paths) \in Nat /\ Total(P) \in Nat /\ Total(n.paths) <= Total(P)
  BY <1>1, <1>2, TotalMonotone
<1> QED BY <1>3 DEF IsNode

\* The cost of a set of paths is a number.
LEMMA TotalType ==
    ASSUME NEW i \in Instances, NEW p, DOMAIN p = Agent, OnPaths(i, p)
    PROVE  Total(p) \in Nat
<1>1. \A a \in Agent : Len(p[a]) \in Nat /\ Len(p[a]) <= Len(p[a])
  BY PathAt, GridAssumption
<1> QED BY <1>1, TotalMonotone, CbsAssumption

\* The cheapest plan is the least of the totals.
LEMMA CheapestIs ==
    ASSUME NEW i \in Instances, Plans[i] # {}
    PROVE  \E P \in Plans[i] : Cheapest[i] = Total(P) /\ \A Q \in Plans[i] : Total(P) <= Total(Q)
<1> DEFINE T == {Total(P) : P \in Plans[i]}
<1>1. T \subseteq Nat /\ T # {}
  <2>1. ASSUME NEW P \in Plans[i] PROVE Total(P) \in Nat
    <3>1. DOMAIN P = Agent /\ OnPaths(i, P)
      BY PlansAre DEF OnPaths
    <3> QED BY <3>1, TotalType
  <2> QED BY <2>1
<1>2. Cheapest[i] = Min(T)
  BY DEF Cheapest
<1>3. Min(T) \in T /\ \A y \in T : Min(T) <= y
  <2> HIDE DEF T
  <2>1. \E x \in T : \A y \in T : x <= y
    BY <1>1, LeastNumber
  <2> QED BY <2>1 DEF Min
<1> QED BY <1>2, <1>3

\* A constraint names an agent.
LEMMA SplitAgent == ASSUME NEW k \in Split PROVE k.c[1] \in Agent
BY DEF Split

\* A plan that keeps a child's constraints keeps its parent's.
LEMMA ParentObeyed ==
    ASSUME NEW i \in Instances, NEW P \in Plans[i], NEW n, NEW k,
           Obeys(i, P, WithV(n, k), WithE(n, k))
    PROVE  Obeys(i, P, n.v, n.e)
<1>1. ASSUME NEW a \in Agent
      PROVE  IsPath(VOf(a, n.v), EOf(a, n.e), i[a].start, i[a].goal, Len(P[a]) - 1, P[a])
  <2>1. VOf(a, n.v) \subseteq VOf(a, WithV(n, k))
    BY DEF VOf, WithV
  <2>2. EOf(a, n.e) \subseteq EOf(a, WithE(n, k))
    BY DEF EOf, WithE
  <2>3. Len(P[a]) - 1 \in Nat
    BY PlansAre, GridAssumption
  <2>4. IsPath(VOf(a, WithV(n, k)), EOf(a, WithE(n, k)), i[a].start, i[a].goal, Len(P[a]) - 1, P[a])
    BY DEF Obeys
  <2> QED BY <2>1, <2>2, <2>3, <2>4, PathKeeps
<1> QED BY <1>1 DEF Obeys

\* A constraint on one agent leaves the others' searches as they were.
LEMMA OthersUnchanged ==
    ASSUME NEW i, NEW n, NEW k, NEW b, k.c[1] # b
    PROVE  Best(i, b, WithV(n, k), WithE(n, k)) = Best(i, b, n.v, n.e)
<1>1. VOf(b, WithV(n, k)) = VOf(b, n.v)
  BY DEF VOf, WithV
<1>2. EOf(b, WithE(n, k)) = EOf(b, n.e)
  BY DEF EOf, WithE
<1> QED BY <1>1, <1>2 DEF Best

------------------------------------------------------------------------------
\* Some node that is open, or is still to be made of the one being split, has
\* only constraints that the plan P keeps.
Kept(P) ==
    \/ \E n \in opened : Obeys(problem, P, n.v, n.e)
    \/ \E j \in DOMAIN todo : Obeys(problem, P, WithV(node, todo[j]), WithE(node, todo[j]))

\* Every node has shortest paths under its constraints.
TypeOK ==
    /\ problem \in Instances /\ counter \in Nat
    /\ \A n \in opened : IsNode(problem, n)
    /\ node = Nothing \/ IsNode(problem, node)
    /\ todo \in Seq(Split)

\* The inductive invariant: the tree's nodes are what their constraints make
\* them, and no plan is lost.
Tree ==
    /\ TypeOK
    /\ result = "running" => (node = Nothing <=> todo = <<>>)
    /\ counter = 0 => opened = {} /\ todo = <<>>
    /\ result = "running" /\ counter > 0 => \A P \in Plans[problem] : Kept(P)
    /\ AnswerIsOptimal

LEMMA NothingIsNoNode == ASSUME NEW i PROVE ~IsNode(i, Nothing)
BY DEF IsNode, Nothing

\* Before the root is made there is no node.
LEMMA InitTree == Init => Tree
BY DEF Init, Tree, TypeOK, AnswerIsOptimal

\* The root has no constraints, and every plan keeps none.
LEMMA RootKeeps == Tree /\ Root => Tree'
<1> SUFFICES ASSUME Tree, Root PROVE Tree'
  OBVIOUS
<1> DEFINE Pairs(a) == {<<a, p>> : p \in Search(a, {}, {})}
           S == {Pairs(a) : a \in Agent}
<1>0. problem \in Instances /\ problem' = problem /\ node' = node /\ todo' = todo
      /\ result = "running" /\ counter = 0
  BY DEF Root, Tree, TypeOK
<1>1. \A a : VOf(a, {}) = {} /\ EOf(a, {}) = {}
  BY DEF VOf, EOf
<1>2. ASSUME NEW P \in Plans[problem], NEW a \in Agent PROVE Pairs(a) # {}
  <2>1. Len(P[a]) - 1 \in 0 .. MaxTime
        /\ IsPath({}, {}, problem[a].start, problem[a].goal, Len(P[a]) - 1, P[a])
    BY <1>0, PlansAre
  <2>2. Best(problem, a, {}, {}) # {}
    BY <1>0, <1>1, <2>1, SomePath
  <2> QED BY <2>2, SearchIs
<1>3. CASE {} \in S /\ result' = "no path" /\ UNCHANGED <<opened, counter>>
  <2>1. Plans[problem] = {}
    <3>1. PICK a \in Agent : Pairs(a) = {}
      BY <1>3
    <3> HIDE DEF Pairs
    <3> QED BY <1>2, <3>1
  <2> QED BY <1>0, <1>3, <2>1 DEF Tree, TypeOK, AnswerIsOptimal
<1>4. ASSUME NEW paths \in [Agent -> {x[2] : x \in UNION S}],
             \A a \in Agent : <<a, paths[a]>> \in UNION S,
             opened' = {[v |-> {}, e |-> {}, paths |-> paths, cost |-> Total(paths), id |-> 0]},
             counter' = 1, result' = result
      PROVE  Tree'
  <2> DEFINE root == [v |-> {}, e |-> {}, paths |-> paths, cost |-> Total(paths), id |-> 0]
  <2>1. ASSUME NEW a \in Agent PROVE paths[a] \in Best(problem, a, {}, {})
    <3>1. PICK b \in Agent : <<a, paths[a]>> \in Pairs(b)
      BY <1>4
    <3>2. paths[a] \in Search(a, {}, {})
      BY <3>1
    <3> QED BY <3>2, SearchIs
  <2>2. IsNode(problem, root)
    <3>1. paths = [a \in Agent |-> paths[a]]
      BY <1>4
    <3> QED BY <2>1, <3>1 DEF IsNode
  <2>3. ASSUME NEW P \in Plans[problem] PROVE Obeys(problem, P, {}, {})
    <3>1. \A a \in Agent :
             IsPath({}, {}, problem[a].start, problem[a].goal, Len(P[a]) - 1, P[a])
      BY <1>0, PlansAre
    <3> QED BY <1>1, <3>1 DEF Obeys
  <2>4. root.v = {} /\ root.e = {} /\ opened' = {root}
    BY <1>4
  <2> HIDE DEF root, S
  <2>5. ASSUME NEW P \in Plans[problem] PROVE Kept(P)'
    BY <1>0, <2>3, <2>4 DEF Kept
  <2> QED BY <1>0, <1>4, <2>2, <2>4, <2>5 DEF Tree, TypeOK, AnswerIsOptimal
<1> QED BY <1>3, <1>4 DEF Root

\* The node taken off the heap is the answer, or its split loses no plan.
LEMMA PopKeeps == Tree /\ Pop => Tree'
<1> SUFFICES ASSUME Tree, Pop PROVE Tree'
  OBVIOUS
<1>0. /\ result = "running" /\ node = Nothing /\ todo = <<>> /\ problem' = problem
      /\ counter' = counter /\ counter > 0 /\ problem \in Instances
  BY DEF Pop, Tree, TypeOK
<1>1. PICK n \in opened :
          /\ \A m \in opened \ {n} : n.cost < m.cost \/ (n.cost = m.cost /\ n.id < m.id)
          /\ opened' = opened \ {n}
          /\ IF Conflicts(n.paths) = {}
             THEN result' = "ok" /\ node' = n /\ UNCHANGED todo
             ELSE node' = n /\ todo' = expand(n.paths) /\ UNCHANGED result
  BY DEF Pop
<1>2. IsNode(problem, n) /\ \A m \in opened : IsNode(problem, m)
  BY DEF Tree, TypeOK
<1>3. OnPaths(problem, n.paths)
  BY <1>0, <1>2, NodeOnPaths
<1>4. CASE Conflicts(n.paths) = {}
  <2>1. n.paths \in Plans[problem]
    BY <1>0, <1>2, <1>3, <1>4, NoConflictsApart, PlansAre DEF IsNode, OnPaths
  <2>2. ASSUME NEW P \in Plans[problem]
        PROVE  n.cost \in Nat /\ Total(P) \in Nat /\ n.cost <= Total(P)
    <3>1. PICK m \in opened : Obeys(problem, P, m.v, m.e)
      BY <1>0, <2>2 DEF Tree, Kept
    <3>2. m.cost \in Nat /\ Total(P) \in Nat /\ m.cost <= Total(P)
      BY <1>0, <1>2, <3>1, NodeIsBound
    <3>3. n.cost \in Nat
      BY <1>0, <1>2, <1>3, TotalType DEF IsNode
    <3>4. n.cost <= m.cost
      BY <1>1, <3>2, <3>3
    <3> QED BY <3>2, <3>3, <3>4
  <2>3. n.cost = Cheapest[problem]
    <3>1. PICK P \in Plans[problem] :
              Cheapest[problem] = Total(P) /\ \A Q \in Plans[problem] : Total(P) <= Total(Q)
      BY <1>0, <2>1, CheapestIs
    <3>2. n.cost = Total(n.paths)
      BY <1>2 DEF IsNode
    <3> QED BY <2>1, <2>2, <3>1, <3>2
  <2>4. result' = "ok" /\ node' = n /\ todo' = todo /\ opened' = opened \ {n}
    BY <1>1, <1>4
  <2>5. TypeOK'
    BY <1>0, <1>2, <2>4 DEF Tree, TypeOK
  <2>6. AnswerIsOptimal'
    BY <1>0, <2>1, <2>3, <2>4 DEF AnswerIsOptimal
  <2> QED BY <1>0, <2>4, <2>5, <2>6 DEF Tree
<1>5. CASE Conflicts(n.paths) # {}
  <2> DEFINE X == expand(n.paths)
  <2>1. /\ X # <<>> /\ X \in Seq(Split)
        /\ \A P \in Plans[problem] : Obeys(problem, P, n.v, n.e) =>
              \E j \in DOMAIN X : Obeys(problem, P, WithV(n, X[j]), WithE(n, X[j]))
    BY <1>0, <1>3, <1>5, SplitLosesNothing
  <2>2. node' = n /\ todo' = X /\ result' = result /\ opened' = opened \ {n}
    BY <1>1, <1>5
  <2> HIDE DEF X
  <2>3. node' # Nothing
    BY <1>2, <2>2, NothingIsNoNode
  <2>4. ASSUME NEW P \in Plans[problem] PROVE Kept(P)'
    <3>1. PICK m \in opened : Obeys(problem, P, m.v, m.e)
      BY <1>0, <2>4 DEF Tree, Kept
    <3>2. CASE m = n
      BY <1>0, <2>1, <2>2, <3>1, <3>2 DEF Kept
    <3>3. CASE m # n
      BY <1>0, <2>2, <3>1, <3>3 DEF Kept
    <3> QED BY <3>2, <3>3
  <2> QED BY <1>0, <1>2, <2>1, <2>2, <2>3, <2>4 DEF Tree, TypeOK, AnswerIsOptimal
<1> QED BY <1>4, <1>5

\* A child keeps its parent's plans, or has no path and is no plan's.
LEMMA BranchKeeps == Tree /\ Branch => Tree'
<1> SUFFICES ASSUME Tree, Branch PROVE Tree'
  OBVIOUS
<1> DEFINE k == Head(todo)
           a == k.c[1]
           V == WithV(node, k)
           E == WithE(node, k)
<1>0. /\ result = "running" /\ todo # <<>> /\ todo \in Seq(Split) /\ node # Nothing
      /\ problem' = problem /\ problem \in Instances /\ counter \in Nat /\ counter > 0
  BY DEF Branch, Tree, TypeOK
<1>1. k \in Split /\ a \in Agent /\ IsNode(problem, node)
  <2>1. k \in Split
    BY <1>0
  <2> QED BY <1>0, <2>1, SplitAgent DEF Tree, TypeOK
<1>2. \/ Search(a, V, E) = {} /\ Advance /\ UNCHANGED <<opened, counter, result>>
      \/ \E p \in Search(a, V, E) :
            /\ counter' = counter + 1
            /\ IF counter + 1 > MaxNodes
               THEN result' = "timeout" /\ UNCHANGED <<opened, node, todo>>
               ELSE /\ opened' = opened \cup {Child(k, [node.paths EXCEPT ![a] = p])}
                    /\ Advance
                    /\ UNCHANGED result
  BY DEF Branch, Child, WithV, WithE
<1>3. ASSUME Advance
      PROVE  /\ todo' \in Seq(Split) /\ (node' = Nothing \/ node' = node)
             /\ node' = Nothing <=> todo' = <<>>
             /\ \A j \in DOMAIN todo : j # 1 => node' = node /\ j - 1 \in DOMAIN todo' /\ todo'[j - 1] = todo[j]
  <2>1. todo' = Tail(todo) /\ Len(todo) \in Nat /\ Len(todo) # 0
    BY <1>0, <1>3 DEF Advance
  <2>2. todo' \in Seq(Split) /\ Len(todo') = Len(todo) - 1
    BY <1>0, <2>1
  <2>3. todo' = <<>> <=> Len(todo) = 1
    <3>1. \A s \in Seq(Split) : s = <<>> <=> Len(s) = 0
      OBVIOUS
    <3>2. todo' = <<>> <=> Len(todo') = 0
      BY <2>2, <3>1
    <3>3. Len(todo') = 0 <=> Len(todo) = 1
      BY <2>1, <2>2
    <3> QED BY <3>2, <3>3
  <2>4. ASSUME NEW j \in DOMAIN todo, j # 1
        PROVE  Len(todo) # 1 /\ j - 1 \in DOMAIN todo' /\ todo'[j - 1] = todo[j]
    BY <1>0, <2>1, <2>2, <2>4
  <2> QED BY <1>0, <1>3, <2>2, <2>3, <2>4 DEF Advance
<1>4. ASSUME NEW P \in Plans[problem]
      PROVE  \/ \E n \in opened : Obeys(problem, P, n.v, n.e)
             \/ Obeys(problem, P, V, E)
             \/ \E j \in DOMAIN todo : j # 1 /\ Obeys(problem, P, WithV(node, todo[j]), WithE(node, todo[j]))
  <2>1. Kept(P)
    BY <1>0, <1>4 DEF Tree
  <2>2. k = todo[1]
    BY <1>0
  <2> QED BY <2>1, <2>2 DEF Kept
<1>5. ASSUME Advance, opened \subseteq opened', NEW P \in Plans[problem],
             Obeys(problem, P, V, E) => \E n \in opened' : Obeys(problem, P, n.v, n.e)
      PROVE  Kept(P)'
  <2> HIDE DEF k, V, E
  <2>1. CASE \E n \in opened' : Obeys(problem, P, n.v, n.e)
    BY <1>0, <2>1 DEF Kept
  <2>2. CASE \E j \in DOMAIN todo : j # 1 /\ Obeys(problem, P, WithV(node, todo[j]), WithE(node, todo[j]))
    <3>1. PICK j \in DOMAIN todo : j # 1 /\ Obeys(problem, P, WithV(node, todo[j]), WithE(node, todo[j]))
      BY <2>2
    <3>2. node' = node /\ j - 1 \in DOMAIN todo' /\ todo'[j - 1] = todo[j]
      BY <1>3, <1>5, <3>1
    <3> QED BY <1>0, <3>1, <3>2 DEF Kept
  <2> QED BY <1>4, <1>5, <2>1, <2>2
<1>6. CASE Search(a, V, E) = {} /\ Advance /\ UNCHANGED <<opened, counter, result>>
  <2>1. ASSUME NEW P \in Plans[problem] PROVE ~Obeys(problem, P, V, E)
    <3>1. Len(P[a]) - 1 \in 0 .. MaxTime
      BY <1>0, <1>1, PlansAre
    <3>2. Best(problem, a, V, E) = {}
      BY <1>6, SearchIs
    <3> HIDE DEF k, V, E
    <3> QED BY <1>0, <1>1, <3>1, <3>2, SomePath DEF Obeys
  <2>2. \A P \in Plans[problem] : Kept(P)'
    BY <1>5, <1>6, <2>1
  <2> HIDE DEF k, V, E
  <2>3. TypeOK'
    BY <1>0, <1>3, <1>6 DEF Tree, TypeOK
  <2> QED BY <1>0, <1>3, <1>6, <2>2, <2>3 DEF Tree, AnswerIsOptimal
<1>7. ASSUME NEW p \in Search(a, V, E), counter' = counter + 1,
             counter + 1 > MaxNodes, result' = "timeout", UNCHANGED <<opened, node, todo>>
      PROVE  Tree'
  <2>1. TypeOK'
    BY <1>0, <1>7 DEF Tree, TypeOK
  <2> QED BY <1>0, <1>7, <2>1 DEF Tree, AnswerIsOptimal
<1>8. ASSUME NEW p \in Search(a, V, E), counter' = counter + 1,
             opened' = opened \cup {Child(k, [node.paths EXCEPT ![a] = p])}, Advance,
             result' = result
      PROVE  Tree'
  <2> DEFINE q == [node.paths EXCEPT ![a] = p]
             m == Child(k, q)
  <2>1. m.v = V /\ m.e = E /\ m.paths = q /\ m.cost = Total(q) /\ m.id = counter
    BY DEF Child, WithV, WithE
  <2>2. IsNode(problem, m)
    <3>1. DOMAIN node.paths = Agent /\ \A b \in Agent : node.paths[b] \in Best(problem, b, node.v, node.e)
      BY <1>1 DEF IsNode
    <3>2. q = [b \in Agent |-> q[b]] /\ q[a] = p /\ \A b \in Agent : b # a => q[b] = node.paths[b]
      BY <1>1, <3>1
    <3>3. q[a] \in Best(problem, a, V, E)
      BY <1>8, <3>2, SearchIs
    <3>4. ASSUME NEW b \in Agent, b # a PROVE q[b] \in Best(problem, b, V, E)
      BY <3>1, <3>2, <3>4, OthersUnchanged
    <3> HIDE DEF q, m, V, E, k
    <3> QED BY <1>0, <2>1, <3>2, <3>3, <3>4 DEF IsNode
  <2> HIDE DEF m, q
  <2>3. opened' = opened \cup {m}
    BY <1>8 DEF m, q
  <2>4. \A P \in Plans[problem] : Kept(P)'
    <3> HIDE DEF k, V, E
    <3> QED BY <1>5, <1>8, <2>1, <2>3
  <2> HIDE DEF k, V, E
  <2>5. TypeOK'
    BY <1>0, <1>3, <1>8, <2>2, <2>3 DEF Tree, TypeOK
  <2>6. counter' > 0
    BY <1>0, <1>8
  <2> QED BY <1>0, <1>3, <1>8, <2>4, <2>5, <2>6 DEF Tree, AnswerIsOptimal
<1> QED BY <1>2, <1>6, <1>7, <1>8

\* An empty heap leaves no node for a plan.
LEMMA ExhaustedKeeps == Tree /\ Exhausted => Tree'
<1> SUFFICES ASSUME Tree, Exhausted PROVE Tree'
  OBVIOUS
<1>1. /\ todo = <<>> /\ opened = {} /\ result = "running" /\ counter > 0 /\ result' = "no path"
      /\ UNCHANGED <<problem, opened, counter, node, todo>>
  BY DEF Exhausted, Tree
<1>2. Plans[problem] = {}
  <2>1. \A P \in Plans[problem] : Kept(P)
    BY <1>1 DEF Tree
  <2>2. DOMAIN todo = {}
    <3>1. \A s \in Seq(Split) : s = <<>> => DOMAIN s = {}
      OBVIOUS
    <3> QED BY <1>1, <3>1 DEF Tree, TypeOK
  <2>3. \A P : ~Kept(P)
    BY <1>1, <2>2 DEF Kept
  <2> QED BY <2>1, <2>3
<1>3. TypeOK'
  BY <1>1 DEF Tree, TypeOK
<1> QED BY <1>1, <1>2, <1>3 DEF Tree, AnswerIsOptimal

LEMMA StutterKeeps == Tree /\ UNCHANGED vars => Tree'
<1> SUFFICES ASSUME Tree, UNCHANGED vars PROVE Tree'
  OBVIOUS
<1>1. UNCHANGED <<problem, opened, counter, node, todo, result>>
  BY DEF vars
<1>2. TypeOK'
  BY <1>1 DEF Tree, TypeOK
<1>3. ASSUME NEW P, Kept(P) PROVE Kept(P)'
  BY <1>1, <1>3 DEF Kept
<1>4. AnswerIsOptimal'
  BY <1>1 DEF Tree, AnswerIsOptimal
<1> QED BY <1>1, <1>2, <1>3, <1>4 DEF Tree

\* The tree invariant holds in every run of the planner.
THEOREM TreeHolds == Spec => []Tree
<1>1. Tree /\ [Next]_vars => Tree'
  BY RootKeeps, PopKeeps, BranchKeeps, ExhaustedKeeps, StutterKeeps DEF Next, Returned
<1> QED BY <1>1, InitTree, PTL DEF Spec

\* The planner's answer is right, for any number of agents and any grid: a plan
\* it returns keeps the agents apart at all times and none is cheaper, and when
\* it says that there is no path there is no plan.
THEOREM AnswerIsRight == Spec => []AnswerIsOptimal
BY TreeHolds, PTL DEF Tree

\* At every moment of the search the cheapest plan is still to be found.
THEOREM PlansAreKept == Spec => []NoPlanIsLost
<1>1. Tree => NoPlanIsLost
  <2> SUFFICES ASSUME Tree, result = "running", counter > 0, Plans[problem] # {}
               PROVE  \/ \E n \in opened : n.cost <= Cheapest[problem]
                      \/ node # Nothing /\ todo # <<>> /\ node.cost <= Cheapest[problem]
    BY DEF NoPlanIsLost
  <2>1. problem \in Instances
    BY DEF Tree, TypeOK
  <2>2. PICK P \in Plans[problem] : Cheapest[problem] = Total(P)
    BY <2>1, CheapestIs
  <2>3. CASE \E n \in opened : Obeys(problem, P, n.v, n.e)
    BY <2>1, <2>2, <2>3, NodeIsBound DEF Tree, TypeOK
  <2>4. CASE \E j \in DOMAIN todo : Obeys(problem, P, WithV(node, todo[j]), WithE(node, todo[j]))
    <3>1. Obeys(problem, P, node.v, node.e)
      BY <2>1, <2>4, ParentObeyed
    <3>2. todo # <<>> /\ node # Nothing /\ IsNode(problem, node)
      BY <2>4 DEF Tree, TypeOK
    <3> QED BY <2>1, <2>2, <3>1, <3>2, NodeIsBound
  <2> QED BY <2>3, <2>4 DEF Tree, Kept
<1> QED BY <1>1, TreeHolds, PTL
==============================================================================

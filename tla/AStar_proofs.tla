---------------------------- MODULE AStar_proofs -----------------------------
(***************************************************************************)
(* Proofs about AStar, for every grid, obstacle set, time limit and set of *)
(* constraints: the estimate is consistent, so keys leave the heap in      *)
(* order, the path found is a shortest one, and the search comes to an     *)
(* end.                                                                    *)
(*                                                                         *)
(* The inductive invariant, Search, says of the heap, the parents and the  *)
(* closed set together: every entry stands for a walk that the parents     *)
(* trace back to the start, and everywhere a walk can be within the time   *)
(* limit is open, or closed with all that is one move on from it.  So      *)
(* something on the way to the goal stays open until the goal is popped.   *)
(***************************************************************************)
EXTENDS AStar, SwarmGrid_proofs

\* The coordinates of a cell are numbers.
LEMMA CellCoordinates ==
    ASSUME NEW p \in Cell
    PROVE  p[1] \in Int /\ p[2] \in Int /\ p[3] \in Int
  BY GridAssumption DEF Cell

\* The estimate is a natural number, and one step changes it by at most one.
LEMMA EstimateIsConsistent ==
    ASSUME NEW p \in Cell, NEW g \in Cell, NEW q \in successors[p] \cup {p}
    PROVE  /\ q \in Cell
           /\ manhattan(p, g) \in Nat /\ manhattan(q, g) \in Nat
           /\ manhattan(p, g) <= manhattan(q, g) + 1
<1>1. q \in Cell /\ Abs(p[1] - q[1]) + Abs(p[2] - q[2]) + Abs(p[3] - q[3]) <= 1
  <2>1. CASE q = p
    BY <2>1, CellCoordinates DEF Abs
  <2>2. CASE q \in successors[p]
    <3>1. successors[p] = {r \in Cell \ Blocked :
                Abs(p[1] - r[1]) + Abs(p[2] - r[2]) + Abs(p[3] - r[3]) = 1}
      BY DEF successors
    <3> QED BY <2>2, <3>1
  <2> QED BY <2>1, <2>2
<1>2. \A a, b, c \in Int : /\ Abs(a - c) <= Abs(a - b) + Abs(b - c)
                           /\ Abs(a - c) \in Nat /\ Abs(a - b) \in Nat /\ Abs(b - c) \in Nat
  BY DEF Abs
<1>3. /\ Abs(p[1] - g[1]) <= Abs(p[1] - q[1]) + Abs(q[1] - g[1])
      /\ Abs(p[1] - g[1]) \in Nat /\ Abs(p[1] - q[1]) \in Nat /\ Abs(q[1] - g[1]) \in Nat
  BY <1>1, <1>2, CellCoordinates
<1>4. /\ Abs(p[2] - g[2]) <= Abs(p[2] - q[2]) + Abs(q[2] - g[2])
      /\ Abs(p[2] - g[2]) \in Nat /\ Abs(p[2] - q[2]) \in Nat /\ Abs(q[2] - g[2]) \in Nat
  BY <1>1, <1>2, CellCoordinates
<1>5. /\ Abs(p[3] - g[3]) <= Abs(p[3] - q[3]) + Abs(q[3] - g[3])
      /\ Abs(p[3] - g[3]) \in Nat /\ Abs(p[3] - q[3]) \in Nat /\ Abs(q[3] - g[3]) \in Nat
  BY <1>1, <1>2, CellCoordinates
<1> QED BY <1>1, <1>3, <1>4, <1>5 DEF manhattan

\* Every entry of the heap carries its cost so far plus the estimate.
Keyed ==
    /\ goal \in Cell
    /\ \A e \in open : \E g \in Nat, p \in Cell, t \in Nat : e = Entry(g, p, t)

\* The start is the first entry.
LEMMA InitKeyed == Init => Keyed
  BY AStarAssumption DEF Init, Keyed

\* What an expanded entry adds is one step on and has a key no smaller.
LEMMA PushedEntries ==
    ASSUME Keyed, NEW e \in open, Push(e), NEW o \in open'
    PROVE  \/ o \in open \ {e}
           \/ /\ \E g \in Nat, p \in Cell, t \in Nat : o = Entry(g, p, t)
              /\ e[1] <= o[1]
<1> SUFFICES ASSUME o \notin open \ {e}
             PROVE  /\ \E g \in Nat, p \in Cell, t \in Nat : o = Entry(g, p, t)
                    /\ e[1] <= o[1]
  OBVIOUS
<1>1. PICK g \in Nat, p \in Cell, t \in Nat : e = Entry(g, p, t)
  BY DEF Keyed
<1>2. e[1] = g + manhattan(p, goal) /\ e[2] = g /\ e[3] = p /\ e[4] = t
  BY <1>1 DEF Entry
<1>3. PICK q \in Better(p, t) : o = Entry(g + 1, q, t + 1)
  BY <1>2 DEF Push
<1>4. q \in successors[p] \cup {p}
  BY <1>3 DEF Better
<1>5. q \in Cell /\ manhattan(p, goal) \in Nat /\ manhattan(q, goal) \in Nat
      /\ manhattan(p, goal) <= manhattan(q, goal) + 1
  BY <1>4, EstimateIsConsistent DEF Keyed
<1>6. o[1] = g + 1 + manhattan(q, goal)
  BY <1>3 DEF Entry
<1>7. g + 1 \in Nat /\ t + 1 \in Nat
  OBVIOUS
<1> QED BY <1>2, <1>3, <1>5, <1>6, <1>7

\* The heap holds entries with their keys.
LEMMA KeyedInductive == Keyed /\ [Next]_vars => Keyed'
<1> SUFFICES ASSUME Keyed, [Next]_vars PROVE Keyed'
  OBVIOUS
<1>1. goal' = goal
  BY DEF Next, Pop, Exhausted, Returned, vars, args
<1>2. ASSUME NEW o \in open' PROVE \E g \in Nat, p \in Cell, t \in Nat : o = Entry(g, p, t)
  <2>1. CASE o \in open
    BY <2>1 DEF Keyed
  <2>2. CASE Pop
    <3>1. PICK e \in open : open' = open \ {e} \/ Push(e)
      BY <2>2 DEF Pop
    <3> QED BY <1>2, <2>1, <3>1, PushedEntries
  <2>3. CASE ~Pop
    BY <1>2, <2>1, <2>3 DEF Next, Exhausted, Returned, vars
  <2> QED BY <2>2, <2>3
<1> QED BY <1>1, <1>2 DEF Keyed, Entry

\* No entry leaves the heap while one with a smaller key is, or comes to be,
\* in it: the first arrival at the goal is the earliest (astar.rs:32-82).
THEOREM KeysLeaveInOrder == Spec => KeysNeverFall
<1>1. ASSUME Keyed, Next
      PROVE  \A e \in open \ open' : \A o \in open' : e[1] <= o[1]
  <2> SUFFICES ASSUME NEW e \in open, e \notin open', NEW o \in open'
               PROVE  e[1] <= o[1]
    OBVIOUS
  <2>1. CASE Pop
    <3>1. PICK m \in open : /\ \A x \in open \ {m} : Before(m, x)
                            /\ open' = open \ {m} \/ Push(m)
      BY <2>1 DEF Pop
    <3>2. e = m
      BY <3>1 DEF Push
    <3>3. CASE o \in open \ {m}
      <4>1. Before(m, o) /\ m[1] \in Int /\ o[1] \in Int
        BY <1>1, <3>1, <3>3, EstimateIsConsistent DEF Keyed, Entry
      <4> QED BY <3>2, <4>1 DEF Before, Key
    <3>4. CASE Push(m) /\ o \notin open \ {m}
      BY <1>1, <3>2, <3>4, PushedEntries
    <3> QED BY <3>1, <3>3, <3>4
  <2>2. CASE Exhausted \/ Returned
    BY <2>2 DEF Exhausted, Returned, vars
  <2> QED BY <1>1, <2>1, <2>2 DEF Next
<1>2. Keyed /\ [Next]_vars => [\A e \in open \ open' : \A o \in open' : e[1] <= o[1]]_vars
  BY <1>1
<1> QED BY <1>2, InitKeyed, KeyedInductive, PTL DEF Spec, KeysNeverFall
------------------------------------------------------------------------------
(* The search finds a shortest path. *)

\* The estimate never exceeds the moves that are left of a path.
LEMMA EstimateOnPath ==
    ASSUME NEW vs, NEW es, NEW s \in Cell, NEW g \in Cell, NEW n \in Nat, NEW w,
           IsPath(vs, es, s, g, n, w), NEW i \in 1 .. n + 1
    PROVE  w[i] \in Cell /\ manhattan(w[i], g) \in Nat /\ manhattan(w[i], g) <= n + 1 - i
<1> DEFINE T == {k \in Nat : k <= n => manhattan(w[n + 1 - k], g) <= k}
<1>1. /\ w \in [1 .. n + 1 -> Cell] /\ w[n + 1] = g
      /\ \A j \in 1 .. n : Allowed(vs, es, w[j], 0 + j - 1, w[j + 1])
  BY DEF IsPath, Walk
<1>2. \A p \in Cell : manhattan(p, g) \in Nat
  BY EstimateIsConsistent
<1>3. 0 \in T
  <2>1. manhattan(g, g) = 0
    BY CellCoordinates DEF manhattan, Abs
  <2> QED BY <1>1, <2>1
<1>4. ASSUME NEW k \in Nat, k \in T PROVE k + 1 \in T
  <2> SUFFICES ASSUME k + 1 <= n PROVE manhattan(w[n + 1 - (k + 1)], g) <= k + 1
    OBVIOUS
  <2> DEFINE j == n - k
  <2>1. j \in 1 .. n /\ n + 1 - (k + 1) = j /\ n + 1 - k = j + 1 /\ j + 1 \in 1 .. n + 1 /\ j \in 1 .. n + 1
    OBVIOUS
  <2> HIDE DEF j
  <2>2. manhattan(w[j + 1], g) <= k
    BY <1>4, <2>1
  <2>3. w[j + 1] \in successors[w[j]] \cup {w[j]} /\ w[j] \in Cell
    BY <1>1, <2>1 DEF Allowed
  <2>4. /\ manhattan(w[j], g) \in Nat /\ manhattan(w[j + 1], g) \in Nat
        /\ manhattan(w[j], g) <= manhattan(w[j + 1], g) + 1
    BY <2>3, EstimateIsConsistent
  <2> QED BY <2>1, <2>2, <2>4
<1>5. n + 1 - i \in T
  <2> HIDE DEF T
  <2>1. Nat \subseteq T
    BY <1>3, <1>4, SetInduction
  <2> QED BY <2>1
<1>6. n + 1 - (n + 1 - i) = i /\ n + 1 - i <= n
  OBVIOUS
<1> QED BY <1>1, <1>2, <1>5, <1>6

\* The cells and times the search has come to are those of bestG, each for as
\* many moves as its time says; from each but the first, cameFrom leads one
\* allowed move back.
EntryOf(k) == Entry(k[2], k[1], k[2])

Visited ==
    /\ start \in Cell /\ goal \in Cell
    /\ <<start, 0>> \in DOMAIN bestG
    /\ DOMAIN bestG \subseteq Cell \X (0 .. MaxTime)
    /\ \A k \in DOMAIN bestG : bestG[k] = k[2]
    /\ \A e \in open : \E k \in DOMAIN bestG : e = EntryOf(k)

Traced ==
    /\ DOMAIN cameFrom = DOMAIN bestG \ {<<start, 0>>}
    /\ \A k \in DOMAIN cameFrom :
          \E p \in Cell : /\ k[2] > 0 /\ cameFrom[k] = <<p, k[2] - 1>>
                          /\ <<p, k[2] - 1>> \in DOMAIN bestG
                          /\ Allowed(V, E, p, k[2] - 1, k[1])

\* What has left the heap is not the goal and has had all its moves tried.
Expanded ==
    \A k \in DOMAIN bestG : EntryOf(k) \notin open =>
        /\ k[1] # goal
        /\ k[2] < MaxTime =>
              \A q \in successors[k[1]] \cup {k[1]} :
                  Allowed(V, E, k[1], k[2], q) => <<q, k[2] + 1>> \in DOMAIN bestG

Search ==
    /\ Visited /\ Traced
    /\ ~done => Expanded /\ path = None
    /\ ReturnsShortest

\* While the search runs, some entry of the heap is on the way to the goal.
LEMMA OnTheWay ==
    ASSUME Visited, Expanded, NEW n \in 0 .. MaxTime, goal \in There(V, E, start, n)
    PROVE  \E e \in open : e[1] \in Nat /\ e[1] <= n
<1>1. PICK w : IsPath(V, E, start, goal, n, w)
  BY DEF There, IsPath
<1>2. /\ n \in Nat /\ w \in [1 .. n + 1 -> Cell] /\ w[1] = start /\ w[n + 1] = goal
      /\ \A j \in 1 .. n : Allowed(V, E, w[j], 0 + j - 1, w[j + 1])
  BY <1>1, GridAssumption DEF IsPath, Walk
<1> DEFINE Closed(i) == <<w[i], i - 1>> \in DOMAIN bestG /\ EntryOf(<<w[i], i - 1>>) \notin open
           T == {i \in 1 .. n + 1 : ~Closed(i)}
<1>3. n + 1 \in T
  BY <1>2 DEF Expanded
<1>4. PICK i \in T : \A j \in T : i <= j
  <2>1. T \subseteq Nat /\ T # {}
    <3> HIDE DEF Closed
    <3> QED BY <1>2, <1>3
  <2> HIDE DEF T
  <2> QED BY <2>1, LeastNumber
<1>5. <<w[i], i - 1>> \in DOMAIN bestG
  <2>1. CASE i = 1
    <3>1. <<w[i], i - 1>> = <<start, 0>>
      BY <1>2, <2>1
    <3> QED BY <3>1 DEF Visited
  <2>2. CASE i # 1
    <3> DEFINE j == i - 1
    <3>1. j \in 1 .. n /\ j - 1 < MaxTime /\ j + 1 = i /\ ~(i <= j) /\ j \in 1 .. n + 1
      BY <1>2, <2>2, GridAssumption
    <3>2. Closed(j)
      BY <1>4, <3>1
    <3>3. Allowed(V, E, w[j], j - 1, w[j + 1])
      <4>1. 0 + j - 1 = j - 1
        BY <3>1
      <4> QED BY <1>2, <3>1, <4>1
    <3> HIDE DEF j
    <3> DEFINE k == <<w[j], j - 1>>
    <3>4. k \in DOMAIN bestG /\ EntryOf(k) \notin open /\ k[1] = w[j] /\ k[2] = j - 1
      BY <3>2
    <3>5. k[2] < MaxTime => \A q : Allowed(V, E, k[1], k[2], q) => <<q, k[2] + 1>> \in DOMAIN bestG
      BY <3>4 DEF Expanded, Allowed
    <3>6. <<w[j + 1], (j - 1) + 1>> \in DOMAIN bestG
      BY <3>1, <3>3, <3>4, <3>5
    <3> QED BY <3>1, <3>6 DEF j
  <2> QED BY <2>1, <2>2
<1>6. EntryOf(<<w[i], i - 1>>) \in open
  BY <1>4, <1>5
<1>7. /\ w[i] \in Cell /\ manhattan(w[i], goal) \in Nat
      /\ manhattan(w[i], goal) <= n + 1 - i
  <2>1. i \in 1 .. n + 1
    BY <1>4
  <2> QED BY <1>1, <1>2, <2>1, EstimateOnPath DEF Visited
<1>8. EntryOf(<<w[i], i - 1>>)[1] = (i - 1) + manhattan(w[i], goal)
  BY DEF EntryOf, Entry
<1>9. (i - 1) + manhattan(w[i], goal) \in Nat /\ (i - 1) + manhattan(w[i], goal) <= n
  <2>1. i \in 1 .. n + 1
    BY <1>4
  <2> QED BY <1>2, <1>7, <2>1
<1> HIDE DEF T, Closed
<1> QED BY <1>6, <1>8, <1>9

\* reconstruct_path() finds its way back to the start, by allowed moves.
LEMMA ReconstructIsPath ==
    ASSUME Visited, Traced, NEW t \in 0 .. MaxTime, <<goal, t>> \in DOMAIN bestG
    PROVE  IsPath(V, E, start, goal, t, Reconstruct(t))
<1>0. t \in Nat
  BY GridAssumption
<1> DEFINE Body(f) == [k \in 0 .. t |-> IF k = t THEN goal ELSE cameFrom[<<f[k + 1], k + 1>>][1]]
           at == CHOOSE f : f = Body(f)
           Back(n, c) == LET k == <<c, t + 1 - n>>
                         IN  IF k \in DOMAIN cameFrom THEN cameFrom[k][1] ELSE goal
           F == [x \in Nat \X Cell |-> Back(x[1], x[2])]
<1>1. Reconstruct(t) = [i \in 1 .. t + 1 |-> at[i - 1]]
  BY DEF Reconstruct
<1>2. ASSUME NEW c, NEW m \in 1 .. t, <<c, m>> \in DOMAIN bestG
      PROVE  LET k == <<c, m>> IN
             /\ k \in DOMAIN cameFrom /\ cameFrom[k][1] \in Cell
             /\ <<cameFrom[k][1], m - 1>> \in DOMAIN bestG
             /\ Allowed(V, E, cameFrom[k][1], m - 1, c)
  <2> DEFINE k == <<c, m>>
  <2>1. k \in DOMAIN cameFrom /\ k[1] = c /\ k[2] = m
    BY <1>2 DEF Traced
  <2> HIDE DEF k
  <2>2. PICK p \in Cell : /\ cameFrom[k] = <<p, k[2] - 1>>
                          /\ <<p, k[2] - 1>> \in DOMAIN bestG
                          /\ Allowed(V, E, p, k[2] - 1, k[1])
    BY <2>1 DEF Traced
  <2>3. cameFrom[k][1] = p
    BY <2>2
  <2> QED BY <2>1, <2>2, <2>3 DEF k
<1>3. \E f : f = Body(f)
  <2>1. IsRecursion(Cell, goal, F)
    <3>1. ASSUME NEW n \in Nat, NEW c \in Cell PROVE Back(n, c) \in Cell
      <4>1. CASE <<c, t + 1 - n>> \in DOMAIN cameFrom
        <5>1. PICK p \in Cell : cameFrom[<<c, t + 1 - n>>] = <<p, <<c, t + 1 - n>>[2] - 1>>
          BY <4>1 DEF Traced
        <5> QED BY <4>1, <5>1
      <4>2. CASE <<c, t + 1 - n>> \notin DOMAIN cameFrom
        BY <4>2 DEF Visited
      <4> QED BY <4>1, <4>2
    <3>2. F \in [Nat \X Cell -> Cell]
      <4> HIDE DEF Back
      <4> QED BY <3>1
    <3> HIDE DEF F
    <3> QED BY <3>2 DEF IsRecursion, Visited
  <2>2. PICK h : Follows(h, Cell, goal, F, t)
    <3> HIDE DEF F
    <3> QED BY <1>0, <2>1, Recursion
  <2>3. /\ h \in [0 .. t -> Cell] /\ h[0] = goal
        /\ \A n \in 1 .. t : h[n] = Back(n, h[n - 1])
    <3>1. /\ h \in [0 .. t -> Cell] /\ h[0] = goal
          /\ \A n \in 1 .. t : h[n] = F[<<n, h[n - 1]>>]
      <4> HIDE DEF F
      <4> QED BY <2>2 DEF Follows
    <3>2. ASSUME NEW n \in 1 .. t PROVE F[<<n, h[n - 1]>>] = Back(n, h[n - 1])
      <4>1. n \in Nat /\ h[n - 1] \in Cell
        BY <1>0, <3>1
      <4> HIDE DEF Back
      <4> QED BY <4>1
    <3> HIDE DEF F, Back
    <3> QED BY <3>1, <3>2
  <2> DEFINE T == {n \in Nat : n <= t => <<h[n], t - n>> \in DOMAIN bestG}
  <2>4. 0 \in T
    BY <1>0, <2>3
  <2>5. ASSUME NEW n \in Nat, n \in T PROVE n + 1 \in T
    <3> SUFFICES ASSUME n + 1 <= t PROVE <<h[n + 1], t - (n + 1)>> \in DOMAIN bestG
      OBVIOUS
    <3>1. t - n \in 1 .. t /\ n + 1 \in 1 .. t /\ (n + 1) - 1 = n /\ t + 1 - (n + 1) = t - n
          /\ (t - n) - 1 = t - (n + 1)
      BY <1>0
    <3>2. <<h[n], t - n>> \in DOMAIN bestG
      BY <1>0, <2>5
    <3>3. h[n + 1] = Back(n + 1, h[n])
      BY <2>3, <3>1
    <3> QED BY <1>2, <3>1, <3>2, <3>3
  <2>6. \A n \in 0 .. t : <<h[n], t - n>> \in DOMAIN bestG
    <3>1. Nat \subseteq T
      <4> HIDE DEF T
      <4> QED BY <2>4, <2>5, SetInduction
    <3> QED BY <1>0, <3>1
  <2> DEFINE f == [k \in 0 .. t |-> h[t - k]]
  <2>7. ASSUME NEW k \in 0 .. t
        PROVE  f[k] = IF k = t THEN goal ELSE cameFrom[<<f[k + 1], k + 1>>][1]
    <3>1. CASE k = t
      BY <1>0, <2>3, <3>1
    <3>2. CASE k # t
      <4>1. /\ t - k \in 1 .. t /\ k + 1 \in 0 .. t /\ (t - k) - 1 = t - (k + 1)
            /\ t + 1 - (t - k) = k + 1 /\ t - (k + 1) \in 0 .. t /\ t - (t - (k + 1)) = k + 1
            /\ k + 1 \in 1 .. t
        BY <1>0, <3>2
      <4>2. f[k] = h[t - k] /\ f[k + 1] = h[t - (k + 1)]
        BY <4>1
      <4>3. h[t - k] = Back(t - k, h[t - (k + 1)])
        BY <2>3, <4>1
      <4>4. <<h[t - (k + 1)], k + 1>> \in DOMAIN bestG
        BY <2>6, <4>1
      <4>5. <<h[t - (k + 1)], k + 1>> \in DOMAIN cameFrom
        BY <1>2, <4>1, <4>4
      <4> HIDE DEF f
      <4> QED BY <3>2, <4>1, <4>2, <4>3, <4>5
    <3> QED BY <3>1, <3>2
  <2>8. f = Body(f)
    <3>1. f = [k \in 0 .. t |-> f[k]]
      OBVIOUS
    <3> HIDE DEF f
    <3> QED BY <2>7, <3>1
  <2> QED BY <2>8
<1>4. at = Body(at)
  <2> HIDE DEF Body
  <2> QED BY <1>3
<1>5. /\ at[t] = goal
      /\ \A k \in 0 .. t - 1 : at[k] = cameFrom[<<at[k + 1], k + 1>>][1]
  <2>1. t \in 0 .. t
    BY <1>0
  <2>2. \A k \in 0 .. t - 1 : k \in 0 .. t /\ k # t
    BY <1>0
  <2> HIDE DEF at
  <2> QED BY <1>4, <2>1, <2>2
<1> HIDE DEF at, Body
<1> DEFINE T == {n \in Nat : n <= t => <<at[t - n], t - n>> \in DOMAIN bestG}
<1>6. 0 \in T
  BY <1>0, <1>5
<1>7. ASSUME NEW n \in Nat, n \in T PROVE n + 1 \in T
  <2> SUFFICES ASSUME n + 1 <= t PROVE <<at[t - (n + 1)], t - (n + 1)>> \in DOMAIN bestG
    OBVIOUS
  <2>1. t - n \in 1 .. t /\ (t - n) - 1 = t - (n + 1) /\ t - (n + 1) \in 0 .. t - 1
        /\ (t - (n + 1)) + 1 = t - n
    BY <1>0
  <2>2. <<at[t - n], t - n>> \in DOMAIN bestG
    BY <1>7
  <2>3. at[t - (n + 1)] = cameFrom[<<at[t - n], t - n>>][1]
    BY <1>5, <2>1
  <2> QED BY <1>2, <2>1, <2>2, <2>3
<1>8. ASSUME NEW k \in 0 .. t PROVE <<at[k], k>> \in DOMAIN bestG /\ at[k] \in Cell
  <2>1. Nat \subseteq T
    <3> HIDE DEF T
    <3> QED BY <1>6, <1>7, SetInduction
  <2>2. t - k \in Nat /\ t - k <= t /\ t - (t - k) = k
    BY <1>0
  <2>3. <<at[k], k>> \in DOMAIN bestG
    BY <2>1, <2>2
  <2> QED BY <2>3 DEF Visited
<1>9. at[0] = start
  <2>1. <<at[0], 0>> \in DOMAIN bestG
    BY <1>0, <1>8
  <2>2. ASSUME NEW k \in DOMAIN cameFrom PROVE k # <<at[0], 0>>
    <3>1. k[2] > 0
      BY DEF Traced
    <3> QED BY <3>1
  <2> QED BY <2>1, <2>2 DEF Traced
<1> DEFINE w == [i \in 1 .. t + 1 |-> at[i - 1]]
<1>10. w \in [1 .. t + 1 -> Cell] /\ w[1] = start /\ w[t + 1] = goal
  <2>1. ASSUME NEW i \in 1 .. t + 1 PROVE i - 1 \in 0 .. t /\ at[i - 1] \in Cell
    <3>1. i - 1 \in 0 .. t
      BY <1>0
    <3> QED BY <1>8, <3>1
  <2>2. 1 \in 1 .. t + 1 /\ 1 - 1 = 0 /\ t + 1 \in 1 .. t + 1 /\ (t + 1) - 1 = t
    BY <1>0
  <2> QED BY <1>5, <1>9, <2>1, <2>2
<1>11. ASSUME NEW i \in 1 .. t PROVE Allowed(V, E, w[i], 0 + i - 1, w[i + 1])
  <2>1. /\ i - 1 \in 0 .. t - 1 /\ (i - 1) + 1 = i /\ (i + 1) - 1 = i /\ i \in 0 .. t
        /\ i + 1 \in 1 .. t + 1 /\ 0 + i - 1 = i - 1
    BY <1>0
  <2>2. w[i] = at[i - 1] /\ w[i + 1] = at[i]
    BY <2>1
  <2>3. at[i - 1] = cameFrom[<<at[i], i>>][1] /\ <<at[i], i>> \in DOMAIN bestG
    BY <1>5, <1>8, <2>1
  <2>4. Allowed(V, E, cameFrom[<<at[i], i>>][1], i - 1, at[i])
    BY <1>2, <2>3
  <2> QED BY <2>1, <2>2, <2>3, <2>4
<1> HIDE DEF w
<1> QED BY <1>1, <1>10, <1>11 DEF IsPath, Walk, w
\* Whatever is popped first at the goal came there by a shortest path, and an
\* empty heap means there is none.
LEMMA PoppedIsShortest ==
    ASSUME Visited, Traced, Expanded, NEW e \in open, \A o \in open \ {e} : Before(e, o),
           e[3] = goal
    PROVE  Reconstruct(e[4]) \in ShortestPaths(V, E, start, goal)
<1>1. PICK k \in DOMAIN bestG : e = EntryOf(k)
  BY DEF Visited
<1> DEFINE t == k[2]
<1>2. /\ k = <<goal, t>> /\ e[4] = t /\ e[1] = t + manhattan(goal, goal)
      /\ t \in 0 .. MaxTime
  BY <1>1 DEF EntryOf, Entry, Visited
<1>3. manhattan(goal, goal) = 0
  BY CellCoordinates DEF manhattan, Abs, Visited
<1> HIDE DEF t
<1>4. t \in Nat /\ e[1] = t
  BY <1>2, <1>3, GridAssumption
<1>5. IsPath(V, E, start, goal, t, Reconstruct(t))
  BY <1>2, ReconstructIsPath
<1>6. ASSUME NEW m \in 0 .. t - 1 PROVE goal \notin There(V, E, start, m)
  <2> SUFFICES ASSUME goal \in There(V, E, start, m) PROVE FALSE
    OBVIOUS
  <2>1. m \in 0 .. MaxTime /\ m < t
    BY <1>2, <1>4, GridAssumption
  <2>2. PICK o \in open : o[1] \in Nat /\ o[1] <= m
    BY <2>1, OnTheWay
  <2>3. o # e /\ o[1] < e[1]
    BY <1>4, <2>1, <2>2
  <2>4. Before(e, o)
    BY <2>3
  <2>5. e[1] <= o[1]
    BY <1>4, <2>2, <2>4 DEF Before, Key
  <2> QED BY <1>4, <2>2, <2>3, <2>5
<1>7. start \in Cell /\ goal \in Cell
  BY DEF Visited
<1> QED BY <1>2, <1>5, <1>6, <1>7, ShortestPathsAre

\* An empty heap means that the goal is out of reach.
LEMMA EmptyMeansNone ==
    ASSUME Visited, Expanded, open = {}
    PROVE  ShortestPaths(V, E, start, goal) = {}
<1>1. \A n \in 0 .. MaxTime : goal \notin There(V, E, start, n)
  BY OnTheWay
<1> QED BY <1>1, ShortestPathsAre DEF Visited

\* The search starts with the start alone.
LEMMA InitSearch == Init => Search
<1> SUFFICES ASSUME Init PROVE Search
  OBVIOUS
<1>1. EntryOf(<<start, 0>>) = Entry(0, start, 0)
  BY DEF EntryOf
<1>2. start \in Cell /\ goal \in Cell /\ open = {Entry(0, start, 0)} /\ ~done /\ path = None
  BY AStarAssumption DEF Init
<1>3. DOMAIN bestG = {<<start, 0>>} /\ bestG[<<start, 0>>] = 0 /\ DOMAIN cameFrom = {}
  BY DEF Init
<1>4. <<start, 0>> \in Cell \X (0 .. MaxTime) /\ <<start, 0>>[2] = 0
  BY <1>2, GridAssumption
<1>5. Visited
  BY <1>1, <1>2, <1>3, <1>4 DEF Visited
<1>6. Traced
  BY <1>3 DEF Traced
<1>7. Expanded
  BY <1>1, <1>2, <1>3 DEF Expanded
<1> QED BY <1>2, <1>5, <1>6, <1>7 DEF Search, ReturnsShortest

\* The entries an expansion adds.
LEMMA PushFacts ==
    ASSUME Visited, NEW e \in open, Push(e), UNCHANGED args
    PROVE  \E k \in DOMAIN bestG : \E new \in SUBSET Cell :
              /\ e = EntryOf(k)
              /\ k[2] >= MaxTime => new = {}
              /\ k[2] < MaxTime =>
                    new = {q \in Cell : /\ Allowed(V, E, k[1], k[2], q)
                                        /\ <<q, k[2] + 1>> \notin DOMAIN bestG}
              /\ open' = (open \ {e}) \cup {EntryOf(<<q, k[2] + 1>>) : q \in new}
              /\ DOMAIN bestG' = DOMAIN bestG \cup {<<q, k[2] + 1>> : q \in new}
              /\ DOMAIN cameFrom' = DOMAIN cameFrom \cup {<<q, k[2] + 1>> : q \in new}
              /\ \A x \in DOMAIN bestG' :
                    bestG'[x] = IF x \in {<<q, k[2] + 1>> : q \in new} THEN k[2] + 1 ELSE bestG[x]
              /\ \A x \in DOMAIN cameFrom' :
                    cameFrom'[x] = IF x \in {<<q, k[2] + 1>> : q \in new} THEN k ELSE cameFrom[x]
<1>1. PICK k \in DOMAIN bestG : e = EntryOf(k)
  BY DEF Visited
<1> DEFINE p == k[1]
           t == k[2]
           new == IF e[2] > bestG[<<p, t>>] \/ t >= MaxTime THEN {} ELSE Better(p, t)
           keys == {<<q, t + 1>> : q \in new}
<1>2. k = <<p, t>> /\ p \in Cell /\ t \in 0 .. MaxTime /\ t \in Nat /\ bestG[k] = t
  BY GridAssumption DEF Visited
<1>3. e[2] = t /\ e[3] = p /\ e[4] = t
  BY <1>1 DEF EntryOf, Entry
<1>4. /\ open' = (open \ {e}) \cup {Entry(t + 1, q, t + 1) : q \in new}
      /\ bestG' = [x \in DOMAIN bestG \cup keys |-> IF x \in keys THEN t + 1 ELSE bestG[x]]
      /\ cameFrom' = [x \in DOMAIN cameFrom \cup keys |-> IF x \in keys THEN <<p, t>> ELSE cameFrom[x]]
  BY <1>3 DEF Push
<1>5. Better(p, t) = {q \in Cell : Allowed(V, E, p, t, q) /\ <<q, t + 1>> \notin DOMAIN bestG}
  <2>1. ASSUME NEW q PROVE q \in Better(p, t) <=> /\ Allowed(V, E, p, t, q)
                                                  /\ <<q, t + 1>> \notin DOMAIN bestG
    <3>1. <<q, t + 1>> \in DOMAIN bestG => bestG[<<q, t + 1>>] = t + 1
      BY DEF Visited
    <3>2. ~(bestG[<<p, t>>] + 1 < t + 1)
      BY <1>2
    <3> QED BY <3>1, <3>2 DEF Better, Allowed
  <2>2. \A q : Allowed(V, E, p, t, q) => q \in Cell
    BY <1>2, MoveStays
  <2> QED BY <2>1, <2>2
<1>6. new = IF t >= MaxTime THEN {} ELSE Better(p, t)
  BY <1>2, <1>3
<1>7. new \in SUBSET Cell /\ (t >= MaxTime => new = {})
      /\ (t < MaxTime => new = {q \in Cell : /\ Allowed(V, E, p, t, q)
                                             /\ <<q, t + 1>> \notin DOMAIN bestG})
  BY <1>2, <1>5, <1>6, GridAssumption
<1> HIDE DEF new
<1>8. {Entry(t + 1, q, t + 1) : q \in new} = {EntryOf(<<q, t + 1>>) : q \in new}
  BY DEF EntryOf
<1>9. <<p, t>> = k
  BY <1>2
<1> QED BY <1>1, <1>4, <1>7, <1>8, <1>9

\* An expansion keeps the search in order.
LEMMA PushKeepsSearch ==
    ASSUME Visited, Traced, Expanded, NEW e \in open, Push(e), UNCHANGED args,
           ~(e[3] = goal /\ e[2] <= bestG[<<goal, e[4]>>])
    PROVE  Visited' /\ Traced' /\ Expanded'
<1>0. start' = start /\ goal' = goal /\ V' = V /\ E' = E
  BY DEF args
<1>1. PICK k \in DOMAIN bestG : \E new \in SUBSET Cell :
              /\ e = EntryOf(k)
              /\ k[2] >= MaxTime => new = {}
              /\ k[2] < MaxTime =>
                    new = {q \in Cell : /\ Allowed(V, E, k[1], k[2], q)
                                        /\ <<q, k[2] + 1>> \notin DOMAIN bestG}
              /\ open' = (open \ {e}) \cup {EntryOf(<<q, k[2] + 1>>) : q \in new}
              /\ DOMAIN bestG' = DOMAIN bestG \cup {<<q, k[2] + 1>> : q \in new}
              /\ DOMAIN cameFrom' = DOMAIN cameFrom \cup {<<q, k[2] + 1>> : q \in new}
              /\ \A x \in DOMAIN bestG' :
                    bestG'[x] = IF x \in {<<q, k[2] + 1>> : q \in new} THEN k[2] + 1 ELSE bestG[x]
              /\ \A x \in DOMAIN cameFrom' :
                    cameFrom'[x] = IF x \in {<<q, k[2] + 1>> : q \in new} THEN k ELSE cameFrom[x]
  BY PushFacts
<1>2. PICK new \in SUBSET Cell :
              /\ e = EntryOf(k)
              /\ k[2] >= MaxTime => new = {}
              /\ k[2] < MaxTime =>
                    new = {q \in Cell : /\ Allowed(V, E, k[1], k[2], q)
                                        /\ <<q, k[2] + 1>> \notin DOMAIN bestG}
              /\ open' = (open \ {e}) \cup {EntryOf(<<q, k[2] + 1>>) : q \in new}
              /\ DOMAIN bestG' = DOMAIN bestG \cup {<<q, k[2] + 1>> : q \in new}
              /\ DOMAIN cameFrom' = DOMAIN cameFrom \cup {<<q, k[2] + 1>> : q \in new}
              /\ \A x \in DOMAIN bestG' :
                    bestG'[x] = IF x \in {<<q, k[2] + 1>> : q \in new} THEN k[2] + 1 ELSE bestG[x]
              /\ \A x \in DOMAIN cameFrom' :
                    cameFrom'[x] = IF x \in {<<q, k[2] + 1>> : q \in new} THEN k ELSE cameFrom[x]
  BY <1>1
<1> DEFINE keys == {<<q, k[2] + 1>> : q \in new}
<1>3. /\ k = <<k[1], k[2]>> /\ k[1] \in Cell /\ k[2] \in 0 .. MaxTime /\ k[2] \in Nat
      /\ e[3] = k[1] /\ e[2] = k[2] /\ e[4] = k[2]
  BY <1>2, GridAssumption DEF Visited, EntryOf, Entry
<1>4. ASSUME NEW x \in keys
      PROVE  /\ x[1] \in new /\ x[1] \in Cell /\ x[2] = k[2] + 1 /\ x = <<x[1], k[2] + 1>>
             /\ Allowed(V, E, k[1], k[2], x[1])
             /\ x \notin DOMAIN bestG /\ x \in Cell \X (0 .. MaxTime)
  <2>1. PICK q \in new : x = <<q, k[2] + 1>>
    OBVIOUS
  <2>2. k[2] < MaxTime
    BY <1>2, <1>3, GridAssumption
  <2>3. q \in Cell /\ Allowed(V, E, k[1], k[2], q) /\ <<q, k[2] + 1>> \notin DOMAIN bestG
    BY <1>2, <2>2
  <2>4. k[2] + 1 \in 0 .. MaxTime
    BY <1>3, <2>2, GridAssumption
  <2> QED BY <2>1, <2>3, <2>4
<1>5. k[1] # goal
  <2>1. bestG[<<k[1], k[2]>>] = k[2]
    BY <1>2, <1>3 DEF Visited
  <2> QED BY <1>3, <2>1
<1>6. \A x : EntryOf(x)' = EntryOf(x)
  BY <1>0 DEF EntryOf, Entry
<1>7. Visited'
  <2>1. ASSUME NEW x \in DOMAIN bestG' PROVE bestG'[x] = x[2] /\ x \in Cell \X (0 .. MaxTime)
    BY <1>2, <1>4 DEF Visited
  <2>2. ASSUME NEW o \in open' PROVE \E x \in DOMAIN bestG' : o = EntryOf(x)
    <3>1. CASE o \in open
      BY <1>2, <3>1 DEF Visited
    <3>2. CASE o \in {EntryOf(<<q, k[2] + 1>>) : q \in new}
      BY <1>2, <3>2
    <3> QED BY <1>2, <3>1, <3>2
  <2> QED BY <1>0, <1>2, <1>6, <2>1, <2>2 DEF Visited
<1>8. Traced'
  <2>1. <<start, 0>> \notin keys
    BY <1>3, <1>4
  <2>2. DOMAIN cameFrom' = DOMAIN bestG' \ {<<start, 0>>}
    BY <1>2, <2>1 DEF Traced
  <2>3. ASSUME NEW x \in DOMAIN cameFrom'
        PROVE  \E p \in Cell : /\ x[2] > 0 /\ cameFrom'[x] = <<p, x[2] - 1>>
                               /\ <<p, x[2] - 1>> \in DOMAIN bestG'
                               /\ Allowed(V, E, p, x[2] - 1, x[1])
    <3>1. CASE x \in keys
      <4>1. x[2] > 0 /\ x[2] - 1 = k[2] /\ cameFrom'[x] = k
        BY <1>2, <1>3, <1>4, <3>1
      <4>2. k \in DOMAIN bestG'
        BY <1>2
      <4>3. Allowed(V, E, k[1], k[2], x[1])
        BY <1>4, <3>1
      <4> QED BY <1>3, <4>1, <4>2, <4>3
    <3>2. CASE x \notin keys
      <4>1. x \in DOMAIN cameFrom /\ cameFrom'[x] = cameFrom[x]
        BY <1>2, <3>2
      <4>2. DOMAIN bestG \subseteq DOMAIN bestG'
        BY <1>2
      <4> QED BY <4>1, <4>2 DEF Traced
    <3> QED BY <3>1, <3>2
  <2> QED BY <1>0, <2>2, <2>3 DEF Traced
<1>9. Expanded'
  <2>1. DOMAIN bestG \subseteq DOMAIN bestG'
    BY <1>2
  <2>2. ASSUME NEW x \in DOMAIN bestG', EntryOf(x) \notin open'
        PROVE  /\ x[1] # goal
               /\ x[2] < MaxTime =>
                     \A q : Allowed(V, E, x[1], x[2], q) => <<q, x[2] + 1>> \in DOMAIN bestG'
    <3>1. CASE x \in keys
      <4>1. x[1] \in new /\ x = <<x[1], k[2] + 1>>
        BY <1>4, <3>1
      <4>2. EntryOf(x) \in {EntryOf(<<q, k[2] + 1>>) : q \in new}
        BY <4>1
      <4> QED BY <1>2, <2>2, <4>2
    <3>2. CASE x \in DOMAIN bestG /\ EntryOf(x) = e
      <4>1. x = k
        <5>1. x = <<x[1], x[2]>> /\ EntryOf(x)[3] = x[1] /\ EntryOf(x)[4] = x[2]
          BY <3>2 DEF Visited, EntryOf, Entry
        <5> QED BY <1>3, <3>2, <5>1
      <4>2. ASSUME k[2] < MaxTime, NEW q, Allowed(V, E, k[1], k[2], q)
            PROVE  <<q, k[2] + 1>> \in DOMAIN bestG'
        <5>1. q \in Cell
          BY <1>3, <4>2, MoveStays
        <5>2. CASE <<q, k[2] + 1>> \in DOMAIN bestG
          BY <2>1, <5>2
        <5>3. CASE <<q, k[2] + 1>> \notin DOMAIN bestG
          <6>1. q \in new
            BY <1>2, <4>2, <5>1, <5>3
          <6> QED BY <1>2, <6>1
        <5> QED BY <5>2, <5>3
      <4> QED BY <1>5, <4>1, <4>2
    <3>3. CASE x \in DOMAIN bestG /\ EntryOf(x) # e
      <4>1. EntryOf(x) \notin open
        BY <1>2, <2>2, <3>3
      <4> QED BY <2>1, <3>3, <4>1 DEF Expanded, Allowed
    <3> QED BY <1>2, <3>1, <3>2, <3>3
  <2> QED BY <1>0, <1>6, <2>2 DEF Expanded
<1> QED BY <1>7, <1>8, <1>9

\* So does every step.
LEMMA SearchInductive == Search /\ [Next]_vars => Search'
<1> SUFFICES ASSUME Search, [Next]_vars PROVE Search'
  OBVIOUS
<1>1. CASE Pop
  <2>0. UNCHANGED args /\ ~done /\ Visited /\ Traced /\ Expanded /\ path = None
    BY <1>1 DEF Pop, Search
  <2>1. PICK e \in open :
            /\ \A o \in open \ {e} : Before(e, o)
            /\ IF e[3] = goal /\ e[2] <= bestG[<<goal, e[4]>>]
               THEN /\ done' = TRUE /\ path' = Reconstruct(e[4])
                    /\ open' = open \ {e}
                    /\ UNCHANGED <<cameFrom, bestG>>
               ELSE Push(e) /\ UNCHANGED <<done, path>>
    BY <1>1 DEF Pop
  <2>2. start' = start /\ goal' = goal /\ V' = V /\ E' = E
    BY <2>0 DEF args
  <2>3. CASE e[3] = goal /\ e[2] <= bestG[<<goal, e[4]>>]
    <3>1. /\ done' = TRUE /\ path' = Reconstruct(e[4])
          /\ open' = open \ {e} /\ UNCHANGED <<cameFrom, bestG>>
      BY <2>1, <2>3
    <3>2. path' \in ShortestPaths(V, E, start, goal)
      BY <2>0, <2>1, <2>3, <3>1, PoppedIsShortest
    <3>3. ReturnsShortest'
      BY <2>2, <3>2 DEF ReturnsShortest
    <3>4. Visited' /\ Traced'
      BY <2>0, <2>2, <3>1 DEF Visited, Traced, EntryOf, Entry
    <3> QED BY <3>1, <3>3, <3>4 DEF Search
  <2>4. CASE ~(e[3] = goal /\ e[2] <= bestG[<<goal, e[4]>>])
    <3>1. Push(e) /\ UNCHANGED <<done, path>>
      BY <2>1, <2>4
    <3>2. Visited' /\ Traced' /\ Expanded'
      BY <2>0, <2>4, <3>1, PushKeepsSearch
    <3> QED BY <2>0, <3>1, <3>2 DEF Search, ReturnsShortest
  <2> QED BY <2>3, <2>4
<1>2. CASE Exhausted
  <2>1. Visited /\ Traced /\ Expanded /\ path = None /\ open = {}
    BY <1>2 DEF Exhausted, Search
  <2>2. /\ done' = TRUE /\ path' = path /\ open' = open /\ bestG' = bestG /\ cameFrom' = cameFrom
        /\ start' = start /\ goal' = goal /\ V' = V /\ E' = E
    BY <1>2 DEF Exhausted, args
  <2>3. ShortestPaths(V, E, start, goal) = {}
    BY <2>1, EmptyMeansNone
  <2>4. ReturnsShortest'
    BY <2>1, <2>2, <2>3 DEF ReturnsShortest
  <2>5. Visited' /\ Traced'
    BY <2>1, <2>2 DEF Visited, Traced, EntryOf, Entry
  <2> QED BY <2>2, <2>4, <2>5 DEF Search
<1>3. CASE UNCHANGED vars
  <2>1. /\ done' = done /\ path' = path /\ open' = open /\ bestG' = bestG /\ cameFrom' = cameFrom
        /\ start' = start /\ goal' = goal /\ V' = V /\ E' = E
    BY <1>3 DEF vars, args
  <2> QED BY <2>1 DEF Search, Visited, Traced, Expanded, ReturnsShortest, EntryOf, Entry
<1> QED BY <1>1, <1>2, <1>3 DEF Next, Returned

\* On every grid and for all constraints the search returns a shortest path that
\* keeps them, and None only when there is no path within the time limit
\* (astar.rs:32-82).
THEOREM SearchIsOptimal == Spec => []ReturnsShortest
<1>1. Search => ReturnsShortest
  BY DEF Search
<1> QED BY <1>1, InitSearch, SearchInductive, PTL DEF Spec

------------------------------------------------------------------------------
(* The search ends. *)

\* The cells and times whose entry the search may still take from the heap.
ToTake == {k \in Cell \X (0 .. MaxTime) : k \in DOMAIN bestG => EntryOf(k) \in open}

SearchNearsItsEnd ==
    [][Pop => /\ IsFiniteSet(ToTake) /\ Cardinality(ToTake) > 0
              /\ Cardinality(ToTake') = Cardinality(ToTake) - 1]_vars

\* An entry stands for one cell and time.
LEMMA EntryOfOne == ASSUME NEW k, NEW x, EntryOf(k) = EntryOf(x),
                           k \in Cell \X (0 .. MaxTime), x \in Cell \X (0 .. MaxTime)
                    PROVE  k = x
<1>1. EntryOf(k)[3] = k[1] /\ EntryOf(k)[4] = k[2] /\ EntryOf(x)[3] = x[1] /\ EntryOf(x)[4] = x[2]
  BY DEF EntryOf, Entry
<1>2. k = <<k[1], k[2]>> /\ x = <<x[1], x[2]>>
  OBVIOUS
<1> QED BY <1>1, <1>2

\* An iteration takes one of them off: what it pushes was one before.
LEMMA PopTakesOne ==
    ASSUME Search, Pop
    PROVE  \E k \in ToTake : ToTake' = ToTake \ {k}
<1>1. UNCHANGED args /\ ~done /\ Visited
  BY DEF Pop, Search
<1>2. goal' = goal
  BY <1>1 DEF args
<1>3. PICK e \in open : \/ open' = open \ {e} /\ bestG' = bestG
                        \/ Push(e)
  BY DEF Pop
<1>4. DOMAIN bestG \subseteq Cell \X (0 .. MaxTime)
  BY <1>1 DEF Visited
<1> DEFINE Pushes(j, new) ==
               /\ e = EntryOf(j)
               /\ new \cap DOMAIN bestG = {}
               /\ open' = (open \ {e}) \cup {EntryOf(x) : x \in new}
               /\ DOMAIN bestG' = DOMAIN bestG \cup new
<1>5. PICK k \in DOMAIN bestG, new \in SUBSET (Cell \X (0 .. MaxTime)) : Pushes(k, new)
  <2>1. CASE Push(e)
    <3>1. PICK j \in DOMAIN bestG, cells \in SUBSET Cell :
              /\ e = EntryOf(j)
              /\ j[2] >= MaxTime => cells = {}
              /\ j[2] < MaxTime =>
                    cells = {q \in Cell : /\ Allowed(V, E, j[1], j[2], q)
                                          /\ <<q, j[2] + 1>> \notin DOMAIN bestG}
              /\ open' = (open \ {e}) \cup {EntryOf(<<q, j[2] + 1>>) : q \in cells}
              /\ DOMAIN bestG' = DOMAIN bestG \cup {<<q, j[2] + 1>> : q \in cells}
      BY <1>1, <2>1, PushFacts
    <3> DEFINE keys == {<<q, j[2] + 1>> : q \in cells}
    <3>2. keys \subseteq Cell \X (0 .. MaxTime) /\ keys \cap DOMAIN bestG = {}
      BY <1>4, <3>1, GridAssumption
    <3>3. {EntryOf(<<q, j[2] + 1>>) : q \in cells} = {EntryOf(x) : x \in keys}
      OBVIOUS
    <3>4. Pushes(j, keys)
      BY <3>1, <3>2, <3>3
    <3> HIDE DEF keys, Pushes
    <3> QED BY <3>1, <3>2, <3>4
  <2>2. CASE open' = open \ {e} /\ bestG' = bestG
    <3>1. PICK j \in DOMAIN bestG : e = EntryOf(j)
      BY <1>1 DEF Visited
    <3>2. Pushes(j, {})
      BY <2>2, <3>1
    <3> HIDE DEF Pushes
    <3> QED BY <3>1, <3>2
  <2> QED BY <1>3, <2>1, <2>2
<1>6. Pushes(k, new)
  BY <1>5
<1>7. k \in ToTake
  BY <1>3, <1>4, <1>6 DEF ToTake
<1>8. ASSUME NEW x \in Cell \X (0 .. MaxTime)
      PROVE  /\ EntryOf(x)' = EntryOf(x)
             /\ x \in ToTake' <=> (x \in DOMAIN bestG' => EntryOf(x) \in open')
             /\ x \in ToTake <=> (x \in DOMAIN bestG => EntryOf(x) \in open)
             /\ x # k => EntryOf(x) # e
  BY <1>2, <1>4, <1>6, EntryOfOne DEF ToTake, EntryOf, Entry
<1>9. ASSUME NEW x \in Cell \X (0 .. MaxTime)
      PROVE  x \in ToTake' <=> x \in ToTake /\ x # k
  <2>1. CASE x = k
    <3>1. \A y \in new : EntryOf(y) # EntryOf(k)
      BY <1>4, <1>6, EntryOfOne
    <3> QED BY <1>6, <1>8, <2>1, <3>1
  <2>2. CASE x \in new
    BY <1>6, <1>8, <2>2
  <2>3. CASE x # k /\ x \notin new
    <3>1. \A y \in new : EntryOf(y) = EntryOf(x) => y = x
      BY <1>4, <1>6, EntryOfOne
    <3> QED BY <1>6, <1>8, <2>3, <3>1
  <2> QED BY <2>1, <2>2, <2>3
<1>10. ToTake \subseteq Cell \X (0 .. MaxTime) /\ ToTake' \subseteq Cell \X (0 .. MaxTime)
  BY DEF ToTake
<1>11. ToTake' = ToTake \ {k}
  BY <1>9, <1>10
<1> QED BY <1>7, <1>11

LEMMA CellFinite == IsFiniteSet(Cell)
<1> DEFINE A == 0 .. Width - 1
           B == 0 .. Height - 1
           C == 0 .. Depth - 1
           f == [x \in (A \X B) \X C |-> <<x[1][1], x[1][2], x[2]>>]
<1>1. IsFiniteSet(A) /\ IsFiniteSet(B) /\ IsFiniteSet(C)
  BY GridAssumption, FS_Interval
<1>2. Cell = A \X B \X C
  BY DEF Cell
<1> HIDE DEF A, B, C
<1>3. IsFiniteSet((A \X B) \X C)
  BY <1>1, FS_Product
<1>4. f \in Surjection((A \X B) \X C, Cell)
  <2>1. f \in [(A \X B) \X C -> Cell]
    BY <1>2
  <2>2. ASSUME NEW p \in Cell PROVE \E x \in (A \X B) \X C : f[x] = p
    <3>1. p[1] \in A /\ p[2] \in B /\ p[3] \in C /\ p = <<p[1], p[2], p[3]>>
      BY <1>2
    <3> DEFINE x == <<<<p[1], p[2]>>, p[3]>>
    <3>2. x \in (A \X B) \X C /\ f[x] = <<p[1], p[2], p[3]>>
      BY <3>1
    <3> QED BY <3>1, <3>2
  <2> QED BY <2>1, <2>2 DEF Surjection
<1> QED BY <1>3, <1>4, FS_Surjection

\* No cell and time is taken twice, however the constraints send the search
\* round: each iteration leaves one less to take, so the loop makes at most one
\* for each time and cell of the grid, blocked ones counted (astar.rs:32-82).
THEOREM SearchEnds == Spec => SearchNearsItsEnd
<1>1. IsFiniteSet(Cell \X (0 .. MaxTime))
  <2>1. IsFiniteSet(0 .. MaxTime)
    BY GridAssumption, FS_Interval
  <2> QED BY <2>1, CellFinite, FS_Product
<1>2. ASSUME Search, Pop
      PROVE  /\ IsFiniteSet(ToTake) /\ Cardinality(ToTake) > 0
             /\ Cardinality(ToTake') = Cardinality(ToTake) - 1
  <2>1. PICK k \in ToTake : ToTake' = ToTake \ {k}
    BY <1>2, PopTakesOne
  <2>2. ToTake \in SUBSET (Cell \X (0 .. MaxTime))
    BY DEF ToTake
  <2>3. IsFiniteSet(ToTake)
    BY <1>1, <2>2, FS_Subset
  <2>4. Cardinality(ToTake \ {k}) = Cardinality(ToTake) - 1 /\ Cardinality(ToTake \ {k}) \in Nat
    BY <2>1, <2>3, FS_RemoveElement, FS_CardinalityType
  <2>5. Cardinality(ToTake) \in Nat
    BY <2>3, FS_CardinalityType
  <2> QED BY <2>1, <2>3, <2>4, <2>5
<1>3. Search /\ [Next]_vars =>
          [Pop => /\ IsFiniteSet(ToTake) /\ Cardinality(ToTake) > 0
                  /\ Cardinality(ToTake') = Cardinality(ToTake) - 1]_vars
  BY <1>2
<1> QED BY <1>3, InitSearch, SearchInductive, PTL DEF Spec, SearchNearsItsEnd
==============================================================================

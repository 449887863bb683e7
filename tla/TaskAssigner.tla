---------------------------- MODULE TaskAssigner -----------------------------
(***************************************************************************)
(* The greedy auction of uav_swarm_coordinator/swarm_algorithms/src/       *)
(* task_assigner/mod.rs: goals in their order, each to the drone whose     *)
(* endpoint is nearest.  Coordinates are i32, subtracted as such and then  *)
(* widened to i64 for the squares; a release build wraps.                  *)
(***************************************************************************)
EXTENDS Integers, Sequences, FiniteSetsExt, Functions

CONSTANTS Span,   \* how many values a coordinate has, 2^32 in the code
          Dims    \* of the space, 3 in the code

ASSUME SpanAssumption == Span \in Nat \ {0} /\ Span % 2 = 0 /\ Dims \in 1 .. 3

\* A signed integer that has n values.
Wrap(n, v) == ((v + n \div 2) % n) - n \div 2
Squares(a, b) == LET d(k) == Wrap(Span, a[k] - b[k])
                 IN  SumFunction([k \in DOMAIN a |-> d(k) * d(k)])

\* The key an offer is compared by.
\* Mutation: the squares are formed before they are widened.
KeyNarrow(a, b) == Wrap(Span, Squares(a, b))
Key(a, b) == Wrap(Span * Span, Squares(a, b))

\* A drone is a record [id, position, last_wp], last_wp empty or one point.
Endpoint(d) == IF d.last_wp = <<>> THEN d.position ELSE d.last_wp[1]

\* min_by_key() keeps the first of equals; unwrap() panics without drones.
Panics(drones, goals) == drones = <<>> /\ goals # <<>>
Winner(drones, goal) ==
    LET key(i) == Key(Endpoint(drones[i]), goal)
    IN  CHOOSE i \in DOMAIN drones : /\ \A j \in DOMAIN drones : key(i) <= key(j)
                                     /\ \A j \in 1 .. i - 1 : key(i) < key(j)

\* At first nobody has a goal; then the winner of goal n gets it.  The drone
\* that moves is the first with the winner's id.
Begin(drones) == [drones |-> drones,
                  assignment |-> [id \in {drones[i].id : i \in DOMAIN drones} |-> <<>>]]
Take(goals, s, n) ==
    LET id == s.drones[Winner(s.drones, goals[n])].id
        i == CHOOSE i \in DOMAIN s.drones :
                 s.drones[i].id = id /\ \A j \in 1 .. i - 1 : s.drones[j].id # id
    IN  [drones |-> [s.drones EXCEPT ![i].last_wp = <<goals[n]>>],
         assignment |-> [s.assignment EXCEPT ![id] = Append(@, n)]]

\* The endpoints, and which drone took which goals.
assign(drones, goals) ==
    LET after[n \in 0 .. Len(goals)] ==
            IF n = 0 THEN Begin(drones) ELSE Take(goals, after[n - 1], n)
    IN  after[Len(goals)]

\* total_distance() adds the roots of these squares, from the position of
\* each drone through its goals.
Legs(drones, goals, assignment) ==
    [i \in DOMAIN drones |->
        LET list == assignment[drones[i].id]
        IN  [k \in DOMAIN list |->
                Squares(IF k = 1 THEN drones[i].position ELSE goals[list[k - 1]], goals[list[k]])]]

------------------------------------------------------------------------------
\* A field of a quarter of the coordinates' range, and a fleet of distinct
\* drones at rest in it.
Area == -(Span \div 8) .. (Span \div 8) - 1
Points == [1 .. Dims -> Area]
IsFleet(drones) ==
    /\ drones \in Seq([id : Nat, position : Points, last_wp : {<<>>}])
    /\ \A i, j \in DOMAIN drones : i # j => drones[i].id # drones[j].id

\* The square of the distance, and where a drone that flies a list of goals
\* is when goal n is auctioned.
Square(v) == v * v
Distance(p, g) == SumFunction([k \in DOMAIN p |-> Square(p[k] - g[k])])
Place(drone, list, goals, n) ==
    LET past == {k \in DOMAIN list : list[k] < n}
    IN  IF past = {} THEN drone.position ELSE goals[list[Max(past)]]

\* For such a fleet: every goal is flown to once, each drone flies to its goals
\* in order, and no drone of the fleet, standing where the goals before had
\* left it, was truly nearer to a goal than the one that got it.  The legs
\* total_distance() adds are the ones the auction compared.
NearestTakesGoal(drones, goals) ==
    LET s == assign(drones, goals)
        list(i) == s.assignment[drones[i].id]
        at(i, n) == Place(drones[i], list(i), goals, n)
    IN  /\ \A n \in DOMAIN goals :
               \E i \in DOMAIN drones :
                   /\ \A j \in DOMAIN drones :
                        (\E k \in DOMAIN list(j) : list(j)[k] = n) <=> i = j
                   /\ \A j \in DOMAIN drones :
                        Distance(at(i, n), goals[n]) <= Distance(at(j, n), goals[n])
        /\ \A i \in DOMAIN drones : \A k \in DOMAIN list(i) :
               /\ k > 1 => list(i)[k - 1] < list(i)[k]
               /\ Legs(drones, goals, s.assignment)[i][k]
                    = Distance(at(i, list(i)[k]), goals[list(i)[k]])
        /\ \A i \in DOMAIN drones : list(i) # <<>> =>
               s.drones[i].last_wp = <<goals[list(i)[Len(list(i))]]>>
==============================================================================

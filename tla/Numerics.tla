------------------------------ MODULE Numerics -------------------------------
(***************************************************************************)
(* The algorithms without concurrency, each on every input of a set: an    *)
(* initial state is an input, and only the pose filter has steps.  An      *)
(* assumption per program says which inputs it is made for.                *)
(***************************************************************************)
EXTENDS Toolpath, FrameCodec, CommandPath, TaskAssigner, Inference, PoseConsensus

CONSTANTS Lenses,       \* heights at the radii of a lens
          Paths,        \* heights of a path, expected or measured
          Engines,      \* what the ECU measures, a fraction for every field
          Percents,     \* numbers sent as a throttle
          Fleets, GoalLists,  \* drones and goals of an auction
          Scans         \* what a lidar's beams measure, fractions

ASSUME NumericsAssumption ==
    /\ Lenses \subseteq Seq(Int) /\ Paths \subseteq Seq(Int)
    /\ \A s \in Engines : IsMeasurement(s)
    /\ Percents \subseteq Int
    /\ \A drones \in Fleets : IsFleet(drones)
    /\ GoalLists \subseteq Seq(Points)
    /\ \A beams \in Scans : IsScan(beams)

VARIABLE input
numericsVars == <<input, states>>

\* What an algorithm is run on.
Inputs == [kind : {"spline"}, z : Lenses]
          \cup [kind : {"path"}, expected : Paths, actual : Paths]
          \cup [kind : {"telemetry"}, s : Engines]
          \cup [kind : {"throttle"}, value : Percents, throttle : 0 .. 100]
          \cup [kind : {"auction"}, drones : Fleets, goals : GoalLists]
          \cup [kind : {"scan"}, beams : Scans] \cup [kind : {"pose"}]

NumericsInit == PoseInit /\ input \in Inputs
NumericsNext ==
    \/ input.kind = "pose" /\ PoseNext /\ UNCHANGED input
    \/ input.kind # "pose" /\ UNCHANGED numericsVars
NumericsSpec == NumericsInit /\ [][NumericsNext]_numericsVars
------------------------------------------------------------------------------
\* Toolpath: a lens that is not refused gets its natural spline, and a
\* measured path is compared with it honestly.
ToolpathIsRight ==
    /\ input.kind = "spline" /\ ~Refused(Len(input.z), 2, 1) => IsNaturalSpline(input.z, 2)
    /\ input.kind = "path" => DeviationIsHonest(input.expected, input.actual)

\* Codecs: the gateway shows what the ECU measured.
TelemetrySurvives == input.kind = "telemetry" => RoundTrip(input.s)

\* Commands, through both programs: a number that fits a byte sets the
\* throttle it names or is refused, and no number takes the engine beyond its
\* range.  Of a number that does not fit it says no more than that: the
\* gateway has cut it to another (ThrottleRangeIsKept).
Asked(value) == [topic |-> "set_throttle", payload |-> "object", value |-> value]
ThrottleIsAsked ==
    input.kind = "throttle" =>
        /\ ThrottleAsAsked(Asked(input.value), input.throttle)
        /\ ThrottleInRange(Asked(input.value), input.throttle)

\* The documented range of the parameter, 0 to 100, holds of the number a client
\* publishes as it: any other is refused (docs/can_fd_frame_format.md:56,
\* docs/uml/sequence_diagram.puml:12-13).
ThrottleRangeIsKept ==
    input.kind = "throttle" => RefusedBeyondRange(Asked(input.value), input.throttle)

\* Task assigner: each goal goes to the drone that is truly the nearest.
AuctionIsGreedy ==
    input.kind = "auction" /\ ~Panics(input.drones, input.goals)
        => NearestTakesGoal(input.drones, input.goals)

\* Inference: every layer is exact to half a step.
LayersAreExact == input.kind = "scan" => LayersAreHalfStepExact(input.beams)

\* Pose consensus: FusionIsBounded, in its module.
==============================================================================

# Verification of precision-optics-simulators

TLA+ models of the simulators and controllers of this repository, with the TLC
configurations that check them on small instances and TLAPS proofs of the
properties that matter most. Paths below are relative to the repository.

## 1. The system

The repository is a collection of programs. What each keeps, what can be done
to it, what is hard about it, and what makes it correct:

| Part | State | Operations | What is hard | Correct when |
|---|---|---|---|---|
| **Telemetry logger** (`high_precision_optical_simulator`, `TelemetryLogger`) | ring of frames, atomic `head_`, `tail_`, `running_`, `dropped_`, CSV stream | `push()`, `stop()`, writer thread | lock-free, two threads, stale loads, shutdown race | rows are the accepted frames in order; no slot is read while written; `stop()` returns; rows reach the disk |
| **Positioning lifecycle** (`PositioningFsm` over `src/hal`) | lifecycle state, last error; four devices | `start`, `calibrate`, `activate`, `pause`, `fault`, `reset`; device commands by the control loop | a device failing midway; commands in any state | nothing moves that was not commanded since the last start; a fault stops all motion |
| **Toolpath generator, lens surface** | spline coefficients | `fitSpline`, `evalAt`, `generate`, `analyseDeviation` | elimination and back substitution on shifted indexes; the last interval; floating point | the surface between knots is the natural spline through them; the path lies on it; no deviation exceeds the peak |
| **ECU state machine** (`zephyr_canfd_ecu_node/ecu`, `EcuStateMachine`) | mode, fault bitmap, diagnostic timer, bus-off flag | `update`, `handle_command`, `set_bus_off`, `trigger_bus_recovery` | every order of the three callers; hysteresis | FAULT is left for operation only clean; no fault goes unseen; sessions are timed in full |
| **ECU main loop** (`ecu/src/main.cpp`) | command queue, loop locals | drain commands, update, recover, send | the CAN callback interrupts any access | no race hides a bus-off; an outage is repaired or shown |
| **ECU physics** (`physics_model.cpp`) | six quantities, throttle | `step`, `set_throttle`, `reset` | ranges against thresholds and wire fields | each quantity stays in its range |
| **Frame codecs** (`can_fd_frames.cpp`, `frame_codec.cpp`) | none | pack, decode | two copies of one layout: byte order, sign, scaling; an int cut to a byte | what the ECU packs the gateway decodes; a number that fits a byte sets the percentage it names or is refused |
| **Telemetry gateway** (`gateway/`) | socket, cached history, MQTT connection, four threads | start-up, receive, publish, command, shutdown | blocking reads, joins, a connection lost at any point | history is the newest frames; topics keep step; commands answer messages; shutdown ends |
| **A\*** (`uav_swarm_coordinator`, `astar.rs`) | open heap, best costs, predecessors | one search | constraints in space and time | a shortest path that keeps the constraints, or none |
| **Conflict-based search** (`cbs.rs`) | heap of constraint nodes | `plan` | completeness of the split, node limit | answers are collision-free and optimal |
| **Task assigner** (`uav_swarm_coordinator`) | endpoint of each drone | `assign`, `total_distance` | coordinates subtracted at 32 bits; ties; endpoints that move | each goal goes once, to the drone that is truly the nearest |
| **Pose consensus** (`uav_swarm_coordinator`) | newest estimate of each drone | `update`, `fused_position`, `swarm_centroid` | variances of zero, below zero, infinite, NaN | the fusion lies among the estimates, nearer to the surer one |
| **Ray tracer** (`mc_optical_ray_tracer`) | scene, BVH, luminance map behind locks | `add_triangle`, `commit`, `intersect`; `render` by rows on several threads | tree against all triangles; partition of rows; a thread that fails to start | the nearest hit is found; each pixel is sampled in full; no task outlives the map |
| **Quadcopter controller** (`edge_ai_quadcopter_controller`) | PID integrators and last errors, activations | control tick, reset, motor mixer, inference | saturation, anti-windup, NaN, narrowing to int8 | integrals stay bounded; saturated motors follow the command; each layer is exact to half a step |
| **ROS 2 AMR stack** | nothing: its directories are empty | - | - | - |

How the parts interact. Only the ECU and the gateway are parts of one running
system: the gateway reads telemetry frames off the CAN bus and writes command
frames to it; MQTT and HTTPS clients stand on its other side. Inside the ECU
the CAN driver's state-change callback shares the state machine with the main
loop without a lock, and the receive filter fills the loop's message queue. In
the optical simulator the control loop calls lifecycle, devices and
`push()` from one thread and shares only the ring with the writer thread. A
control tick of the quadcopter asks the network, then the three controllers,
then the mixer, all in one thread. The
planner's high level calls the low level as a function. The ray tracer's tasks
share the scene, which nobody changes while they run, and the luminance map.

## 2. Modules

| Module | Models | Extends |
|---|---|---|
| `LossyFifo` | what the telemetry ring and the ECU's command queue promise: a bounded queue that may refuse | |
| `TelemetryLogger` | the ring, access by access | `INSTANCE LossyFifo` |
| `EcuStateMachine` | the mode machine, one call at a time | |
| `EcuNode`, `MCEcuNode` | main loop, queue, controller and callback around it | `EcuStateMachine` |
| `PhysicsModel`, `MCPhysicsModel` | the engine, against thresholds and wire fields | |
| `MCEcuParts` | instances of these two, each alone | `EcuStateMachine`, `MCPhysicsModel` |
| `Ecu_proofs` | state machine, main loop and engine proved about | `EcuNode`, `PhysicsModel`; `INSTANCE LossyFifo` |
| `CommandPath` | a command through the gateway's and the ECU's code, and its answer | |
| `Gateway`, `MCGateway` | the gateway's four threads and its environment | `CommandPath` |
| `Gateway_proofs` | its safety invariants | `Gateway` |
| `Positioning`, `MCPositioning` | lifecycle and devices | |
| `Optical_proofs` | telemetry ring and lifecycle proved about | `TelemetryLogger`, `Positioning` |
| `SwarmGrid` | grid, moves, and the contract of the low level | |
| `SwarmGrid_proofs` | what that contract says of paths; induction on sets of naturals; sums | `SwarmGrid` |
| `AStar`, `MCAStar`, `AStar_proofs` | the low-level search, iteration by iteration | `SwarmGrid` |
| `Bvh` | scene and bounding volume hierarchy: building, intersecting | |
| `RayTracer`, `MCRayTracer` | `render()` and its tasks over that scene | `Bvh` |
| `RayTracer_proofs` | map, picture and nearest hit proved about | `RayTracer` |
| `Cbs`, `MCCbs`, `Cbs_proofs` | the constraint tree over that contract, against all joint plans | `SwarmGrid` |
| `Ieee` | floats as whole numbers and the three that are no numbers | |
| `Quadcopter`, `MCQuadcopter` | PID, mixer and the control tick | `Ieee` |
| `Rational` | exact fractions | |
| `FrameCodec` | both codecs of the telemetry frame | `Rational` |
| `Toolpath` | spline, path, deviation | `Rational` |
| `Inference` | the INT8 interpreter | `Rational` |
| `PoseConsensus` | the fusion of estimates | `Rational`, `Ieee` |
| `TaskAssigner` | the auction | |
| `Numerics` | the last five and `CommandPath`, each on every input of a set | all six |
| `MCNumerics` | the sets of inputs | `Numerics` |
| `MCAlgorithms` | those and the flight controller, each alone | `MCNumerics`, `MCQuadcopter` |
| `Numerics_proofs` | those algorithms and the flight controller proved about | `Numerics`, `Quadcopter`, `SwarmGrid_proofs` |

A definition whose comment begins "Mutation:" is a plausible bug in the
operator that follows it. Replacing the operator by it makes TLC report the
property the pair belongs to (`mutants` in `PROJECT.json`), which shows that
the property does look at that code.

### Telemetry logger

`buf`, `head`, `tail`, `dropped`, `running` are the members. `push()` is
`PushCheck` (load `head_`, full test), `PushFill` (assign the slot),
`PushPublish` (store `tail_`); `stop()` is `StopAsk` and `StopJoin`;
`writerLoop()` is `LoadTail`, `SeeRunning` / `SeeStopped`, `WriteRow`,
`ReleaseSlot`, `Flush`. A load of the other thread's atomic returns any value
that thread stored since this thread's last load: that is coherence and all the
code's orders give. `headSeen` and `tailSeen` are the values last seen. The
relaxed load of `running_` may return the old value as well (`SeeRunning` after
`StopAsk`). Slots are plain memory, so two threads in one slot are a data race
(`NoSlotRace`, a part of `RingSafe`). The text of the row is left out.

### ECU

`EcuStateMachine` has one action per call. The bitmap is the set of its bits; a
sensor is `good`, `band` or `bad` by the side of its two thresholds it is on,
which is all `evaluate_faults()` looks at. Time is in telemetry periods of
10 ms; a loop takes one of them in DIAGNOSTIC and two elsewhere.

`EcuNode` refines the atomicity: the callback is one step (interrupt level),
and the main loop takes a step per access to a shared member. A compound
assignment to the bitmap loads it into `reg` in one step and stores it in
another; the three sensors' assignments of `evaluate_faults()` are merged into
one such pair, which widens the window. A test of a member and the write it
guards are two steps. The controller may recover on its own at any time or not
at all; once asked through `can_recover()` it does. A command frame shorter
than eight bytes is ignored by `unpack_command()` and does not appear.
Start-up is `Boot` (device, FD mode, callback) and `AddFilter`; either may fail
and end `main()`, and after the second the callback stays registered on a
machine no loop serves. The sequence counter and the uptime are only numbers in
the telemetry frame.

`PhysicsModel` lets a first-order lag stop anywhere between old value and
target, which covers every step size and time constant with `0 < dt/tau < 1`.
It shows that `MCEcuNode`'s steady readings are the real ones: no sensor can
ever report a fault (`EngineNeverFaults`), whatever the ECU's own test expects
of the engine (section 5). `FrameCodec` models the 48 bytes of the telemetry frame:
widths, byte order, sign, scaling, the reserved bytes and the length test, the
writer's table and the reader's table apart, as the two programs have them.

`CommandPath` puts the two programs together for commands: `Translate` is
`message_arrived()` (which command, which parameter, an int cut to a byte, an
exception that drops the message), then both codecs, the checks of
`handle_command()`, the clamp of `set_throttle()` and the response.

### Gateway

Threads: main (`OpenOk` ... `JoinRx`), the receive thread (`RxTest` ...
`RxPublish`), the MQTT client's callback thread (`Arrive`, `CbCheck`,
`CbWrite`), the HTTPS server (`ServerStep`). A telemetry frame is its number of
arrival, all frames that are only logged or refused are `Other`. The kernel's
socket queue, the MQTT client and the HTTPS server are external and behave as
the calls assume: a bounded queue that drops, a connection that may be lost at
any time and stays lost, a `stop()` that acts only on a server that listens.
`update_telemetry()` and the GET handlers exclude each other by a mutex, so the
former is one step and the latter, which only read, are the operators
`GetLatest` and `GetHistory` that `HistoryIsNewest` evaluates in every state.
What a message becomes is `CommandPath!Translate`. `write_frame()` tests the
descriptor (`CbCheck`) and writes (`CbWrite`) in two steps against
`close_bus()`. The mock for systems other than Linux is left out.

### Positioning

All calls come from one thread (`PositioningFsm.h:19`), so each is one step,
with failing devices chosen nondeterministically: the drivers of `src/hal`
never fail, but `IDevice.h` lets any driver, and the tests' doubles do.
Device commands do not look at the lifecycle, and the model lets them come in
every state. `commanded` is a history variable: what was given a target since the
last `start()` or fault. `CALIBRATING` is entered and left in one call and never
visible.
Sensor noise is left out.

### Swarm planner

`AStar` takes one step per iteration and keeps the heap as a set of entries
with the tuple order of the code. `SwarmGrid!ShortestPaths` states what the
search owes its caller, by reachability over time. `Cbs` uses it as the low
level and may get any shortest path, so nothing depends on how ties are
broken; `Root`, `Pop`, `Branch`, `Exhausted` follow `plan()`. `Plans` is the
set of all joint plans without a conflict, and `AnswerIsOptimal` holds the
answers against the cheapest of them.

### Quadcopter

`Quadcopter` takes a step per tick, with the errors, the throttle asked for and
the verdict of the network chosen anew each time. A float is a whole number of
some unit, an infinity or NaN; in `Ieee` `Add`, `Times`, `Over`, `Below` and
`Above` give the last three the results of IEEE arithmetic, so `Clamp` passes a NaN as
`std::clamp` does. `dt` is one unit or zero. Rounding is left out. `spoiled` is
a history variable: the axes whose `error * dt` has been NaN since their reset.

`Inference` is the interpreter on integers. The factor that takes an
accumulator to the next layer's scale is a fraction within 2e-8 of the floats';
the last layer's sigmoid and its byte are monotone and stand for a threshold:
above an accumulator of 2353 the byte dequantizes to more than 0.8. `MCNumerics`
holds the trained weights of `model_data.cc`. A beam that is NaN, or so far off
that `lround` overflows, has no specified result and is not modelled.

### Algorithms

`Toolpath` measures radii in thirds of the knot distance and second derivatives
in units of `6 / h^2`, so the knot distance drops out; heights are whole and
all arithmetic exact. `IsNaturalSpline` looks at the result only from outside,
through `evalAt()`: it recovers slopes and bends at the ends of each interval
from four values, which determine a cubic. `TaskAssigner` wraps each difference
at `Span` values and the key at the square of that, as a release build does;
`Begin` is the map before the loop and `Take` one round of it.
`NearestTakesGoal` compares with distances that do not wrap, for a fleet and
goals within a quarter of the coordinates' range (`Points`): further apart an
`i32` difference may wrap, and the nearest drone lose. `total_distance()` is
its list of squares; their roots are left out. `PoseConsensus` has one axis,
as the three do not touch each other, and weights as whole multiples of a unit.

### Ray tracer

`Bvh` cuts the scene by the plane the rays run in, so that a triangle is a
segment, its box has two extents that vary and one fixed (`Thickness`), and all
distances are whole numbers: arithmetic is exact, rounding is left out.
`add_triangle()` and `commit()` may alternate. `build_recursive()` is one step
per node (`BuildLeaf`, `BuildInner`), `calls` the recursion still to come;
`nth_element()` may leave any order its contract allows (`Split`).
`BoxHit` gives the slab test's infinities and NaNs their result: the comparison
in `std::max` and `std::min` drops a NaN. `Intersect` is `intersect_node()`.

`RayTracer` launches a task per block of rows (`Launch`, `LaunchFails`), waits
for all (`GetAll`), or for those launched when a launch has failed: a future of
`std::async` waits in its destructor, and the futures die before the map
(`Unwind`). A task takes a step per call of `trace()`; what a ray does is
decided by the tree and the material it hits, its next direction is any of
`Rays`. `add()` holds the pixel's lock and is one step. Radiance, the camera
and the reflectance models are left out.

## 3. Runs

| Run | Instance | Shows |
|---|---|---|
| `TelemetryLogger` | 3 slots, 5 pushes | prefix, no race, exits flushed, `stop()` returns, rows reach the disk, refinement of `LossyFifo` |
| `EcuParts` | machine: all 27 sensor combinations, session of 4 periods; engine: 3 levels besides the targets, 5 parameters | FAULT is left clean, faults are seen, hysteresis; the engine's ranges |
| `EngineOverheats` | the engine alone | *violation:* full throttle never sets the over-temperature bit |
| `EcuNode` | queue of 2, 3 commands, 2 outages, session of 3 periods | an outage is kept whatever access the callback strikes, it surfaces, none is silent, received CLEAR_FAULTS works, sessions end |
| `EcuNodeRecovers` | the same, CLEAR_FAULTS only, 1 outage | *violation:* a node in FAULT through bus-off never asks for recovery |
| `Positioning` | 4 devices, 2 fallible, 5 speeds, watchdog of 2 ticks | commands do not outlive `start()`, faults stop motion, the spindle settles |
| `Gateway` | history 1, 2 topics, socket queue 1, 2 frames, 2 messages of 2 kinds | both GET answers newest, the topics keep step, each command frame answers its own message in order and once, receive and server threads joined on shutdown, queued frames are served, shutdown ends on a live bus |
| `AStar` | 2x2x2 cells, one blocked, up to two constraints of each kind, time 4 | shortest path or none, keys never fall |
| `Cbs` | 4x2 cells, 2 agents, time 3, 7 nodes | safe, optimal, "no path" exactly when there is none, no plan lost by a split |
| `RayTracer` | 6 scenes of 5 triangles and their beginnings, 12 rays, 2x3 pixels, 2 and 4 threads, depth 2 | nearest hit, every pixel sampled, the map outlives its tasks |
| `Algorithms` | see below | spline and deviation, telemetry codec, command path, auction, network, fusion: each against a reference on every input; the flight controller's integral holds, its motors follow |
| `ThrottleRange` | throttles on both sides of 100 and of a byte | *violation:* a client that asks for 300 gets 44 |

Bounds, and why they are enough.

- *Ring:* three slots give empty, partly full, full and wrapped rings; five
  pushes go round once and a half. The proofs remove both bounds.
- *ECU:* a session of four periods is longer than one loop of either length, so
  it can be interrupted, resumed and expire at an odd and an even count.
- *Node:* a queue of two overflows with three commands, and two outages let the
  second hit any point of the treatment of the first. Commands with the same
  effect on the shared members are represented by one (`SET_DIAGNOSTIC` by
  `REQUEST_DIAG`, throttle and unknown modes by `UNKNOWN`).
- *Engine:* the parameters are idle, full, one between and two that are
  refused; the levels give each lag stops on its way.
- *Positioning:* a device before and one after others fail; requests lie below,
  on, between and above the spindle's limits and ramp steps.
- *Gateway:* two frames overfill a history and a socket queue of one; two
  topics suffice for a connection lost between them; a second message meets
  the callback thread after the first one's write failed. One kind of message
  becomes a command, the other is dropped; the rest end in one of these ways.
- *A\*:* two constraints can close a cell at two times or both of its
  exits; the second floor gives a detour, and time 4 exceeds every shortest
  detour, while some goals are cut off.
- *Algorithms, the flight controller:* 8 attitudes, `dt` 0 and 1, 2 throttles;
  the attitudes are level, tilted either way on one axis and on all, infinite
  and NaN; a limit of two is met in two ticks; the gains keep the code's order
  (derivative small, yaw stronger) and saturate the motors from both sides.
- *Algorithms, the others:* an initial state is an input. Lenses of two to five
  radii with heights from four values (two leave nothing to solve, three make no
  sweep, five a sweep of three), and none or one, which the constructor refuses;
  measured paths up to three points, of equal length or not; every field of the
  telemetry at either of two values off the wire's grid, negative temperatures
  included; throttles on both sides of every limit and of a byte; up to two
  drones and two goals at eight points of a plane, as far apart as `Points` has
  them, where 32 values of a coordinate (`Span`) hold every difference but not
  its square; arcs of 2, 4, 6 and all beams at two
  near distances and a far one, at all 16 angles; three drones with variances
  below, at and above the floor, infinite and NaN.
- *CBS:* in three steps of time on four by two cells agents meet, swap, step
  aside, wait, have no path at all (opposite corners) or none together. Two
  agents: more make more conflicts, but each is split the same way.
- *Ray tracer:* five triangles make a tree three levels deep with leaves of one
  and of two. Three rows on two threads leave a short last block, on four a
  thread without rows; two pixels in a row exercise the inner loop. Depth 2
  with roulette after the first bounce takes every exit of `trace()`.

Fairness.

- *TelemetryLogger:* weak fairness of the calls already begun (`PushFill`,
  `PushPublish`, `StopJoin`) and of the writer thread: both threads are
  scheduled. Strong fairness of a load that returns the latest value: the
  C++ memory model asks that stores become visible in finite time. Nobody has
  to push or to stop.
- *EcuNode:* weak fairness of the main loop (it sleeps with a timeout) and of a
  recovery that was asked for. No command has to come.
- *Gateway:* weak fairness of every thread; strong fairness of a successful
  receive, as the interface may go down again and again between.
  `FairSpec` also has a node that keeps sending; `QuietSpec` has not.
- *Positioning:* the control loop steps the spindle.
- *EngineOverheats:* weak fairness of `Step`, as the main loop updates the
  engine in every round; while a quantity is off its target, one moves.
- *EcuParts*, *AStar*, *Cbs*, *RayTracer*, *Algorithms*, *ThrottleRange:* none;
  nothing is said of them that needs it.

## 4. Proofs

TLAPS checks these for every value of the constants.

**`Optical_proofs`**, the ring (every capacity `N`, every number of pushes). The
safety properties are not inductive: that a slot is free rests on what was
known of indexes loaded long ago. `RingInv` supplies it: `RingOrder` says that
`headSeen`, `head`, `tailSeen`, `tail` follow each other on the ring and that
the accepted frames are those released and those between `head` and `tail`;
`RingContents` that the slots between hold them; `OwnerInv` and `WriterInv`
what each thread knows at its place. One lemma per action shows `IInv` (that
and the types) preserved, on arithmetic of `Ahead` and `Gap` proved first
(`GapRange`, `MoveInside`, `GapSucc`, `SuccGap`, `SuccIsModulo`; the last one
says that `Succ` is the code's `%`). `RingInvariant` collects them,
`RingSafety` derives `RingSafe` (prefix, no race, flushed exit, never
overfull), and `RingImplementsLossyFifo` maps every step to a step of
`LossyFifo` or a stutter (`PublishFits`: a frame is published only where there
is room).

The lifecycle (every list of devices with spindle and axis in it, every set that
may fail, every request). `OnlyTheCommandedMoves` is inductive with the types:
`init()` and `shutdown()` bring a device to zero when `commanded` forgets it,
and a device command that gives it a target puts it there. `FaultStopsAll` needs no
invariant: whichever device failed, `fault()` goes through `ShutdownAll`.
`SpindleComesNearer` is the argument behind `SpindleSettles`: a step of a
spindle off its target brings it nearer and not past it.

**`Ecu_proofs`**, the state machine (every set of readings, every session
length). `EcuInv` is the types and `busOff` agreeing with its bit; without the
latter `evaluate_faults()` could bring back a cleared bit. From it
`EcuInvariant`, `FaultLeftClean`, `FaultSeen` and `BitsObeyHysteresis`.

The engine (every resolution and set of parameters). `InRange` is inductive
because each target lies in the range of the quantity that follows it
(`LagStays`, `TargetRanges`); `EngineNeverFaults` follows.

The main loop, with the callback between any two accesses. Here `busOff` and
its bit do disagree at times, and `OutageIsKept` says at which places of the
loop: while the bit is missing, an update that will put it back is still to
come, and an update that has looked at its faults goes to FAULT with them. It
is inductive with the types (`OutageKept`).

Its commands (every queue size). The state keeps only what still waits, so
`RecordSpec` adds three history variables to the node: the commands received,
those answered and how many were refused. `RecordsOfTheNode` says that they only
watch, `InLine` that what was received and not yet answered is the command in
hand and the queue behind it. `CommandsKeepTheirOrder` then maps each step to one
of `LossyFifo` with room for one more than the queue holds, or to a stutter, the
interrupt between any two accesses included; and as `LossyFifo` may refuse at
any time, it says besides that every refusal finds the queue full
(`RefusedWhenFull`). It is a safety property: no command is answered twice, out
of order or without having come, and none of this says that each is answered.

**`SwarmGrid_proofs`** (every grid, every set of constraints). The recursive
definitions of `SwarmGrid` are functions that exist (`Recursion`) and compute
what they are read as: `ShortestPaths` is the set of the walks that keep the
constraints and reach the goal in the least number of moves
(`ShortestPathsAre`). Induction is done on sets: a set of naturals with 0 in
it that is closed under successor has them all (`SetInduction`).

**`AStar_proofs`** (every grid, blocked set, constraints, time limit).
`EstimateIsConsistent`: a move changes the Manhattan distance to the goal by at
most one. `Keyed`: every open entry carries the sum of its cost and its
estimate. With them an entry pushed has no smaller key than the one popped,
which was the least, so `KeysLeaveInOrder`. For `SearchIsOptimal` the invariant
`Search` says that each open entry stands for a walk its predecessors trace back
to the start, and that whatever a walk can reach within the time limit is open,
or closed with all its next moves: until the goal is popped, something on a
shortest way to it is open, with a key no greater than that way's length.
`SearchEnds`: each iteration takes one pair of cell and time that was not closed
before, and there are finitely many.

**`Cbs_proofs`** (every grid, number of agents, limit on time and nodes). The
argument follows one joint plan through the tree. It is free of the conflict
that is split, so it keeps at least one of the two constraints
(`SplitLosesNothing`), and so some open node, or a child still to be made, has
only constraints that it keeps. That node's paths are the shortest under its
constraints, so its cost is at most the plan's (`TreeHolds`). The node taken
from the heap is the cheapest, hence `AnswerIsRight`, with safety of a returned
plan from the absence of a conflict, and `PlansAreKept`.

**`RayTracer_proofs`** (every scene, picture, depth and number of cores).
`MapInv` ties the existence of the map to the place of the calling thread;
`MapIsSafe` follows: an ended task takes no step, and the map goes only when
all have ended. For `PictureIsComplete`, `RowsAreDealt` says that the blocks
handed out lie end to end from the first row on, and `SamplesAreCounted` how
many samples each pixel has, by the place of the task whose row it is in.

`HitIsClosest` is about every order in which `nth_element()` may leave the
triangles. Each node was built from an interval of the order of that moment;
those intervals are a history that the state no longer has, so the invariant
(`TreeInv`) says that one exists that fits: nodes not yet built have theirs in
`calls`, a leaf still holds the triangles of its interval, two children share
out their parent's, and each box encloses what the interval holds. `Split`
keeps all of that, as it permutes one interval and no built one overlaps it. A
ray that hits a triangle passes the box test of everything around it and enters
that box no later (`BoxBefore`). The recursive visit is then
shown to exist and to answer with the nearest of its interval by induction from
the last node, as children come after their parents.

How long it takes: `NodesToCome` bounds what the calls still open can make of
their intervals. With the nodes made so far that is never more than `2n - 1` for
`n` triangles, and `build()` reserves `2n + 1` (`ReserveIsEnough`), so that the
vector never grows beyond its first allocation; every call takes from
`NodesToCome` (`BuildEnds`). A task has `SamplesLeft * (MaxDepth + 1) - depth`
calls of `trace()` before it; that is a natural number (`TasksHaveCalls`) and
each call lowers it (`TasksEnd`).

**`Gateway_proofs`** (every number of frames, topics and messages, every
history limit and socket queue). `ShutdownJoins` rests on what main has waited
for at each place of the shutdown. For `CommandsAnswer` the invariant says what
the callback thread holds in its hand: the message it is at, later than every
one answered, and its translation. `InOrder` says that what is in the
socket's queue or in hand is newer than everything cached.
`ApiServesNewest` follows from the same order and from trimming the oldest.

For `TopicsInStep` the invariant (`Published`) speaks of the client while it is
connected: every round before the one of the frame in hand is complete, that
frame comes right after the last one published, and in the middle of a round the
last thing published is the same frame on the topic before. Before `connect()`
nothing is published, and a connection that is gone never comes back, so a round
cut short stays the last.

`JoinHasAnEnd` counts the steps the receive thread can still take once `main`
waits for it, from each place of its loop: at most `Topics + 4`, one fewer with
each, as a closed descriptor is read only to fail and `running_` is looked at
after that. `QueuedIsKept` needs to know that the thread does not run before the
bus is open (`RxLife`).

**`Numerics_proofs`** (every input and parameter the assumptions allow).
Fractions first: `Gcd` follows Euclid's recursion because a function exists that
does (`GcdIs`); `EuclidInduction` turns that into what `Q` computes, fractions
in lowest terms (`LowestTerms`) that are the same for the same number
(`QEqual`). What a fold adds up is settled once in `SwarmGrid_proofs`: `SumIs`
gives a sum by one term and the rest, `SumMonotone`, `SumScales`, `SumDrops` and
`SumOfNaturals` compare sums, by induction on finite sets; `Cbs_proofs` adds
path lengths with them.

*Pose consensus* (`FusionAlwaysBounded`: any number of drones, positions,
variances, wild ones included). The invariant is that the newest estimates are
finite in number and have the types. A weight times the variance that counts is
`Unit` for all drones (`WeightOf`), so the weighted mean lies between the
extremes (`MeanBounds`), equal variances cancel (`EquallyCertain`), and of two
drones the one with the greater weight is at most as far (`TwoDrones`).

*Commands* (`ThrottleAlwaysAsked`): by the cases in which the number fits a
byte, a percentage, both or neither; of one that does not fit it says only that
the throttle stays within its range.

*The telemetry frame* (`TelemetryAlwaysSurvives`: every measurement its fields
can hold; of any other the cast in `pack_telemetry()` has no defined result,
which `IsMeasurement` leaves out). `FieldIsRead` inverts each conversion, the
complement of a negative temperature included. `FlattenLays` says where
concatenating the fields puts each of them, and `OffsetIsSum` that the gateway's
structure has it at the same place; `ShortByLess` bounds what the cast cuts off.

*The toolpath* (`ToolpathAlwaysRight`: any heights at any two radii or more).
The three loops of `fitSpline()` are functions that exist because each value is
made from the one before it, or after it in the back substitution (`Climb`,
`Descent`; `Climbs` and `Descends` carry a property along them). The factors of
the elimination stay between 0 and 1, so nothing is divided by 0 (`SweepGoes`);
a step of the elimination and one of the substitution together give back a row
of the system (`RowSolved`), so all rows hold (`SplineRows`). Values at thirds of
an interval are then linear in its heights and bends (`EvalIs`), which yields
the heights at the knots (`KnotIs`); that slopes agree where intervals meet is
the row of that knot (`Smooth`). `PathCovers` is about quotient and remainder.
The mean square lies where `DeviationIsHonest` says because each square lies
between 0 and the peak's (`SumBetween`).

*The auction* (`AuctionAlwaysGreedy`: any fleet without waypoints, any goals,
one to three dimensions, all of it within `Points`, an eighth of the
coordinates' range on either side of zero). There nothing wraps, so the key is the squared
distance (`KeyIsDistance`); this is where three dimensions at most are needed,
as a sum of more squares could exceed the key. The loop is a function that
exists (`AuctionExists`). What holds after `n` goals (`Auctioned`) names the
lists, not the endpoints: each is ascending, a drone's endpoint is the last goal
of its list, and every goal so far was won by one drone, compared from where
each drone's list had brought it. `TakeIsAuctioned` shows that a round keeps it,
because appending a later goal does not change where a drone was before
(`PlaceStays`).

*The network* (`LayersAlwaysExact`: any layers, scales and scans). Rounding half
away from zero and clamping to a byte is nearest among the bytes
(`QuantizeRounds`); the flat array of weights is read row by row without
running out (`WeightAt`), and the layers compose (`LayersHold`). `Accumulator`
is a whole number there; that it may stand for `int32_t` is `AccumulatorFits`:
each product is at most 255 * 128, so no prefix of the inner loop wraps while
the layer's length times that, and the greatest bias, stay below 2^31.

*The flight controller* (all gains, limits, attitudes and throttles). The
invariant is the types and `IntegralHolds`; the lemmas before it say that sums,
scalings and clamps of finite values are finite and within bounds, and that only
a NaN product gets past the clamp. `MotorsAlwaysFollowPitch` then has four
finite motor sums, and compares front and rear pairwise: with roll or yaw level
each front motor has a rear partner that differs from it by the pitch command
alone, and clamping is monotone.

The assumptions are the named `ASSUME`s on the constants, which TLC evaluates
in every run. Only model-checked: all liveness properties (the prover has no
fairness). What liveness rests on is proved where a loop or a wait counts down:
`SearchEnds`, `BuildEnds`, `TasksEnd`, `JoinHasAnEnd`, `SpindleComesNearer` say
for every constant that each step brings the end nearer; that the step is taken
is the fairness of section 3. These, and the theorems about the engine's
sensors, the reserve, the command line and the accumulator, state properties
that no run lists.

## 5. What the checks found

Three disagreements have a run of their own:

- **`EcuNodeRecovers`**: the state diagram shows `can_recover()` in FAULT. The
  code calls it only outside FAULT with an empty bitmap, and bus-off means
  FAULT with a bit; the command that would help cannot arrive.
- **`EngineOverheats`**: the ECU's own test expects the engine to pass 110
  degrees at full throttle and the machine to fall into FAULT
  (`ecu/tests/src/main.cpp:52-59`). The coolant's target is 100 at most
  (`physics_model.cpp:19`), so no throttle sets a sensor's bit;
  `EngineNeverFaults` proves it.
- **`ThrottleRange`**: the document of the frames gives 0 to 100 as the range of
  the parameter (`can_fd_frame_format.md:56`), and the sequence diagram has the
  number a client publishes as that parameter (`sequence_diagram.puml:12-13`).
  The gateway cuts the number to a byte first, so 300 becomes 44 and is obeyed,
  where 101 is refused. What does hold is
  `ThrottleIsAsked`: a number that fits a byte sets the percentage it names or
  is refused, and none takes the engine beyond its range.

Others that reading for the models brought to light and that no run is spent on:

- The header says that `stop()` flushes the remaining frames
  (`TelemetryLogger.h:29`). The writer reads `running_` after `tail_`, and
  relaxed; a frame pushed between its look at the ring and `stop()` is never
  written. What does hold is the third part of `RingSafe`: the writer leaves no
  row unflushed and no frame it has seen.
- In `cbs.rs` a constraint on an agent that has already arrived leaves its path
  as it is, so the child equals its parent and is taken next, until the nodes
  run out and the answer is `Timeout` although a plan exists (the swarm
  coordinator's `README.md:30` promises one). `AnswerIsOptimal` speaks of the
  other two answers.
- A recovery that strikes between the load and the store of an update's
  assignment to the bitmap leaves the bit of a bus-off that is over: the bus is
  on, `bus_off_` is false, `SET_MODE` to NORMAL is refused until a
  CLEAR_FAULTS (`OutageIsKept` speaks of the other direction only).
- One NaN error, or an infinite one while the clock stands still, makes an axis'
  integral NaN for good; nobody in the control loop calls `reset()`.
- With roll and yaw both saturating, the mixer can turn a pitch command around
  (throttle 0.9, pitch 0.1, roll and yaw 0.5: the rear motors sum to 1.0, the
  front ones to 1.6), so `MotorsFollow` asks for one of them to be level.
- The trained network does not brake for an obstacle half a metre away over four
  beams that start at beam 2, 11, 12 or 13, over six that start at 10, 11 or 12
  (the first is beam 0), nor for one on all 16, and whether it brakes is a matter
  of its training: no property is stated of it, only that its arithmetic is
  exact (`LayersAreExact`).
- `total_distance()` starts at `position` even for a drone that came with a
  `last_wp`, where the auction starts at the latter; `NearestTakesGoal` is
  about drones at rest.
- `REQUEST_DIAG` works in INIT, not only in NORMAL
  (`can_fd_frame_format.md:58`).
- `SET_MODE(0)` leads out of FAULT with faults still set, through INIT
  (`state_diagram.puml:33`); `SET_MODE(3)` enters FAULT with none.
- The sequence diagram shows a telemetry frame published before it is stored for
  the HTTPS API (`docs/uml/sequence_diagram.puml:26-28`); the gateway stores it
  first (`gateway/src/main.cpp:58-62`). `TopicsKeepStep` holds in either order.
- A client whose subscription fails is connected and deaf: the gateway says that
  the broker is offline, goes on publishing and never gets a command
  (`MqttPublisher.cpp:21-28`).
- `main()` does not wait for the callback thread of the MQTT client, which may
  still be between the test and the write of `write_frame()` when the socket is
  closed; `DoneMeansJoined` speaks of the other two threads. A signal that comes
  before the server listens leaves its join waiting, as `stop()` then does
  nothing.
- A failed `start()` ends in FAULT, where the header has the machine stay in
  INITIALISING (`PositioningFsm.h:28`); `reset()` looks at no device
  (`PositioningFsm.h:44`), so a spindle commanded during FAULT turns on in IDLE
  until `start()` stops it (`NothingMovesUnasked`); nothing asks `isTripped()`.
- On a silent bus `close()` does not wake the receive thread's `read()`, and
  the gateway does not end on a signal. `ExitsWhenServing` therefore assumes
  traffic. The payload `50` of the sequence diagram is dropped as an error: the
  code wants an object.
- A\* ends at the first arrival and looks neither at constraints on the goal
  afterwards nor at one on the start at time 0, so `ReturnsShortest` speaks of
  the constraints on the way.

## 6. Not modelled, and what comes next

Left out for good: the rounding of floats everywhere, the sag formula of the
lens, light transport, reflectance and the camera of the ray tracer, sensor
noise (values no finite model decides); the text of log lines and rows; the
mock bus for systems other than Linux; the ROS 2 stack (empty); scripts,
containers, benchmarks and test code. Starvation of the ECU's loop by endless
commands is a hazard without a property, for the reason `PROJECT.json` gives;
the watchdog is modelled (`Ping`, `Tick`), but nothing in the lifecycle asks
it.

Next: shorter proofs where two modules argue alike (the walks of `SwarmGrid`,
the recursions of `Numerics_proofs`). Every invariant and every action property
of the passing runs has a theorem.

## 7. Running it

    tlc -config EcuNode.cfg MCEcuNode        # any run: its cfg, its module
    tlapm Optical_proofs.tla

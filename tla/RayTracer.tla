------------------------------ MODULE RayTracer ------------------------------
(***************************************************************************)
(* The program of mc_optical_ray_tracer: it builds a scene, then render()  *)
(* deals the rows of the picture to tasks on threads of their own, which   *)
(* trace samples through the scene and add them to one luminance map.      *)
(*                                                                         *)
(* Light itself is left out: a sample counts, wherever it bounced.  A new  *)
(* ray, from the camera, a mirror or a diffuse surface, is any of Rays.    *)
(***************************************************************************)
EXTENDS Bvh

CONSTANTS Width, Height,   \* of the picture
          Spp,             \* samples per pixel
          MaxDepth,        \* max_depth_
          RouletteAfter,   \* depth after which paths may end at random, 3 in the code
          Cores            \* values hardware_concurrency() may return

\* A picture without columns or samples would leave the loops of a task empty.
ASSUME RenderAssumption ==
    /\ Width \in Nat \ {0} /\ Height \in Nat /\ Spp \in Nat \ {0}
    /\ MaxDepth \in Nat /\ RouletteAfter \in Nat /\ Cores \subseteq Nat

VARIABLES main,      \* where the thread that calls render() is
          threads,   \* num_threads
          next,      \* t of the loop that launches
          tasks,     \* the tasks launched, in order
          count,     \* count_ of the luminance map
          alive      \* whether the map still exists

picture == <<threads, next, tasks, count, alive>>
vars == <<scene, bvh, main, picture>>

Pixels == (0 .. Width - 1) \X (0 .. Height - 1)

Init ==
    /\ SceneInit
    /\ main = "scene" /\ threads = 0 /\ next = 0 /\ tasks = <<>>
    /\ count = [p \in Pixels |-> 0] /\ alive = FALSE

Prepare ==
    /\ main = "scene"
    /\ BuildScene
    /\ UNCHANGED <<main, picture>>

------------------------------------------------------------------------------
(* render(). *)

\* The program renders once, when it has added all it has to add; whether it
\* committed after the last triangle is its own affair.
Render ==
    /\ main = "scene" /\ calls = <<>> /\ todo = <<>>
    /\ main' = "launch"
    /\ \E c \in Cores : threads' = IF c = 0 THEN 4 ELSE c
    /\ alive' = TRUE
    /\ UNCHANGED <<scene, bvh, next, tasks, count>>

\* Mutation: rows are divided without rounding up.
RowsPerThreadFloor(n) == Height \div n
RowsPerThread(n) == (Height + n - 1) \div n

FirstRow == next * RowsPerThread(threads)
EndRow   == Min({FirstRow + RowsPerThread(threads), Height})

\* A task that is given no row is not launched.
Launch ==
    /\ main = "launch" /\ next < threads
    /\ next' = next + 1
    /\ tasks' = IF FirstRow >= EndRow THEN tasks
                ELSE Append(tasks, [row |-> FirstRow, end |-> EndRow,
                                    col |-> 0, s |-> 0, depth |-> 0])
    /\ UNCHANGED <<scene, bvh, main, threads, count, alive>>

\* The system has no thread left: std::async() throws.
LaunchFails ==
    /\ main = "launch" /\ next < threads /\ FirstRow < EndRow
    /\ main' = "unwind"
    /\ UNCHANGED <<scene, bvh, picture>>

AllLaunched ==
    /\ main = "launch" /\ next = threads
    /\ main' = "get"
    /\ UNCHANGED <<scene, bvh, picture>>

TaskEnded(i) == tasks[i].row = tasks[i].end

\* get() of every future in turn; then the map is the caller's.
GetAll ==
    /\ main = "get"
    /\ \A i \in DOMAIN tasks : TaskEnded(i)
    /\ main' = "returned"
    /\ UNCHANGED <<scene, bvh, picture>>

\* The futures are destroyed first, and the destructor of a future of
\* std::async() waits for its task; then the map is.
\* Mutation: the map is declared after the futures and destroyed first.
UnwindMapFirst ==
    /\ main = "unwind"
    /\ main' = "threw" /\ alive' = FALSE
    /\ UNCHANGED <<scene, bvh, threads, next, tasks, count>>

Unwind ==
    /\ main = "unwind"
    /\ \A i \in DOMAIN tasks : TaskEnded(i)
    /\ main' = "threw" /\ alive' = FALSE
    /\ UNCHANGED <<scene, bvh, threads, next, tasks, count>>

------------------------------------------------------------------------------
(* A task: three loops, trace() in the innermost. *)

\* add() under the pixel's lock, and on to the next sample, pixel or row.
AddSample(i) ==
    LET k == tasks[i]
        lastSample == k.s = Spp - 1
        lastPixel  == lastSample /\ k.col = Width - 1
    IN  /\ count' = [count EXCEPT ![<<k.col, k.row>>] = @ + 1]
        /\ tasks' = [tasks EXCEPT ![i] =
               [row   |-> IF lastPixel THEN k.row + 1 ELSE k.row,
                end   |-> k.end,
                col   |-> IF lastPixel THEN 0 ELSE IF lastSample THEN k.col + 1 ELSE k.col,
                s     |-> IF lastSample THEN 0 ELSE k.s + 1,
                depth |-> 0]]

Bounce(i) == tasks' = [tasks EXCEPT ![i].depth = @ + 1] /\ UNCHANGED count

\* One call of trace(): it ends at the depth limit, in the sky, by roulette,
\* or where a diffuse surface has no direction to offer; else it bounces.
Trace(i, ray) ==
    /\ ~TaskEnded(i)
    /\ LET depth == tasks[i].depth
           hit   == Intersect(ray)
       IN  IF depth >= MaxDepth \/ hit = NoHit THEN AddSample(i)
           ELSE \/ /\ depth > RouletteAfter \/ materials[hit.id + 1] = "diffuse"
                   /\ AddSample(i)
                \/ Bounce(i)
    /\ UNCHANGED <<scene, bvh, main, threads, next, alive>>

Ended == main \in {"returned", "threw"} /\ UNCHANGED vars

Next ==
    \/ Prepare \/ Render
    \/ Launch \/ LaunchFails \/ AllLaunched \/ GetAll \/ Unwind
    \/ (\E i \in DOMAIN tasks, ray \in Rays : Trace(i, ray))
    \/ Ended

Spec == Init /\ [][Next]_vars

------------------------------------------------------------------------------
\* Whatever the number of cores, rows and tasks do not divide evenly or are
\* fewer than the threads: no sample falls outside the picture, no pixel is
\* sampled more than Spp times, and once render() returns each one is
\* sampled exactly Spp times, so no row was given to nobody or to two.
EveryPixelSampled ==
    /\ \A i \in DOMAIN tasks : TaskEnded(i) \/ <<tasks[i].col, tasks[i].row>> \in Pixels
    /\ \A p \in Pixels : count[p] <= Spp
    /\ main = "returned" => \A p \in Pixels : count[p] = Spp

\* A task refers to the map, a local of render(): no task outlives it, also
\* when render() is left because a later task could not be launched.
MapOutlivesTasks == \A i \in DOMAIN tasks : TaskEnded(i) \/ alive
==============================================================================

--------------------------- MODULE RayTracer_proofs --------------------------
(***************************************************************************)
(* The ray tracer for every scene, picture size, depth and number of       *)
(* cores: the luminance map outlives the tasks that refer to it, no row of *)
(* the picture is given to nobody or to two of them, and every task comes  *)
(* to an end; and the tree, however nth_element() divides the triangles,   *)
(* answers every ray with a nearest hit, and its build ends in the room    *)
(* reserved for it.                                                        *)
(***************************************************************************)
EXTENDS RayTracer, SequenceTheorems, WellFoundedInduction, TLAPS

------------------------------------------------------------------------------
(* The map outlives the tasks. *)

\* Where the calling thread is tells whether the map exists: from the start
\* of render() to its end by return or exception, and after an exception only
\* when every task has ended.
MapInv ==
    /\ main = "scene" => tasks = <<>>
    /\ main \in {"launch", "unwind", "get", "returned"} => alive
    /\ main = "threw" => \A i \in DOMAIN tasks : TaskEnded(i)
    /\ main \in {"scene", "launch", "unwind", "get", "returned", "threw"}

LEMMA MapInit == Init => MapInv
BY DEF Init, MapInv

\* A task that has ended takes no step, so tracing leaves ended tasks ended;
\* every other step leaves the tasks alone or finds them as MapInv needs.
LEMMA MapStep == MapInv /\ [Next]_vars => MapInv'
<1> SUFFICES ASSUME MapInv, [Next]_vars PROVE MapInv'
  OBVIOUS
<1>1. CASE Prepare
  BY <1>1 DEF Prepare, MapInv, picture, TaskEnded
<1>2. CASE Render
  BY <1>2 DEF Render, MapInv
<1>3. CASE Launch
  BY <1>3 DEF Launch, MapInv
<1>4. CASE LaunchFails
  BY <1>4 DEF LaunchFails, MapInv, picture
<1>5. CASE AllLaunched
  BY <1>5 DEF AllLaunched, MapInv, picture
<1>6. CASE GetAll
  BY <1>6 DEF GetAll, MapInv, picture
<1>7. CASE Unwind
  BY <1>7 DEF Unwind, MapInv, TaskEnded
<1>8. ASSUME NEW i \in DOMAIN tasks, NEW ray \in Rays, Trace(i, ray)
      PROVE  MapInv'
  <2>1. main' = main /\ alive' = alive /\ ~TaskEnded(i)
    BY <1>8 DEF Trace
  <2>2. main # "threw" /\ main # "scene"
    BY <2>1 DEF MapInv
  <2> QED
    BY <2>1, <2>2 DEF MapInv
<1>9. CASE UNCHANGED vars
  BY <1>9 DEF MapInv, vars, picture, TaskEnded
<1> QED
  BY <1>1, <1>2, <1>3, <1>4, <1>5, <1>6, <1>7, <1>8, <1>9 DEF Next, Ended

\* No task of render() outlives the map it adds to, whether render() returns
\* or is left because a thread could not be launched (PathTracer.cpp:12-51).
THEOREM MapIsSafe == Spec => []MapOutlivesTasks
<1>1. MapInv => MapOutlivesTasks
  BY DEF MapInv, MapOutlivesTasks, TaskEnded
<1> QED
  BY <1>1, MapInit, MapStep, PTL DEF Spec

------------------------------------------------------------------------------
(* Every pixel is sampled Spp times, once and by one task. *)

Task == [row : 0 .. Height, end : 0 .. Height, col : 0 .. Width - 1,
         s : 0 .. Spp - 1, depth : Nat]

RenderTypeOK ==
    /\ main \in {"scene", "launch", "unwind", "get", "returned", "threw"}
    /\ threads \in Nat /\ next \in 0 .. threads
    /\ tasks \in Seq(Task)
    /\ count \in [Pixels -> Nat]

\* The first row of task i; for the task after the last one, the rows dealt.
Start(i) == IF i = 1 THEN 0 ELSE tasks[i - 1].end
Dealt    == Start(Len(tasks) + 1)

\* The tasks share out the rows dealt so far, without gap or overlap, and the
\* loop that launches has dealt what its counter says.
RowsAreDealt ==
    /\ main = "scene" => threads = 0 /\ tasks = <<>>
    /\ main # "scene" => /\ threads > 0
                         /\ Dealt = Min({next * RowsPerThread(threads), Height})
    /\ main \in {"get", "returned"} => next = threads
    /\ main = "returned" => \A i \in DOMAIN tasks : TaskEnded(i)
    /\ \A i \in DOMAIN tasks :
         /\ Start(i) < tasks[i].end
         /\ tasks[i].row \in Start(i) .. tasks[i].end
         /\ TaskEnded(i) => tasks[i].col = 0 /\ tasks[i].s = 0
    /\ \A i \in DOMAIN tasks, j \in 1 .. Len(tasks) + 1 : i < j => tasks[i].end <= Start(j)
    /\ \A y \in 0 .. Dealt - 1 : \E i \in DOMAIN tasks : y \in Start(i) .. tasks[i].end - 1

\* How often a task that has come as far as k has sampled a pixel of its rows.
Sampled(k, x, y) ==
    IF y < k.row \/ (y = k.row /\ x < k.col) THEN Spp
    ELSE IF y = k.row /\ x = k.col THEN k.s
    ELSE 0

SamplesAreCounted ==
    \A x \in 0 .. Width - 1, y \in 0 .. Height - 1 :
       /\ y >= Dealt => count[<<x, y>>] = 0
       /\ \A i \in DOMAIN tasks : y \in Start(i) .. tasks[i].end - 1 =>
             count[<<x, y>>] = Sampled(tasks[i], x, y)

PictureInv == RenderTypeOK /\ RowsAreDealt /\ SamplesAreCounted

LEMMA TaskFields ==
    ASSUME NEW k \in Task
    PROVE  /\ k = [row |-> k.row, end |-> k.end, col |-> k.col, s |-> k.s, depth |-> k.depth]
           /\ k.row \in 0 .. Height /\ k.end \in 0 .. Height /\ k.col \in 0 .. Width - 1
           /\ k.s \in 0 .. Spp - 1 /\ k.depth \in Nat
BY DEF Task

LEMMA Deeper ==
    ASSUME NEW k \in Task
    PROVE  [k EXCEPT !.depth = @ + 1]
             = [row |-> k.row, end |-> k.end, col |-> k.col, s |-> k.s, depth |-> k.depth + 1]
<1> DEFINE new == [k EXCEPT !.depth = @ + 1]
<1>1. DOMAIN k = {"row", "end", "col", "s", "depth"} /\ k = [f \in DOMAIN k |-> k[f]]
  BY DEF Task
<1>2. /\ new.row = k.row /\ new.end = k.end /\ new.col = k.col /\ new.s = k.s
      /\ new.depth = k.depth + 1
  BY <1>1
<1>3. new \in [row : {k.row}, end : {k.end}, col : {k.col}, s : {k.s}, depth : {k.depth + 1}]
  BY <1>1, <1>2
<1> QED BY <1>3

LEMMA MinOfTwo ==
    ASSUME NEW a \in Int, NEW b \in Int
    PROVE  Min({a, b}) = IF a <= b THEN a ELSE b
<1>1. \E m \in {a, b} : \A o \in {a, b} : m <= o
  OBVIOUS
<1> QED BY <1>1 DEF Min

\* Rounding up leaves no row without a thread.
LEMMA RowsSuffice ==
    ASSUME NEW n \in Nat \ {0}
    PROVE  /\ RowsPerThread(n) \in Nat
           /\ n * RowsPerThread(n) >= Height
<1>1. \A h \in Nat : (h + n - 1) \div n \in Nat /\ n * ((h + n - 1) \div n) >= h
  OBVIOUS
<1> QED BY <1>1, RenderAssumption DEF RowsPerThread

LEMMA InitPicture == Init => PictureInv
<1> SUFFICES ASSUME Init PROVE PictureInv
  OBVIOUS
<1>1. main = "scene" /\ threads = 0 /\ next = 0 /\ tasks = <<>>
  BY DEF Init
<1>2. count = [p \in Pixels |-> 0]
  BY DEF Init
<1>3. DOMAIN tasks = {} /\ Dealt = 0 /\ tasks \in Seq(Task)
  BY <1>1 DEF Dealt, Start
<1>4. RenderTypeOK
  BY <1>1, <1>2, <1>3 DEF RenderTypeOK
<1>5. RowsAreDealt
  BY <1>1, <1>3 DEF RowsAreDealt
<1>6. SamplesAreCounted
  BY <1>2, <1>3 DEF SamplesAreCounted, Pixels
<1> QED BY <1>4, <1>5, <1>6 DEF PictureInv

\* Steps that leave the tasks and the map alone.
LEMMA OthersKeepPicture ==
    ASSUME PictureInv, Prepare \/ Render \/ LaunchFails \/ AllLaunched
                       \/ GetAll \/ Unwind \/ UNCHANGED vars
    PROVE  PictureInv'
<1>1. tasks' = tasks /\ count' = count /\ next' = next
  BY DEF Prepare, Render, LaunchFails, AllLaunched, GetAll, Unwind, vars, picture
<1>2. Dealt' = Dealt /\ \A i : Start(i)' = Start(i) /\ (TaskEnded(i)' <=> TaskEnded(i))
  BY <1>1 DEF Dealt, Start, TaskEnded
<1>3. SamplesAreCounted'
  BY <1>1, <1>2 DEF SamplesAreCounted, PictureInv
<1>4. CASE Render
  <2>1. main = "scene" /\ main' = "launch" /\ threads = 0 /\ tasks = <<>> /\ next = 0
    BY <1>4 DEF Render, PictureInv, RowsAreDealt, RenderTypeOK
  <2>2. threads' \in Nat /\ threads' > 0
    BY <1>4, RenderAssumption DEF Render
  <2>3. RenderTypeOK'
    BY <1>1, <2>1, <2>2 DEF RenderTypeOK, PictureInv
  <2>4. Dealt = 0 /\ DOMAIN tasks = {}
    BY <2>1 DEF Dealt, Start
  <2>5. RowsPerThread(threads') \in Nat
    BY <2>2, RowsSuffice
  <2>6. Min({next * RowsPerThread(threads'), Height}) = 0
    BY <2>1, <2>5, MinOfTwo, RenderAssumption
  <2>7. RowsPerThread(threads)' = RowsPerThread(threads')
    BY DEF RowsPerThread
  <2>8. RowsAreDealt'
    BY <1>1, <1>2, <2>1, <2>2, <2>4, <2>6, <2>7 DEF RowsAreDealt
  <2> QED BY <1>3, <2>3, <2>8 DEF PictureInv
<1>5. CASE ~Render
  <2>1. threads' = threads /\ RowsPerThread(threads)' = RowsPerThread(threads)
    BY <1>5 DEF Prepare, LaunchFails, AllLaunched, GetAll, Unwind, vars, picture, RowsPerThread
  <2>2. /\ main' \in {"scene", "launch", "unwind", "get", "returned", "threw"}
        /\ main' = "scene" <=> main = "scene"
        /\ main' \in {"get", "returned"} => main \in {"get", "returned"} \/ next = threads
        /\ main' = "returned" => main = "returned" \/ \A i \in DOMAIN tasks : TaskEnded(i)
    BY <1>5 DEF Prepare, LaunchFails, AllLaunched, GetAll, Unwind, vars, PictureInv,
                RenderTypeOK
  <2>3. RenderTypeOK'
    BY <1>1, <2>1, <2>2 DEF RenderTypeOK, PictureInv
  <2>4. RowsAreDealt'
    BY <1>1, <1>2, <2>1, <2>2 DEF RowsAreDealt, PictureInv
  <2> QED BY <1>3, <2>3, <2>4 DEF PictureInv
<1> QED BY <1>4, <1>5


\* Launching deals the next rows, or finds that all are dealt.
LEMMA LaunchKeepsPicture == PictureInv /\ Launch => PictureInv'
<1> SUFFICES ASSUME PictureInv, Launch PROVE PictureInv'
  OBVIOUS
<1> USE RenderAssumption
<1> DEFINE R == RowsPerThread(threads)
<1>0. PICK n \in Nat : n = Len(tasks)
  BY DEF PictureInv, RenderTypeOK
<1>1. /\ main = "launch" /\ threads \in Nat /\ threads > 0 /\ next \in Nat /\ next < threads
      /\ tasks \in Seq(Task) /\ n = Len(tasks) /\ DOMAIN tasks = 1 .. n
  BY <1>0 DEF Launch, PictureInv, RenderTypeOK, RowsAreDealt
<1>2. R \in Nat
  BY <1>1, RowsSuffice
<1>3. next * R \in Nat /\ (next + 1) * R = next * R + R /\ (next + 1) * R \in Nat
  BY <1>1, <1>2
<1>4. main' = main /\ threads' = threads /\ next' = next + 1 /\ count' = count
      /\ RowsPerThread(threads)' = R
  BY DEF Launch, RowsPerThread
<1>5. FirstRow = next * R /\ EndRow = IF next * R + R <= Height THEN next * R + R ELSE Height
  BY <1>2, <1>3, MinOfTwo DEF FirstRow, EndRow
<1>6. Dealt = IF next * R <= Height THEN next * R ELSE Height
  BY <1>1, <1>3, MinOfTwo DEF PictureInv, RowsAreDealt
<1>7. Min({next' * R, Height}) = IF next * R + R <= Height THEN next * R + R ELSE Height
  BY <1>3, <1>4, MinOfTwo
<1>8. next' \in 0 .. threads'
  BY <1>1, <1>4
<1> HIDE DEF R
<1>9. CASE FirstRow >= EndRow
  <2>1. tasks' = tasks
    BY <1>9, <1>3, <1>5 DEF Launch
  <2>2. Dealt' = Dealt /\ \A i : Start(i)' = Start(i) /\ (TaskEnded(i)' <=> TaskEnded(i))
    BY <2>1 DEF Dealt, Start, TaskEnded
  <2>3. Dealt = Min({next' * R, Height})
    BY <1>2, <1>3, <1>5, <1>6, <1>7, <1>9
  <2>4. RowsAreDealt'
    BY <1>1, <1>4, <2>1, <2>2, <2>3 DEF RowsAreDealt, PictureInv
  <2>5. RenderTypeOK'
    BY <1>4, <1>8, <2>1 DEF RenderTypeOK, PictureInv
  <2>6. SamplesAreCounted'
    BY <1>4, <2>1, <2>2 DEF SamplesAreCounted, PictureInv
  <2> QED BY <2>4, <2>5, <2>6 DEF PictureInv
<1>10. CASE FirstRow < EndRow
  <2> DEFINE new == [row |-> FirstRow, end |-> EndRow, col |-> 0, s |-> 0, depth |-> 0]
  <2>1. tasks' = Append(tasks, new)
    BY <1>10, <1>3, <1>5 DEF Launch
  <2>2. FirstRow = Dealt /\ EndRow \in Dealt + 1 .. Height /\ Dealt \in Nat
    BY <1>2, <1>3, <1>5, <1>6, <1>10
  <2>3. new \in Task
    BY <2>2 DEF Task
  <2>4. tasks' \in Seq(Task) /\ Len(tasks') = n + 1 /\ DOMAIN tasks' = 1 .. n + 1
    BY <1>1, <2>1, <2>3
  <2>5. \A i \in 1 .. n : tasks'[i] = tasks[i] /\ (TaskEnded(i)' <=> TaskEnded(i))
    BY <1>1, <2>1 DEF TaskEnded
  <2>6. tasks'[n + 1] = new
    BY <1>1, <2>1
  <2> HIDE DEF new
  <2>7. \A i \in 1 .. n + 1 : Start(i)' = Start(i)
    BY <1>1, <2>5 DEF Start
  <2>8. new.row = Dealt /\ new.end = EndRow /\ new.col = 0 /\ new.s = 0
    BY <2>2 DEF new
  <2>9. Start(n + 1) = Dealt /\ Start(n + 2)' = EndRow /\ Dealt' = EndRow
    BY <1>1, <2>4, <2>6, <2>8 DEF Start, Dealt
  <2>10. EndRow = Min({next' * R, Height})
    BY <1>5, <1>7
  <2>11. RenderTypeOK'
    BY <1>4, <1>8, <2>4 DEF RenderTypeOK, PictureInv
  <2>12. \A i \in DOMAIN tasks' :
           /\ Start(i)' < tasks'[i].end
           /\ tasks'[i].row \in Start(i)' .. tasks'[i].end
           /\ TaskEnded(i)' => tasks'[i].col = 0 /\ tasks'[i].s = 0
    <3> SUFFICES ASSUME NEW i \in 1 .. n + 1
                 PROVE  /\ Start(i)' < tasks'[i].end
                        /\ tasks'[i].row \in Start(i)' .. tasks'[i].end
                        /\ TaskEnded(i)' => tasks'[i].col = 0 /\ tasks'[i].s = 0
      BY <2>4
    <3>1. CASE i \in 1 .. n
      BY <1>1, <2>5, <2>7, <3>1 DEF PictureInv, RowsAreDealt
    <3>2. CASE i = n + 1
      BY <2>2, <2>6, <2>7, <2>8, <2>9, <3>2
    <3> QED BY <1>1, <3>1, <3>2
  <2>13. \A i \in DOMAIN tasks', j \in 1 .. Len(tasks') + 1 : i < j => tasks'[i].end <= Start(j)'
    <3> SUFFICES ASSUME NEW i \in 1 .. n + 1, NEW j \in 1 .. n + 2, i < j
                 PROVE  tasks'[i].end <= Start(j)'
      BY <2>4
    <3>1. CASE j \in 1 .. n + 1
      <4>1. i \in 1 .. n /\ tasks[i].end <= Start(j)
        BY <1>1, <3>1 DEF PictureInv, RowsAreDealt
      <4> QED BY <2>5, <2>7, <3>1, <4>1
    <3>2. CASE j = n + 2 /\ i = n + 1
      BY <2>2, <2>6, <2>8, <2>9, <3>2
    <3>3. CASE j = n + 2 /\ i \in 1 .. n
      <4>1. i \in DOMAIN tasks /\ n + 1 \in 1 .. Len(tasks) + 1 /\ i < n + 1
        BY <1>1, <3>3
      <4>2. tasks[i].end <= Start(n + 1)
        BY <4>1 DEF PictureInv, RowsAreDealt
      <4>3. tasks[i].end \in 0 .. Height
        BY <1>1, <4>1, TaskFields
      <4> QED BY <2>2, <2>5, <2>9, <3>3, <4>2, <4>3
    <3> QED BY <1>1, <3>1, <3>2, <3>3
  <2>14. \A y \in 0 .. Dealt' - 1 : \E i \in DOMAIN tasks' : y \in Start(i)' .. tasks'[i].end - 1
    <3> SUFFICES ASSUME NEW y \in 0 .. EndRow - 1
                 PROVE  \E i \in 1 .. n + 1 : y \in Start(i)' .. tasks'[i].end - 1
      BY <2>4, <2>9
    <3>1. CASE y < Dealt
      <4>1. y \in 0 .. Dealt - 1
        BY <2>2, <3>1
      <4>2. PICK i \in 1 .. n : y \in Start(i) .. tasks[i].end - 1
        BY <1>1, <4>1 DEF PictureInv, RowsAreDealt
      <4> QED BY <1>1, <2>5, <2>7, <4>2
    <3>2. CASE y >= Dealt
      BY <1>1, <2>2, <2>6, <2>7, <2>8, <2>9, <3>2
    <3> QED BY <2>2, <3>1, <3>2
  <2>15. RowsAreDealt'
    BY <1>1, <1>4, <2>9, <2>10, <2>12, <2>13, <2>14 DEF RowsAreDealt
  <2>16. SamplesAreCounted'
    <3> SUFFICES ASSUME NEW x \in 0 .. Width - 1, NEW y \in 0 .. Height - 1
                 PROVE  /\ y >= EndRow => count[<<x, y>>] = 0
                        /\ \A i \in 1 .. n + 1 : y \in Start(i)' .. tasks'[i].end - 1 =>
                              count[<<x, y>>] = Sampled(tasks'[i], x, y)
      BY <1>4, <2>4, <2>9 DEF SamplesAreCounted, Sampled
    <3>1. y >= Dealt => count[<<x, y>>] = 0
      BY DEF PictureInv, SamplesAreCounted
    <3>2. \A i \in 1 .. n : y \in Start(i)' .. tasks'[i].end - 1 =>
                              count[<<x, y>>] = Sampled(tasks'[i], x, y)
      BY <1>1, <2>5, <2>7 DEF PictureInv, SamplesAreCounted
    <3>3. y \in Start(n + 1)' .. tasks'[n + 1].end - 1 =>
                              count[<<x, y>>] = Sampled(tasks'[n + 1], x, y)
      BY <1>1, <2>2, <2>6, <2>7, <2>8, <2>9, <3>1 DEF Sampled
    <3> QED BY <1>1, <2>2, <3>1, <3>2, <3>3
  <2> QED BY <2>11, <2>15, <2>16 DEF PictureInv
<1> QED BY <1>2, <1>3, <1>5, <1>9, <1>10


\* Rows have one task, and only rows that were dealt have one.
LEMMA OwnRows ==
    ASSUME PictureInv
    PROVE  /\ Dealt \in Nat
           /\ \A i \in DOMAIN tasks : Start(i) \in Nat /\ tasks[i].end \in Nat
                                      /\ tasks[i].end <= Dealt
           /\ \A i, j \in DOMAIN tasks : \A y \in Nat :
                /\ y \in Start(i) .. tasks[i].end - 1
                /\ y \in Start(j) .. tasks[j].end - 1
                => i = j
<1>1. tasks \in Seq(Task) /\ DOMAIN tasks = 1 .. Len(tasks) /\ Len(tasks) \in Nat
  BY DEF PictureInv, RenderTypeOK
<1>2. \A i \in DOMAIN tasks : tasks[i].end \in Nat
  <2>1. \A i \in DOMAIN tasks : tasks[i] \in Task
    BY <1>1
  <2> QED BY <2>1, RenderAssumption DEF Task
<1>3. \A i \in 1 .. Len(tasks) + 1 : Start(i) \in Nat
  <2> SUFFICES ASSUME NEW i \in 1 .. Len(tasks) + 1 PROVE Start(i) \in Nat
    OBVIOUS
  <2>1. i = 1 \/ i - 1 \in DOMAIN tasks
    BY <1>1
  <2> QED BY <1>2, <2>1 DEF Start
<1>4. \A i \in DOMAIN tasks, j \in 1 .. Len(tasks) + 1 : i < j => tasks[i].end <= Start(j)
  BY DEF PictureInv, RowsAreDealt
<1>5. Dealt \in Nat /\ \A i \in DOMAIN tasks : tasks[i].end <= Dealt
  <2>1. Len(tasks) + 1 \in 1 .. Len(tasks) + 1
    BY <1>1
  <2> QED BY <1>1, <1>3, <1>4, <2>1 DEF Dealt
<1>6. ASSUME NEW i \in DOMAIN tasks, NEW j \in DOMAIN tasks, NEW y \in Nat,
             y \in Start(i) .. tasks[i].end - 1, y \in Start(j) .. tasks[j].end - 1
      PROVE  i = j
  <2>1. i < j \/ j < i \/ i = j
    BY <1>1
  <2>2. i \in 1 .. Len(tasks) + 1 /\ j \in 1 .. Len(tasks) + 1
    BY <1>1
  <2>3. ~(i < j) /\ ~(j < i)
    BY <1>2, <1>3, <1>4, <1>6, <2>2
  <2> QED BY <2>1, <2>3
<1> QED BY <1>1, <1>2, <1>3, <1>5, <1>6


\* A call of trace() changes the place of one task and the count of the pixel
\* it is at.
LEMMA TraceKeepsPicture ==
    ASSUME PictureInv, NEW i \in DOMAIN tasks, NEW ray \in Rays, Trace(i, ray)
    PROVE  PictureInv'
<1> USE RenderAssumption
<1> DEFINE k == tasks[i]
<1>1. /\ main' = main /\ threads' = threads /\ next' = next /\ ~TaskEnded(i)
      /\ RowsPerThread(threads)' = RowsPerThread(threads)
      /\ tasks \in Seq(Task) /\ k \in Task /\ i \in 1 .. Len(tasks)
      /\ main # "returned" /\ main # "scene"
  BY DEF Trace, RowsPerThread, PictureInv, RenderTypeOK, RowsAreDealt
<1>2. AddSample(i) \/ Bounce(i)
  BY DEF Trace
<1>3. /\ k.row \in Start(i) .. k.end - 1 /\ Start(i) \in Nat
      /\ k.row \in 0 .. Height - 1 /\ k.col \in 0 .. Width - 1 /\ k.s \in 0 .. Spp - 1
      /\ k.end \in 0 .. Height /\ k.depth \in Nat
  <2>1. /\ k.row \in 0 .. Height /\ k.end \in 0 .. Height /\ k.depth \in Nat
        /\ k.col \in 0 .. Width - 1 /\ k.s \in 0 .. Spp - 1
    BY <1>1 DEF Task
  <2>2. k.row \in Start(i) .. k.end /\ k.row # k.end
    BY <1>1 DEF PictureInv, RowsAreDealt, TaskEnded
  <2>3. Start(i) \in Nat
    <3>1. CASE i = 1
      BY <3>1 DEF Start
    <3>2. CASE i # 1
      <4>1. i - 1 \in 1 .. Len(tasks)
        BY <1>1, <3>2
      <4>2. tasks[i - 1] \in Task
        BY <1>1, <4>1
      <4> QED BY <3>2, <4>2 DEF Start, Task
    <3> QED BY <3>1, <3>2
  <2> QED BY <2>1, <2>2, <2>3
\* Where task i goes.
<1> DEFINE Moved(new) ==
        /\ tasks' = [tasks EXCEPT ![i] = new]
        /\ new.end = k.end /\ new.row \in k.row .. k.end
        /\ new.row = new.end => new.col = 0 /\ new.s = 0
        /\ AddSample(i) =>
             /\ Sampled(new, k.col, k.row) = k.s + 1
             /\ \A x \in 0 .. Width - 1, y \in 0 .. Height - 1 :
                  <<x, y>> # <<k.col, k.row>> => Sampled(new, x, y) = Sampled(k, x, y)
        /\ ~AddSample(i) =>
             \A x \in 0 .. Width - 1, y \in 0 .. Height - 1 :
                  Sampled(new, x, y) = Sampled(k, x, y)
<1>4. \E new \in Task : Moved(new)
  <2>1. CASE AddSample(i)
    <3> DEFINE lastSample == k.s = Spp - 1
               lastPixel  == lastSample /\ k.col = Width - 1
               new == [row |-> IF lastPixel THEN k.row + 1 ELSE k.row,
                       end |-> k.end,
                       col |-> IF lastPixel THEN 0 ELSE IF lastSample THEN k.col + 1 ELSE k.col,
                       s |-> IF lastSample THEN 0 ELSE k.s + 1,
                       depth |-> 0]
    <3>1. new \in Task
      BY <1>3 DEF Task
    <3>2. tasks' = [tasks EXCEPT ![i] = new]
      BY <2>1 DEF AddSample
    <3>3. /\ new.end = k.end /\ new.row \in k.row .. k.end
          /\ new.row = new.end => new.col = 0 /\ new.s = 0
      BY <1>3
    <3>4. Sampled(new, k.col, k.row) = k.s + 1
      BY <1>3 DEF Sampled
    <3>5. \A x \in 0 .. Width - 1, y \in 0 .. Height - 1 :
            <<x, y>> # <<k.col, k.row>> => Sampled(new, x, y) = Sampled(k, x, y)
      BY <1>3 DEF Sampled
    <3> HIDE DEF new
    <3>6. Moved(new)
      BY <2>1, <3>2, <3>3, <3>4, <3>5
    <3> HIDE DEF Moved
    <3> QED BY <3>1, <3>6
  <2>2. CASE ~AddSample(i)
    <3> DEFINE new == [k EXCEPT !.depth = k.depth + 1]
    <3>1. tasks' = [tasks EXCEPT ![i] = new]
      BY <1>1, <1>2, <2>2 DEF Bounce
    <3>2. new \in Task /\ new.end = k.end /\ new.row = k.row /\ new.col = k.col /\ new.s = k.s
      <4>1. new = [row |-> k.row, end |-> k.end, col |-> k.col, s |-> k.s, depth |-> k.depth + 1]
        BY <1>1, Deeper
      <4> QED BY <1>3, <4>1 DEF Task
    <3>3. \A x, y : Sampled(new, x, y) = Sampled(k, x, y)
      BY <3>2 DEF Sampled
    <3> HIDE DEF new
    <3>4. Moved(new)
      BY <1>3, <2>2, <3>1, <3>2, <3>3
    <3> HIDE DEF Moved
    <3> QED BY <3>2, <3>4
  <2> QED BY <2>1, <2>2
<1>5. PICK new \in Task : Moved(new)
  BY <1>4
<1>6. /\ tasks' \in Seq(Task) /\ Len(tasks') = Len(tasks) /\ DOMAIN tasks' = DOMAIN tasks
      /\ tasks'[i] = new
      /\ \A j \in DOMAIN tasks : j # i => tasks'[j] = tasks[j]
      /\ \A j \in DOMAIN tasks : tasks'[j].end = tasks[j].end
  BY <1>1, <1>5
<1>7. \A j \in 1 .. Len(tasks) + 1 : Start(j)' = Start(j)
  BY <1>1, <1>6 DEF Start
<1>8. Dealt' = Dealt
  BY <1>1, <1>6, <1>7 DEF Dealt
<1>9. RowsAreDealt'
  <2>1. \A j \in DOMAIN tasks' :
          /\ Start(j)' < tasks'[j].end
          /\ tasks'[j].row \in Start(j)' .. tasks'[j].end
          /\ TaskEnded(j)' => tasks'[j].col = 0 /\ tasks'[j].s = 0
    <3> SUFFICES ASSUME NEW j \in DOMAIN tasks
                 PROVE  /\ Start(j)' < tasks'[j].end
                        /\ tasks'[j].row \in Start(j)' .. tasks'[j].end
                        /\ TaskEnded(j)' => tasks'[j].col = 0 /\ tasks'[j].s = 0
      BY <1>6
    <3>1. CASE j = i
      <4>1. tasks'[j] = new /\ Start(j)' = Start(i)
        BY <1>1, <1>6, <1>7, <3>1
      <4> QED BY <1>3, <1>5, <4>1 DEF TaskEnded
    <3>2. CASE j # i
      <4>1. /\ Start(j) < tasks[j].end
            /\ tasks[j].row \in Start(j) .. tasks[j].end
            /\ tasks[j].row = tasks[j].end => tasks[j].col = 0 /\ tasks[j].s = 0
        BY DEF PictureInv, RowsAreDealt, TaskEnded
      <4>2. tasks'[j] = tasks[j] /\ Start(j)' = Start(j)
        BY <1>1, <1>6, <1>7, <3>2
      <4> QED BY <4>1, <4>2 DEF TaskEnded
    <3> QED BY <3>1, <3>2
  <2>2. \A j \in DOMAIN tasks', l \in 1 .. Len(tasks') + 1 : j < l => tasks'[j].end <= Start(l)'
    BY <1>6, <1>7 DEF PictureInv, RowsAreDealt
  <2>3. \A y \in 0 .. Dealt' - 1 : \E j \in DOMAIN tasks' : y \in Start(j)' .. tasks'[j].end - 1
    <3> SUFFICES ASSUME NEW y \in 0 .. Dealt - 1
                 PROVE  \E j \in DOMAIN tasks : y \in Start(j)' .. tasks'[j].end - 1
      BY <1>6, <1>8
    <3>1. PICK j \in DOMAIN tasks : y \in Start(j) .. tasks[j].end - 1
      BY DEF PictureInv, RowsAreDealt
    <3> QED BY <1>1, <1>6, <1>7, <3>1
  <2>4. main' # "returned" /\ main' # "scene"
    BY <1>1
  <2>5. threads > 0 /\ Dealt = Min({next * RowsPerThread(threads), Height})
        /\ (main \in {"get", "returned"} => next = threads)
    BY <1>1 DEF PictureInv, RowsAreDealt
  <2> QED BY <1>1, <1>8, <2>1, <2>2, <2>3, <2>4, <2>5 DEF RowsAreDealt
<1>10. count' = IF AddSample(i)
                THEN [count EXCEPT ![<<k.col, k.row>>] = @ + 1] ELSE count
  BY <1>2 DEF AddSample, Bounce
<1>11. <<k.col, k.row>> \in Pixels /\ count \in [Pixels -> Nat]
  BY <1>3 DEF Pixels, PictureInv, RenderTypeOK
<1>12. RenderTypeOK'
  <2>1. count' \in [Pixels -> Nat]
    BY <1>10, <1>11
  <2> QED BY <1>1, <1>6, <2>1 DEF RenderTypeOK, PictureInv
<1>13. SamplesAreCounted'
  <2> SUFFICES ASSUME NEW x \in 0 .. Width - 1, NEW y \in 0 .. Height - 1
               PROVE  /\ y >= Dealt' => count'[<<x, y>>] = 0
                      /\ \A j \in DOMAIN tasks' : y \in Start(j)' .. tasks'[j].end - 1 =>
                            count'[<<x, y>>] = Sampled(tasks'[j], x, y)
    BY DEF SamplesAreCounted, Sampled
  <2> SUFFICES /\ y >= Dealt => count'[<<x, y>>] = 0
               /\ \A j \in DOMAIN tasks : y \in Start(j) .. tasks[j].end - 1 =>
                     count'[<<x, y>>] = Sampled(tasks'[j], x, y)
    <3>1. \A j \in DOMAIN tasks : Start(j)' = Start(j)
      BY <1>1, <1>7
    <3> QED BY <1>6, <1>8, <3>1
  <2>1. /\ y >= Dealt => count[<<x, y>>] = 0
        /\ \A j \in DOMAIN tasks : y \in Start(j) .. tasks[j].end - 1 =>
              count[<<x, y>>] = Sampled(tasks[j], x, y)
    BY DEF PictureInv, SamplesAreCounted
  <2>2. <<x, y>> \in Pixels
    BY DEF Pixels
  <2>3. CASE AddSample(i) /\ <<x, y>> = <<k.col, k.row>>
    <3>1. count'[<<x, y>>] = count[<<x, y>>] + 1 /\ x = k.col /\ y = k.row
      BY <1>10, <1>11, <2>3
    <3>2. y \in Start(i) .. tasks[i].end - 1
      BY <1>3, <3>1
    <3>3. count[<<x, y>>] = k.s
      <4>1. Sampled(k, x, y) = k.s
        BY <1>3, <3>1 DEF Sampled
      <4> QED BY <2>1, <3>2, <4>1
    <3>4. y < Dealt
      <4>1. tasks[i].end <= Dealt /\ Dealt \in Nat
        BY <1>1, <1>3, OwnRows DEF PictureInv
      <4> QED BY <1>3, <3>1, <4>1
    <3>5. ASSUME NEW j \in DOMAIN tasks, y \in Start(j) .. tasks[j].end - 1 PROVE j = i
      BY <3>2, <3>5, OwnRows DEF PictureInv
    <3>6. count'[<<x, y>>] = Sampled(new, x, y)
      BY <1>5, <2>3, <3>1, <3>3
    <3>7. \A j \in DOMAIN tasks : y \in Start(j) .. tasks[j].end - 1 =>
                            count'[<<x, y>>] = Sampled(tasks'[j], x, y)
      BY <1>6, <3>5, <3>6
    <3>8. ~(y >= Dealt)
      BY <1>1, <3>4, OwnRows
    <3> QED BY <3>7, <3>8
  <2>4. CASE ~(AddSample(i) /\ <<x, y>> = <<k.col, k.row>>)
    <3>1. count'[<<x, y>>] = count[<<x, y>>]
      BY <1>10, <1>11, <2>2, <2>4
    <3>2. Sampled(new, x, y) = Sampled(k, x, y)
      BY <1>5, <2>4
    <3>3. \A j \in DOMAIN tasks : Sampled(tasks'[j], x, y) = Sampled(tasks[j], x, y)
      BY <1>6, <3>2
    <3> QED BY <2>1, <3>1, <3>3
  <2> QED BY <2>3, <2>4
<1> QED BY <1>9, <1>12, <1>13 DEF PictureInv

LEMMA PictureStep == PictureInv /\ [Next]_vars => PictureInv'
BY OthersKeepPicture, LaunchKeepsPicture, TraceKeepsPicture DEF Next, Ended

\* However rows, threads and tasks divide, no sample falls outside the
\* picture, no pixel is sampled more than Spp times, and render() returns with
\* each one sampled exactly Spp times (PathTracer.cpp:12-51).
THEOREM PictureIsComplete == Spec => []EveryPixelSampled
<1>1. ASSUME PictureInv PROVE EveryPixelSampled
  <2> USE RenderAssumption
  <2>1. ASSUME NEW i \in DOMAIN tasks, ~TaskEnded(i)
        PROVE  <<tasks[i].col, tasks[i].row>> \in Pixels
    <3>1. tasks[i] \in Task
      BY <1>1 DEF PictureInv, RenderTypeOK
    <3>2. tasks[i].row \in Start(i) .. tasks[i].end /\ tasks[i].row # tasks[i].end
      BY <1>1, <2>1 DEF PictureInv, RowsAreDealt, TaskEnded
    <3>3. /\ tasks[i].row \in 0 .. Height /\ tasks[i].end \in 0 .. Height
          /\ tasks[i].col \in 0 .. Width - 1
      BY <3>1 DEF Task
    <3>4. tasks[i].row \in 0 .. Height - 1
      BY <3>2, <3>3
    <3> QED BY <3>3, <3>4 DEF Pixels
  <2>2. ASSUME NEW x \in 0 .. Width - 1, NEW y \in 0 .. Height - 1
        PROVE  /\ count[<<x, y>>] <= Spp
               /\ main = "returned" => count[<<x, y>>] = Spp
    <3>1. Dealt \in Nat
      BY <1>1, OwnRows
    <3>2. CASE y >= Dealt
      <4>1. count[<<x, y>>] = 0
        BY <1>1, <3>2 DEF PictureInv, SamplesAreCounted
      <4>2. main # "returned"
        <5> SUFFICES ASSUME main = "returned" PROVE FALSE
          OBVIOUS
        <5>1. /\ next = threads /\ threads \in Nat /\ threads > 0
              /\ Dealt = Min({next * RowsPerThread(threads), Height})
          BY <1>1 DEF PictureInv, RenderTypeOK, RowsAreDealt
        <5>2. RowsPerThread(threads) \in Nat /\ threads * RowsPerThread(threads) >= Height
              /\ threads * RowsPerThread(threads) \in Nat
          BY <5>1, RowsSuffice
        <5>3. Dealt = Height
          BY <5>1, <5>2, MinOfTwo
        <5> QED BY <3>2, <5>3
      <4> QED BY <4>1, <4>2
    <3>3. CASE y < Dealt
      <4>1. PICK i \in DOMAIN tasks : y \in Start(i) .. tasks[i].end - 1
        BY <1>1, <3>1, <3>3 DEF PictureInv, RowsAreDealt
      <4>2. count[<<x, y>>] = Sampled(tasks[i], x, y)
        BY <1>1, <4>1 DEF PictureInv, SamplesAreCounted
      <4>3. tasks[i] \in Task
        BY <1>1 DEF PictureInv, RenderTypeOK
      <4>4. tasks[i].s \in 0 .. Spp - 1 /\ tasks[i].end \in 0 .. Height
        BY <4>3 DEF Task
      <4>5. Sampled(tasks[i], x, y) <= Spp
        BY <4>4 DEF Sampled
      <4>6. main = "returned" => Sampled(tasks[i], x, y) = Spp
        <5>1. main = "returned" => tasks[i].row = tasks[i].end
          BY <1>1 DEF PictureInv, RowsAreDealt, TaskEnded
        <5>2. y < tasks[i].end
          BY <1>1, <4>1, <4>4, OwnRows
        <5> QED BY <5>1, <5>2 DEF Sampled
      <4> QED BY <4>2, <4>5, <4>6
    <3> QED BY <3>1, <3>2, <3>3
  <2> QED BY <2>1, <2>2 DEF EveryPixelSampled, Pixels
<1> QED BY <1>1, InitPicture, PictureStep, PTL DEF Spec

------------------------------------------------------------------------------
(* Every task ends. *)

\* The samples a task has still to take from column c and sample s of the first
\* of n rows on, and the calls of trace() it may still make for them.
SamplesLeft(n, c, s) == (n * Width - c) * Spp - s
CallsLeft(k) == SamplesLeft(k.end - k.row, k.col, k.s) * (MaxDepth + 1) - k.depth

CallsAreLeft == \A i \in DOMAIN tasks : tasks[i].depth <= MaxDepth /\ CallsLeft(tasks[i]) \in Nat

TasksNearTheirEnd ==
    [][\A i \in DOMAIN tasks :
         tasks'[i] # tasks[i] => CallsLeft(tasks'[i]) < CallsLeft(tasks[i])]_vars

LEMMA OneLess ==
    ASSUME NEW a \in Int, NEW b \in Int
    PROVE  a * b \in Int /\ (a - 1) * b = a * b - b /\ (a - 1) * b \in Int
  OBVIOUS

LEMMA ProductIsNatural == ASSUME NEW a \in Nat, NEW b \in Nat PROVE a * b \in Nat
  OBVIOUS

\* There are samples left as long as there are rows.
LEMMA SomeSamplesLeft ==
    ASSUME NEW n \in Nat, NEW c \in 0 .. Width - 1, NEW s \in 0 .. Spp - 1, n = 0 => c = 0 /\ s = 0
    PROVE  SamplesLeft(n, c, s) \in Nat /\ (n > 0 => SamplesLeft(n, c, s) > 0)
           /\ (n = 0 => SamplesLeft(n, c, s) = 0)
<1>1. Width \in Nat /\ Spp \in Nat /\ c \in Int /\ s \in Int
  BY RenderAssumption
<1>2. CASE n = 0
  <2>1. (0 * Width - 0) * Spp - 0 = 0
    BY <1>1
  <2> QED BY <1>2, <2>1 DEF SamplesLeft
<1>3. CASE n > 0
  <2>1. n - 1 \in Nat /\ n \in Int
    BY <1>3
  <2>2. n * Width = (n - 1) * Width + Width /\ (n - 1) * Width \in Nat /\ n * Width \in Int
    BY <1>1, <2>1, OneLess, ProductIsNatural
  <2> PICK x : x = n * Width - c
    OBVIOUS
  <2>3. x \in Int /\ x - 1 \in Nat
    BY <1>1, <2>2
  <2>4. x * Spp = (x - 1) * Spp + Spp /\ (x - 1) * Spp \in Nat /\ x * Spp \in Int
    BY <1>1, <2>3, OneLess, ProductIsNatural
  <2>5. x * Spp - s \in Nat /\ x * Spp - s > 0
    BY <1>1, <2>4
  <2> QED BY <1>3, <2>5 DEF SamplesLeft
<1> QED BY <1>2, <1>3

\* add() takes one sample, at the end of a row, of a pixel or within one.
LEMMA SampleTaken ==
    ASSUME NEW n \in Nat, NEW c \in 0 .. Width - 1, NEW s \in 0 .. Spp - 1
    PROVE  /\ s = Spp - 1 /\ c = Width - 1 =>
                 SamplesLeft(n - 1, 0, 0) = SamplesLeft(n, c, s) - 1
           /\ s = Spp - 1 => SamplesLeft(n, c + 1, 0) = SamplesLeft(n, c, s) - 1
           /\ SamplesLeft(n, c, s + 1) = SamplesLeft(n, c, s) - 1
<1>1. Width \in Nat /\ Spp \in Nat /\ c \in Int /\ s \in Int /\ n \in Int
  BY RenderAssumption
<1> PICK x : x = n * Width - c
  OBVIOUS
<1>2. n * Width \in Int /\ (n - 1) * Width = n * Width - Width /\ (n - 1) * Width \in Int
  BY <1>1, OneLess
<1>3. x \in Int /\ n * Width - (c + 1) = x - 1
      /\ (c = Width - 1 => (n - 1) * Width - 0 = x - 1)
  BY <1>1, <1>2
<1>4. x * Spp \in Int /\ (x - 1) * Spp = x * Spp - Spp
  BY <1>1, <1>3, OneLess
<1>5. SamplesLeft(n, c, s) = x * Spp - s
  BY DEF SamplesLeft
<1>6. SamplesLeft(n, c, s + 1) = x * Spp - (s + 1)
  BY DEF SamplesLeft
<1>7. SamplesLeft(n, c + 1, 0) = (x - 1) * Spp - 0
  BY <1>3 DEF SamplesLeft
<1>8. c = Width - 1 => SamplesLeft(n - 1, 0, 0) = (x - 1) * Spp - 0
  BY <1>3 DEF SamplesLeft
<1> QED BY <1>1, <1>4, <1>5, <1>6, <1>7, <1>8

\* One sample less outweighs whatever depth the last one had.
LEMMA SampleOutweighs ==
    ASSUME NEW a \in Int, NEW m \in Nat, NEW d \in Nat, d <= m
    PROVE  (a - 1) * (m + 1) - 0 < a * (m + 1) - d
<1>1. (a - 1) * (m + 1) = a * (m + 1) - (m + 1) /\ a * (m + 1) \in Int
  BY OneLess
<1> QED BY <1>1

DepthInv == \A i \in DOMAIN tasks : tasks[i].depth <= MaxDepth /\ (TaskEnded(i) => tasks[i].depth = 0)

\* What is known of the place of a task.
LEMMA PlaceOf ==
    ASSUME PictureInv, NEW i \in DOMAIN tasks
    PROVE  LET k == tasks[i]
           IN  /\ k.end - k.row \in Nat /\ k.row \in Int /\ k.end \in Int
               /\ k.col \in 0 .. Width - 1 /\ k.s \in 0 .. Spp - 1
               /\ k.depth \in Nat
               /\ TaskEnded(i) <=> k.end - k.row = 0
               /\ TaskEnded(i) => k.col = 0 /\ k.s = 0
<1> PICK k : k = tasks[i]
  OBVIOUS
<1>1. k \in Task
  BY DEF PictureInv, RenderTypeOK
<1>2. /\ k.row \in 0 .. Height /\ k.end \in 0 .. Height /\ k.col \in 0 .. Width - 1
      /\ k.s \in 0 .. Spp - 1 /\ k.depth \in Nat
  BY <1>1 DEF Task
<1>3. k.row \in Start(i) .. k.end /\ (TaskEnded(i) => k.col = 0 /\ k.s = 0)
  BY DEF PictureInv, RowsAreDealt
<1>4. k.row <= k.end /\ k.row \in Int /\ k.end \in Int
  BY <1>2, <1>3
<1> QED BY <1>2, <1>3, <1>4 DEF TaskEnded

LEMMA DepthGivesCalls == PictureInv /\ DepthInv => CallsAreLeft
<1> SUFFICES ASSUME PictureInv, DepthInv, NEW i \in DOMAIN tasks
             PROVE  tasks[i].depth <= MaxDepth /\ CallsLeft(tasks[i]) \in Nat
  BY DEF CallsAreLeft
<1> PICK k, n, a : k = tasks[i] /\ n = k.end - k.row /\ a = SamplesLeft(n, k.col, k.s)
  OBVIOUS
<1>1. /\ n \in Nat /\ k.col \in 0 .. Width - 1 /\ k.s \in 0 .. Spp - 1 /\ k.depth \in Nat
      /\ TaskEnded(i) <=> n = 0
      /\ n = 0 => k.col = 0 /\ k.s = 0
  BY PlaceOf
<1>2. k.depth <= MaxDepth /\ (n = 0 => k.depth = 0) /\ MaxDepth \in Nat
  BY <1>1, RenderAssumption DEF DepthInv
<1>3. a \in Nat /\ (n > 0 => a > 0) /\ (n = 0 => a = 0)
  BY <1>1, SomeSamplesLeft
<1>4. a * (MaxDepth + 1) - k.depth \in Nat
  <2>1. CASE n = 0
    BY <1>2, <1>3, <2>1
  <2>2. CASE n > 0
    <3>1. a - 1 \in Nat /\ MaxDepth + 1 \in Nat /\ a \in Int /\ MaxDepth + 1 \in Int
      BY <1>2, <1>3, <2>2
    <3>2. a * (MaxDepth + 1) = (a - 1) * (MaxDepth + 1) + (MaxDepth + 1)
          /\ (a - 1) * (MaxDepth + 1) \in Nat
      BY <3>1, OneLess, ProductIsNatural
    <3> QED BY <1>1, <1>2, <3>1, <3>2
  <2> QED BY <1>1, <2>1, <2>2
<1>5. CallsLeft(k) = a * (MaxDepth + 1) - k.depth
  BY DEF CallsLeft
<1> QED BY <1>2, <1>4, <1>5

\* trace() goes one deeper, or its sample is taken.
LEMMA TraceUsesCalls ==
    ASSUME PictureInv, DepthInv, NEW i \in DOMAIN tasks, NEW ray \in Rays, Trace(i, ray)
    PROVE  /\ DOMAIN tasks' = DOMAIN tasks
           /\ \A j \in DOMAIN tasks : j # i => tasks'[j] = tasks[j]
           /\ tasks'[i].depth <= MaxDepth
           /\ tasks'[i].row = tasks'[i].end => tasks'[i].depth = 0
           /\ CallsLeft(tasks'[i]) < CallsLeft(tasks[i])
<1> PICK k, n, a, new : k = tasks[i] /\ n = k.end - k.row /\ a = SamplesLeft(n, k.col, k.s)
                        /\ new = tasks'[i]
  OBVIOUS
<1>1. /\ n \in Nat /\ k.row \in Int /\ k.end \in Int
      /\ k.col \in 0 .. Width - 1 /\ k.s \in 0 .. Spp - 1 /\ k.depth \in Nat
      /\ TaskEnded(i) <=> n = 0
      /\ n = 0 => k.col = 0 /\ k.s = 0
  BY PlaceOf
<1>2. k.depth <= MaxDepth /\ MaxDepth \in Nat /\ n > 0 /\ k.row # k.end
  BY <1>1, RenderAssumption DEF DepthInv, Trace
<1>3. a \in Int /\ CallsLeft(k) = a * (MaxDepth + 1) - k.depth /\ a * (MaxDepth + 1) \in Int
  <2>1. a \in Int
    BY <1>1, SomeSamplesLeft
  <2> QED BY <1>2, <2>1, OneLess DEF CallsLeft
<1>4. CASE AddSample(i)
  <2>1. /\ DOMAIN tasks' = DOMAIN tasks
        /\ \A j \in DOMAIN tasks : j # i => tasks'[j] = tasks[j]
        /\ new.end = k.end /\ new.depth = 0
        /\ k.s = Spp - 1 /\ k.col = Width - 1 =>
             new.row = k.row + 1 /\ new.col = 0 /\ new.s = 0
        /\ k.s = Spp - 1 /\ k.col # Width - 1 =>
             new.row = k.row /\ new.col = k.col + 1 /\ new.s = 0
        /\ k.s # Spp - 1 =>
             new.row = k.row /\ new.col = k.col /\ new.s = k.s + 1
    BY <1>4 DEF AddSample
  <2>2. SamplesLeft(new.end - new.row, new.col, new.s) = a - 1
    <3>1. CASE k.s = Spp - 1 /\ k.col = Width - 1
      <4>1. new.end - new.row = n - 1 /\ new.col = 0 /\ new.s = 0
        <5>1. new.end = k.end /\ new.row = k.row + 1 /\ new.col = 0 /\ new.s = 0
          BY <2>1, <3>1
        <5>2. k.row \in Int /\ k.end \in Int /\ n = k.end - k.row
          BY <1>1
        <5> QED BY ONLY <5>1, <5>2
      <4>2. SamplesLeft(n - 1, 0, 0) = SamplesLeft(n, k.col, k.s) - 1
        BY <1>1, <3>1, SampleTaken
      <4> QED BY <4>1, <4>2
    <3>2. CASE k.s = Spp - 1 /\ k.col # Width - 1
      <4>1. new.end - new.row = n /\ new.col = k.col + 1 /\ new.s = 0
        BY <2>1, <3>2
      <4>2. SamplesLeft(n, k.col + 1, 0) = SamplesLeft(n, k.col, k.s) - 1
        BY <1>1, <3>2, SampleTaken
      <4> QED BY <4>1, <4>2
    <3>3. CASE k.s # Spp - 1
      <4>1. new.end - new.row = n /\ new.col = k.col /\ new.s = k.s + 1
        BY <2>1, <3>3
      <4>2. SamplesLeft(n, k.col, k.s + 1) = SamplesLeft(n, k.col, k.s) - 1
        BY <1>1, SampleTaken
      <4> QED BY <4>1, <4>2
    <3> QED BY <3>1, <3>2, <3>3
  <2>3. CallsLeft(new) = (a - 1) * (MaxDepth + 1) - 0
    BY <2>1, <2>2 DEF CallsLeft
  <2>4. CallsLeft(new) < CallsLeft(k)
    BY <1>1, <1>2, <1>3, <2>3, SampleOutweighs
  <2> QED BY <1>2, <2>1, <2>4
<1>5. CASE Bounce(i) /\ ~AddSample(i)
  <2>1. k.depth + 1 <= MaxDepth
    BY <1>1, <1>2, <1>5 DEF Trace
  <2>2. PictureInv /\ k \in Task
    BY DEF PictureInv, RenderTypeOK
  <2>3. /\ DOMAIN tasks' = DOMAIN tasks
        /\ \A j \in DOMAIN tasks : j # i => tasks'[j] = tasks[j]
        /\ new = [k EXCEPT !.depth = @ + 1]
    BY <1>5 DEF Bounce
  <2>4. new = [row |-> k.row, end |-> k.end, col |-> k.col, s |-> k.s, depth |-> k.depth + 1]
    BY <2>2, <2>3, Deeper
  <2>5. new.row = k.row /\ new.end = k.end /\ new.col = k.col /\ new.s = k.s /\ new.depth = k.depth + 1
    BY <2>4
  <2>6. CallsLeft(new) = a * (MaxDepth + 1) - (k.depth + 1)
    BY <2>5 DEF CallsLeft
  <2> QED BY <1>1, <1>2, <1>3, <2>1, <2>3, <2>5, <2>6
<1> QED BY <1>4, <1>5 DEF Trace

\* A task is launched with its first ray not yet bounced; nothing but its own
\* calls of trace() changes a task.
LEMMA TaskStep ==
    ASSUME PictureInv, DepthInv, [Next]_vars
    PROVE  /\ DepthInv'
           /\ \A i \in DOMAIN tasks :
                tasks'[i] # tasks[i] => CallsLeft(tasks'[i]) < CallsLeft(tasks[i])
<1>1. CASE tasks' = tasks
  BY <1>1 DEF DepthInv, TaskEnded
<1>2. CASE Launch /\ tasks' # tasks
  <2>1. tasks \in Seq(Task) /\ MaxDepth \in Nat
    BY RenderAssumption DEF PictureInv, RenderTypeOK
  <2> PICK new : new = [row |-> FirstRow, end |-> EndRow, col |-> 0, s |-> 0, depth |-> 0]
    OBVIOUS
  <2>2. tasks' = Append(tasks, new)
    BY <1>2 DEF Launch
  <2>3. DOMAIN tasks' = 1 .. Len(tasks) + 1 /\ DOMAIN tasks = 1 .. Len(tasks)
        /\ tasks'[Len(tasks) + 1] = new
        /\ \A i \in DOMAIN tasks : tasks'[i] = tasks[i]
    BY <2>1, <2>2
  <2>4. DepthInv'
    <3> SUFFICES ASSUME NEW i \in DOMAIN tasks'
                 PROVE  /\ tasks'[i].depth <= MaxDepth
                        /\ tasks'[i].row = tasks'[i].end => tasks'[i].depth = 0
      BY DEF DepthInv, TaskEnded
    <3>1. CASE i \in DOMAIN tasks
      BY <2>3, <3>1 DEF DepthInv, TaskEnded
    <3>2. CASE i \notin DOMAIN tasks
      <4>1. Len(tasks) \in Nat /\ i \in 1 .. Len(tasks) + 1 /\ i \notin 1 .. Len(tasks)
        BY <2>1, <2>3, <3>2
      <4>2. tasks'[i] = new
        BY <2>3, <4>1
      <4> QED BY <2>1, <4>2
    <3> QED BY <3>1, <3>2
  <2> QED BY <2>3, <2>4
<1>3. ASSUME NEW i \in DOMAIN tasks, NEW ray \in Rays, Trace(i, ray)
      PROVE  /\ DepthInv'
             /\ \A j \in DOMAIN tasks :
                  tasks'[j] # tasks[j] => CallsLeft(tasks'[j]) < CallsLeft(tasks[j])
  <2>1. /\ DOMAIN tasks' = DOMAIN tasks
        /\ \A j \in DOMAIN tasks : j # i => tasks'[j] = tasks[j]
        /\ tasks'[i].depth <= MaxDepth
        /\ tasks'[i].row = tasks'[i].end => tasks'[i].depth = 0
        /\ CallsLeft(tasks'[i]) < CallsLeft(tasks[i])
    BY <1>3, TraceUsesCalls
  <2>2. DepthInv'
    BY <2>1 DEF DepthInv, TaskEnded
  <2> QED BY <2>1, <2>2
<1>4. CASE \/ Prepare \/ Render \/ LaunchFails \/ AllLaunched \/ GetAll \/ Unwind
          \/ UNCHANGED vars
  <2>1. tasks' = tasks
    BY <1>4 DEF Prepare, Render, LaunchFails, AllLaunched, GetAll, Unwind, vars, picture
  <2> QED BY <1>1, <2>1
<1> QED BY <1>1, <1>2, <1>3, <1>4 DEF Next, Ended

\* A path never bounces deeper than max_depth_, and a task always knows a number
\* of calls of trace() that it may still make: naught when it has ended
\* (the loops and trace(), PathTracer.cpp).
THEOREM TasksHaveCalls == Spec => []CallsAreLeft
<1>1. Init => DepthInv
  BY DEF Init, DepthInv
<1>2. PictureInv /\ DepthInv /\ [Next]_vars => DepthInv'
  BY TaskStep
<1> QED BY <1>1, <1>2, DepthGivesCalls, InitPicture, PictureStep, PTL DEF Spec

\* Every task ends, whatever its rays hit and whatever the others do: each of
\* its calls of trace() leaves it fewer to make, and no step of another
\* thread adds to them. This is what get(), and the destructor of a future
\* when render() is left by an exception, wait for.
THEOREM TasksEnd == Spec => TasksNearTheirEnd
<1>1. Init => DepthInv
  BY DEF Init, DepthInv
<1>2. PictureInv /\ DepthInv /\ [Next]_vars => DepthInv'
  BY TaskStep
<1>3. PictureInv /\ DepthInv /\ [Next]_vars
      => [\A i \in DOMAIN tasks :
            tasks'[i] # tasks[i] => CallsLeft(tasks'[i]) < CallsLeft(tasks[i])]_vars
  BY TaskStep
<1> QED BY <1>1, <1>2, <1>3, InitPicture, PictureStep, PTL DEF Spec, TasksNearTheirEnd

------------------------------------------------------------------------------
(* The nearest hit.  First, numbers and sets of them. *)

\* Every non-empty set of naturals has a least element.
LEMMA LeastNumber ==
    ASSUME NEW T, T \subseteq Nat, T # {}
    PROVE  \E n \in T : \A m \in T : n <= m
<1> DEFINE R == {ss \in Nat \X Nat : ss[1] < ss[2]}
<1>1. IsWellFoundedOn(R, Nat)
  BY NatLessThanWellFounded, Zenon DEF OpToRel
<1>2. PICK n \in T : \A m \in T : <<m, n>> \notin R
  <2> HIDE DEF R
  <2> QED BY <1>1, WFMin
<1>3. \A x, y \in Nat : x < y => <<x, y>> \in R
  OBVIOUS
<1>4. ASSUME NEW m \in T PROVE n <= m
  <2>1. m \in Nat /\ n \in Nat
    OBVIOUS
  <2>2. <<m, n>> \notin R
    BY <1>2
  <2>3. ~(m < n)
    BY <1>3, <2>1, <2>2
  <2> QED BY <2>1, <2>3
<1> QED BY <1>4

\* Induction over the naturals, on a set.
LEMMA SetInduction ==
    ASSUME NEW S, 0 \in S, \A n \in Nat : n \in S => n + 1 \in S
    PROVE  Nat \subseteq S
<1> SUFFICES ASSUME Nat \ S # {} PROVE FALSE
  OBVIOUS
<1>1. PICK n \in Nat \ S : \A m \in Nat \ S : n <= m
  <2> DEFINE T == Nat \ S
  <2>1. T \subseteq Nat /\ T # {}
    OBVIOUS
  <2> HIDE DEF T
  <2>2. \E n \in T : \A m \in T : n <= m
    BY <2>1, LeastNumber
  <2> QED BY <2>2 DEF T
<1>2. n - 1 \in Nat /\ n - 1 \notin Nat \ S
  BY <1>1
<1>3. (n - 1) + 1 \in S
  BY <1>2
<1> QED BY <1>1, <1>3

\* Bounded sets of integers have a least, a greatest element.
LEMMA MinIs ==
    ASSUME NEW S, S \subseteq Int, S # {}, NEW b \in Int, \A x \in S : b <= x
    PROVE  Min(S) \in S /\ \A x \in S : Min(S) <= x
<1> DEFINE T == {x - b : x \in S}
<1>1. T \subseteq Nat /\ T # {}
  <2>1. \A x \in S : x - b \in Nat
    <3>1. \A x \in Int : b <= x => x - b \in Nat
      OBVIOUS
    <3> QED BY <3>1
  <2> QED BY <2>1
<1>2. PICK n \in T : \A m \in T : n <= m
  <2> HIDE DEF T
  <2> QED BY <1>1, LeastNumber
<1>3. PICK x \in S : n = x - b
  BY <1>2
<1>4. \A y \in S : x <= y
  <2> SUFFICES ASSUME NEW y \in S PROVE x <= y
    OBVIOUS
  <2>1. n <= y - b /\ x \in Int /\ y \in Int
    BY <1>2
  <2> QED BY <1>3, <2>1
<1> QED BY <1>4 DEF Min

LEMMA MaxIs ==
    ASSUME NEW S, S \subseteq Int, S # {}, NEW b \in Int, \A x \in S : x <= b
    PROVE  Max(S) \in S /\ \A x \in S : x <= Max(S)
<1> DEFINE T == {b - x : x \in S}
<1>1. T \subseteq Nat /\ T # {}
  <2>1. \A x \in S : b - x \in Nat
    <3>1. \A x \in Int : x <= b => b - x \in Nat
      OBVIOUS
    <3> QED BY <3>1
  <2> QED BY <2>1
<1>2. PICK n \in T : \A m \in T : n <= m
  <2> HIDE DEF T
  <2> QED BY <1>1, LeastNumber
<1>3. PICK x \in S : n = b - x
  BY <1>2
<1>4. \A y \in S : x >= y
  <2> SUFFICES ASSUME NEW y \in S PROVE x >= y
    OBVIOUS
  <2>1. n <= b - y /\ x \in Int /\ y \in Int
    BY <1>2
  <2> QED BY <1>3, <2>1
<1>5. \E z \in S : \A y \in S : z >= y
  BY <1>4
<1>6. Max(S) \in S /\ \A y \in S : Max(S) >= y
  BY <1>5 DEF Max
<1>7. Max(S) \in Int
  BY <1>6
<1> QED BY <1>6, <1>7

\* So do the values of a function on an interval.
LEMMA IntervalBounded ==
    ASSUME NEW m \in Int, NEW f, NEW n \in Nat, \A i \in m .. m + n : f[i] \in Int
    PROVE  \E b, c \in Int : \A i \in m .. m + n : b <= f[i] /\ f[i] <= c
<1> DEFINE S == {k \in Nat : k <= n =>
                   \E b, c \in Int : \A i \in m .. m + k : b <= f[i] /\ f[i] <= c}
<1>1. 0 \in S
  <2>1. m \in m .. m + n /\ \A i \in m .. m + 0 : i = m
    OBVIOUS
  <2>2. f[m] \in Int
    BY <2>1
  <2>3. \A i \in m .. m + 0 : f[m] <= f[i] /\ f[i] <= f[m]
    BY <2>1, <2>2
  <2> QED BY <2>2, <2>3
<1>2. ASSUME NEW k \in Nat, k \in S PROVE k + 1 \in S
  <2> SUFFICES ASSUME k + 1 <= n
               PROVE  \E b, c \in Int : \A i \in m .. m + (k + 1) : b <= f[i] /\ f[i] <= c
    OBVIOUS
  <2>1. PICK b, c \in Int : \A i \in m .. m + k : b <= f[i] /\ f[i] <= c
    BY <1>2
  <2> DEFINE z == f[m + (k + 1)]
  <2>2. z \in Int
    OBVIOUS
  <2>3. \A i \in m .. m + (k + 1) : i = m + (k + 1) \/ i \in m .. m + k
    OBVIOUS
  <2>4. \A i \in m .. m + (k + 1) : f[i] \in Int
    OBVIOUS
  <2>5. /\ (IF b <= z THEN b ELSE z) \in Int /\ (IF z <= c THEN c ELSE z) \in Int
        /\ \A i \in m .. m + (k + 1) : /\ (IF b <= z THEN b ELSE z) <= f[i]
                                      /\ f[i] <= (IF z <= c THEN c ELSE z)
    <3> HIDE DEF z
    <3>1. f[m + (k + 1)] = z
      BY DEF z
    <3> QED BY <2>1, <2>2, <2>3, <2>4, <3>1
  <2> QED BY <2>5
<1>3. n \in S
  <2> HIDE DEF S
  <2> QED BY <1>1, <1>2, SetInduction
<1> QED BY <1>3

------------------------------------------------------------------------------
(* Boxes, triangles and rays. *)

Tri  == {t \in [a : Point, b : Point, id : Nat] : \E k \in Axes : t.a[k] = t.b[k]}
Box  == [lo : Point, hi : Point]

\* A triangle lies in a box.
Within(tri, box) == \A k \in Axes : box.lo[k] <= Lower(tri)[k] /\ Upper(tri)[k] <= box.hi[k]

\* The least and the greatest of two.
LEMMA TwoNumbers ==
    ASSUME NEW x \in Int, NEW y \in Int
    PROVE  /\ Min({x, y}) \in {x, y} /\ Min({x, y}) <= x /\ Min({x, y}) <= y
           /\ Max({x, y}) \in {x, y} /\ x <= Max({x, y}) /\ y <= Max({x, y})
<1>1. PICK b \in Int : b <= x /\ b <= y
  <2>1. CASE x <= y
    BY <2>1
  <2>2. CASE y <= x
    BY <2>2
  <2> QED BY <2>1, <2>2
<1>2. PICK c \in Int : x <= c /\ y <= c
  <2>1. CASE x <= y
    BY <2>1
  <2>2. CASE y <= x
    BY <2>2
  <2> QED BY <2>1, <2>2
<1> DEFINE S == {x, y}
<1>3. S \subseteq Int /\ S # {} /\ (\A z \in S : b <= z) /\ (\A z \in S : z <= c)
      /\ x \in S /\ y \in S
  BY <1>1, <1>2
<1>4. /\ Min(S) \in S /\ \A z \in S : Min(S) <= z
      /\ Max(S) \in S /\ \A z \in S : z <= Max(S)
  <2> HIDE DEF S
  <2> QED BY <1>3, MinIs, MaxIs
<1> QED BY <1>3, <1>4

\* What is known of a triangle.
LEMMA TriIs ==
    ASSUME NEW tri \in Tri, NEW k \in Axes
    PROVE  /\ tri.a \in Point /\ tri.b \in Point /\ tri.id \in Nat
           /\ tri.a[k] \in Int /\ tri.b[k] \in Int
           /\ Lower(tri)[k] \in Int /\ Upper(tri)[k] \in Int
           /\ Lower(tri)[k] <= tri.a[k] /\ tri.a[k] <= Upper(tri)[k]
<1>1. tri.a \in Point /\ tri.b \in Point /\ tri.id \in Nat
  BY DEF Tri
<1>2. tri.a[k] \in Int /\ tri.b[k] \in Int
  BY <1>1 DEF Point
<1>3. Lower(tri)[k] = Min({tri.a[k], tri.b[k]}) /\ Upper(tri)[k] = Max({tri.a[k], tri.b[k]})
  BY DEF Lower, Upper
<1> QED BY <1>1, <1>2, <1>3, TwoNumbers

\* bounds hold every triangle they were computed from.
LEMMA BoundsHold ==
    ASSUME NEW ts \in Seq(Tri), NEW f \in Nat, NEW l \in Nat, 1 <= f, f < l, l <= Len(ts) + 1
    PROVE  /\ Bounds(ts, f, l) \in Box
           /\ \A i \in f .. l - 1 : Within(ts[i], Bounds(ts, f, l))
<1> DEFINE n == (l - 1) - f
<1>1. n \in Nat /\ f .. l - 1 = f .. f + n
  OBVIOUS
<1>2. \A i \in f .. l - 1 : i \in DOMAIN ts /\ ts[i] \in Tri
  OBVIOUS
<1>3. ASSUME NEW k \in Axes
      PROVE  /\ Bounds(ts, f, l).lo[k] \in Int /\ Bounds(ts, f, l).hi[k] \in Int
             /\ \A i \in f .. l - 1 : /\ Bounds(ts, f, l).lo[k] <= Lower(ts[i])[k]
                                      /\ Upper(ts[i])[k] <= Bounds(ts, f, l).hi[k]
  <2> DEFINE low  == [i \in f .. l - 1 |-> Lower(ts[i])[k]]
             high == [i \in f .. l - 1 |-> Upper(ts[i])[k]]
             L == {Lower(ts[i])[k] : i \in f .. l - 1}
             H == {Upper(ts[i])[k] : i \in f .. l - 1}
  <2>1. \A i \in f .. l - 1 : /\ Lower(ts[i])[k] \in Int /\ Upper(ts[i])[k] \in Int
                              /\ low[i] = Lower(ts[i])[k] /\ high[i] = Upper(ts[i])[k]
    BY <1>2, TriIs
  <2>2. (\A i \in f .. f + n : low[i] \in Int) /\ (\A i \in f .. f + n : high[i] \in Int)
    <3> HIDE DEF low, high, n
    <3> QED BY <1>1, <2>1
  <2>3. PICK b1, c1 \in Int : \A i \in f .. f + n : b1 <= low[i] /\ low[i] <= c1
    <3> HIDE DEF low, high, n
    <3>1. f \in Int /\ n \in Nat
      BY <1>1
    <3> QED BY <2>2, <3>1, IntervalBounded
  <2>4. PICK b2, c2 \in Int : \A i \in f .. f + n : b2 <= high[i] /\ high[i] <= c2
    <3> HIDE DEF low, high, n
    <3>1. f \in Int /\ n \in Nat
      BY <1>1
    <3> QED BY <2>2, <3>1, IntervalBounded
  <2> HIDE DEF low, high, n
  <2>5. L \subseteq Int /\ H \subseteq Int /\ L # {} /\ H # {}
        /\ (\A x \in L : b1 <= x) /\ (\A x \in H : x <= c2)
    <3>1. f \in f .. l - 1
      OBVIOUS
    <3> QED BY <1>1, <2>1, <2>3, <2>4, <3>1
  <2>6. Bounds(ts, f, l).lo[k] = Min(L) /\ Bounds(ts, f, l).hi[k] = Max(H)
    BY DEF Bounds
  <2>7. \A i \in f .. l - 1 : Lower(ts[i])[k] \in L /\ Upper(ts[i])[k] \in H
    OBVIOUS
  <2> HIDE DEF L, H
  <2>8. Min(L) \in L /\ (\A x \in L : Min(L) <= x) /\ Max(H) \in H /\ (\A x \in H : x <= Max(H))
    BY <2>5, MinIs, MaxIs
  <2> QED BY <2>5, <2>6, <2>7, <2>8
<1>4. Bounds(ts, f, l) = [lo |-> Bounds(ts, f, l).lo, hi |-> Bounds(ts, f, l).hi]
  BY DEF Bounds
<1>5. Bounds(ts, f, l).lo \in Point /\ Bounds(ts, f, l).hi \in Point
  <2>1. /\ Bounds(ts, f, l).lo = [k \in Axes |-> Bounds(ts, f, l).lo[k]]
        /\ Bounds(ts, f, l).hi = [k \in Axes |-> Bounds(ts, f, l).hi[k]]
    BY DEF Bounds
  <2> QED BY <1>3, <2>1 DEF Point
<1> QED BY <1>3, <1>4, <1>5 DEF Within, Box

\* A triangle is hit at one distance and at one only, if that lies on the ray.
LEMMA HitIs ==
    ASSUME NEW tri \in Tri, NEW ray \in Rays
    PROVE  \E d \in Int, ok \in BOOLEAN :
             /\ \A u \in Int : TriangleHit(tri, ray, u)
                                 = IF ok /\ 1 <= d /\ d <= u THEN [t |-> d, id |-> tri.id] ELSE NoHit
             /\ ok => \A k \in Axes :
                         /\ Lower(tri)[k] <= ray.origin[k] + d * ray.direction[k]
                         /\ ray.origin[k] + d * ray.direction[k] <= Upper(tri)[k]
<1> DEFINE across == CHOOSE k \in Axes : tri.a[k] = tri.b[k]
           along  == 3 - across
           d      == (tri.a[across] - ray.origin[across]) * ray.direction[across]
           at     == ray.origin[along] + d * ray.direction[along]
           ok     == /\ ray.direction[across] # 0
                     /\ Lower(tri)[along] <= at /\ at <= Upper(tri)[along]
<1>1. across \in Axes /\ along \in Axes /\ Axes = {across, along}
  <2>1. \E k \in Axes : tri.a[k] = tri.b[k]
    BY DEF Tri
  <2>2. across \in Axes
    BY <2>1
  <2> HIDE DEF across
  <2> QED BY <2>2 DEF Axes
<1>2. /\ ray.origin \in Point /\ ray.direction \in [Axes -> {-1, 0, 1}]
      /\ \A k \in Axes : ray.origin[k] \in Int /\ ray.direction[k] \in {-1, 0, 1}
  <2>1. ray \in [origin : Point, direction : [Axes -> {-1, 0, 1}]]
    BY BvhAssumption
  <2> QED BY <2>1 DEF Point
<1>3. d \in Int /\ ok \in BOOLEAN
  <2> HIDE DEF across
  <2> QED BY <1>1, <1>2, TriIs
<1>4. ASSUME NEW u \in Int
      PROVE TriangleHit(tri, ray, u)
              = IF ok /\ 1 <= d /\ d <= u THEN [t |-> d, id |-> tri.id] ELSE NoHit
  BY DEF TriangleHit
<1>5. ASSUME ok, NEW k \in Axes
      PROVE  /\ Lower(tri)[k] <= ray.origin[k] + d * ray.direction[k]
             /\ ray.origin[k] + d * ray.direction[k] <= Upper(tri)[k]
  <2>1. CASE k = along
    <3> HIDE DEF along, across, d
    <3> QED BY <1>5, <2>1
  <2>2. CASE k = across
    <3> HIDE DEF along, across
    <3>1. ray.direction[k] \in {-1, 1} /\ ray.origin[k] \in Int /\ tri.a[k] \in Int
      BY <1>1, <1>2, <1>5, <2>2, TriIs
    <3>2. \A o, a \in Int, e \in {-1, 1} : o + ((a - o) * e) * e = a
      OBVIOUS
    <3>3. ray.origin[k] + d * ray.direction[k] = tri.a[k]
      BY <2>2, <3>1, <3>2
    <3> HIDE DEF d
    <3> QED BY <1>1, <3>3, TriIs
  <2> QED BY <1>1, <2>1, <2>2
<1> HIDE DEF across, along, d, ok, at
<1> QED BY <1>3, <1>4, <1>5

\* A ray that misses a box before u misses every triangle in it.
LEMMA BoxBefore ==
    ASSUME NEW tri \in Tri, NEW ray \in Rays, NEW u \in Int, NEW box \in Box,
           Within(tri, box), TriangleHit(tri, ray, u) # NoHit
    PROVE  BoxHit(box, ray, u)
<1> DEFINE moving == {k \in Axes : ray.direction[k] # 0}
           t(k)   == {(box.lo[k] - ray.origin[k]) * ray.direction[k],
                      (box.hi[k] - ray.origin[k]) * ray.direction[k]}
           enter  == {1} \cup {Min(t(k)) : k \in moving}
           leave  == {u} \cup {Max(t(k)) : k \in moving}
<1>1. PICK d \in Int, ok \in BOOLEAN :
             /\ \A v \in Int : TriangleHit(tri, ray, v)
                                 = IF ok /\ 1 <= d /\ d <= v THEN [t |-> d, id |-> tri.id] ELSE NoHit
             /\ ok => \A k \in Axes :
                         /\ Lower(tri)[k] <= ray.origin[k] + d * ray.direction[k]
                         /\ ray.origin[k] + d * ray.direction[k] <= Upper(tri)[k]
  BY HitIs
<1>2. ok /\ 1 <= d /\ d <= u
  BY <1>1
<1>3. \A k \in Axes : ray.origin[k] \in Int /\ ray.direction[k] \in {-1, 0, 1}
  <2>1. ray \in [origin : Point, direction : [Axes -> {-1, 0, 1}]]
    BY BvhAssumption
  <2> QED BY <2>1 DEF Point
<1>4. \A k \in Axes : box.lo[k] \in Int /\ box.hi[k] \in Int
  BY DEF Box, Point
<1>5. ASSUME NEW k \in Axes
      PROVE  /\ box.lo[k] <= ray.origin[k] + d * ray.direction[k]
             /\ ray.origin[k] + d * ray.direction[k] <= box.hi[k]
  <2>1. /\ Lower(tri)[k] <= ray.origin[k] + d * ray.direction[k]
        /\ ray.origin[k] + d * ray.direction[k] <= Upper(tri)[k]
        /\ box.lo[k] <= Lower(tri)[k] /\ Upper(tri)[k] <= box.hi[k]
    BY <1>1, <1>2 DEF Within
  <2>2. /\ Lower(tri)[k] \in Int /\ Upper(tri)[k] \in Int
        /\ ray.origin[k] + d * ray.direction[k] \in Int
    BY <1>3, TriIs
  <2> QED BY <1>4, <2>1, <2>2
<1>6. \A k \in Axes \ moving : box.lo[k] <= ray.origin[k] /\ ray.origin[k] <= box.hi[k]
  BY <1>3, <1>5
<1>7. ASSUME NEW k \in moving
      PROVE  Min(t(k)) \in Int /\ Max(t(k)) \in Int /\ Min(t(k)) <= d /\ d <= Max(t(k))
  <2> DEFINE x == (box.lo[k] - ray.origin[k]) * ray.direction[k]
             y == (box.hi[k] - ray.origin[k]) * ray.direction[k]
  <2>1. x \in Int /\ y \in Int
    BY <1>3, <1>4
  <2>2. ray.direction[k] \in {-1, 1}
    BY <1>3
  <2>3. (x <= d /\ d <= y) \/ (y <= d /\ d <= x)
    BY <1>3, <1>4, <1>5, <2>2
  <2> HIDE DEF x, y
  <2>4. /\ Min({x, y}) \in Int /\ Max({x, y}) \in Int
        /\ Min({x, y}) <= d /\ d <= Max({x, y})
    <3>1. /\ Min({x, y}) \in {x, y} /\ Min({x, y}) <= x /\ Min({x, y}) <= y
          /\ Max({x, y}) \in {x, y} /\ x <= Max({x, y}) /\ y <= Max({x, y})
      BY <2>1, TwoNumbers
    <3>2. Min({x, y}) \in Int /\ Max({x, y}) \in Int
      BY <2>1, <3>1
    <3> QED BY <2>1, <2>3, <3>1, <3>2
  <2> QED BY <2>4 DEF x, y
<1>8. /\ enter \subseteq Int /\ enter # {} /\ \A x \in enter : x <= d
      /\ leave \subseteq Int /\ leave # {} /\ \A x \in leave : d <= x
  <2> HIDE DEF t, moving
  <2> QED BY <1>2, <1>7
<1>9. Max(enter) \in enter /\ Min(leave) \in leave
  <2> HIDE DEF enter, leave
  <2> QED BY <1>8, MaxIs, MinIs
<1>10. Max(enter) <= Min(leave)
  <2> HIDE DEF enter, leave
  <2>1. Max(enter) <= d /\ d <= Min(leave) /\ Max(enter) \in Int /\ Min(leave) \in Int
    BY <1>8, <1>9
  <2> QED BY <2>1
<1> HIDE DEF enter, leave
<1> QED BY <1>6, <1>10 DEF BoxHit, enter, leave

------------------------------------------------------------------------------
(* The nearest of a set of triangles. *)

Answer == [t : 0 .. Far, id : Int]

Hits(S, ray, u) == {TriangleHit(tri, ray, u) : tri \in S} \ {NoHit}

\* h is a nearest hit before u of a triangle of S, or there is none.
Nearest(S, ray, u, h) ==
    /\ h \in Answer
    /\ h = NoHit => Hits(S, ray, u) = {}
    /\ h # NoHit => h \in Hits(S, ray, u) /\ \A g \in Hits(S, ray, u) : h.t <= g.t

\* A hit before u is a hit before v if it is not farther than v.
LEMMA HitAnswers ==
    ASSUME NEW tri \in Tri, NEW ray \in Rays, NEW u \in 0 .. Far
    PROVE  LET h == TriangleHit(tri, ray, u)
           IN  /\ h \in Answer
               /\ h # NoHit => /\ h.t \in 1 .. u
                               /\ \A v \in 0 .. u : TriangleHit(tri, ray, v)
                                                      = IF h.t <= v THEN h ELSE NoHit
               /\ h = NoHit => \A v \in 0 .. u : TriangleHit(tri, ray, v) = NoHit
<1>1. PICK d \in Int, ok \in BOOLEAN :
             \A v \in Int : TriangleHit(tri, ray, v)
                                = IF ok /\ 1 <= d /\ d <= v THEN [t |-> d, id |-> tri.id] ELSE NoHit
  BY HitIs
<1>2. tri.id \in Int /\ Far \in Nat
  BY TriIs, BvhAssumption DEF Axes
<1>3. NoHit \in Answer
  BY <1>2 DEF NoHit, Answer
<1>4. ok /\ 1 <= d => [t |-> d, id |-> tri.id] # NoHit
  BY DEF NoHit
<1>5. CASE ok /\ 1 <= d /\ d <= u
  <2>1. TriangleHit(tri, ray, u) = [t |-> d, id |-> tri.id]
    BY <1>1, <1>5
  <2>2. [t |-> d, id |-> tri.id] \in Answer
    BY <1>2, <1>5 DEF Answer
  <2>3. \A v \in 0 .. u : TriangleHit(tri, ray, v) = IF d <= v THEN [t |-> d, id |-> tri.id] ELSE NoHit
    BY <1>1, <1>5
  <2> QED BY <1>4, <1>5, <2>1, <2>2, <2>3
<1>6. CASE ~(ok /\ 1 <= d /\ d <= u)
  <2>1. TriangleHit(tri, ray, u) = NoHit
    BY <1>1, <1>6
  <2>2. \A v \in 0 .. u : TriangleHit(tri, ray, v) = NoHit
    BY <1>1, <1>6
  <2> QED BY <1>3, <2>1, <2>2
<1> QED BY <1>5, <1>6

\* A nearest hit is within tmax.
LEMMA NearestIn ==
    ASSUME NEW S, S \subseteq Tri, NEW ray \in Rays, NEW u \in 0 .. Far, NEW h, Nearest(S, ray, u, h)
    PROVE  /\ Nearer(h, u) \in 0 .. u
           /\ h # NoHit => h.t \in 1 .. u
<1>1. ASSUME h # NoHit PROVE h.t \in 1 .. u
  <2>1. PICK tri \in S : h = TriangleHit(tri, ray, u)
    BY <1>1 DEF Nearest, Hits
  <2> QED BY <1>1, <2>1, HitAnswers
<1> QED BY <1>1 DEF Nearer

\* Looking for the nearest in one set, then nearer in another one, finds the
\* nearest of both.
LEMMA NearestOfBoth ==
    ASSUME NEW S, NEW T, S \subseteq Tri, T \subseteq Tri, NEW ray \in Rays, NEW u \in 0 .. Far,
           NEW l, NEW r, Nearest(S, ray, u, l), Nearest(T, ray, Nearer(l, u), r)
    PROVE  Nearest(S \cup T, ray, u, IF r # NoHit THEN r ELSE l)
<1> DEFINE v == Nearer(l, u)
<1>1. v \in 0 .. u /\ v \in 0 .. Far /\ (l # NoHit => l.t \in 1 .. u /\ v = l.t) /\ (l = NoHit => v = u)
  <2>1. v \in 0 .. u
    BY NearestIn
  <2> QED BY <2>1, NearestIn, BvhAssumption DEF Nearer
<1> HIDE DEF v
<1>2. Nearest(T, ray, v, r)
  BY DEF v
<1>3. r # NoHit => r.t \in 1 .. v
  BY <1>1, <1>2, NearestIn
\* What is hit before v is hit before u, and what is hit before u but not before
\* v is farther than v.
<1>4. ASSUME NEW tri \in T
      PROVE  /\ TriangleHit(tri, ray, v) # NoHit => TriangleHit(tri, ray, u) = TriangleHit(tri, ray, v)
             /\ TriangleHit(tri, ray, u) # NoHit /\ TriangleHit(tri, ray, v) = NoHit
                  => TriangleHit(tri, ray, u).t > v
             /\ TriangleHit(tri, ray, u) # NoHit => TriangleHit(tri, ray, u).t \in 1 .. u
  <2>1. tri \in Tri
    OBVIOUS
  <2> DEFINE h == TriangleHit(tri, ray, u)
  <2>2. /\ h # NoHit => /\ h.t \in 1 .. u
                        /\ TriangleHit(tri, ray, v) = IF h.t <= v THEN h ELSE NoHit
        /\ h = NoHit => TriangleHit(tri, ray, v) = NoHit
    BY <1>1, <2>1, HitAnswers
  <2> QED BY <1>1, <2>2
<1>5. \A g \in Hits(T, ray, v) : g \in Hits(T, ray, u)
  BY <1>4 DEF Hits
<1>6. \A g \in Hits(T, ray, u) : g \in Hits(T, ray, v) \/ g.t > v
  BY <1>4 DEF Hits
<1>7. \A g : g \in Hits(S \cup T, ray, u) <=> g \in Hits(S, ray, u) \/ g \in Hits(T, ray, u)
  BY DEF Hits
<1>8. \A g \in Hits(S \cup T, ray, u) : g.t \in 1 .. u
  <2>1. ASSUME NEW tri \in Tri, TriangleHit(tri, ray, u) # NoHit
        PROVE  TriangleHit(tri, ray, u).t \in 1 .. u
    BY <2>1, HitAnswers
  <2> QED BY <2>1 DEF Hits
<1>9. CASE r # NoHit
  <2>1. r \in Answer /\ r \in Hits(S \cup T, ray, u)
    BY <1>2, <1>5, <1>7, <1>9 DEF Nearest
  <2>2. ASSUME NEW g \in Hits(S, ray, u) PROVE r.t <= g.t
    <3>1. l # NoHit /\ l.t <= g.t /\ g.t \in 1 .. u
      BY <1>7, <1>8 DEF Nearest
    <3> QED BY <1>1, <1>3, <1>9, <3>1
  <2>3. ASSUME NEW g \in Hits(T, ray, u) PROVE r.t <= g.t
    <3>1. g.t \in 1 .. u
      BY <1>7, <1>8
    <3>2. CASE g \in Hits(T, ray, v)
      BY <1>2, <1>9, <3>2 DEF Nearest
    <3>3. CASE g.t > v
      BY <1>1, <1>3, <1>9, <3>1, <3>3
    <3> QED BY <1>6, <3>2, <3>3
  <2> QED BY <1>7, <1>9, <2>1, <2>2, <2>3 DEF Nearest
<1>10. CASE r = NoHit
  <2>1. Hits(T, ray, v) = {}
    BY <1>2, <1>10 DEF Nearest
  <2>2. CASE l = NoHit
    <3>1. Hits(S, ray, u) = {} /\ v = u
      BY <1>1, <2>2 DEF Nearest
    <3>2. Hits(S \cup T, ray, u) = {}
      BY <1>7, <2>1, <3>1
    <3> QED BY <1>10, <2>2, <3>2 DEF Nearest
  <2>3. CASE l # NoHit
    <3>1. l \in Answer /\ l \in Hits(S \cup T, ray, u) /\ \A g \in Hits(S, ray, u) : l.t <= g.t
      BY <1>7, <2>3 DEF Nearest
    <3>2. ASSUME NEW g \in Hits(T, ray, u) PROVE l.t <= g.t
      <4>1. g.t > v /\ g.t \in 1 .. u
        BY <1>6, <1>7, <1>8, <2>1
      <4>2. v = l.t /\ l.t \in 1 .. u
        BY <1>1, <2>3
      <4> QED BY <4>1, <4>2
    <3> QED BY <1>7, <1>10, <2>3, <3>1, <3>2 DEF Nearest
  <2> QED BY <2>2, <2>3
<1> QED BY <1>9, <1>10

\* The nearest of one triangle is its hit.
LEMMA NearestOfOne ==
    ASSUME NEW tri \in Tri, NEW ray \in Rays, NEW u \in 0 .. Far
    PROVE  Nearest({tri}, ray, u, TriangleHit(tri, ray, u))
<1>1. TriangleHit(tri, ray, u) \in Answer
  BY HitAnswers
<1>2. \A g : g \in Hits({tri}, ray, u) <=> g = TriangleHit(tri, ray, u) /\ g # NoHit
  BY DEF Hits
<1>3. \A g \in Answer : g.t <= g.t
  BY BvhAssumption DEF Answer
<1> QED BY <1>1, <1>2, <1>3 DEF Nearest

------------------------------------------------------------------------------
(* A leaf: a fold over one triangle or two. *)

\* What the fold of LeafHit does with a triangle.
Try(ray, u, best, tri) ==
    LET h == TriangleHit(tri, ray, Nearer(best, u))
    IN  IF h = NoHit THEN best ELSE h

\* The fold over a sequence of one or two.
LEMMA FoldOfTwo ==
    ASSUME NEW ray, NEW u, NEW s, NEW n \in {1, 2}, s = [i \in 1 .. n |-> s[i]]
    PROVE  FoldLeft(LAMBDA best, tri :
                      LET h == TriangleHit(tri, ray, Nearer(best, u))
                      IN  IF h = NoHit THEN best ELSE h, NoHit, s)
             = IF n = 1 THEN Try(ray, u, NoHit, s[1])
               ELSE Try(ray, u, Try(ray, u, NoHit, s[1]), s[2])
<1> DEFINE D == DOMAIN s
           Iter(h) == h = [S \in SUBSET D |->
                             IF S = {} THEN NoHit
                             ELSE Try(ray, u, h[S \ {Max(S)}], s[Max(S)])]
           iter == CHOOSE h : Iter(h)
<1>1. D = 1 .. n
  OBVIOUS
<1>2. Max({1}) = 1 /\ Max({2}) = 2 /\ Max({1, 2}) = 2
  <2>1. ASSUME NEW x \in Int, NEW y \in Int, x <= y PROVE Max({x, y}) = y
    <3>1. Max({x, y}) \in {x, y} /\ y <= Max({x, y})
      BY TwoNumbers
    <3> QED BY <2>1, <3>1
  <2>2. \A x \in Int : {x, x} = {x} /\ x <= x
    OBVIOUS
  <2>3. \A x \in Int : Max({x}) = x
    BY <2>1, <2>2
  <2>4. 1 \in Int /\ 2 \in Int /\ 1 <= 2
    OBVIOUS
  <2> QED BY <2>1, <2>3, <2>4
<1>3. \A S \in SUBSET D : S = {} \/ S = {1} \/ (n = 2 /\ (S = {2} \/ S = {1, 2}))
  <2>1. D \subseteq {1, 2} /\ (n = 1 => D = {1})
    BY <1>1
  <2> QED BY <2>1
<1>4. Iter(iter)
  <2> DEFINE e1 == Try(ray, u, NoHit, s[1])
             h == [S \in SUBSET D |->
                     IF S = {} THEN NoHit
                     ELSE IF S = {1} THEN e1
                     ELSE IF S = {2} THEN Try(ray, u, NoHit, s[2])
                     ELSE Try(ray, u, e1, s[2])]
  <2>1. ASSUME NEW S \in SUBSET D
        PROVE  h[S] = IF S = {} THEN NoHit ELSE Try(ray, u, h[S \ {Max(S)}], s[Max(S)])
    <3>1. CASE S = {}
      BY <3>1
    <3>2. CASE S = {1}
      <4>1. S \ {Max(S)} = {} /\ Max(S) = 1
        BY <1>2, <3>2
      <4> HIDE DEF e1
      <4>2. h[S] = e1 /\ h[{}] = NoHit
        BY <3>2
      <4> HIDE DEF h
      <4> QED BY <3>2, <4>1, <4>2 DEF e1
    <3>3. CASE S = {2}
      <4>1. S \ {Max(S)} = {} /\ Max(S) = 2
        BY <1>2, <3>3
      <4>2. h[S] = Try(ray, u, NoHit, s[2]) /\ h[{}] = NoHit
        BY <3>3
      <4> HIDE DEF h
      <4> QED BY <3>3, <4>1, <4>2
    <3>4. CASE S = {1, 2}
      <4>1. S \ {Max(S)} = {1} /\ Max(S) = 2 /\ {1} \in SUBSET D
        BY <1>1, <1>2, <3>4
      <4> HIDE DEF e1
      <4>2. h[S] = Try(ray, u, e1, s[2]) /\ h[{1}] = e1
        <5>1. S # {} /\ S # {1} /\ S # {2}
          BY <3>4
        <5> QED BY <4>1, <5>1
      <4> HIDE DEF h
      <4> QED BY <3>4, <4>1, <4>2
    <3> QED BY <1>3, <3>1, <3>2, <3>3, <3>4
  <2>2. h = [S \in SUBSET D |-> h[S]]
    OBVIOUS
  <2> HIDE DEF h
  <2>3. Iter(h)
    BY <2>1, <2>2
  <2> HIDE DEF Iter
  <2> QED BY <2>3
<1>5. iter[D] = IF n = 1 THEN Try(ray, u, NoHit, s[1])
                ELSE Try(ray, u, Try(ray, u, NoHit, s[1]), s[2])
  <2> HIDE DEF iter
  <2>1. \A S \in SUBSET D : iter[S] = IF S = {} THEN NoHit
                                      ELSE Try(ray, u, iter[S \ {Max(S)}], s[Max(S)])
    BY <1>4
  <2>2. iter[{}] = NoHit
    BY <2>1
  <2>3. iter[{1}] = Try(ray, u, NoHit, s[1])
    <3>1. {1} \in SUBSET D /\ {1} # {} /\ {1} \ {1} = {}
      BY <1>1
    <3> QED BY <1>2, <2>1, <2>2, <3>1
  <2>4. CASE n = 1
    <3>1. D = {1}
      BY <1>1, <2>4
    <3> QED BY <2>3, <2>4, <3>1
  <2>5. CASE n = 2
    <3>1. D = {1, 2} /\ {1, 2} \in SUBSET D /\ {1, 2} # {} /\ {1, 2} \ {2} = {1}
      BY <1>1, <2>5
    <3>2. iter[{1, 2}] = Try(ray, u, iter[{1}], s[2])
      BY <1>2, <2>1, <3>1
    <3> QED BY <2>3, <2>5, <3>1, <3>2
  <2> QED BY <2>4, <2>5
<1>6. FoldLeft(LAMBDA best, tri :
                      LET h == TriangleHit(tri, ray, Nearer(best, u))
                      IN  IF h = NoHit THEN best ELSE h, NoHit, s) = iter[D]
  BY DEF FoldLeft, MapThenFoldSet, Try
<1> QED BY <1>5, <1>6

\* A leaf answers with the nearest of its triangles.
LEMMA LeafNearest ==
    ASSUME NEW ray \in Rays, NEW u \in 0 .. Far, sorted \in Seq(Tri), NEW node,
           node.count \in {1, 2}, node.first \in Nat, 1 <= node.first,
           node.first + node.count <= Len(sorted) + 1
    PROVE  Nearest({sorted[j] : j \in node.first .. node.first + node.count - 1}, ray, u,
                   LeafHit(node, ray, u))
<1> DEFINE f == node.first
           n == node.count
           s == SubSeq(sorted, f, f + n - 1)
           e1 == Try(ray, u, NoHit, s[1])
<1>1. /\ s = [i \in 1 .. n |-> s[i]] /\ s[1] = sorted[f] /\ s[1] \in Tri
      /\ n = 2 => s[2] = sorted[f + 1] /\ s[2] \in Tri
  <2>1. \A i \in f .. f + n - 1 : sorted[i] \in Tri
    OBVIOUS
  <2>2. f \in Int /\ f + n - 1 \in Int /\ f <= f + n - 1 /\ (f + n - 1) - f + 1 = n
    OBVIOUS
  <2>3. s \in Seq(Tri) /\ Len(s) = n /\ \A i \in 1 .. n : s[i] = sorted[f + i - 1]
    BY <2>1, <2>2, SubSeqProperties
  <2> HIDE DEF s
  <2>4. s = [i \in 1 .. n |-> s[i]]
    BY <2>3
  <2>5. 1 \in 1 .. n /\ f + 1 - 1 = f /\ (n = 2 => 2 \in 1 .. n /\ f + 2 - 1 = f + 1)
    OBVIOUS
  <2>6. f \in f .. f + n - 1 /\ (n = 2 => f + 1 \in f .. f + n - 1)
    OBVIOUS
  <2> QED BY <2>1, <2>3, <2>4, <2>5, <2>6
<1>2. LeafHit(node, ray, u) = IF n = 1 THEN e1 ELSE Try(ray, u, e1, s[2])
  <2> HIDE DEF s
  <2>1. LeafHit(node, ray, u) = FoldLeft(LAMBDA best, tri :
                      LET h == TriangleHit(tri, ray, Nearer(best, u))
                      IN  IF h = NoHit THEN best ELSE h, NoHit, s)
    BY DEF LeafHit, s
  <2> QED BY <1>1, <2>1, FoldOfTwo
<1>3. Nearest({s[1]}, ray, u, e1) /\ {s[1]} \subseteq Tri
  <2> HIDE DEF s
  <2>1. e1 = TriangleHit(s[1], ray, u)
    BY DEF Try, Nearer
  <2> QED BY <1>1, <2>1, NearestOfOne
<1>4. CASE n = 1
  <2>1. {sorted[j] : j \in f .. f + n - 1} = {s[1]}
    <3>1. f .. f + n - 1 = {f}
      BY <1>4
    <3> HIDE DEF s
    <3> QED BY <1>1, <3>1
  <2> HIDE DEF e1, s
  <2> QED BY <1>2, <1>3, <1>4, <2>1
<1>5. CASE n = 2
  <2>1. \A x : x \in {sorted[j] : j \in f .. f + n - 1} <=> x \in {s[1]} \cup {s[2]}
    <3>1. f .. f + n - 1 = {f, f + 1}
      BY <1>5
    <3> HIDE DEF s
    <3> QED BY <1>1, <1>5, <3>1
  <2> DEFINE v == Nearer(e1, u)
             r == TriangleHit(s[2], ray, v)
  <2>2. v \in 0 .. Far
    <3>1. v \in 0 .. u
      <4> HIDE DEF e1, s
      <4> QED BY <1>3, NearestIn
    <3> HIDE DEF v
    <3> QED BY <3>1, BvhAssumption
  <2>3. Nearest({s[2]}, ray, v, r) /\ {s[2]} \subseteq Tri
    <3> HIDE DEF v, s
    <3> QED BY <1>1, <1>5, <2>2, NearestOfOne
  <2>4. Nearest({s[1]} \cup {s[2]}, ray, u, IF r # NoHit THEN r ELSE e1)
    <3> HIDE DEF r, e1, s
    <3> QED BY <1>3, <2>3, NearestOfBoth
  <2>5. LeafHit(node, ray, u) = IF r # NoHit THEN r ELSE e1
    <3> HIDE DEF e1, s
    <3> QED BY <1>2, <1>5 DEF Try
  <2>6. {sorted[j] : j \in f .. f + n - 1} = {s[1]} \cup {s[2]}
    BY <2>1
  <2> HIDE DEF r, e1, s
  <2> QED BY <2>4, <2>5, <2>6
<1> QED BY <1>4, <1>5

------------------------------------------------------------------------------
(* Visiting a finished tree. *)

\* The triangles node i stands for, and a tree that is finished: sp holds the span
\* of sorted every node was built from.
Part(sp, i) == {sorted[j] : j \in sp[i].first .. sp[i].last - 1}

Tree(sp) ==
    \A i \in DOMAIN nodes :
        /\ sp[i].first \in Nat /\ sp[i].last \in Nat
        /\ 1 <= sp[i].first /\ sp[i].first < sp[i].last /\ sp[i].last <= Len(sorted) + 1
        /\ nodes[i].box \in Box
        /\ \A tri \in Part(sp, i) : Within(tri, nodes[i].box)
        /\ \/ /\ nodes[i].count \in {1, 2} /\ nodes[i].first = sp[i].first
              /\ sp[i].last = sp[i].first + nodes[i].count
           \/ /\ nodes[i].count = 0
              /\ nodes[i].left \in i + 1 .. Len(nodes) /\ nodes[i].right \in i + 1 .. Len(nodes)
              /\ sp[nodes[i].left].first = sp[i].first
              /\ sp[nodes[i].left].last = sp[nodes[i].right].first
              /\ sp[nodes[i].right].last = sp[i].last

\* The members of a product.
LEMMA Pairs ==
    ASSUME NEW A, NEW B
    PROVE  /\ \A at \in A \X B : at[1] \in A /\ at[2] \in B /\ at = <<at[1], at[2]>>
           /\ \A x \in A, y \in B : <<x, y>> \in A \X B
OBVIOUS

\* A node of nodes_.
NodeRecord == [box : Box, left : Nat, right : Nat, first : Nat, count : Nat]

\* Every span of a finished tree holds triangles.
LEMMA TreeSpans ==
    ASSUME sorted \in Seq(Tri), NEW sp, Tree(sp), NEW i \in DOMAIN nodes
    PROVE  /\ sp[i].first \in Nat /\ sp[i].last \in Nat
           /\ 1 <= sp[i].first /\ sp[i].first < sp[i].last /\ sp[i].last <= Len(sorted) + 1
           /\ Part(sp, i) \subseteq Tri
<1> DEFINE f == sp[i].first
           e == sp[i].last
<1>1. f \in Nat /\ e \in Nat /\ 1 <= f /\ f < e /\ e <= Len(sorted) + 1
  BY DEF Tree
<1>2. \A j \in f .. e - 1 : sorted[j] \in Tri
  <2> HIDE DEF f, e
  <2> QED BY <1>1
<1> QED BY <1>1, <1>2 DEF Part

\* The children of an inner node come after it and share its span.
LEMMA TreeChildren ==
    ASSUME nodes \in Seq(NodeRecord), NEW sp, Tree(sp), NEW i \in DOMAIN nodes, nodes[i].count = 0
    PROVE  /\ nodes[i].left \in i + 1 .. Len(nodes) /\ nodes[i].right \in i + 1 .. Len(nodes)
           /\ nodes[i].left \in DOMAIN nodes /\ nodes[i].right \in DOMAIN nodes
           /\ sp[nodes[i].left].first = sp[i].first
           /\ sp[nodes[i].left].last = sp[nodes[i].right].first
           /\ sp[nodes[i].right].last = sp[i].last
<1>1. /\ nodes[i].left \in i + 1 .. Len(nodes) /\ nodes[i].right \in i + 1 .. Len(nodes)
      /\ sp[nodes[i].left].first = sp[i].first
      /\ sp[nodes[i].left].last = sp[nodes[i].right].first
      /\ sp[nodes[i].right].last = sp[i].last
  BY DEF Tree
<1>2. i \in 1 .. Len(nodes) /\ DOMAIN nodes = 1 .. Len(nodes)
  OBVIOUS
<1>3. i + 1 .. Len(nodes) \subseteq DOMAIN nodes
  BY <1>2
<1> QED BY <1>1, <1>3

\* What a call of visit answers when its calls answer as h says.
Visit(h, ray, at) ==
    LET node == nodes[at[1]]
        tmax == at[2]
    IN  IF ~BoxHit(node.box, ray, tmax) THEN NoHit
        ELSE IF node.count > 0 THEN LeafHit(node, ray, tmax)
        ELSE LET l == h[<<node.left, tmax>>]
                 r == h[<<node.right, Nearer(l, tmax)>>]
             IN  IF r # NoHit THEN r ELSE l

\* h answers right for node c, whatever tmax it is asked with.
Right(h, sp, ray, c) == \A v \in 0 .. Far : Nearest(Part(sp, c), ray, v, h[<<c, v>>])

\* A node answers with the nearest of its part if its children do.
LEMMA VisitIsRight ==
    ASSUME sorted \in Seq(Tri), nodes \in Seq(NodeRecord),
           NEW sp, Tree(sp), NEW ray \in Rays, NEW h,
           NEW i \in DOMAIN nodes, NEW u \in 0 .. Far,
           \A c \in i + 1 .. Len(nodes) : Right(h, sp, ray, c)
    PROVE  Nearest(Part(sp, i), ray, u, Visit(h, ray, <<i, u>>))
<1> DEFINE f == sp[i].first
           l == sp[i].last
           node == nodes[i]
<1>1. /\ f \in Nat /\ l \in Nat /\ 1 <= f /\ f < l /\ l <= Len(sorted) + 1
      /\ node.box \in Box /\ \A tri \in Part(sp, i) : Within(tri, node.box)
  BY DEF Tree
<1>2. \A c \in DOMAIN nodes : Part(sp, c) \subseteq Tri
  BY TreeSpans
<1>3. NoHit \in Answer
  BY BvhAssumption DEF NoHit, Answer
<1>4. CASE ~BoxHit(node.box, ray, u)
  <2>1. Visit(h, ray, <<i, u>>) = NoHit
    BY <1>4 DEF Visit
  <2>2. Hits(Part(sp, i), ray, u) = {}
    <3>1. ASSUME NEW tri \in Part(sp, i) PROVE TriangleHit(tri, ray, u) = NoHit
      <4>1. tri \in Tri /\ Within(tri, node.box) /\ u \in Int
        BY <1>1, <1>2
      <4> QED BY <1>1, <1>4, <4>1, BoxBefore
    <3> QED BY <3>1 DEF Hits
  <2> QED BY <1>3, <2>1, <2>2 DEF Nearest
<1>5. CASE BoxHit(node.box, ray, u) /\ node.count \in {1, 2}
  <2>1. node.first = f /\ l = f + node.count
    BY <1>5 DEF Tree
  <2>2. Visit(h, ray, <<i, u>>) = LeafHit(node, ray, u)
    BY <1>5 DEF Visit
  <2>3. Part(sp, i) = {sorted[j] : j \in node.first .. node.first + node.count - 1}
    <3>1. Part(sp, i) = {sorted[j] : j \in f .. l - 1}
      BY DEF Part
    <3>2. f = node.first /\ l - 1 = node.first + node.count - 1
      <4>1. l = f + node.count /\ f \in Nat /\ node.count \in Nat
        BY <1>1, <1>5, <2>1
      <4> HIDE DEF node, f, l
      <4> QED BY <2>1, <4>1
    <3> HIDE DEF node, f, l
    <3> QED BY <3>1, <3>2
  <2> HIDE DEF node, f, l
  <2> QED BY <1>1, <1>5, <2>1, <2>2, <2>3, LeafNearest
<1>6. CASE BoxHit(node.box, ray, u) /\ node.count = 0
  <2> DEFINE a == node.left
             b == node.right
             x == h[<<a, u>>]
             v == Nearer(x, u)
             y == h[<<b, v>>]
  <2>1. /\ a \in i + 1 .. Len(nodes) /\ b \in i + 1 .. Len(nodes)
        /\ a \in DOMAIN nodes /\ b \in DOMAIN nodes
        /\ sp[a].first = f /\ sp[a].last = sp[b].first /\ sp[b].last = l
    BY <1>6, TreeChildren
  <2>2. Nearest(Part(sp, a), ray, u, x)
    <3> HIDE DEF a
    <3> QED BY <2>1 DEF Right
  <2>3. v \in 0 .. Far
    <3>1. v \in 0 .. u
      <4> HIDE DEF x, a
      <4> QED BY <1>2, <2>1, <2>2, NearestIn
    <3> HIDE DEF v
    <3> QED BY <3>1, BvhAssumption
  <2>4. Nearest(Part(sp, b), ray, v, y)
    <3> HIDE DEF b, v
    <3> QED BY <2>1, <2>3 DEF Right
  <2>5. Nearest(Part(sp, a) \cup Part(sp, b), ray, u, IF y # NoHit THEN y ELSE x)
    <3> HIDE DEF a, b, x, y
    <3> QED BY <1>2, <2>1, <2>2, <2>4, NearestOfBoth
  <2>6. Part(sp, i) = Part(sp, a) \cup Part(sp, b)
    <3> DEFINE m == sp[a].last
    <3>1. m \in Nat /\ f < m /\ m < l
      <4>1. /\ sp[a].first < sp[a].last /\ sp[b].first < sp[b].last /\ sp[a].last \in Nat
        <5> HIDE DEF a, b
        <5> QED BY <2>1, TreeSpans
      <4> HIDE DEF a, b
      <4> QED BY <2>1, <4>1
    <3>2. \A j : j \in f .. l - 1 <=> j \in f .. m - 1 \/ j \in m .. l - 1
      <4>1. f \in Nat /\ l \in Nat
        BY <1>1
      <4> HIDE DEF m, f, l
      <4> QED BY <3>1, <4>1
    <3> QED BY <2>1, <3>2 DEF Part
  <2>7. Visit(h, ray, <<i, u>>) = IF y # NoHit THEN y ELSE x
    BY <1>6 DEF Visit
  <2> HIDE DEF a, b, x, y
  <2> QED BY <2>5, <2>6, <2>7
<1>7. node.count \in {1, 2} \/ node.count = 0
  BY DEF Tree
<1> QED BY <1>4, <1>5, <1>6, <1>7

\* g and h answer the same after node i.
Agree(g, h, i) == \A c \in i + 1 .. Len(nodes), v \in 0 .. Far : g[<<c, v>>] = h[<<c, v>>]

\* What visit answers does not hang on nodes before its own.
LEMMA VisitLooksAhead ==
    ASSUME sorted \in Seq(Tri), nodes \in Seq(NodeRecord),
           NEW sp, Tree(sp), NEW ray \in Rays, NEW h, NEW g,
           NEW i \in DOMAIN nodes, NEW u \in 0 .. Far,
           \A c \in i + 1 .. Len(nodes) : Right(h, sp, ray, c),
           Agree(g, h, i)
    PROVE  Visit(g, ray, <<i, u>>) = Visit(h, ray, <<i, u>>)
<1> DEFINE node == nodes[i]
           a == node.left
           b == node.right
           x == h[<<a, u>>]
           v == Nearer(x, u)
<1>1. CASE node.count = 0
  <2>1. a \in i + 1 .. Len(nodes) /\ b \in i + 1 .. Len(nodes) /\ a \in DOMAIN nodes
    BY <1>1, TreeChildren
  <2>2. v \in 0 .. Far
    <3>1. Nearest(Part(sp, a), ray, u, x)
      <4> HIDE DEF a
      <4> QED BY <2>1 DEF Right
    <3>2. Part(sp, a) \subseteq Tri
      <4> HIDE DEF a
      <4> QED BY <2>1, TreeSpans
    <3>3. v \in 0 .. u
      <4> HIDE DEF x, a
      <4> QED BY <3>1, <3>2, NearestIn
    <3> HIDE DEF v
    <3> QED BY <3>3, BvhAssumption
  <2>3. g[<<a, u>>] = x
    <3> HIDE DEF a
    <3> QED BY <2>1 DEF Agree
  <2>4. g[<<b, v>>] = h[<<b, v>>]
    <3> HIDE DEF b, v
    <3> QED BY <2>1, <2>2 DEF Agree
  <2> QED BY <2>3, <2>4 DEF Visit
<1>2. CASE node.count \in {1, 2}
  BY <1>2 DEF Visit
<1> QED BY <1>1, <1>2 DEF Tree

\* The equation that defines visit.
Equation(h, ray) ==
    h = [at \in (DOMAIN nodes) \X (0 .. Far) |-> Visit(h, ray, at)]

\* It has a solution, node by node from the last to the root, because children
\* come after their parent.
LEMMA VisitExists ==
    ASSUME sorted \in Seq(Tri), nodes \in Seq(NodeRecord),
           NEW sp, Tree(sp), NEW ray \in Rays
    PROVE  \E h : Equation(h, ray)
<1> DEFINE N == Len(nodes)
           D == (DOMAIN nodes) \X (0 .. Far)
           Ahead(n) == {at \in D : at[1] > N - n}
           Solves(h, n) == /\ h = [at \in D |-> h[at]]
                           /\ \A at \in Ahead(n) : h[at] = Visit(h, ray, at)
                           /\ \A c \in N - n + 1 .. N : Right(h, sp, ray, c)
           S == {n \in Nat : n <= N => \E h : Solves(h, n)}
<1>1. N \in Nat /\ DOMAIN nodes = 1 .. N
  OBVIOUS
<1>p. /\ \A at \in D : at[1] \in 1 .. N /\ at[2] \in 0 .. Far /\ at = <<at[1], at[2]>>
      /\ \A c \in 1 .. N, v \in 0 .. Far : <<c, v>> \in D
  <2>1. \A at \in D : at[1] \in DOMAIN nodes /\ at[2] \in 0 .. Far /\ at = <<at[1], at[2]>>
    BY Pairs
  <2>2. \A c \in DOMAIN nodes, v \in 0 .. Far : <<c, v>> \in D
    BY Pairs
  <2> HIDE DEF N, D
  <2> QED BY <1>1, <2>1, <2>2
<1>2. 0 \in S
  <2> DEFINE h == [at \in D |-> NoHit]
  <2>1. h = [at \in D |-> h[at]]
    OBVIOUS
  <2>2. Ahead(0) = {} /\ N - 0 + 1 .. N = {}
    <3> HIDE DEF D, N
    <3> QED BY <1>1, <1>p
  <2>3. Solves(h, 0)
    <3> HIDE DEF h, D, N, Ahead
    <3> QED BY <2>1, <2>2
  <2> HIDE DEF Solves
  <2> QED BY <2>3
<1>3. ASSUME NEW n \in Nat, n \in S PROVE n + 1 \in S
  <2> SUFFICES ASSUME n + 1 <= N PROVE \E h : Solves(h, n + 1)
    <3> HIDE DEF Solves, N
    <3> QED OBVIOUS
  <2>1. PICK h : Solves(h, n)
    <3> HIDE DEF Solves
    <3> QED BY <1>1, <1>3
  <2> DEFINE i == N - n
             g == [at \in D |-> IF at[1] = i THEN Visit(h, ray, at) ELSE h[at]]
  <2>2. i \in DOMAIN nodes /\ i \in Int /\ i + 1 = N - n + 1 /\ i = N - (n + 1) + 1
    BY <1>1
  <2>3. \A c \in i + 1 .. N : Right(h, sp, ray, c)
    BY <2>1, <2>2
  <2>4. \A c \in DOMAIN nodes, v \in 0 .. Far :
          /\ <<c, v>> \in D
          /\ c = i => g[<<c, v>>] = Visit(h, ray, <<c, v>>)
          /\ c # i => g[<<c, v>>] = h[<<c, v>>]
    <3> SUFFICES ASSUME NEW c \in DOMAIN nodes, NEW v \in 0 .. Far
                 PROVE  /\ <<c, v>> \in D
                        /\ c = i => g[<<c, v>>] = Visit(h, ray, <<c, v>>)
                        /\ c # i => g[<<c, v>>] = h[<<c, v>>]
      OBVIOUS
    <3>1. <<c, v>> \in D /\ <<c, v>>[1] = c
      <4> HIDE DEF D, N
      <4> QED BY <1>1, <1>p
    <3> HIDE DEF D, i
    <3> QED BY <3>1
  <2>5. \A c \in i + 1 .. N, v \in 0 .. Far : g[<<c, v>>] = h[<<c, v>>]
    <3>1. \A c \in i + 1 .. N : c \in DOMAIN nodes /\ c # i
      <4> HIDE DEF i, N
      <4> QED BY <1>1, <2>2
    <3> HIDE DEF g, i, N, D
    <3> QED BY <2>4, <3>1
  <2>6. \A c \in i + 1 .. N : Right(g, sp, ray, c)
    <3> HIDE DEF g, i, N, D
    <3> QED BY <2>3, <2>5 DEF Right
  <2>7. Right(g, sp, ray, i)
    <3> SUFFICES ASSUME NEW v \in 0 .. Far PROVE Nearest(Part(sp, i), ray, v, g[<<i, v>>])
      BY DEF Right
    <3>1. Nearest(Part(sp, i), ray, v, Visit(h, ray, <<i, v>>))
      <4> HIDE DEF i, g
      <4> QED BY <2>2, <2>3, VisitIsRight
    <3> HIDE DEF g, i, D, N
    <3> QED BY <2>2, <2>4, <3>1
  <2>8. \A c \in N - (n + 1) + 1 .. N : Right(g, sp, ray, c)
    <3>1. \A c \in N - (n + 1) + 1 .. N : c = i \/ c \in i + 1 .. N
      <4> HIDE DEF N
      <4> QED BY <1>1
    <3> HIDE DEF g, i, N
    <3> QED BY <2>6, <2>7, <3>1
  <2>9. ASSUME NEW at \in Ahead(n + 1) PROVE g[at] = Visit(g, ray, at)
    <3>1. at \in D /\ at = <<at[1], at[2]>> /\ at[1] \in DOMAIN nodes /\ at[2] \in 0 .. Far
          /\ at[1] > N - (n + 1)
      <4> HIDE DEF D, N
      <4> QED BY <1>1, <1>p
    <3>2. CASE at[1] = i
      <4>1. g[at] = Visit(h, ray, at)
        BY <3>1, <3>2
      <4>2. Visit(g, ray, <<i, at[2]>>) = Visit(h, ray, <<i, at[2]>>)
        <5>1. \A c \in i + 1 .. Len(nodes) : Right(h, sp, ray, c)
          BY <2>3
        <5>2. Agree(g, h, i)
          <6> HIDE DEF g
          <6> QED BY <2>5 DEF Agree
        <5> DEFINE u == at[2]
        <5> HIDE DEF g, i, N, D, u
        <5> QED BY <2>2, <5>1, <5>2, <3>1, VisitLooksAhead
      <4> HIDE DEF g, i
      <4> QED BY <3>1, <3>2, <4>1, <4>2
    <3>3. CASE at[1] # i
      <4>1. g[at] = h[at]
        BY <3>1, <3>3
      <4>2. at[1] > N - n
        <5> HIDE DEF D, N
        <5> QED BY <1>1, <2>2, <3>1, <3>3
      <4>3. h[at] = Visit(h, ray, at)
        BY <2>1, <3>1, <4>2
      <4> DEFINE k == at[1]
      <4>4. k \in DOMAIN nodes /\ at[2] \in 0 .. Far /\ \A c \in k + 1 .. N : c \in i + 1 .. N
        BY <1>1, <2>2, <3>1, <4>2
      <4>5. (\A c \in k + 1 .. N : Right(h, sp, ray, c))
            /\ (\A c \in k + 1 .. N, v \in 0 .. Far : g[<<c, v>>] = h[<<c, v>>])
        <5> HIDE DEF g, i, k, N, D
        <5> QED BY <2>3, <2>5, <4>4
      <4>6. Visit(g, ray, <<k, at[2]>>) = Visit(h, ray, <<k, at[2]>>)
        <5>1. \A c \in k + 1 .. Len(nodes) : Right(h, sp, ray, c)
          BY <4>5
        <5>2. Agree(g, h, k)
          <6> HIDE DEF g, k
          <6> QED BY <4>5 DEF Agree
        <5> DEFINE u == at[2]
        <5> HIDE DEF g, i, k, N, D, u
        <5> QED BY <4>4, <5>1, <5>2, VisitLooksAhead
      <4> HIDE DEF g, i
      <4> QED BY <3>1, <4>1, <4>3, <4>6
    <3> QED BY <3>2, <3>3
  <2>10. g = [at \in D |-> g[at]]
    OBVIOUS
  <2>11. Solves(g, n + 1)
    <3> HIDE DEF g, D, N, Ahead
    <3> QED BY <2>8, <2>9, <2>10
  <2> HIDE DEF Solves
  <2> QED BY <2>11
<1>4. N \in S
  <2> HIDE DEF S
  <2> QED BY <1>1, <1>2, <1>3, SetInduction
<1>5. PICK h : Solves(h, N)
  <2> HIDE DEF Solves
  <2> QED BY <1>1, <1>4
<1>6. \A at \in D : at \in Ahead(N)
  <2> HIDE DEF D, N
  <2> QED BY <1>1, <1>p
<1>7. \A at \in D : h[at] = Visit(h, ray, at)
  <2> HIDE DEF D, N, Ahead
  <2> QED BY <1>5, <1>6
<1>8. h = [at \in D |-> h[at]]
  <2> HIDE DEF D, N, Ahead
  <2> QED BY <1>5
<1>9. h = [at \in D |-> Visit(h, ray, at)]
  <2> HIDE DEF D
  <2> QED BY <1>7, <1>8
<1> QED BY <1>9 DEF Equation

\* Every solution answers right.
LEMMA VisitSolves ==
    ASSUME sorted \in Seq(Tri), nodes \in Seq(NodeRecord),
           NEW sp, Tree(sp), NEW ray \in Rays, NEW h, Equation(h, ray)
    PROVE  \A c \in DOMAIN nodes : Right(h, sp, ray, c)
<1> DEFINE N == Len(nodes)
           D == (DOMAIN nodes) \X (0 .. Far)
           S == {n \in Nat : n <= N => \A c \in N - n + 1 .. N : Right(h, sp, ray, c)}
<1>1. N \in Nat /\ DOMAIN nodes = 1 .. N
  OBVIOUS
<1>2. 0 \in S
  BY <1>1
<1>3. ASSUME NEW n \in Nat, n \in S PROVE n + 1 \in S
  <2> SUFFICES ASSUME n + 1 <= N, NEW c \in N - (n + 1) + 1 .. N PROVE Right(h, sp, ray, c)
    OBVIOUS
  <2>1. \A k \in N - n + 1 .. N : Right(h, sp, ray, k)
    BY <1>1, <1>3
  <2>2. c \in DOMAIN nodes /\ \A k \in c + 1 .. N : k \in N - n + 1 .. N
    BY <1>1
  <2> SUFFICES ASSUME NEW v \in 0 .. Far PROVE Nearest(Part(sp, c), ray, v, h[<<c, v>>])
    BY DEF Right
  <2>3. h[<<c, v>>] = Visit(h, ray, <<c, v>>)
    <3>1. <<c, v>> \in D
      <4> HIDE DEF N
      <4> QED BY <2>2, Pairs
    <3>2. h = [at \in D |-> Visit(h, ray, at)]
      BY DEF Equation
    <3> HIDE DEF D
    <3> QED BY <3>1, <3>2
  <2>4. Nearest(Part(sp, c), ray, v, Visit(h, ray, <<c, v>>))
    BY <2>1, <2>2, VisitIsRight
  <2> QED BY <2>3, <2>4
<1>4. N \in S
  <2> HIDE DEF S
  <2> QED BY <1>1, <1>2, <1>3, SetInduction
<1> QED BY <1>1, <1>4

\* Scene::intersect() finds a nearest hit among all that were sorted.
LEMMA IntersectIsNearest ==
    ASSUME sorted \in Seq(Tri), nodes \in Seq(NodeRecord),
           NEW sp, Tree(sp), NEW ray \in Rays,
           nodes = <<>> => sorted = <<>>,
           nodes # <<>> => sp[1].first = 1 /\ sp[1].last = Len(sorted) + 1
    PROVE  Nearest({sorted[j] : j \in DOMAIN sorted}, ray, Far, Intersect(ray))
<1> DEFINE D == (DOMAIN nodes) \X (0 .. Far)
           visit == CHOOSE h : h = [at \in D |-> Visit(h, ray, at)]
<1>1. Intersect(ray) = IF nodes = <<>> THEN NoHit ELSE visit[<<1, Far>>]
  BY DEF Intersect, Visit
<1>2. Equation(visit, ray)
  <2>1. \E h : h = [at \in D |-> Visit(h, ray, at)]
    <3>1. \E h : Equation(h, ray)
      BY VisitExists
    <3> QED BY <3>1 DEF Equation
  <2>2. visit = [at \in D |-> Visit(visit, ray, at)]
    <3> HIDE DEF D
    <3> QED BY <2>1
  <2> HIDE DEF visit
  <2> QED BY <2>2 DEF Equation
<1>3. CASE nodes = <<>>
  <2>1. Intersect(ray) = NoHit /\ NoHit \in Answer
    BY <1>1, <1>3, BvhAssumption DEF NoHit, Answer
  <2>2. Hits({sorted[j] : j \in DOMAIN sorted}, ray, Far) = {}
    BY <1>3 DEF Hits
  <2> QED BY <2>1, <2>2 DEF Nearest
<1>4. CASE nodes # <<>>
  <2>1. 1 \in DOMAIN nodes /\ Far \in 0 .. Far
    BY <1>4, BvhAssumption
  <2>2. Nearest(Part(sp, 1), ray, Far, visit[<<1, Far>>])
    <3> HIDE DEF visit
    <3>1. Right(visit, sp, ray, 1)
      BY <1>2, <2>1, VisitSolves
    <3> QED BY <2>1, <3>1 DEF Right
  <2>3. Part(sp, 1) = {sorted[j] : j \in DOMAIN sorted}
    <3>1. 1 .. (Len(sorted) + 1) - 1 = DOMAIN sorted
      OBVIOUS
    <3> QED BY <1>4, <3>1 DEF Part
  <2> HIDE DEF visit
  <2> QED BY <1>1, <1>4, <2>2, <2>3
<1> QED BY <1>3, <1>4

------------------------------------------------------------------------------
(* Building: what its helpers keep. *)

\* A call of build_recursive() to come, and the interval of a node.
Call == [first : Nat, last : Nat, parent : Nat, side : {"left", "right"}]
Span == [first : Nat, last : Nat]

\* An interval of ts.
Legal(f, l, ts) == 1 <= f /\ f < l /\ l <= Len(ts) + 1

\* The second interval lies beside the first one or around it.
BesideOrAround(f, l, g, h) == h <= f \/ l <= g \/ (g <= f /\ l <= h)

\* What lies beside f .. l - 1 or around it holds the same triangles in both.
Keeps(ts, s, f, l) ==
    \A g \in Nat, h \in Nat : Legal(g, h, ts) /\ BesideOrAround(f, l, g, h) =>
        /\ \A j \in g .. h - 1 : \E k \in g .. h - 1 : s[j] = ts[k]
        /\ \A k \in g .. h - 1 : \E j \in g .. h - 1 : s[j] = ts[k]

\* nth_element() moves triangles within the interval and none in or out, so
\* what lies beside it or around it holds the same triangles as before.
LEMMA SplitKeeps ==
    ASSUME NEW ts \in Seq(Tri), NEW f \in Nat, NEW l \in Nat, Legal(f, l, ts),
           NEW mid, NEW axis, NEW s \in Split(ts, f, mid, l, axis)
    PROVE  s \in Seq(Tri) /\ Len(s) = Len(ts) /\ Keeps(ts, s, f, l)
<1>1. PICK p \in Bijection(f .. l - 1, f .. l - 1) :
         s = [i \in DOMAIN ts |-> IF i \in DOMAIN p THEN ts[p[i]] ELSE ts[i]]
  BY DEF Split
<1>2. /\ p \in [f .. l - 1 -> f .. l - 1] /\ DOMAIN p = f .. l - 1
      /\ \A k \in f .. l - 1 : \E j \in f .. l - 1 : p[j] = k
  BY DEF Bijection, Injection, Surjection
<1>3. DOMAIN ts = 1 .. Len(ts) /\ Len(ts) \in Nat /\ f .. l - 1 \subseteq DOMAIN ts
  BY DEF Legal
<1>4. \A i \in DOMAIN ts : /\ i \in f .. l - 1 => s[i] = ts[p[i]]
                           /\ i \notin f .. l - 1 => s[i] = ts[i]
  BY <1>1, <1>2
<1>5. s \in Seq(Tri) /\ Len(s) = Len(ts)
  <2>1. \A i \in DOMAIN ts : s[i] \in Tri
    <3>1. \A i \in DOMAIN ts : ts[i] \in Tri
      OBVIOUS
    <3>2. \A i \in f .. l - 1 : p[i] \in DOMAIN ts
      BY <1>2, <1>3
    <3> QED BY <1>4, <3>1, <3>2
  <2>2. s = [i \in 1 .. Len(ts) |-> s[i]]
    BY <1>1, <1>3
  <2> QED BY <1>3, <2>1, <2>2
<1>6. ASSUME NEW g \in Nat, NEW h \in Nat, Legal(g, h, ts), BesideOrAround(f, l, g, h)
      PROVE  /\ \A j \in g .. h - 1 : \E k \in g .. h - 1 : s[j] = ts[k]
             /\ \A k \in g .. h - 1 : \E j \in g .. h - 1 : s[j] = ts[k]
  <2>1. \A j \in g .. h - 1 : j \in DOMAIN ts
    BY <1>3, <1>6 DEF Legal
  <2>2. \/ \A j \in g .. h - 1 : j \notin f .. l - 1
        \/ \A j \in f .. l - 1 : j \in g .. h - 1
    BY <1>6 DEF BesideOrAround
  <2>3. \A j \in f .. l - 1 : p[j] \in f .. l - 1
    BY <1>2
  <2>4. ASSUME NEW j \in g .. h - 1 PROVE \E k \in g .. h - 1 : s[j] = ts[k]
    <3>1. CASE j \notin f .. l - 1
      BY <1>4, <2>1, <3>1
    <3>2. CASE j \in f .. l - 1
      <4>1. p[j] \in g .. h - 1
        BY <2>2, <2>3, <3>2
      <4> QED BY <1>4, <2>1, <3>2, <4>1
    <3> QED BY <3>1, <3>2
  <2>5. ASSUME NEW k \in g .. h - 1 PROVE \E j \in g .. h - 1 : s[j] = ts[k]
    <3>1. CASE k \notin f .. l - 1
      BY <1>4, <2>1, <3>1
    <3>2. CASE k \in f .. l - 1
      <4>1. PICK j \in f .. l - 1 : p[j] = k
        BY <1>2, <3>2
      <4>2. j \in g .. h - 1
        BY <2>2, <3>2
      <4> QED BY <1>4, <2>1, <4>1, <4>2
    <3> QED BY <3>1, <3>2
  <2> QED BY <2>4, <2>5
<1> QED BY <1>5, <1>6 DEF Keeps

\* A new node is the last one, and the child on its side of its parent; all
\* else stays as it is.
LEMMA LinkIs ==
    ASSUME NEW ns \in Seq(NodeRecord), NEW c \in Call, c.parent \in 0 .. Len(ns), NEW node \in NodeRecord
    PROVE  LET new == Link(ns, c, node)
               n   == Len(ns) + 1
           IN  /\ new \in Seq(NodeRecord) /\ Len(new) = n /\ new[n] = node
               /\ \A i \in 1 .. Len(ns) :
                    /\ new[i].box = ns[i].box /\ new[i].first = ns[i].first /\ new[i].count = ns[i].count
                    /\ new[i].left = IF i = c.parent /\ c.side = "left" THEN n ELSE ns[i].left
                    /\ new[i].right = IF i = c.parent /\ c.side = "right" THEN n ELSE ns[i].right
<1> DEFINE app == Append(ns, node)
           n   == Len(ns) + 1
           new == Link(ns, c, node)
           p   == c.parent
           Goal == /\ new \in Seq(NodeRecord) /\ Len(new) = n /\ new[n] = node
                   /\ \A i \in 1 .. Len(ns) :
                        /\ new[i].box = ns[i].box /\ new[i].first = ns[i].first /\ new[i].count = ns[i].count
                        /\ new[i].left = IF i = p /\ c.side = "left" THEN n ELSE ns[i].left
                        /\ new[i].right = IF i = p /\ c.side = "right" THEN n ELSE ns[i].right
<1> SUFFICES Goal
  OBVIOUS
<1>1. /\ app \in Seq(NodeRecord) /\ Len(app) = n /\ app[n] = node
      /\ \A i \in 1 .. Len(ns) : app[i] = ns[i]
      /\ DOMAIN app = 1 .. n /\ n \in Nat
  OBVIOUS
<1>2. CASE p = 0
  <2>1. new = app
    BY <1>2 DEF Link
  <2>2. \A i \in 1 .. Len(ns) : i # p
    BY <1>2
  <2> HIDE DEF new, app
  <2>3. \A i \in 1 .. Len(ns) : new[i] = ns[i] /\ i # p
    BY <1>1, <2>1, <2>2
  <2>4. new \in Seq(NodeRecord) /\ Len(new) = n /\ new[n] = node
    BY <1>1, <2>1
  <2> HIDE DEF n, p
  <2> QED BY <2>3, <2>4
<1>3. CASE p # 0
  <2>1. p \in 1 .. Len(ns) /\ p \in DOMAIN app /\ p # n /\ p \in Nat
    <3>1. p \in 1 .. Len(ns) /\ n \in Nat /\ Len(ns) \in Nat
      BY <1>3
    <3> HIDE DEF app, p
    <3> QED BY <1>1, <3>1
  <2> DEFINE x == app[p]
             y == [x EXCEPT ![c.side] = n]
  <2>2. new = [app EXCEPT ![p] = y]
    BY <1>1, <1>3 DEF Link
  <2>3. x \in NodeRecord /\ x = ns[p]
    <3> HIDE DEF app, p
    <3> QED BY <1>1, <2>1
  <2>4. /\ y \in NodeRecord /\ y.box = x.box /\ y.first = x.first /\ y.count = x.count
        /\ y.left = IF c.side = "left" THEN n ELSE x.left
        /\ y.right = IF c.side = "right" THEN n ELSE x.right
    <3> HIDE DEF x, n
    <3>1. c.side \in {"left", "right"}
      BY DEF Call
    <3>2. CASE c.side = "left"
      <4>1. y = [x EXCEPT !.left = n]
        BY <3>2
      <4> QED BY <1>1, <2>3, <3>2, <4>1 DEF NodeRecord
    <3>3. CASE c.side = "right"
      <4>1. y = [x EXCEPT !.right = n]
        BY <3>3
      <4> QED BY <1>1, <2>3, <3>3, <4>1 DEF NodeRecord
    <3> QED BY <3>1, <3>2, <3>3
  <2> HIDE DEF new, app, y, x, p
  <2>5. new \in Seq(NodeRecord) /\ Len(new) = n /\ new[p] = y /\ \A i \in 1 .. n : i # p => new[i] = app[i]
    BY <1>1, <2>1, <2>2, <2>4
  <2>6. new[n] = node
    BY <1>1, <2>1, <2>5
  <2>7. \A i \in 1 .. Len(ns) : i # p => new[i] = ns[i]
    BY <1>1, <2>5
  <2>8. p \in 1 .. Len(ns) /\ new[p] = y /\ x = ns[p]
    BY <2>1, <2>3, <2>5
  <2>9. ASSUME NEW i \in 1 .. Len(ns)
        PROVE  /\ new[i].box = ns[i].box /\ new[i].first = ns[i].first /\ new[i].count = ns[i].count
               /\ new[i].left = IF i = p /\ c.side = "left" THEN n ELSE ns[i].left
               /\ new[i].right = IF i = p /\ c.side = "right" THEN n ELSE ns[i].right
    <3> HIDE DEF n
    <3>1. CASE i = p
      BY <2>4, <2>8, <3>1
    <3>2. CASE i # p
      BY <2>7, <3>2
    <3> QED BY <3>1, <3>2
  <2> HIDE DEF n
  <2> QED BY <2>5, <2>6, <2>9
<1> QED BY <1>2, <1>3

------------------------------------------------------------------------------
(* The tree while it is built. *)

\* A child of node i that stands for an interval: it is built, or its call is
\* still to come.
Child(sp, child, i, side, f, l) ==
    \/ child \in i + 1 .. Len(nodes) /\ sp[child].first = f /\ sp[child].last = l
    \/ /\ child = 0
       /\ \E m \in 1 .. Len(calls) : /\ calls[m].first = f /\ calls[m].last = l
                                     /\ calls[m].parent = i /\ calls[m].side = side

\* Node i, built from sp[i]: its box holds the triangles there, and it is a leaf
\* of them or its children share them.
NodeInv(sp, i) ==
    /\ Legal(sp[i].first, sp[i].last, sorted)
    /\ \A j \in sp[i].first .. sp[i].last - 1 : Within(sorted[j], nodes[i].box)
    /\ \/ /\ nodes[i].count \in {1, 2} /\ nodes[i].first = sp[i].first
          /\ sp[i].last = sp[i].first + nodes[i].count
       \/ /\ nodes[i].count = 0
          /\ \E mid \in Nat : /\ Child(sp, nodes[i].left, i, "left", sp[i].first, mid)
                              /\ Child(sp, nodes[i].right, i, "right", mid, sp[i].last)

\* A call to come is about part of what is sorted; its parent has no child yet on
\* its side, and no node's interval cuts across the call's.
CallInv(sp, c) ==
    /\ Legal(c.first, c.last, sorted)
    /\ nodes = <<>> => c.parent = 0 /\ c.first = 1 /\ c.last = Len(sorted) + 1
    /\ nodes # <<>> => /\ c.parent \in 1 .. Len(nodes)
                       /\ c.side = "left" => nodes[c.parent].left = 0
                       /\ c.side = "right" => nodes[c.parent].right = 0
    /\ \A i \in 1 .. Len(nodes) : BesideOrAround(c.first, c.last, sp[i].first, sp[i].last)

\* Calls to come are about intervals one after the other, for different children.
Apart(c, d) == c.last <= d.first /\ ~(c.parent = d.parent /\ c.side = d.side)

\* sp is a history of the build: the interval every node was built from.
BuildInv(sp) ==
    /\ /\ sorted \in Seq(Tri) /\ nodes \in Seq(NodeRecord) /\ calls \in Seq(Call)
       /\ sp \in Seq(Span) /\ Len(sp) = Len(nodes)
    /\ \A i \in 1 .. Len(nodes) : NodeInv(sp, i)
    /\ \A m \in 1 .. Len(calls) : CallInv(sp, calls[m])
    /\ \A m, n \in 1 .. Len(calls) : m < n => Apart(calls[m], calls[n])
    /\ nodes # <<>> => sp[1].first = 1 /\ sp[1].last = Len(sorted) + 1
    /\ nodes = <<>> => Len(calls) <= 1 /\ (calls = <<>> => sorted = <<>>)

\* What both building steps do: the first call gets its node, and triangles move
\* in its interval only.
Placed(node) ==
    LET c == calls[1]
    IN  /\ calls # <<>> /\ nodes' = Link(nodes, c, node)
        /\ sorted' \in Seq(Tri) /\ Len(sorted') = Len(sorted)
        /\ \A g \in Nat, h \in Nat : Legal(g, h, sorted) /\ BesideOrAround(c.first, c.last, g, h) =>
             \A j \in g .. h - 1 : \E k \in g .. h - 1 : sorted'[j] = sorted[k]

\* The history after the first call.
After(sp) == Append(sp, [first |-> calls[1].first, last |-> calls[1].last])

\* What a step that places a node makes of the nodes and the history.
LEMMA Placing ==
    ASSUME NEW sp, BuildInv(sp), NEW node \in NodeRecord, Placed(node)
    PROVE  /\ calls[1] \in Call /\ CallInv(sp, calls[1]) /\ Len(nodes) \in Nat
           /\ nodes' \in Seq(NodeRecord) /\ Len(nodes') = Len(nodes) + 1 /\ nodes' # <<>>
           /\ nodes'[Len(nodes) + 1] = node
           /\ \A i \in 1 .. Len(nodes) :
                /\ nodes'[i].box = nodes[i].box /\ nodes'[i].first = nodes[i].first
                /\ nodes'[i].count = nodes[i].count
                /\ nodes'[i].left = IF i = calls[1].parent /\ calls[1].side = "left"
                                    THEN Len(nodes) + 1 ELSE nodes[i].left
                /\ nodes'[i].right = IF i = calls[1].parent /\ calls[1].side = "right"
                                     THEN Len(nodes) + 1 ELSE nodes[i].right
           /\ After(sp) \in Seq(Span) /\ Len(After(sp)) = Len(nodes) + 1
           /\ After(sp)[Len(nodes) + 1].first = calls[1].first
           /\ After(sp)[Len(nodes) + 1].last = calls[1].last
           /\ \A i \in 1 .. Len(nodes) : After(sp)[i] = sp[i]
<1> DEFINE c == calls[1]
           s == [first |-> c.first, last |-> c.last]
<1>1. c \in Call /\ CallInv(sp, c) /\ nodes \in Seq(NodeRecord) /\ Len(nodes) \in Nat
  <2>1. calls \in Seq(Call) /\ calls # <<>>
    BY DEF BuildInv, Placed
  <2>2. 1 \in 1 .. Len(calls) /\ c \in Call
    BY <2>1
  <2> HIDE DEF c
  <2> QED BY <2>2 DEF BuildInv, c
<1>2. c.parent \in 0 .. Len(nodes)
  <2>1. CASE nodes = <<>>
    BY <1>1, <2>1 DEF CallInv
  <2>2. CASE nodes # <<>>
    <3>1. c.parent \in 1 .. Len(nodes)
      BY <1>1, <2>2 DEF CallInv
    <3> HIDE DEF c
    <3> QED BY <3>1, <1>1
  <2> QED BY <2>1, <2>2
<1>3. nodes' = Link(nodes, c, node)
  BY DEF Placed
<1>4. s \in Span /\ s.first = c.first /\ s.last = c.last
  <2> HIDE DEF c
  <2> QED BY <1>1 DEF Call, Span
<1>5. sp \in Seq(Span) /\ Len(sp) = Len(nodes) /\ After(sp) = Append(sp, s)
  BY DEF BuildInv, After
<1>6. /\ After(sp) \in Seq(Span) /\ Len(After(sp)) = Len(nodes) + 1
      /\ After(sp)[Len(nodes) + 1] = s
      /\ \A i \in 1 .. Len(nodes) : After(sp)[i] = sp[i]
  <2> HIDE DEF s
  <2> QED BY <1>4, <1>5
<1>7. /\ nodes' \in Seq(NodeRecord) /\ Len(nodes') = Len(nodes) + 1
      /\ nodes'[Len(nodes) + 1] = node
      /\ \A i \in 1 .. Len(nodes) :
                /\ nodes'[i].box = nodes[i].box /\ nodes'[i].first = nodes[i].first
                /\ nodes'[i].count = nodes[i].count
                /\ nodes'[i].left = IF i = c.parent /\ c.side = "left"
                                    THEN Len(nodes) + 1 ELSE nodes[i].left
                /\ nodes'[i].right = IF i = c.parent /\ c.side = "right"
                                     THEN Len(nodes) + 1 ELSE nodes[i].right
  <2> HIDE DEF c
  <2> QED BY <1>1, <1>2, <1>3, LinkIs
<1>8. nodes' # <<>>
  BY <1>1, <1>7
<1> HIDE DEF s
<1> QED BY <1>1, <1>4, <1>6, <1>7, <1>8


\* A child that was built or had a call is built or has one.
LEMMA ChildStays ==
    ASSUME NEW sp, BuildInv(sp), NEW node \in NodeRecord, Placed(node), NEW sq, sq = After(sp),
           \A m \in 2 .. Len(calls) : \E n \in 1 .. Len(calls') : calls'[n] = calls[m],
           NEW i \in 1 .. Len(nodes), NEW side, NEW old, NEW new, NEW f, NEW l,
           new = IF i = calls[1].parent /\ calls[1].side = side THEN Len(nodes) + 1 ELSE old,
           i = calls[1].parent /\ calls[1].side = side => old = 0,
           Child(sp, old, i, side, f, l)
    PROVE  Child(sq, new, i, side, f, l)'
<1> PICK N \in Nat : N = Len(nodes)
  BY Placing
<1> PICK c : c = calls[1]
  OBVIOUS
<1>1. /\ Len(nodes') = N + 1 /\ i \in 1 .. N /\ \A k \in 1 .. N : sq[k] = sp[k]
      /\ sq[N + 1].first = c.first /\ sq[N + 1].last = c.last
  BY Placing
<1>2. CASE old \in i + 1 .. N /\ sp[old].first = f /\ sp[old].last = l
  <2>1. new = old /\ old \in 1 .. N /\ old \in i + 1 .. N + 1
    BY <1>1, <1>2
  <2>2. new \in i + 1 .. Len(nodes') /\ sq[new].first = f /\ sq[new].last = l
    BY <1>1, <1>2, <2>1
  <2> QED BY <2>2 DEF Child
<1>3. ASSUME old = 0, NEW m \in 1 .. Len(calls),
             calls[m].first = f /\ calls[m].last = l /\ calls[m].parent = i /\ calls[m].side = side
      PROVE  Child(sq, new, i, side, f, l)'
  <2>1. CASE m = 1
    <3>1. new = N + 1 /\ N + 1 \in i + 1 .. N + 1 /\ c.first = f /\ c.last = l
      BY <1>1, <1>3, <2>1
    <3>2. new \in i + 1 .. Len(nodes') /\ sq[new].first = f /\ sq[new].last = l
      BY <1>1, <3>1
    <3> QED BY <3>2 DEF Child
  <2>2. CASE m # 1
    <3>1. m \in 2 .. Len(calls) /\ 1 \in 1 .. Len(calls) /\ 1 < m
      BY <1>3, <2>2
    <3>2. Apart(calls[1], calls[m])
      BY <3>1 DEF BuildInv
    <3>3. new = 0
      BY <1>3, <3>2 DEF Apart
    <3>4. PICK n \in 1 .. Len(calls') : calls'[n] = calls[m]
      BY <3>1
    <3> QED BY <1>3, <3>3, <3>4 DEF Child
  <2> QED BY <2>1, <2>2
<1> QED BY <1>2, <1>3 DEF Child

\* The nodes there were stand for the triangles they stood for, and have their
\* children or a call for them.
LEMMA OldNodes ==
    ASSUME NEW sp, BuildInv(sp), NEW node \in NodeRecord, Placed(node), NEW sq, sq = After(sp),
           \A m \in 2 .. Len(calls) : \E n \in 1 .. Len(calls') : calls'[n] = calls[m]
    PROVE  \A i \in 1 .. Len(nodes) : NodeInv(sq, i)'
<1> SUFFICES ASSUME NEW i \in 1 .. Len(nodes) PROVE NodeInv(sq, i)'
  OBVIOUS
<1> PICK c : c = calls[1]
  OBVIOUS
<1> PICK f, l : f = sp[i].first /\ l = sp[i].last
  OBVIOUS
<1>1. f \in Nat /\ l \in Nat
  <2>1. sp \in Seq(Span) /\ Len(sp) = Len(nodes)
    BY DEF BuildInv
  <2>2. sp[i] \in Span
    BY <2>1
  <2> QED BY <2>2 DEF Span
<1>2. /\ c \in Call /\ CallInv(sp, c) /\ nodes # <<>>
      /\ nodes'[i].box = nodes[i].box /\ nodes'[i].first = nodes[i].first
      /\ nodes'[i].count = nodes[i].count
      /\ nodes'[i].left = IF i = c.parent /\ c.side = "left"
                          THEN Len(nodes) + 1 ELSE nodes[i].left
      /\ nodes'[i].right = IF i = c.parent /\ c.side = "right"
                           THEN Len(nodes) + 1 ELSE nodes[i].right
      /\ sq[i] = sp[i]
  BY Placing
<1>3. NodeInv(sp, i)
  BY DEF BuildInv
<1>4. Legal(f, l, sorted) /\ BesideOrAround(c.first, c.last, f, l)
  BY <1>2, <1>3 DEF NodeInv, CallInv
<1>5. Legal(f, l, sorted')
  BY <1>4 DEF Placed, Legal
<1>6. \A j \in f .. l - 1 : Within(sorted'[j], nodes[i].box)
  <2> SUFFICES ASSUME NEW j \in f .. l - 1 PROVE Within(sorted'[j], nodes[i].box)
    OBVIOUS
  <2>1. PICK k \in f .. l - 1 : sorted'[j] = sorted[k]
    BY <1>1, <1>4 DEF Placed
  <2>2. Within(sorted[k], nodes[i].box)
    BY <1>3 DEF NodeInv
  <2> QED BY <2>1, <2>2
<1>7. CASE /\ nodes[i].count \in {1, 2} /\ nodes[i].first = f /\ l = f + nodes[i].count
  BY <1>2, <1>5, <1>6, <1>7 DEF NodeInv
<1>8. CASE /\ nodes[i].count = 0
           /\ \E mid \in Nat : /\ Child(sp, nodes[i].left, i, "left", f, mid)
                               /\ Child(sp, nodes[i].right, i, "right", mid, l)
  <2>1. PICK mid \in Nat : /\ Child(sp, nodes[i].left, i, "left", f, mid)
                           /\ Child(sp, nodes[i].right, i, "right", mid, l)
    BY <1>8
  <2> PICK a, b, x, y : /\ a = nodes[i].left /\ x = nodes'[i].left
                        /\ b = nodes[i].right /\ y = nodes'[i].right
    OBVIOUS
  <2>2. /\ i = c.parent /\ c.side = "left" => a = 0
        /\ i = c.parent /\ c.side = "right" => b = 0
    BY <1>2 DEF CallInv
  <2>3. Child(sq, x, i, "left", f, mid)'
    <3>1. x = IF i = calls[1].parent /\ calls[1].side = "left" THEN Len(nodes) + 1 ELSE a
      BY <1>2
    <3>2. i = calls[1].parent /\ calls[1].side = "left" => a = 0
      BY <2>2
    <3>3. Child(sp, a, i, "left", f, mid)
      BY <2>1
    <3> QED BY <3>1, <3>2, <3>3, ChildStays
  <2>4. Child(sq, y, i, "right", mid, l)'
    <3>1. y = IF i = calls[1].parent /\ calls[1].side = "right" THEN Len(nodes) + 1 ELSE b
      BY <1>2
    <3>2. i = calls[1].parent /\ calls[1].side = "right" => b = 0
      BY <2>2
    <3>3. Child(sp, b, i, "right", mid, l)
      BY <2>1
    <3> QED BY <3>1, <3>2, <3>3, ChildStays
  <2>5. nodes'[i].count = 0
    BY <1>2, <1>8
  <2>6. Child(sq, nodes[i].left, i, "left", f, mid)' /\ Child(sq, nodes[i].right, i, "right", mid, l)'
    BY <2>3, <2>4 DEF Child
  <2> QED BY <1>2, <1>5, <1>6, <2>5, <2>6 DEF NodeInv
<1> QED BY <1>3, <1>7, <1>8 DEF NodeInv

\* The other calls are as they were.
LEMMA OldCalls ==
    ASSUME NEW sp, BuildInv(sp), NEW node \in NodeRecord, Placed(node), NEW sq, sq = After(sp),
           NEW m \in 2 .. Len(calls), NEW d, d = calls[m]
    PROVE  CallInv(sq, d)' /\ nodes # <<>>
<1> PICK N \in Nat : N = Len(nodes)
  BY Placing
<1> PICK c : c = calls[1]
  OBVIOUS
<1>1. m \in 1 .. Len(calls) /\ 1 \in 1 .. Len(calls) /\ 1 < m
  OBVIOUS
<1>2. CallInv(sp, d) /\ Apart(c, d)
  BY <1>1 DEF BuildInv
<1>3. nodes # <<>>
  BY <1>1 DEF BuildInv
<1>4. Legal(d.first, d.last, sorted')
  BY <1>2 DEF CallInv, Legal, Placed
<1>5. /\ d.parent \in 1 .. N
      /\ d.side = "left" => nodes[d.parent].left = 0
      /\ d.side = "right" => nodes[d.parent].right = 0
  BY <1>2, <1>3 DEF CallInv
<1>6. /\ Len(nodes') = N + 1 /\ nodes' # <<>>
      /\ \A i \in 1 .. N : sq[i] = sp[i]
      /\ sq[N + 1].first = c.first /\ sq[N + 1].last = c.last
  BY Placing
<1>7. /\ nodes'[d.parent].left = IF d.parent = c.parent /\ c.side = "left"
                                 THEN N + 1 ELSE nodes[d.parent].left
      /\ nodes'[d.parent].right = IF d.parent = c.parent /\ c.side = "right"
                                  THEN N + 1 ELSE nodes[d.parent].right
  BY <1>5, Placing
<1>8. /\ d.parent \in 1 .. N + 1
      /\ d.side = "left" => nodes'[d.parent].left = 0
      /\ d.side = "right" => nodes'[d.parent].right = 0
  BY <1>2, <1>5, <1>7 DEF Apart
<1>9. \A i \in 1 .. N + 1 : BesideOrAround(d.first, d.last, sq[i].first, sq[i].last)
  <2>1. ASSUME NEW i \in 1 .. N PROVE BesideOrAround(d.first, d.last, sq[i].first, sq[i].last)
    BY <1>2, <1>6 DEF CallInv
  <2>2. BesideOrAround(d.first, d.last, sq[N + 1].first, sq[N + 1].last)
    BY <1>2, <1>6 DEF Apart, BesideOrAround
  <2>3. \A i \in 1 .. N + 1 : i \in 1 .. N \/ i = N + 1
    OBVIOUS
  <2> QED BY <2>1, <2>2, <2>3
<1> QED BY <1>3, <1>4, <1>6, <1>8, <1>9 DEF CallInv

------------------------------------------------------------------------------
(* The two building steps. *)

\* What is known of the call that is begun.
LEMMA FirstCall ==
    ASSUME NEW sp, BuildInv(sp), calls # <<>>
    PROVE  /\ Head(calls) = calls[1] /\ calls[1] \in Call /\ CallInv(sp, calls[1])
           /\ calls[1].first \in Nat /\ calls[1].last \in Nat
           /\ Legal(calls[1].first, calls[1].last, sorted)
           /\ sorted \in Seq(Tri) /\ calls \in Seq(Call) /\ Len(calls) \in Nat /\ Len(calls) >= 1
           /\ Len(nodes) \in Nat
<1>1. calls \in Seq(Call) /\ sorted \in Seq(Tri) /\ nodes \in Seq(NodeRecord)
  BY DEF BuildInv
<1>2. 1 \in 1 .. Len(calls) /\ Head(calls) = calls[1] /\ calls[1] \in Call /\ Len(calls) \in Nat
  BY <1>1
<1>3. CallInv(sp, calls[1])
  BY <1>2 DEF BuildInv
<1> QED BY <1>1, <1>2, <1>3 DEF CallInv, Call

\* A node has no children when it is made.
LEMMA NodeIs ==
    ASSUME NEW box \in Box, NEW f \in Nat, NEW n \in Nat
    PROVE  /\ Node(box, f, n) \in NodeRecord
           /\ Node(box, f, n).box = box /\ Node(box, f, n).first = f /\ Node(box, f, n).count = n
           /\ Node(box, f, n).left = 0 /\ Node(box, f, n).right = 0
BY DEF Node, NodeRecord

\* A leaf is built: its call is done.
LEMMA LeafStep ==
    ASSUME NEW sp, BuildInv(sp), BuildLeaf
    PROVE  \E sq : BuildInv(sq)'
<1> PICK c, N, f, l : c = calls[1] /\ N = Len(nodes) /\ f = c.first /\ l = c.last
  OBVIOUS
<1> PICK sq : sq = After(sp)
  OBVIOUS
<1> PICK node : node = Node(Bounds(sorted, f, l), f, l - f)
  OBVIOUS
<1>1. /\ Head(calls) = c /\ c \in Call /\ f \in Nat /\ l \in Nat /\ Legal(f, l, sorted)
      /\ sorted \in Seq(Tri) /\ calls \in Seq(Call) /\ Len(calls) \in Nat /\ Len(calls) >= 1
      /\ N \in Nat /\ calls # <<>>
  BY FirstCall DEF BuildLeaf
<1>2. /\ l - f \in {1, 2} /\ l = f + (l - f)
      /\ nodes' = Link(nodes, c, node) /\ calls' = Tail(calls) /\ sorted' = sorted
  BY <1>1 DEF BuildLeaf, Legal
<1>3. Bounds(sorted, f, l) \in Box /\ \A i \in f .. l - 1 : Within(sorted[i], Bounds(sorted, f, l))
  BY <1>1, BoundsHold DEF Legal
<1>4. node \in NodeRecord /\ node.box = Bounds(sorted, f, l) /\ node.first = f /\ node.count = l - f
  <2>1. l - f \in Nat
    BY <1>2
  <2> QED BY <1>1, <1>3, <2>1, NodeIs
<1>5. Placed(node)
  BY <1>1, <1>2 DEF Placed
<1>6. /\ calls' \in Seq(Call) /\ Len(calls') = Len(calls) - 1
      /\ \A n \in 1 .. Len(calls') : n + 1 \in 2 .. Len(calls) /\ calls'[n] = calls[n + 1]
      /\ \A m \in 2 .. Len(calls) : m - 1 \in 1 .. Len(calls') /\ calls'[m - 1] = calls[m]
  BY <1>1, <1>2
<1>7. \A i \in 1 .. N : NodeInv(sq, i)'
  <2>1. \A m \in 2 .. Len(calls) : \E n \in 1 .. Len(calls') : calls'[n] = calls[m]
    BY <1>6
  <2> QED BY <1>4, <1>5, <2>1, OldNodes
<1>8. /\ nodes' \in Seq(NodeRecord) /\ Len(nodes') = N + 1 /\ nodes' # <<>>
      /\ nodes'[N + 1] = node
      /\ sq \in Seq(Span) /\ Len(sq) = N + 1 /\ sq[N + 1].first = f /\ sq[N + 1].last = l
      /\ \A i \in 1 .. N : sq[i] = sp[i]
  BY <1>4, <1>5, Placing
<1>9. NodeInv(sq, N + 1)'
  BY <1>1, <1>2, <1>3, <1>4, <1>8 DEF NodeInv
<1>10. ASSUME NEW n \in 1 .. Len(calls') PROVE CallInv(sq, calls[n])'
  <2> PICK m, d : m = n + 1 /\ d = calls[m]
    OBVIOUS
  <2>1. m \in 2 .. Len(calls) /\ calls'[n] = d
    BY <1>6
  <2>2. CallInv(sq, d)'
    BY <1>4, <1>5, <2>1, OldCalls
  <2> QED BY <2>1, <2>2 DEF CallInv
<1>11. ASSUME NEW m \in 1 .. Len(calls'), NEW n \in 1 .. Len(calls'), m < n
       PROVE  Apart(calls'[m], calls'[n])
  <2>1. m + 1 \in 1 .. Len(calls) /\ n + 1 \in 1 .. Len(calls) /\ m + 1 < n + 1
    BY <1>6, <1>11
  <2>2. Apart(calls[m + 1], calls[n + 1])
    BY <2>1 DEF BuildInv
  <2> QED BY <1>6, <2>2
<1>12. sq[1].first = 1 /\ sq[1].last = Len(sorted) + 1
  <2>1. CASE N = 0
    <3>1. nodes = <<>>
      <4>1. nodes \in Seq(NodeRecord)
        BY DEF BuildInv
      <4> QED BY <2>1, <4>1, EmptySeq
    <3> QED BY <1>1, <1>8, <2>1, <3>1, FirstCall DEF CallInv
  <2>2. CASE N # 0
    <3>1. nodes # <<>> /\ 1 \in 1 .. N
      BY <1>1, <2>2
    <3> QED BY <1>8, <3>1 DEF BuildInv
  <2> QED BY <2>1, <2>2
<1>13. \A i \in 1 .. N + 1 : NodeInv(sq, i)'
  <2>1. \A i \in 1 .. N + 1 : i \in 1 .. N \/ i = N + 1
    BY <1>1
  <2> QED BY <1>7, <1>9, <2>1
<1>14. BuildInv(sq)'
  BY <1>1, <1>2, <1>6, <1>8, <1>10, <1>11, <1>12, <1>13 DEF BuildInv
<1> QED BY <1>14

\* The middle of an interval of three or more is inside it.
LEMMA Middle ==
    ASSUME NEW f \in Nat, NEW l \in Nat, 1 <= f, l - f > 2
    PROVE  /\ (f - 1 + l - 1) \div 2 + 1 \in Nat
           /\ f < (f - 1 + l - 1) \div 2 + 1 /\ (f - 1 + l - 1) \div 2 + 1 < l
<1>1. PICK x \in Nat : x = f - 1 + l - 1
  OBVIOUS
<1>2. 2 * (x \div 2) <= x /\ x < 2 * (x \div 2) + 2 /\ x \div 2 \in Nat
  OBVIOUS
<1>3. PICK q \in Nat : q = x \div 2 /\ 2 * q <= x /\ x < 2 * q + 2
  BY <1>2
<1>4. f < q + 1 /\ q + 1 < l
  BY <1>1, <1>3
<1> QED BY <1>1, <1>3, <1>4

\* An interval beside or around another is beside or around its two parts.
LEMMA PartsLie ==
    ASSUME NEW f \in Nat, NEW m \in Nat, NEW l \in Nat, f < m, m < l, NEW g \in Nat, NEW h \in Nat,
           BesideOrAround(f, l, g, h)
    PROVE  BesideOrAround(f, m, g, h) /\ BesideOrAround(m, l, g, h)
BY DEF BesideOrAround

\* An inner node is built: its interval is divided between the calls for its
\* children.
LEMMA InnerStep ==
    ASSUME NEW sp, BuildInv(sp), BuildInner
    PROVE  \E sq : BuildInv(sq)'
<1>c. PICK c, N, f, l : c = calls[1] /\ N = Len(nodes) /\ f = c.first /\ l = c.last
  OBVIOUS
<1>s. PICK sq : sq = After(sp)
  OBVIOUS
<1>b. PICK box : box = Bounds(sorted, f, l)
  OBVIOUS
<1>n. PICK node : node = Node(box, 0, 0)
  OBVIOUS
<1>m. PICK mid : mid = (f - 1 + l - 1) \div 2 + 1
  OBVIOUS
<1>d. PICK c1, c2 : /\ c1 = [first |-> f, last |-> mid, parent |-> N + 1, side |-> "left"]
                  /\ c2 = [first |-> mid, last |-> l, parent |-> N + 1, side |-> "right"]
  OBVIOUS
<1>1. /\ Head(calls) = c /\ c \in Call /\ f \in Nat /\ l \in Nat /\ Legal(f, l, sorted)
      /\ sorted \in Seq(Tri) /\ calls \in Seq(Call) /\ Len(calls) \in Nat /\ Len(calls) >= 1
      /\ N \in Nat /\ calls # <<>>
  BY <1>c, FirstCall DEF BuildInner
<1>2. /\ l - f > 2 /\ nodes' = Link(nodes, c, node)
      /\ sorted' \in Split(sorted, f, mid, l, LongestAxis(box))
      /\ calls' = <<c1, c2>> \o Tail(calls)
  BY <1>1, <1>c, <1>b, <1>n, <1>m, <1>d DEF BuildInner
<1>3. mid \in Nat /\ f < mid /\ mid < l
  BY <1>1, <1>2, <1>m, Middle DEF Legal
<1>4. box \in Box /\ \A i \in f .. l - 1 : Within(sorted[i], box)
  BY <1>1, <1>b, BoundsHold DEF Legal
<1>5. node \in NodeRecord /\ node.box = box /\ node.count = 0 /\ node.left = 0 /\ node.right = 0
  BY <1>4, <1>n, NodeIs
<1>6. /\ sorted' \in Seq(Tri) /\ Len(sorted') = Len(sorted)
      /\ \A g \in Nat, h \in Nat : Legal(g, h, sorted) /\ BesideOrAround(f, l, g, h) =>
           \A j \in g .. h - 1 : \E k \in g .. h - 1 : sorted'[j] = sorted[k]
  <2>1. PICK s : s = sorted'
    OBVIOUS
  <2> PICK ts, axis : ts = sorted /\ axis = LongestAxis(box)
    OBVIOUS
  <2>2. s \in Split(ts, f, mid, l, axis) /\ ts \in Seq(Tri) /\ Legal(f, l, ts)
    BY <1>1, <1>2, <2>1
  <2>3. s \in Seq(Tri) /\ Len(s) = Len(ts) /\ Keeps(ts, s, f, l)
    BY <1>1, <2>2, SplitKeeps
  <2> QED BY <2>1, <2>3 DEF Keeps
<1>7. Placed(node)
  BY <1>1, <1>2, <1>6, <1>c DEF Placed
<1>8. /\ c1 \in Call /\ c1.first = f /\ c1.last = mid /\ c1.parent = N + 1 /\ c1.side = "left"
      /\ c2 \in Call /\ c2.first = mid /\ c2.last = l /\ c2.parent = N + 1 /\ c2.side = "right"
  BY <1>1, <1>3, <1>d DEF Call
<1>9. /\ calls' \in Seq(Call) /\ Len(calls') = Len(calls) + 1
      /\ calls'[1] = c1 /\ calls'[2] = c2
      /\ \A n \in 3 .. Len(calls') : n - 1 \in 2 .. Len(calls) /\ calls'[n] = calls[n - 1]
      /\ \A m \in 2 .. Len(calls) : m + 1 \in 1 .. Len(calls') /\ calls'[m + 1] = calls[m]
  <2> PICK rest : rest = Tail(calls)
    OBVIOUS
  <2>1. /\ rest \in Seq(Call) /\ Len(rest) = Len(calls) - 1
        /\ \A n \in 1 .. Len(rest) : rest[n] = calls[n + 1]
    BY <1>1
  <2> PICK two : two = <<c1, c2>>
    OBVIOUS
  <2>2. two \in Seq(Call) /\ Len(two) = 2 /\ two[1] = c1 /\ two[2] = c2
    BY <1>8
  <2>3. /\ calls' \in Seq(Call) /\ Len(calls') = 2 + Len(rest)
        /\ calls'[1] = c1 /\ calls'[2] = c2
        /\ \A n \in 3 .. Len(calls') : calls'[n] = rest[n - 2]
    BY <1>2, <2>1, <2>2
  <2>4. \A n \in 3 .. Len(calls') : n - 2 \in 1 .. Len(rest) /\ (n - 2) + 1 = n - 1
    BY <1>1, <2>1, <2>3
  <2>5. \A m \in 2 .. Len(calls) : m + 1 \in 3 .. Len(calls') /\ (m + 1) - 1 = m
    BY <1>1, <2>1, <2>3
  <2>6. \A n \in 3 .. Len(calls') : n - 1 \in 2 .. Len(calls) /\ calls'[n] = calls[n - 1]
    BY <1>1, <2>1, <2>3, <2>4
  <2>7. \A m \in 2 .. Len(calls) : m + 1 \in 1 .. Len(calls')
    BY <1>1, <2>1, <2>3
  <2> QED BY <1>1, <2>1, <2>3, <2>5, <2>6, <2>7
<1>10. \A i \in 1 .. N : NodeInv(sq, i)'
  <2>1. \A m \in 2 .. Len(calls) : \E n \in 1 .. Len(calls') : calls'[n] = calls[m]
    BY <1>9
  <2> QED BY <1>5, <1>7, <2>1, <1>s, <1>c, OldNodes
<1>11. /\ nodes' \in Seq(NodeRecord) /\ Len(nodes') = N + 1 /\ nodes' # <<>>
       /\ nodes'[N + 1] = node
       /\ sq \in Seq(Span) /\ Len(sq) = N + 1 /\ sq[N + 1].first = f /\ sq[N + 1].last = l
       /\ \A i \in 1 .. N : sq[i] = sp[i]
  BY <1>5, <1>7, <1>c, <1>s, Placing
<1>12. Legal(f, l, sorted') /\ Legal(f, mid, sorted') /\ Legal(mid, l, sorted')
  BY <1>1, <1>3, <1>6 DEF Legal
<1>13. NodeInv(sq, N + 1)'
  <2>1. \A j \in f .. l - 1 : Within(sorted'[j], box)
    <3>1. BesideOrAround(f, l, f, l)
      BY <1>1 DEF BesideOrAround
    <3>2. \A j \in f .. l - 1 : \E k \in f .. l - 1 : sorted'[j] = sorted[k]
      BY <1>1, <1>6, <3>1
    <3> QED BY <1>4, <3>2
  <2>2. 1 \in 1 .. Len(calls') /\ 2 \in 1 .. Len(calls')
    BY <1>1, <1>9
  <2>3. Child(sq, 0, N + 1, "left", f, mid)' /\ Child(sq, 0, N + 1, "right", mid, l)'
    BY <1>8, <1>9, <2>2 DEF Child
  <2>4. Child(sq, nodes[N + 1].left, N + 1, "left", f, mid)'
        /\ Child(sq, nodes[N + 1].right, N + 1, "right", mid, l)'
    BY <1>5, <1>11, <2>3 DEF Child
  <2> QED BY <1>3, <1>5, <1>11, <1>12, <2>1, <2>4 DEF NodeInv
<1>14. CallInv(sq, c1)' /\ CallInv(sq, c2)'
  <2>1. CallInv(sp, c)
    BY <1>1, <1>c, FirstCall
  <2>2. \A i \in 1 .. N + 1 : /\ BesideOrAround(f, mid, sq[i].first, sq[i].last)
                              /\ BesideOrAround(mid, l, sq[i].first, sq[i].last)
    <3>1. ASSUME NEW i \in 1 .. N
          PROVE  /\ BesideOrAround(f, mid, sq[i].first, sq[i].last)
                 /\ BesideOrAround(mid, l, sq[i].first, sq[i].last)
      <4>1. sp[i].first \in Nat /\ sp[i].last \in Nat
        <5>1. sp \in Seq(Span) /\ Len(sp) = N
          BY <1>c DEF BuildInv
        <5>2. sp[i] \in Span
          BY <5>1
        <5> QED BY <5>2 DEF Span
      <4>2. BesideOrAround(f, l, sp[i].first, sp[i].last)
        BY <2>1, <1>c DEF CallInv
      <4> PICK g, h : g = sp[i].first /\ h = sp[i].last
        OBVIOUS
      <4>3. BesideOrAround(f, mid, g, h) /\ BesideOrAround(mid, l, g, h)
        BY <1>1, <1>3, <4>1, <4>2, PartsLie
      <4> QED BY <1>11, <4>3
    <3>2. /\ BesideOrAround(f, mid, sq[N + 1].first, sq[N + 1].last)
          /\ BesideOrAround(mid, l, sq[N + 1].first, sq[N + 1].last)
      BY <1>1, <1>3, <1>11 DEF BesideOrAround
    <3>3. \A i \in 1 .. N + 1 : i \in 1 .. N \/ i = N + 1
      BY <1>1
    <3> QED BY <3>1, <3>2, <3>3
  <2>3. N + 1 \in 1 .. N + 1 /\ nodes'[N + 1].left = 0 /\ nodes'[N + 1].right = 0
    BY <1>1, <1>5, <1>11
  <2> QED BY <1>8, <1>11, <1>12, <2>2, <2>3 DEF CallInv
<1>15. ASSUME NEW n \in 1 .. Len(calls') PROVE CallInv(sq, calls[n])'
  <2>1. CASE n = 1
    BY <1>9, <1>14, <2>1 DEF CallInv
  <2>2. CASE n = 2
    BY <1>9, <1>14, <2>2 DEF CallInv
  <2>3. CASE n \in 3 .. Len(calls')
    <3> PICK m, d : m = n - 1 /\ d = calls[m]
      OBVIOUS
    <3>1. m \in 2 .. Len(calls) /\ calls'[n] = d
      BY <1>9, <2>3
    <3>2. CallInv(sq, d)'
      BY <1>5, <1>7, <3>1, <1>s, <1>c, OldCalls
    <3> QED BY <3>1, <3>2 DEF CallInv
  <2>4. n = 1 \/ n = 2 \/ n \in 3 .. Len(calls')
    BY <1>1, <1>9
  <2> QED BY <2>1, <2>2, <2>3, <2>4
<1>16. ASSUME NEW m \in 1 .. Len(calls'), NEW n \in 1 .. Len(calls'), m < n
       PROVE  Apart(calls'[m], calls'[n])
  <2>1. CASE m \in 3 .. Len(calls')
    <3>1. n \in 3 .. Len(calls') /\ m - 1 < n - 1
      BY <1>1, <1>9, <1>16, <2>1
    <3>2. m - 1 \in 1 .. Len(calls) /\ n - 1 \in 1 .. Len(calls)
      BY <1>9, <2>1, <3>1
    <3>3. Apart(calls[m - 1], calls[n - 1])
      BY <3>1, <3>2 DEF BuildInv
    <3> QED BY <1>9, <2>1, <3>1, <3>3
  <2>2. CASE m \in {1, 2} /\ n \in 3 .. Len(calls')
    <3> PICK k, d : k = n - 1 /\ d = calls[k]
      OBVIOUS
    <3>1. k \in 2 .. Len(calls) /\ calls'[n] = d /\ k \in 1 .. Len(calls) /\ 1 < k /\ 1 \in 1 .. Len(calls)
      BY <1>1, <1>9, <2>2
    <3>2. Apart(c, d)
      BY <3>1, <1>c DEF BuildInv
    <3>3. CallInv(sp, d) /\ nodes # <<>>
      <4>1. CallInv(sp, d)
        BY <3>1 DEF BuildInv
      <4>2. nodes # <<>>
        BY <1>5, <1>7, <3>1, <1>s, <1>c, OldCalls
      <4> QED BY <4>1, <4>2
    <3>4. d.parent \in 1 .. N
      BY <3>3, <1>c DEF CallInv
    <3>5. d.parent # N + 1
      BY <1>1, <3>4
    <3>6. d.first \in Nat
      <4>1. d \in Call
        BY <1>1, <3>1
      <4> QED BY <4>1 DEF Call
    <3>7. l <= d.first /\ mid <= d.first
      BY <1>1, <1>3, <3>2, <3>6, <1>c DEF Apart
    <3>8. Apart(c1, d) /\ Apart(c2, d)
      BY <1>8, <3>5, <3>7 DEF Apart
    <3> QED BY <1>9, <2>2, <3>1, <3>8
  <2>3. CASE m = 1 /\ n = 2
    BY <1>3, <1>8, <1>9, <2>3 DEF Apart
  <2>4. m \in 3 .. Len(calls') \/ (m \in {1, 2} /\ n \in 3 .. Len(calls')) \/ (m = 1 /\ n = 2)
    BY <1>1, <1>9, <1>16
  <2> QED BY <2>1, <2>2, <2>3, <2>4
<1>17. sq[1].first = 1 /\ sq[1].last = Len(sorted) + 1
  <2>1. CASE N = 0
    <3>1. nodes = <<>>
      <4>1. nodes \in Seq(NodeRecord)
        BY DEF BuildInv
      <4> QED BY <2>1, <4>1, <1>c, EmptySeq
    <3> QED BY <1>1, <1>11, <2>1, <3>1, <1>c, FirstCall DEF CallInv
  <2>2. CASE N # 0
    <3>1. nodes # <<>> /\ 1 \in 1 .. N
      BY <1>1, <1>c, <2>2
    <3> QED BY <1>11, <3>1, <1>c DEF BuildInv
  <2> QED BY <2>1, <2>2
<1>18. \A i \in 1 .. N + 1 : NodeInv(sq, i)'
  <2>1. \A i \in 1 .. N + 1 : i \in 1 .. N \/ i = N + 1
    BY <1>1
  <2> QED BY <1>10, <1>13, <2>1
<1>19. BuildInv(sq)'
  BY <1>1, <1>6, <1>9, <1>11, <1>15, <1>16, <1>17, <1>18 DEF BuildInv
<1> QED BY <1>19

------------------------------------------------------------------------------
(* Scene and tree in every state of the program. *)

\* A triangle the program is to add.
Listed == [a : Point, b : Point, material : {"diffuse", "mirror"}]

\* What was committed is what the tree sorted, in another order.
SceneInv ==
    /\ todo \in Seq(Listed) /\ \A i \in 1 .. Len(todo) : \E k \in Axes : todo[i].a[k] = todo[i].b[k]
    /\ materials \in Seq({"diffuse", "mirror"})
    /\ tris \in Seq(Tri) /\ sorted \in Seq(Tri) /\ Len(sorted) <= Len(tris)
    /\ \A j \in 1 .. Len(sorted) : \E k \in 1 .. Len(sorted) : sorted[j] = tris[k]
    /\ \A k \in 1 .. Len(sorted) : \E j \in 1 .. Len(sorted) : sorted[j] = tris[k]

\* The inductive invariant: the scene, and a tree that is built as some history says.
TreeInv == SceneInv /\ \E sp : BuildInv(sp)

\* Steps that leave the tree alone keep it.
LEMMA SameTree ==
    ASSUME NEW sp, BuildInv(sp), sorted' = sorted, nodes' = nodes, calls' = calls
    PROVE  BuildInv(sp)'
<1>1. \A i \in 1 .. Len(nodes) : NodeInv(sp, i)'
  <2> SUFFICES ASSUME NEW i \in 1 .. Len(nodes) PROVE NodeInv(sp, i)'
    OBVIOUS
  <2>1. NodeInv(sp, i)
    BY DEF BuildInv
  <2>2. ASSUME NEW child, NEW side, NEW f, NEW l, Child(sp, child, i, side, f, l)
        PROVE  Child(sp, child, i, side, f, l)'
    BY <2>2 DEF Child
  <2>3. CASE nodes[i].count = 0
    <3>1. PICK mid \in Nat : /\ Child(sp, nodes[i].left, i, "left", sp[i].first, mid)
                             /\ Child(sp, nodes[i].right, i, "right", mid, sp[i].last)
      BY <2>1, <2>3 DEF NodeInv
    <3> PICK a, b : a = nodes[i].left /\ b = nodes[i].right
      OBVIOUS
    <3>2. Child(sp, a, i, "left", sp[i].first, mid)' /\ Child(sp, b, i, "right", mid, sp[i].last)'
      BY <2>2, <3>1
    <3>3. Child(sp, nodes[i].left, i, "left", sp[i].first, mid)'
          /\ Child(sp, nodes[i].right, i, "right", mid, sp[i].last)'
      BY <3>2 DEF Child
    <3> QED BY <2>1, <2>3, <3>3 DEF NodeInv
  <2>4. CASE nodes[i].count # 0
    BY <2>1, <2>4 DEF NodeInv
  <2> QED BY <2>3, <2>4
<1>2. \A m \in 1 .. Len(calls) : CallInv(sp, calls[m])'
  BY DEF BuildInv, CallInv
<1> QED BY <1>1, <1>2 DEF BuildInv

LEMMA InitTree == Init => TreeInv
<1> SUFFICES ASSUME Init PROVE TreeInv
  OBVIOUS
<1>1. todo \in Scenes /\ tris = <<>> /\ materials = <<>> /\ sorted = <<>> /\ nodes = <<>> /\ calls = <<>>
  BY DEF Init, SceneInit
<1>2. todo \in Seq(Listed) /\ \A i \in 1 .. Len(todo) : \E k \in Axes : todo[i].a[k] = todo[i].b[k]
  <2>1. todo \in Seq(Listed)
    BY <1>1, BvhAssumption DEF Listed
  <2>2. DOMAIN todo = 1 .. Len(todo)
    BY <2>1
  <2> QED BY <1>1, <2>1, <2>2, BvhAssumption
<1>3. SceneInv
  BY <1>1, <1>2 DEF SceneInv
<1> PICK sp : sp = <<>>
  OBVIOUS
<1>4. BuildInv(sp)
  BY <1>1 DEF BuildInv
<1> QED BY <1>3, <1>4 DEF TreeInv

\* A triangle is added behind those that were committed.
LEMMA AddTriangleStep ==
    ASSUME TreeInv, AddTriangle PROVE TreeInv'
<1>1. PICK sp : BuildInv(sp)
  BY DEF TreeInv
<1>2. /\ todo' = Tail(todo) /\ todo # <<>>
      /\ tris' = Append(tris, [a |-> Head(todo).a, b |-> Head(todo).b, id |-> Len(materials)])
      /\ materials' = Append(materials, Head(todo).material)
      /\ sorted' = sorted /\ nodes' = nodes /\ calls' = calls
  BY DEF AddTriangle, bvh
<1>3. /\ todo \in Seq(Listed) /\ \A i \in 1 .. Len(todo) : \E k \in Axes : todo[i].a[k] = todo[i].b[k]
      /\ materials \in Seq({"diffuse", "mirror"}) /\ tris \in Seq(Tri) /\ sorted \in Seq(Tri)
      /\ Len(sorted) <= Len(tris) /\ Len(materials) \in Nat
  BY DEF TreeInv, SceneInv
<1> PICK t : t = todo[1]
  OBVIOUS
<1> PICK new : new = [a |-> Head(todo).a, b |-> Head(todo).b, id |-> Len(materials)]
  OBVIOUS
<1>4. t \in Listed /\ Head(todo) = t /\ \E k \in Axes : t.a[k] = t.b[k]
  <2>1. 1 \in 1 .. Len(todo)
    BY <1>2, <1>3
  <2> QED BY <1>2, <1>3, <2>1
<1>5. new \in Tri
  BY <1>3, <1>4 DEF Listed, Tri
<1>6. todo' \in Seq(Listed) /\ \A i \in 1 .. Len(todo') : \E k \in Axes : todo'[i].a[k] = todo'[i].b[k]
  <2>1. todo' \in Seq(Listed) /\ Len(todo') = Len(todo) - 1
        /\ \A i \in 1 .. Len(todo') : i + 1 \in 1 .. Len(todo) /\ todo'[i] = todo[i + 1]
    BY <1>2, <1>3
  <2> QED BY <1>3, <2>1
<1>7. materials' \in Seq({"diffuse", "mirror"})
  BY <1>2, <1>3, <1>4 DEF Listed
<1>8. tris' \in Seq(Tri) /\ Len(sorted) <= Len(tris') /\ \A k \in 1 .. Len(sorted) : tris'[k] = tris[k]
  <2>1. tris' = Append(tris, new)
    BY <1>2
  <2> QED BY <1>3, <1>5, <2>1
<1>9. /\ \A j \in 1 .. Len(sorted) : \E k \in 1 .. Len(sorted) : sorted[j] = tris'[k]
      /\ \A k \in 1 .. Len(sorted) : \E j \in 1 .. Len(sorted) : sorted[j] = tris'[k]
  <2>1. /\ \A j \in 1 .. Len(sorted) : \E k \in 1 .. Len(sorted) : sorted[j] = tris[k]
        /\ \A k \in 1 .. Len(sorted) : \E j \in 1 .. Len(sorted) : sorted[j] = tris[k]
    BY DEF TreeInv, SceneInv
  <2> QED BY <1>8, <2>1
<1>10. SceneInv'
  BY <1>2, <1>3, <1>6, <1>7, <1>8, <1>9 DEF SceneInv
<1>11. BuildInv(sp)'
  BY <1>1, <1>2, SameTree
<1> QED BY <1>10, <1>11 DEF TreeInv

\* commit() starts over with all triangles and one call, or none.
LEMMA CommitStep ==
    ASSUME TreeInv, Commit PROVE TreeInv'
<1>1. /\ sorted' = tris /\ nodes' = <<>> /\ todo' = todo /\ tris' = tris /\ materials' = materials
      /\ calls' = IF tris = <<>> THEN <<>>
                  ELSE <<[first |-> 1, last |-> Len(tris) + 1, parent |-> 0, side |-> "left"]>>
  BY DEF Commit, scene
<1>2. SceneInv /\ tris \in Seq(Tri) /\ Len(tris) \in Nat
  <2>1. SceneInv /\ tris \in Seq(Tri)
    BY DEF TreeInv, SceneInv
  <2> QED BY <2>1
<1>3. SceneInv'
  BY <1>1, <1>2 DEF SceneInv
<1> PICK sp : sp = <<>>
  OBVIOUS
<1>4. sp \in Seq(Span) /\ Len(sp) = 0 /\ nodes' \in Seq(NodeRecord) /\ Len(nodes') = 0
  BY <1>1
<1>5. CASE tris = <<>>
  <2>1. calls' = <<>> /\ sorted' = <<>> /\ calls' \in Seq(Call) /\ Len(calls') = 0
    BY <1>1, <1>5
  <2>2. BuildInv(sp)'
    BY <1>1, <1>2, <1>4, <2>1 DEF BuildInv
  <2> QED BY <1>3, <2>2 DEF TreeInv
<1>6. CASE tris # <<>>
  <2> PICK c : c = [first |-> 1, last |-> Len(tris) + 1, parent |-> 0, side |-> "left"]
    OBVIOUS
  <2>1. /\ c \in Call /\ c.first = 1 /\ c.last = Len(tris) + 1 /\ c.parent = 0 /\ c.side = "left"
    BY <1>2 DEF Call
  <2>2. calls' = <<c>> /\ calls' # <<>> /\ calls' \in Seq(Call) /\ Len(calls') = 1 /\ calls'[1] = c
    BY <1>1, <1>6, <2>1
  <2>3. Legal(c.first, c.last, sorted')
    BY <1>1, <1>2, <1>6, <2>1 DEF Legal
  <2>4. CallInv(sp, c)'
    BY <1>1, <1>4, <2>1, <2>3 DEF CallInv
  <2>5. \A m \in 1 .. Len(calls') : m = 1 /\ calls'[m] = c
    BY <2>2
  <2>6. \A m \in 1 .. Len(calls') : CallInv(sp, calls[m])'
    BY <2>4, <2>5 DEF CallInv
  <2>7. BuildInv(sp)'
    BY <1>1, <1>2, <1>4, <2>2, <2>5, <2>6 DEF BuildInv
  <2> QED BY <1>3, <2>7 DEF TreeInv
<1> QED BY <1>5, <1>6

\* Sorting keeps what was committed.
LEMMA SortedStays ==
    ASSUME TreeInv, BuildInner PROVE SceneInv'
<1>1. PICK sp : BuildInv(sp)
  BY DEF TreeInv
<1>2. SceneInv
  BY DEF TreeInv
<1>3. todo' = todo /\ tris' = tris /\ materials' = materials
  BY DEF BuildInner, scene
<1>4. PICK c : /\ c = calls[1] /\ c = Head(calls) /\ c.first \in Nat /\ c.last \in Nat
               /\ Legal(c.first, c.last, sorted) /\ sorted \in Seq(Tri)
  BY <1>1, FirstCall DEF BuildInner
<1>5. PICK mid, axis : sorted' \in Split(sorted, c.first, mid, c.last, axis)
  BY <1>4 DEF BuildInner
<1> PICK ts, s, f, l : ts = sorted /\ s = sorted' /\ f = c.first /\ l = c.last
  OBVIOUS
<1>6. s \in Seq(Tri) /\ Len(s) = Len(ts) /\ Keeps(ts, s, f, l)
  <2>1. s \in Split(ts, f, mid, l, axis) /\ Legal(f, l, ts) /\ ts \in Seq(Tri) /\ f \in Nat /\ l \in Nat
    BY <1>4, <1>5
  <2> QED BY <2>1, SplitKeeps
<1>7. /\ \A j \in 1 .. Len(ts) : \E k \in 1 .. Len(ts) : s[j] = ts[k]
      /\ \A k \in 1 .. Len(ts) : \E j \in 1 .. Len(ts) : s[j] = ts[k]
  <2>1. Len(ts) \in Nat /\ f \in Nat /\ l \in Nat /\ 1 <= f /\ f < l /\ l <= Len(ts) + 1
    BY <1>4 DEF Legal
  <2>2. 1 \in Nat /\ Len(ts) + 1 \in Nat /\ Legal(1, Len(ts) + 1, ts)
        /\ BesideOrAround(f, l, 1, Len(ts) + 1) /\ (Len(ts) + 1) - 1 = Len(ts)
    BY <2>1 DEF Legal, BesideOrAround
  <2> PICK h : h = Len(ts) + 1
    OBVIOUS
  <2>3. /\ \A j \in 1 .. h - 1 : \E k \in 1 .. h - 1 : s[j] = ts[k]
        /\ \A k \in 1 .. h - 1 : \E j \in 1 .. h - 1 : s[j] = ts[k]
    BY <1>6, <2>2 DEF Keeps
  <2>4. h - 1 = Len(ts)
    BY <2>2
  <2> QED BY <2>3, <2>4
<1>8. /\ \A j \in 1 .. Len(ts) : \E k \in 1 .. Len(ts) : ts[j] = tris[k]
      /\ \A k \in 1 .. Len(ts) : \E j \in 1 .. Len(ts) : ts[j] = tris[k]
  BY <1>2 DEF SceneInv
<1>9. ASSUME NEW j \in 1 .. Len(ts) PROVE \E k \in 1 .. Len(ts) : s[j] = tris[k]
  <2>1. PICK i \in 1 .. Len(ts) : s[j] = ts[i]
    BY <1>7
  <2>2. PICK k \in 1 .. Len(ts) : ts[i] = tris[k]
    BY <1>8
  <2> QED BY <2>1, <2>2
<1>10. ASSUME NEW k \in 1 .. Len(ts) PROVE \E j \in 1 .. Len(ts) : s[j] = tris[k]
  <2>1. PICK i \in 1 .. Len(ts) : ts[i] = tris[k]
    BY <1>8
  <2>2. PICK j \in 1 .. Len(ts) : s[j] = ts[i]
    BY <1>7
  <2> QED BY <2>1, <2>2
<1>11. /\ \A j \in 1 .. Len(sorted') : \E k \in 1 .. Len(sorted') : sorted'[j] = tris'[k]
       /\ \A k \in 1 .. Len(sorted') : \E j \in 1 .. Len(sorted') : sorted'[j] = tris'[k]
  <2>1. tris' = tris /\ Len(ts) = Len(sorted') /\ s = sorted'
    BY <1>3, <1>6
  <2> QED BY <1>9, <1>10, <2>1
<1>12. sorted' \in Seq(Tri) /\ Len(sorted') <= Len(tris')
  BY <1>2, <1>3, <1>6 DEF SceneInv
<1> QED BY <1>2, <1>3, <1>11, <1>12 DEF SceneInv

\* Only the scene's own steps touch the tree.
LEMMA TreeStep == TreeInv /\ [Next]_vars => TreeInv'
<1> SUFFICES ASSUME TreeInv, [Next]_vars PROVE TreeInv'
  OBVIOUS
<1>1. ASSUME UNCHANGED <<scene, bvh>> PROVE TreeInv'
  <2>1. /\ todo' = todo /\ tris' = tris /\ materials' = materials
        /\ sorted' = sorted /\ nodes' = nodes /\ calls' = calls
    BY <1>1 DEF scene, bvh
  <2>2. PICK sp : BuildInv(sp)
    BY DEF TreeInv
  <2>3. BuildInv(sp)'
    BY <2>1, <2>2, SameTree
  <2>4. SceneInv'
    BY <2>1 DEF TreeInv, SceneInv
  <2> QED BY <2>3, <2>4 DEF TreeInv
<1>2. CASE BuildLeaf
  <2>1. PICK sp : BuildInv(sp)
    BY DEF TreeInv
  <2>2. \E sq : BuildInv(sq)'
    BY <1>2, <2>1, LeafStep
  <2>3. SceneInv'
    BY <1>2 DEF BuildLeaf, scene, TreeInv, SceneInv
  <2> QED BY <2>2, <2>3 DEF TreeInv
<1>3. CASE BuildInner
  <2>1. PICK sp : BuildInv(sp)
    BY DEF TreeInv
  <2>2. \E sq : BuildInv(sq)'
    BY <1>3, <2>1, InnerStep
  <2> QED BY <1>3, <2>2, SortedStays DEF TreeInv
<1>4. CASE Prepare
  BY <1>2, <1>3, <1>4, AddTriangleStep, CommitStep DEF Prepare, BuildScene
<1>5. CASE Render \/ Launch \/ LaunchFails \/ AllLaunched \/ GetAll \/ Unwind
  <2>1. UNCHANGED <<scene, bvh>>
    BY <1>5 DEF Render, Launch, LaunchFails, AllLaunched, GetAll, Unwind
  <2> QED BY <1>1, <2>1
<1>6. CASE \E i \in DOMAIN tasks, ray \in Rays : Trace(i, ray)
  <2>1. UNCHANGED <<scene, bvh>>
    BY <1>6 DEF Trace
  <2> QED BY <1>1, <2>1
<1>7. CASE UNCHANGED vars
  <2>1. UNCHANGED <<scene, bvh>>
    BY <1>7 DEF vars
  <2> QED BY <1>1, <2>1
<1> QED BY <1>4, <1>5, <1>6, <1>7 DEF Next, Ended

\* Once every call has been answered the tree is whole.
LEMMA BuiltIsTree ==
    ASSUME NEW sp, BuildInv(sp), calls = <<>>
    PROVE  Tree(sp)
<1> SUFFICES ASSUME NEW i \in DOMAIN nodes
             PROVE  /\ sp[i].first \in Nat /\ sp[i].last \in Nat
                    /\ 1 <= sp[i].first /\ sp[i].first < sp[i].last /\ sp[i].last <= Len(sorted) + 1
                    /\ nodes[i].box \in Box
                    /\ \A tri \in Part(sp, i) : Within(tri, nodes[i].box)
                    /\ \/ /\ nodes[i].count \in {1, 2} /\ nodes[i].first = sp[i].first
                          /\ sp[i].last = sp[i].first + nodes[i].count
                       \/ /\ nodes[i].count = 0
                          /\ nodes[i].left \in i + 1 .. Len(nodes) /\ nodes[i].right \in i + 1 .. Len(nodes)
                          /\ sp[nodes[i].left].first = sp[i].first
                          /\ sp[nodes[i].left].last = sp[nodes[i].right].first
                          /\ sp[nodes[i].right].last = sp[i].last
  BY DEF Tree
<1>1. nodes \in Seq(NodeRecord) /\ sp \in Seq(Span) /\ Len(sp) = Len(nodes) /\ i \in 1 .. Len(nodes)
  BY DEF BuildInv
<1>2. nodes[i] \in NodeRecord /\ sp[i] \in Span
  BY <1>1
<1>3. nodes[i].box \in Box /\ sp[i].first \in Nat /\ sp[i].last \in Nat
  BY <1>2 DEF NodeRecord, Span
<1>4. NodeInv(sp, i)
  BY <1>1 DEF BuildInv
<1>5. Len(calls) = 0
  OBVIOUS
<1>6. ASSUME NEW child, NEW side, NEW f, NEW l, Child(sp, child, i, side, f, l)
      PROVE  child \in i + 1 .. Len(nodes) /\ sp[child].first = f /\ sp[child].last = l
  BY <1>5, <1>6 DEF Child
<1>7. \A tri \in Part(sp, i) : Within(tri, nodes[i].box)
  BY <1>4 DEF NodeInv, Part
<1>8. Legal(sp[i].first, sp[i].last, sorted)
  BY <1>4 DEF NodeInv
<1>9. \/ /\ nodes[i].count \in {1, 2} /\ nodes[i].first = sp[i].first
         /\ sp[i].last = sp[i].first + nodes[i].count
      \/ /\ nodes[i].count = 0
         /\ nodes[i].left \in i + 1 .. Len(nodes) /\ nodes[i].right \in i + 1 .. Len(nodes)
         /\ sp[nodes[i].left].first = sp[i].first
         /\ sp[nodes[i].left].last = sp[nodes[i].right].first
         /\ sp[nodes[i].right].last = sp[i].last
  <2>1. CASE nodes[i].count \in {1, 2}
    BY <1>4, <2>1 DEF NodeInv
  <2>2. CASE nodes[i].count = 0
    <3>1. PICK mid \in Nat : /\ Child(sp, nodes[i].left, i, "left", sp[i].first, mid)
                             /\ Child(sp, nodes[i].right, i, "right", mid, sp[i].last)
      BY <1>4, <2>2 DEF NodeInv
    <3>2. /\ nodes[i].left \in i + 1 .. Len(nodes) /\ sp[nodes[i].left].first = sp[i].first
          /\ sp[nodes[i].left].last = mid
      BY <1>6, <3>1
    <3>3. /\ nodes[i].right \in i + 1 .. Len(nodes) /\ sp[nodes[i].right].first = mid
          /\ sp[nodes[i].right].last = sp[i].last
      BY <1>6, <3>1
    <3> QED BY <2>2, <3>2, <3>3
  <2> QED BY <1>4, <2>1, <2>2 DEF NodeInv
<1> QED BY <1>3, <1>7, <1>8, <1>9 DEF Legal

\* A whole tree answers as trying every triangle does.
LEMMA TreeAnswers == TreeInv => ClosestHit
<1> SUFFICES ASSUME TreeInv, calls = <<>>, NEW ray \in Rays
             PROVE  LET hits   == {TriangleHit(tris[i], ray, Far) : i \in DOMAIN sorted} \ {NoHit}
                        answer == Intersect(ray)
                    IN  IF hits = {} THEN answer = NoHit
                        ELSE answer \in hits /\ \A h \in hits : answer.t <= h.t
  BY DEF ClosestHit
<1>1. PICK sp : BuildInv(sp)
  BY DEF TreeInv
<1>2. Tree(sp)
  BY <1>1, BuiltIsTree
<1>3. /\ sorted \in Seq(Tri) /\ nodes \in Seq(NodeRecord)
      /\ nodes = <<>> => sorted = <<>>
      /\ nodes # <<>> => sp[1].first = 1 /\ sp[1].last = Len(sorted) + 1
  BY <1>1 DEF BuildInv
<1>4. Nearest({sorted[j] : j \in DOMAIN sorted}, ray, Far, Intersect(ray))
  BY <1>2, <1>3, IntersectIsNearest
<1>5. DOMAIN sorted = 1 .. Len(sorted)
  BY <1>3
<1>6. /\ \A j \in DOMAIN sorted : \E k \in DOMAIN sorted : sorted[j] = tris[k]
      /\ \A k \in DOMAIN sorted : \E j \in DOMAIN sorted : sorted[j] = tris[k]
  BY <1>5 DEF TreeInv, SceneInv
<1>7. \A x : x \in Hits({sorted[j] : j \in DOMAIN sorted}, ray, Far)
               <=> x \in {TriangleHit(tris[i], ray, Far) : i \in DOMAIN sorted} \ {NoHit}
  BY <1>6 DEF Hits
<1>8. Hits({sorted[j] : j \in DOMAIN sorted}, ray, Far)
        = {TriangleHit(tris[i], ray, Far) : i \in DOMAIN sorted} \ {NoHit}
  BY <1>7
<1> QED BY <1>4, <1>8 DEF Nearest

\* Whatever triangles are added and committed, and however nth_element() orders
\* equal centroids, intersect_node() answers every ray as trying all committed
\* triangles would: a nearest hit if there is one, none only where there is none
\* (BVH.cpp:21-95, Scene.cpp:3-15).
THEOREM HitIsClosest == Spec => []ClosestHit
<1>1. Init => TreeInv
  BY InitTree
<1>2. TreeInv /\ [Next]_vars => TreeInv'
  BY TreeStep
<1>3. TreeInv => ClosestHit
  BY TreeAnswers
<1> QED BY <1>1, <1>2, <1>3, PTL DEF Spec

------------------------------------------------------------------------------
(* The build ends, and in the room reserved for it. *)

\* The nodes still to be made, at most: a tree over n triangles has 2 n - 1,
\* and every call to come has its own part of the triangles.
NodesToCome ==
    IF calls = <<>> THEN 0 ELSE 2 * (Len(sorted) + 1 - calls[1].first) - Len(calls)

\* What build() passes to nodes_.reserve().
Reserved == 2 * Len(sorted) + 1

\* The nodes made and those to come are at most 2 n - 1, two less than there is
\* room for, at every point of the recursion; without triangles there is none.
TreeFitsReserve ==
    /\ NodesToCome \in Nat
    /\ sorted = <<>> => nodes = <<>>
    /\ sorted # <<>> => Len(nodes) + NodesToCome <= 2 * Len(sorted) - 1
    /\ Len(nodes) <= Reserved

BuildNearsItsEnd == [][BuildLeaf \/ BuildInner => NodesToCome' < NodesToCome]_vars

\* Calls to come do not share triangles, so there are no more of them than
\* triangles from the first one's on.
LEMMA CallsHaveRoom ==
    ASSUME NEW sp, BuildInv(sp), calls # <<>>
    PROVE  Len(calls) <= Len(sorted) + 1 - calls[1].first
<1>1. /\ calls \in Seq(Call) /\ Len(calls) \in Nat /\ Len(calls) >= 1
      /\ calls[1].first \in Nat /\ Len(sorted) \in Nat
  BY FirstCall
<1>2. ASSUME NEW m \in 1 .. Len(calls)
      PROVE  /\ calls[m].first \in Nat /\ calls[m].last \in Nat
             /\ calls[m].first < calls[m].last /\ calls[m].last <= Len(sorted) + 1
  <2>1. calls[m] \in Call /\ CallInv(sp, calls[m])
    BY <1>1 DEF BuildInv
  <2> QED BY <2>1 DEF CallInv, Legal, Call
<1> DEFINE T == {d \in Nat : d + 1 <= Len(calls) => calls[d + 1].first >= calls[1].first + d}
<1>3. 0 \in T
  BY <1>1
<1>4. ASSUME NEW d \in Nat, d \in T PROVE d + 1 \in T
  <2> SUFFICES ASSUME (d + 1) + 1 <= Len(calls)
               PROVE  calls[(d + 1) + 1].first >= calls[1].first + (d + 1)
    OBVIOUS
  <2> PICK m, n : m = d + 1 /\ n = (d + 1) + 1
    OBVIOUS
  <2>1. m \in 1 .. Len(calls) /\ n \in 1 .. Len(calls) /\ m < n
    BY <1>1
  <2>2. calls[m].last <= calls[n].first
    BY <2>1 DEF BuildInv, Apart
  <2>3. calls[m].first >= calls[1].first + d
    BY <1>4, <2>1
  <2> QED BY <1>1, <1>2, <2>1, <2>2, <2>3
<1> HIDE DEF T
<1>5. Len(calls) - 1 \in T
  BY <1>1, <1>3, <1>4, SetInduction
<1>6. calls[Len(calls)].first >= calls[1].first + (Len(calls) - 1)
  <2>1. (Len(calls) - 1) + 1 = Len(calls)
    BY <1>1
  <2> QED BY <1>1, <1>5, <2>1 DEF T
<1>7. Len(calls) \in 1 .. Len(calls)
  BY <1>1
<1> QED BY <1>1, <1>2, <1>6, <1>7

LEMMA NodesToComeIs ==
    ASSUME NEW sp, BuildInv(sp)
    PROVE  NodesToCome \in Nat
<1>1. CASE calls = <<>>
  BY <1>1 DEF NodesToCome
<1>2. CASE calls # <<>>
  BY <1>2, CallsHaveRoom, FirstCall DEF NodesToCome
<1> QED BY <1>1, <1>2

LEMMA FewerToCome ==
    ASSUME NEW n \in Nat, NEW k \in Nat, NEW f \in Nat, NEW g \in Nat
    PROVE  /\ 2 * (n + 1 - g) - (k - 1) \in Int /\ 2 * (n + 1 - f) - (k + 1) \in Int
           /\ 2 * (n + 1 - f) - k \in Int
           /\ f < g => 2 * (n + 1 - g) - (k - 1) < 2 * (n + 1 - f) - k
           /\ 2 * (n + 1 - f) - (k + 1) < 2 * (n + 1 - f) - k
  OBVIOUS

\* A step of the build makes one node and leaves fewer to come.
LEMMA BuildStep ==
    ASSUME TreeInv, TreeInv', BuildLeaf \/ BuildInner
    PROVE  /\ Len(nodes) \in Nat /\ Len(nodes') = Len(nodes) + 1
           /\ sorted # <<>> /\ sorted' # <<>> /\ Len(sorted') = Len(sorted)
           /\ NodesToCome \in Int /\ NodesToCome' \in Int /\ NodesToCome' < NodesToCome
<1>1. PICK sp : BuildInv(sp)
  BY DEF TreeInv
<1>2. PICK sq : BuildInv(sq)'
  BY DEF TreeInv
<1> PICK c, f, l : c = calls[1] /\ f = c.first /\ l = c.last
  OBVIOUS
<1>3. /\ calls # <<>> /\ Head(calls) = c /\ f \in Nat /\ l \in Nat /\ Legal(f, l, sorted)
      /\ sorted \in Seq(Tri) /\ calls \in Seq(Call) /\ Len(calls) \in Nat /\ Len(calls) >= 1
      /\ Len(sorted) \in Nat
  BY <1>1, FirstCall DEF BuildLeaf, BuildInner
<1>4. Len(nodes') = Len(nodes) + 1 /\ Len(nodes) \in Nat
  <2>1. nodes \in Seq(NodeRecord) /\ nodes' \in Seq(NodeRecord)
    BY <1>1, <1>2 DEF BuildInv
  <2>2. PICK node : nodes' = Link(nodes, c, node)
    BY <1>3 DEF BuildLeaf, BuildInner
  <2>3. DOMAIN Append(nodes, node) = 1 .. Len(nodes) + 1
    BY <2>1
  <2>4. DOMAIN nodes' = DOMAIN Append(nodes, node)
    BY <2>2 DEF Link
  <2> QED BY <2>1, <2>3, <2>4
<1>5. Len(calls) <= Len(sorted) + 1 - f
  BY <1>1, <1>3, CallsHaveRoom
<1>6. NodesToCome = 2 * (Len(sorted) + 1 - f) - Len(calls)
  BY <1>3 DEF NodesToCome
<1>7. Len(sorted') = Len(sorted) /\ sorted # <<>> /\ sorted' # <<>>
  <2>1. CASE BuildLeaf
    BY <1>3, <2>1 DEF BuildLeaf, Legal
  <2>2. CASE BuildInner
    <3>1. PICK ts, s, mid, axis : ts = sorted /\ s = sorted' /\ s \in Split(ts, f, mid, l, axis)
      BY <1>3, <2>2 DEF BuildInner
    <3>2. s \in Seq(Tri) /\ Len(s) = Len(ts)
      BY <1>3, <3>1, SplitKeeps
    <3> QED BY <1>3, <3>1, <3>2 DEF Legal
  <2> QED BY <2>1, <2>2
<1>8. NodesToCome' \in Int /\ NodesToCome' < NodesToCome
  <2>1. CASE BuildLeaf
    <3>1. calls' = Tail(calls) /\ Len(calls') = Len(calls) - 1
      BY <1>3, <2>1 DEF BuildLeaf
    <3>2. CASE Len(calls) = 1
      <4>1. calls' = <<>>
        BY <1>3, <3>1, <3>2
      <4> QED BY <1>3, <1>5, <1>6, <3>2, <4>1 DEF NodesToCome
    <3>3. CASE Len(calls) > 1
      <4>1. calls' # <<>> /\ calls'[1] = calls[2]
        <5>1. calls' \in Seq(Call) /\ \A m \in 1 .. Len(calls') : calls'[m] = calls[m + 1]
          BY <1>3, <3>1
        <5>2. 1 \in 1 .. Len(calls') /\ 1 + 1 = 2
          BY <1>3, <3>1, <3>3
        <5> QED BY <5>1, <5>2
      <4>2. calls[2] \in Call /\ Apart(calls[1], calls[2])
        <5>1. 1 \in 1 .. Len(calls) /\ 2 \in 1 .. Len(calls) /\ 1 < 2
          BY <1>3, <3>3
        <5> QED BY <1>1, <1>3, <5>1 DEF BuildInv
      <4>3. PICK g \in Nat : g = calls[2].first /\ f < g
        BY <1>3, <4>2 DEF Apart, Call, Legal
      <4>4. NodesToCome' = 2 * (Len(sorted) + 1 - g) - (Len(calls) - 1)
        BY <1>7, <3>1, <4>1, <4>3 DEF NodesToCome
      <4>5. Len(sorted) \in Nat /\ Len(calls) \in Nat /\ f \in Nat
        BY <1>3
      <4> QED BY <1>6, <4>3, <4>4, <4>5, FewerToCome
    <3>4. Len(calls) = 1 \/ Len(calls) > 1
      <4>1. Len(calls) \in Nat /\ Len(calls) >= 1
        BY <1>3
      <4> QED BY <4>1
    <3> QED BY <3>2, <3>3, <3>4
  <2>2. CASE BuildInner
    <3> PICK mid, N : mid = (f - 1 + l - 1) \div 2 + 1 /\ N = Len(nodes)
      OBVIOUS
    <3> PICK c1, c2 : /\ c1 = [first |-> f, last |-> mid, parent |-> N + 1, side |-> "left"]
                      /\ c2 = [first |-> mid, last |-> l, parent |-> N + 1, side |-> "right"]
      OBVIOUS
    <3>1. calls' = <<c1, c2>> \o Tail(calls) /\ c1.first = f
      BY <1>3, <2>2 DEF BuildInner
    <3>2. calls' # <<>> /\ calls'[1] = c1 /\ Len(calls') = Len(calls) + 1
      <4> PICK S : S = {c1, c2} \cup Call
        OBVIOUS
      <4>1. Tail(calls) \in Seq(S) /\ Len(Tail(calls)) = Len(calls) - 1
        <5>1. calls \in Seq(S)
          BY <1>3
        <5> QED BY <1>3, <5>1
      <4>2. <<c1, c2>> \in Seq(S) /\ Len(<<c1, c2>>) = 2 /\ <<c1, c2>>[1] = c1
        OBVIOUS
      <4> QED BY <1>3, <3>1, <4>1, <4>2
    <3>3. NodesToCome' = 2 * (Len(sorted) + 1 - f) - (Len(calls) + 1)
      BY <1>7, <3>1, <3>2 DEF NodesToCome
    <3>4. Len(sorted) \in Nat /\ Len(calls) \in Nat /\ f \in Nat
      BY <1>3
    <3> QED BY <1>6, <3>3, <3>4, FewerToCome
  <2> QED BY <2>1, <2>2
<1>9. NodesToCome \in Int
  BY <1>3, <1>6
<1> QED BY <1>4, <1>7, <1>8, <1>9

\* Nothing but the build and commit() touches what is counted.
Room ==
    /\ sorted = <<>> => nodes = <<>>
    /\ sorted # <<>> => Len(nodes) + NodesToCome < 2 * Len(sorted)

LEMMA RoomStep ==
    TreeInv /\ TreeInv' /\ Room /\ [Next]_vars => Room'
<1> SUFFICES ASSUME TreeInv, TreeInv', Room, [Next]_vars PROVE Room'
  OBVIOUS
<1>1. CASE BuildLeaf \/ BuildInner
  <2>1. /\ Len(nodes) \in Nat /\ Len(nodes') = Len(nodes) + 1
        /\ sorted # <<>> /\ sorted' # <<>> /\ Len(sorted') = Len(sorted)
        /\ NodesToCome \in Int /\ NodesToCome' \in Int /\ NodesToCome' < NodesToCome
    BY <1>1, BuildStep
  <2>2. Len(sorted) \in Nat
    <3>1. sorted \in Seq(Tri)
      BY DEF TreeInv, SceneInv
    <3> QED BY <3>1
  <2>3. Len(nodes) + NodesToCome < 2 * Len(sorted)
    BY <2>1 DEF Room
  <2>4. Len(nodes') + NodesToCome' < 2 * Len(sorted')
    BY <2>1, <2>2, <2>3
  <2> QED BY <2>1, <2>4 DEF Room
<1>2. CASE Commit
  <2>1. tris \in Seq(Tri) /\ Len(tris) \in Nat
    <3>1. tris \in Seq(Tri)
      BY DEF TreeInv, SceneInv
    <3> QED BY <3>1
  <2>2. /\ sorted' = tris /\ nodes' = <<>>
        /\ calls' = IF tris = <<>> THEN <<>>
                    ELSE <<[first |-> 1, last |-> Len(tris) + 1, parent |-> 0, side |-> "left"]>>
    BY <1>2 DEF Commit
  <2>3. CASE tris = <<>>
    BY <2>2, <2>3 DEF Room
  <2>4. CASE tris # <<>>
    <3> PICK c : c = [first |-> 1, last |-> Len(tris) + 1, parent |-> 0, side |-> "left"]
      OBVIOUS
    <3>1. calls' = <<c>> /\ c.first = 1
      BY <2>2, <2>4
    <3>2. calls' # <<>> /\ calls'[1].first = 1 /\ Len(calls') = 1
      BY <3>1
    <3>3. NodesToCome' = 2 * (Len(tris) + 1 - 1) - 1
      BY <2>2, <3>2 DEF NodesToCome
    <3>4. Len(nodes') = 0
      BY <2>2
    <3>5. Len(nodes') + NodesToCome' < 2 * Len(sorted')
      BY <2>1, <2>2, <3>3, <3>4
    <3> QED BY <2>2, <2>4, <3>5 DEF Room
  <2> QED BY <2>3, <2>4
<1>3. CASE ~(BuildLeaf \/ BuildInner \/ Commit)
  <2>1. sorted' = sorted /\ nodes' = nodes /\ calls' = calls
    BY <1>3 DEF Next, Prepare, BuildScene, AddTriangle, Render, Launch, LaunchFails, AllLaunched,
       GetAll, Unwind, Trace, Ended, vars, bvh
  <2> QED BY <2>1 DEF Room, NodesToCome
<1> QED BY <1>1, <1>2, <1>3

\* However the triangles lie, the tree has at most 2 n - 1 nodes, and build()
\* has reserved room for 2 n + 1: no push_back() reallocates, which is what the
\* comment at the reserve() wants (BVH.cpp:26).  The recursion indexes nodes_
\* afresh after each call, so it would be right without.
THEOREM ReserveIsEnough == Spec => []TreeFitsReserve
<1>1. TreeInv /\ Room => TreeFitsReserve
  <2> SUFFICES ASSUME TreeInv, Room PROVE TreeFitsReserve
    OBVIOUS
  <2>1. NodesToCome \in Nat
    BY NodesToComeIs DEF TreeInv
  <2>2. Len(sorted) \in Nat /\ Len(nodes) \in Nat
    <3>1. sorted \in Seq(Tri) /\ nodes \in Seq(NodeRecord)
      BY DEF TreeInv, SceneInv, BuildInv
    <3> QED BY <3>1
  <2>3. sorted # <<>> => Len(nodes) + NodesToCome <= 2 * Len(sorted) - 1
    BY <2>1, <2>2 DEF Room
  <2>4. Len(nodes) <= Reserved
    <3>1. CASE sorted = <<>>
      BY <2>2, <3>1 DEF Room, Reserved
    <3>2. CASE sorted # <<>>
      BY <2>1, <2>2, <2>3, <3>2 DEF Reserved
    <3> QED BY <3>1, <3>2
  <2> QED BY <2>1, <2>3, <2>4 DEF Room, TreeFitsReserve
<1>2. Init => Room
  BY DEF Init, SceneInit, Room
<1>3. Spec => []TreeInv
  BY InitTree, TreeStep, PTL DEF Spec
<1> QED BY <1>1, <1>2, <1>3, RoomStep, PTL DEF Spec

\* Every call of build_recursive() leaves fewer nodes to come, so the recursion
\* ends: an interval of three or more is divided into two that are not empty
\* (BVH.cpp:30-64).
THEOREM BuildEnds == Spec => BuildNearsItsEnd
<1>1. TreeInv /\ TreeInv' /\ [Next]_vars =>
          [BuildLeaf \/ BuildInner => NodesToCome' < NodesToCome]_vars
  BY BuildStep
<1>2. Spec => []TreeInv
  BY InitTree, TreeStep, PTL DEF Spec
<1> QED BY <1>1, <1>2, PTL DEF Spec, BuildNearsItsEnd
==============================================================================

-------------------------------- MODULE Bvh ----------------------------------
(***************************************************************************)
(* Scene and BVH of mc_optical_ray_tracer: triangles are added, commit()   *)
(* copies them and builds the tree, rays are intersected with the tree.    *)
(*                                                                         *)
(* Geometry is exact and cut by one plane, in which all rays run.  A       *)
(* triangle has two corners in the same place a of that plane, one         *)
(* Thickness / 2 above and one as far below, and a corner b in the plane;  *)
(* the plane cuts it from a to b, parallel to one axis.  Rays run along an *)
(* axis or a diagonal, so every hit is at a whole distance.                *)
(***************************************************************************)
EXTENDS Integers, Sequences, SequencesExt, FiniteSetsExt, Functions

CONSTANTS Scenes,      \* lists of [a, b, material] a program adds
          Rays,        \* [origin, direction] rays that are traced
          Thickness,   \* extent of every triangle across the plane
          Far          \* tmax of a fresh ray, beyond every triangle

Axes == {1, 2}

Point == [Axes -> Int]

ASSUME BvhAssumption ==
    /\ Scenes \subseteq Seq([a : Point, b : Point, material : {"diffuse", "mirror"}])
    /\ \A s \in Scenes : \A i \in DOMAIN s : \E k \in Axes : s[i].a[k] = s[i].b[k]
    /\ Rays \subseteq [origin : Point, direction : [Axes -> {-1, 0, 1}]]
    /\ Thickness \in Nat /\ Far \in Nat

VARIABLES todo,               \* what the program has still to add
          tris, materials,    \* Scene
          sorted, nodes,      \* BVH: tris_, nodes_
          calls               \* calls of build_recursive() not yet begun

scene == <<todo, tris, materials>>
bvh   == <<sorted, nodes, calls>>

SceneInit ==
    /\ todo \in Scenes
    /\ tris = <<>> /\ materials = <<>>
    /\ sorted = <<>> /\ nodes = <<>> /\ calls = <<>>

------------------------------------------------------------------------------
(* Boxes. *)

Lower(t) == [k \in Axes |-> Min({t.a[k], t.b[k]})]
Upper(t) == [k \in Axes |-> Max({t.a[k], t.b[k]})]

\* compute_bounds(): the box around ts[first .. last - 1].
\* Mutation: the last triangle is left out.
BoundsShort(ts, first, last) ==
    LET range == first .. Max({first, last - 2})
    IN  [lo |-> [k \in Axes |-> Min({Lower(ts[i])[k] : i \in range})],
         hi |-> [k \in Axes |-> Max({Upper(ts[i])[k] : i \in range})]]

Bounds(ts, first, last) ==
    LET range == first .. last - 1
    IN  [lo |-> [k \in Axes |-> Min({Lower(ts[i])[k] : i \in range})],
         hi |-> [k \in Axes |-> Max({Upper(ts[i])[k] : i \in range})]]

\* AABB::intersect(): the ray is in all slabs at once between tmin, which is
\* above 0, and tmax.  Along an axis the ray does not follow, infinities and
\* NaNs work out as: its origin lies between the planes, or on one.
BoxHit(box, ray, tmax) ==
    LET moving == {k \in Axes : ray.direction[k] # 0}
        t(k)   == {(box.lo[k] - ray.origin[k]) * ray.direction[k],
                   (box.hi[k] - ray.origin[k]) * ray.direction[k]}
    IN  /\ \A k \in Axes \ moving : box.lo[k] <= ray.origin[k] /\ ray.origin[k] <= box.hi[k]
        /\ Max({1} \cup {Min(t(k)) : k \in moving}) <= Min({tmax} \cup {Max(t(k)) : k \in moving})

------------------------------------------------------------------------------
(* Building. *)

\* The longest axis; 3 is the one across the plane.
LongestAxis(box) ==
    LET extent == [k \in Axes |-> box.hi[k] - box.lo[k]]
        flat   == IF extent[2] > extent[1] THEN 2 ELSE 1
    IN  IF Thickness > extent[flat] THEN 3 ELSE flat

\* Three times the centroid.
Centroid(t, axis) == IF axis = 3 THEN 0 ELSE 2 * t.a[axis] + t.b[axis]

\* What nth_element() may make of ts[first .. last - 1]: nothing before mid
\* is greater, nothing after it less than what is at mid.
Split(ts, first, mid, last, axis) ==
    { s \in { [i \in DOMAIN ts |-> IF i \in DOMAIN p THEN ts[p[i]] ELSE ts[i]] :
                p \in Bijection(first .. last - 1, first .. last - 1) } :
        \A i \in first .. mid, j \in mid .. last - 1 :
            Centroid(s[i], axis) <= Centroid(s[j], axis) }

\* A node of build_recursive(), linked into its parent; node 0 is none.
Link(ns, call, node) ==
    LET new == Append(ns, node)
    IN  IF call.parent = 0 THEN new
        ELSE [new EXCEPT ![call.parent][call.side] = Len(new)]

Node(box, first, count) ==
    [box |-> box, left |-> 0, right |-> 0, first |-> first, count |-> count]

AddTriangle ==
    /\ calls = <<>> /\ todo # <<>>
    /\ todo' = Tail(todo)
    /\ tris' = Append(tris, [a |-> Head(todo).a, b |-> Head(todo).b, id |-> Len(materials)])
    /\ materials' = Append(materials, Head(todo).material)
    /\ UNCHANGED bvh

Commit ==
    /\ calls = <<>>
    /\ sorted' = tris
    /\ nodes' = <<>>
    /\ calls' = IF tris = <<>> THEN <<>>
                ELSE <<[first |-> 1, last |-> Len(tris) + 1, parent |-> 0, side |-> "left"]>>
    /\ UNCHANGED scene

BuildLeaf ==
    /\ calls # <<>>
    /\ LET c == Head(calls)
       IN  /\ c.last - c.first <= 2
           /\ nodes' = Link(nodes, c, Node(Bounds(sorted, c.first, c.last), c.first, c.last - c.first))
    /\ calls' = Tail(calls)
    /\ UNCHANGED <<scene, sorted>>

\* The left child is built to its end before the right one is begun.
BuildInner ==
    /\ calls # <<>>
    /\ LET c   == Head(calls)
           box == Bounds(sorted, c.first, c.last)
           mid == (c.first - 1 + c.last - 1) \div 2 + 1
           me  == Len(nodes) + 1
       IN  /\ c.last - c.first > 2
           /\ nodes' = Link(nodes, c, Node(box, 0, 0))
           /\ sorted' \in Split(sorted, c.first, mid, c.last, LongestAxis(box))
           /\ calls' = <<[first |-> c.first, last |-> mid, parent |-> me, side |-> "left"],
                         [first |-> mid, last |-> c.last, parent |-> me, side |-> "right"]>>
                       \o Tail(calls)
    /\ UNCHANGED scene

BuildScene == AddTriangle \/ Commit \/ BuildLeaf \/ BuildInner

------------------------------------------------------------------------------
(* Intersecting. *)

NoHit == [t |-> 0, id |-> -1]

\* Triangle::intersect(): a triangle the ray runs parallel to is missed.
TriangleHit(tri, ray, tmax) ==
    LET across == CHOOSE k \in Axes : tri.a[k] = tri.b[k]
        along  == 3 - across
        t      == (tri.a[across] - ray.origin[across]) * ray.direction[across]
        at     == ray.origin[along] + t * ray.direction[along]
    IN  IF /\ ray.direction[across] # 0
           /\ Lower(tri)[along] <= at /\ at <= Upper(tri)[along]
           /\ 1 <= t /\ t <= tmax
        THEN [t |-> t, id |-> tri.id] ELSE NoHit

\* The nearer tmax once there is a hit.
Nearer(hit, tmax) == IF hit = NoHit THEN tmax ELSE hit.t

LeafHit(node, ray, tmax) ==
    FoldLeft(LAMBDA best, tri :
                 LET h == TriangleHit(tri, ray, Nearer(best, tmax))
                 IN  IF h = NoHit THEN best ELSE h,
             NoHit, SubSeq(sorted, node.first, node.first + node.count - 1))

\* Scene::intersect(): intersect_node() from the root; at is its node and tmax.
Intersect(ray) ==
    LET visit[at \in (DOMAIN nodes) \X (0 .. Far)] ==
          LET node == nodes[at[1]]
              tmax == at[2]
          IN  IF ~BoxHit(node.box, ray, tmax) THEN NoHit
              ELSE IF node.count > 0 THEN LeafHit(node, ray, tmax)
              ELSE LET l == visit[<<node.left, tmax>>]
                       r == visit[<<node.right, Nearer(l, tmax)>>]
                   IN  IF r # NoHit THEN r ELSE l
    IN  IF nodes = <<>> THEN NoHit ELSE visit[<<1, Far>>]

------------------------------------------------------------------------------
\* The tree answers every ray as trying all triangles of the scene as it was
\* committed does: with a nearest hit and that triangle's own material, and
\* with none only where there is none; triangles added since are not seen.
ClosestHit ==
    calls = <<>> =>
        \A ray \in Rays :
            LET hits   == {TriangleHit(tris[i], ray, Far) : i \in DOMAIN sorted} \ {NoHit}
                answer == Intersect(ray)
            IN  IF hits = {} THEN answer = NoHit
                ELSE answer \in hits /\ \A h \in hits : answer.t <= h.t
==============================================================================

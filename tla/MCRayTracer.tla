---------------------------- MODULE MCRayTracer ------------------------------
(* Scenes of five of the six walls below on a grid of five by five, some     *)
(* crossing or meeting, some with their centroids level, and rays from       *)
(* outside and inside along the axes and the diagonals.                      *)
EXTENDS RayTracer

Wall(x1, y1, x2, y2, m) == [a |-> <<x1, y1>>, b |-> <<x2, y2>>, material |-> m]

Walls == << Wall(1, 0, 1, 2, "diffuse"), Wall(3, 4, 3, 1, "mirror"),
            Wall(0, 3, 4, 3, "diffuse"), Wall(4, 2, 2, 2, "mirror"),
            Wall(2, 1, 2, 3, "diffuse"), Wall(2, 0, 4, 0, "mirror") >>

\* The order of adding matters little: nth_element() permutes.
AllScenes == { [i \in 1 .. 5 |-> Walls[f[i]]] :
                 f \in {g \in [1 .. 5 -> DOMAIN Walls] : \A i \in 1 .. 4 : g[i] < g[i + 1]} }

Ray(x, y, dx, dy) == [origin |-> <<x, y>>, direction |-> <<dx, dy>>]

SomeRays == { Ray(-1, 2, 1, 0), Ray(0, 1, 1, 0), Ray(4, 1, -1, 0), Ray(5, 3, -1, 0), Ray(2, 2, 1, 0),
              Ray(2, 5, 0, -1), Ray(4, 0, 0, 1), Ray(1, 3, 0, -1),
              Ray(0, 0, 1, 1), Ray(4, 4, -1, -1), Ray(0, 4, 1, -1), Ray(3, 0, -1, 1) }
==============================================================================

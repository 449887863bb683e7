------------------------------ MODULE MCAStar --------------------------------
(* Two floors of two by two cells, one of them blocked, and every pair of    *)
(* constraints that can matter to an agent there.                            *)
EXTENDS AStar

Cells == Cell
Starts == {<<0, 0, 0>>, <<1, 0, 1>>}
BlockedCell == {<<1, 1, 0>>}
Small(S) == {{}} \cup {{a} : a \in S} \cup {{a, b} : a, b \in S}
Vertices == Small((Cell \ BlockedCell) \X (1 .. 2))
Edges == Small({<<p, q, t>> \in Cell \X Cell \X (0 .. 1) :
                  p = <<0, 0, 0>> /\ q \in {<<0, 1, 0>>, <<0, 0, 1>>}})
==============================================================================

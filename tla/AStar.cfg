SPECIFICATION Spec
CONSTANTS
  Width = 2
  Height = 2
  Depth = 2
  Blocked <- BlockedCell
  MaxTime = 4
  Start <- Starts
  Goal <- Cells
  VertexChoice <- Vertices
  EdgeChoice <- Edges
INVARIANTS
  ReturnsShortest
PROPERTIES
  KeysNeverFall

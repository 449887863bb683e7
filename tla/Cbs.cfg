SPECIFICATION Spec
CONSTANTS
  Width = 4
  Height = 2
  Depth = 1
  Blocked = {}
  MaxTime = 3
  Agent <- Agents
  Instances <- Problems
  MaxNodes = 7
INVARIANTS
  AnswerIsOptimal
  NoPlanIsLost

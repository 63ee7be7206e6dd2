SPECIFICATION Spec
CONSTANTS
  NVertices = 4
  MaxDist = 99
  EdgeTypes <- Types
  Graphs <- AllGraphs
  Views <- WholeGraph
  Costs <- Ones
INVARIANTS
  OnlyStartAtZeroHops
CHECK_DEADLOCK FALSE

SPECIFICATION Spec
CONSTANTS
  a = a
  b = b
  c = c
  Ids <- MCIds
  MaxVertices = 3
  MaxEdges = 2
  StrayIndex = TRUE
INVARIANTS AddVertexReturnsItsOwn
CHECK_DEADLOCK FALSE

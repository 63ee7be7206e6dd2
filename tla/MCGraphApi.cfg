SPECIFICATION Spec
CONSTANTS
  a = a
  b = b
  c = c
  Ids <- MCIds
  MaxVertices = 3
  MaxEdges = 2
  StrayIndex = FALSE
INVARIANTS TypeOK AddVertexReturnsItsOwn MapSound
PROPERTIES DescriptorsStable
CHECK_DEADLOCK FALSE

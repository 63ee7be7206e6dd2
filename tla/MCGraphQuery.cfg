SPECIFICATION Spec
CONSTANTS
  NVertices = 4
  MaxDist = 99
  EdgeTypes <- Types
  Graphs <- AllGraphs
  Views <- AllViews
  Costs <- AllCosts
INVARIANTS
  TypeOK
  BfsFewestHops
  
  DijkstraCheapest
  
  NegativeWeightsThrow
PROPERTIES
  QueryReturns
CHECK_DEADLOCK FALSE

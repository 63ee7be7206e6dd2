SPECIFICATION Spec
CONSTANTS
  Ranks = {r1, r2, r3}
  MaxInits = 2
  Enabled <- AllModules
INVARIANTS
  TypeOK
  CollectivesMatch
  NoneStranded
  
PROPERTIES
  ImplementsBarrier
  CollectivesReturn
CHECK_DEADLOCK FALSE

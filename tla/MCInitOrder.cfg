SPECIFICATION Spec
CONSTANTS
  Hosts <- MCHosts
  Bdfs <- MCBdfs
  Objects <- MCObjects
  CPU <- MCCPU
  NRanks = 2
  ProcName <- TwoRanks
  Me = 0
  MaxDevs = 3
  Envs <- LibrariesUp
  MachineObj = "machine"
  Children <- MCChildren
  ObjType <- MCObjType
  CpusetOf <- MCCpusetOf
  BdfOf <- MCBdfOf
  GetHostName <- Here
  NvmlDevs <- ThreeNv
  NvmlLinks <- MCNvmlLinks
  RocmDevs <- MCRocmDevs
  RocmHops <- MCRocmHops
  QueryFaults = FALSE
  NDEBUG = TRUE
  Supermuc <- MCHosts
  CpuChoices <- OneChoice
  StableSort = FALSE
  ModuleList <- MCModuleList
  Enabled <- AllModules
  MaxInits = 1
INVARIANTS OrderIndependent HierarchyIsForest InterconnectExact
  DevicesJoined PropertiesUnambiguous 
CHECK_DEADLOCK FALSE

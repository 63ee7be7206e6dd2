SPECIFICATION Spec
CONSTANTS
  Hosts <- MCHosts
  Bdfs <- SmallBdfs
  Objects <- SmallObjects
  CPU <- MCCPU
  NRanks = 2
  ProcName <- TwoRanks
  Me = 0
  MaxDevs = 2
  Envs <- LibrariesUp
  MachineObj = "machine"
  Children <- SmallChildren
  ObjType <- SmallObjType
  CpusetOf <- SmallCpusetOf
  BdfOf <- MCBdfOf
  GetHostName <- Here
  NvmlDevs <- OneNv
  NvmlLinks <- NoLinks
  RocmDevs <- OneAmd
  RocmHops <- NoHops
  QueryFaults = TRUE
  NDEBUG = TRUE
  Supermuc <- MCHosts
  CpuChoices <- TwoChoices
  StableSort = TRUE
  ModuleList <- MCModuleList
  Enabled <- AllModules
  MaxInits = 2
INVARIANTS TypeOK IdentifiersSound LocalsSound DevicesNotDuplicated PlacementsBacked
PROPERTIES ImplementsDirectory
CHECK_DEADLOCK FALSE

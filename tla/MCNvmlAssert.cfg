SPECIFICATION Spec
CONSTANTS
  Hosts <- MCHosts
  Bdfs <- MCBdfs
  Objects <- MCObjects
  CPU <- MCCPU
  NRanks = 2
  ProcName <- TwoRanks
  Me = 0
  MaxDevs = 2
  Envs <- LibrariesUp
  MachineObj = "machine"
  Children <- MCChildren
  ObjType <- MCObjType
  CpusetOf <- MCCpusetOf
  BdfOf <- MCBdfOf
  GetHostName <- Here
  NvmlDevs <- MCNvmlDevs
  NvmlLinks <- MCNvmlLinks
  RocmDevs <- MCRocmDevs
  RocmHops <- MCRocmHops
  QueryFaults = FALSE
  NDEBUG = FALSE
  Supermuc <- MCHosts
  CpuChoices <- OneChoice
  StableSort = TRUE
  ModuleList <- MCModuleList
  Enabled <- NvmlOnly
  MaxInits = 1
INVARIANTS NvmlAssertionHolds
CHECK_DEADLOCK FALSE

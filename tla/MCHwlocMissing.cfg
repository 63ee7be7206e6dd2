SPECIFICATION Spec
CONSTANTS
  Hosts <- MCHosts
  Bdfs <- MCBdfs
  Objects <- MCObjects
  CPU <- MCCPU
  NRanks = 3
  ProcName <- ThreeRanks
  Me = 1
  MaxDevs = 2
  Envs <- LibrariesUp
  MachineObj = "machine"
  Children <- MCChildren
  ObjType <- MCObjType
  CpusetOf <- MCCpusetOf
  BdfOf <- MCBdfOf
  GetHostName <- Here
  NvmlDevs <- MCNvmlDevs
  NvmlLinks <- MCNvmlLinks
  RocmDevs <- MCRocmDevs
  RocmHops <- MCRocmHops
  QueryFaults = FALSE
  NDEBUG = TRUE
  Supermuc <- MCHosts
  CpuChoices <- OneChoice
  StableSort = TRUE
  ModuleList <- MCModuleList
  Enabled <- HwlocAndMpi
  MaxInits = 1
INVARIANTS ProcsOnOwnMachine
CHECK_DEADLOCK FALSE

SPECIFICATION Spec
CONSTANTS
  Hosts <- MCHosts
  Bdfs <- MCBdfs
  Objects <- MCObjects
  CPU <- MCCPU
  NRanks = 2
  ProcName <- TwoRanks
  Me = 0
  MaxDevs = 2
  Envs <- AnyEnv
  MachineObj = "machine"
  Children <- MCChildren
  ObjType <- MCObjType
  CpusetOf <- MCCpusetOf
  BdfOf <- MCBdfOf
  GetHostName <- Here
  NvmlDevs <- MCNvmlDevs
  NvmlLinks <- MCNvmlLinks
  RocmDevs <- MCRocmDevs
  RocmHops <- MCRocmHops
  QueryFaults = TRUE
  NDEBUG = FALSE
  Supermuc <- MCHosts
  CpuChoices <- OneChoice
  StableSort = FALSE
  ModuleList <- MCModuleList
  Enabled <- NoSupermuc
  MaxInits = 1
PROPERTIES InitTerminates
CHECK_DEADLOCK FALSE

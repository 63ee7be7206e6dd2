SPECIFICATION Spec
CONSTANTS
  Hosts <- MCHosts
  Bdfs <- MCBdfs
  Objects <- MCObjects
  CPU <- MCCPU
  NRanks = 2
  ProcName <- TwoRanks
  Me = 0
  MaxDevs = 2
  Envs <- AllUp
  MachineObj = "machine"
  Children <- MCChildren
  ObjType <- MCObjType
  CpusetOf <- MCCpusetOf
  BdfOf <- MCBdfOf
  GetHostName <- Here
  NvmlDevs <- MCNvmlDevs
  NvmlLinks <- MCNvmlLinks
  RocmDevs <- MCRocmDevs
  RocmHops <- MCRocmHops
  QueryFaults = TRUE
  NDEBUG = TRUE
  Supermuc <- MCHosts
  CpuChoices <- OneChoice
  StableSort = TRUE
  ModuleList <- MCModuleList
  Enabled <- GpuOnly
  MaxInits = 1
INVARIANTS RocmDevicesOnTheirVertex
CHECK_DEADLOCK FALSE

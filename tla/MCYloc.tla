------------------------------- MODULE MCYloc -------------------------------
(***************************************************************************)
(* Small platforms for YlocInit.  The machine has two packages:            *)
(*   pkg0 {0,1}: an L3 cache {0,1} over two cores, the NUMA node {0,1},    *)
(*               an NVIDIA GPU with its OS device, and an AMD GPU;         *)
(*   pkg1 {2,4}: a second function of a network card, and one of a third   *)
(*               NVIDIA device.                                            *)
(* CPU 3 is offline.  A second NVIDIA GPU is hidden from hwloc.            *)
(***************************************************************************)
EXTENDS PropertyLookup, TLC

MCObjects == {"machine", "pkg0", "pkg1", "l3", "numa0", "core0", "core1",
              "nvpci", "nvos", "amdpci", "nic", "nvfun"}

MCChildren ==
  [o \in MCObjects |->
     CASE o = "machine" -> <<"pkg0", "pkg1">>
       [] o = "pkg0"    -> <<"l3", "numa0", "nvpci", "amdpci">>
       [] o = "pkg1"    -> <<"nic", "nvfun">>
       [] o = "l3"      -> <<"core0", "core1">>
       [] o = "nvpci"   -> <<"nvos">>
       [] OTHER         -> <<>>]

MCObjType ==
  [o \in MCObjects |->
     CASE o = "machine"            -> "MACHINE"
       [] o \in {"pkg0", "pkg1"}   -> "PACKAGE"
       [] o = "l3"                 -> "L3CACHE"
       [] o = "numa0"              -> "NUMANODE"
       [] o \in {"core0", "core1"} -> "CORE"
       [] o = "nvos"               -> "OSDEV_GPU"
       [] OTHER                    -> "PCI_DEVICE"]

MCCpusetOf ==
  [o \in MCObjects |->
     CASE o = "machine"                  -> {{0, 1, 2, 4}}
       [] o \in {"pkg0", "l3", "numa0"}  -> {0..1}
       [] o = "pkg1"                     -> {{2, 4}}
       [] o = "core0"                    -> {{0}}
       [] o = "core1"                    -> {{1}}
       [] OTHER                          -> {}]

NvA == <<0, 1, 0, 0>>
NvB == <<0, 2, 0, 0>>
AmdA == <<0, 3, 0, 0>>
AmdB == <<0, 4, 0, 0>>
Nic == <<0, 5, 0, 1>>
NvC == <<0, 6, 0, 1>>

MCBdfs == {NvA, NvB, AmdA, AmdB, Nic, NvC, <<0, 6, 0, 0>>}
MCBdfOf == [o \in {"nvpci", "amdpci", "nic", "nvfun"} |->
              CASE o = "nvpci" -> NvA [] o = "amdpci" -> AmdA
                [] o = "nic" -> Nic [] o = "nvfun" -> NvC]
MCCPU == 0..4

(* Two nodes of one column.                                                *)
Here == <<"i01", "r01", "c01", "s01">>
There == <<"i01", "r01", "c01", "s02">>
MCHosts == {Here, There}

TwoRanks == (0 :> Here) @@ (1 :> There)
ThreeRanks == (0 :> There) @@ (1 :> Here) @@ (2 :> Here)

MCNvmlDevs == <<NvA, NvB>>
ThreeNv == <<NvA, NvC, NvB>>
MCNvmlLinks == {{1, 2}}
MCRocmDevs == <<AmdA, AmdB>>
MCRocmHops == [p \in {{1, 2}} |-> 1]
OneNv == <<NvA>>
NoLinks == {}
OneAmd == <<AmdA>>
NoHops == <<>>

(* A smaller machine for the runs with failing queries and a second init():*)
(* one package with an NVIDIA GPU and the card; the AMD GPU is hidden.     *)
SmallObjects == {"machine", "pkg0", "nvpci", "nvos", "nic"}
SmallChildren ==
  [o \in SmallObjects |->
     CASE o = "machine" -> <<"pkg0">>
       [] o = "pkg0"    -> <<"nvpci", "nic">>
       [] o = "nvpci"   -> <<"nvos">>
       [] OTHER         -> <<>>]
SmallObjType == [o \in SmallObjects |-> MCObjType[o]]
SmallCpusetOf == [o \in SmallObjects |-> MCCpusetOf[o]]
SmallBdfs == {NvA, AmdA, Nic}

MCModuleList == <<"hwloc", "mpi", "nvml", "rocm", "supermuc">>
AllModules == {"hwloc", "mpi", "nvml", "rocm", "supermuc"}
NoSupermuc == AllModules \ {"supermuc"}
HwlocAndMpi == {"hwloc", "mpi"}
GpuOnly == {"hwloc", "nvml", "rocm"}
NvmlOnly == {"hwloc", "nvml"}

(* CPU 3 was offline when the program was loaded, or went offline later.   *)
Load == {4, 5}
LibrariesUp ==
  [abi : BOOLEAN, mpi : BOOLEAN, nvml : {TRUE}, rocm : {TRUE}, nprocs : {4}]
LibrariesAndLoad ==
  [abi : BOOLEAN, mpi : BOOLEAN, nvml : {TRUE}, rocm : {TRUE}, nprocs : Load]
AllUp == [abi : {TRUE}, mpi : {TRUE}, nvml : {TRUE}, rocm : {TRUE}, nprocs : {4}]
AnyEnv == [abi : BOOLEAN, mpi : BOOLEAN, nvml : BOOLEAN, rocm : BOOLEAN, nprocs : Load]

OneChoice == {{0}}
TwoChoices == {{0}, {2}}
Affinities == {{}, {0}, {1}, {0, 1}, {2}, {1, 2}, {4}, {2, 4}, {0, 1, 2, 4}}
=============================================================================

--------------------------- MODULE ModuleInterface ---------------------------
(***************************************************************************)
(* What the modules of yloc share: the root graph, the identifiers and     *)
(* adapters they put into it, the state of the running init(), and the     *)
(* environment init() finds.  class Module (module.h) has one operation,   *)
(* init_graph(Graph &): module M's is the actions of module MModule.       *)
(***************************************************************************)
EXTENDS TopologyGraph

CONSTANTS
  Hosts,     \* host names, each the sequence of its four fields of three
             \* characters <<island, rack, column, slot>>
  Bdfs,      \* PCI addresses <<domain, bus, device, function>>
  Objects,   \* objects of the hwloc topology of this machine
  ObjType,   \* the hwloc type of each object
  CPU,       \* ids of its processing units
  NRanks,    \* size of MPI_COMM_WORLD
  ProcName,  \* MPI_Get_processor_name of each rank
  Me,        \* MPI_Comm_rank of this process
  MaxDevs,   \* bound on the number of devices a GPU library reports
  Envs,      \* environments init() may find
  NDEBUG     \* assertions compiled out

Ranks == 0 .. NRanks - 1
Devs == 1 .. MaxDevs
Modules == {"hwloc", "mpi", "nvml", "rocm", "supermuc"}
Statuses == {"SUCCESS", "INIT_ERROR"}

(* abi: the hwloc library has the API version yloc was compiled for;       *)
(* mpi: MPI_Initialized says yes; nvml, rocm: the vendor library answers;  *)
(* nprocs: m_nprocs_online, read once when the program is loaded.          *)
EnvType == [abi : BOOLEAN, mpi : BOOLEAN, nvml : BOOLEAN, rocm : BOOLEAN, nprocs : Nat]

ASSUME PlatformConstants ==
  /\ \A h \in Hosts : Len(h) = 4
  /\ NRanks \in Nat /\ MaxDevs \in Nat
  /\ ProcName \in [Ranks -> Hosts] /\ Me \in Ranks
  /\ Envs \subseteq EnvType /\ NDEBUG \in BOOLEAN

(* A host name is a string; Truncate cuts it.                              *)
ASSUME HostNames == \A h \in Hosts : h \in Seq({h[i] : i \in 1..4})

ASSUME AddressParts == Bdfs \subseteq Nat \X Nat \X Nat \X Nat

ASSUME FiniteMachine == IsFiniteSet(CPU)

(* A host name cut at position 3, 6 or 9.                                  *)
Truncate(h, n) == SubSeq(h, 1, n)
Prefixes == {Truncate(h, n) : h \in Hosts, n \in 1..3}

(* The strings "machine:...", "bdfid:...", "mpi_rank:...", "system:...".   *)
Ids == ({"machine"} \X Hosts) \cup ({"bdfid"} \X Bdfs)
         \cup ({"mpi_rank"} \X Ranks) \cup ({"system"} \X Prefixes)

(* An adapter wraps one native object of one module; mask is its           *)
(* cpu_affinity_mask().                                                    *)
Natives == ({"hwloc"} \X Objects) \cup ({"mpi"} \X Ranks)
             \cup ({"nvml", "rocm"} \X Devs)
             \cup ({"supermuc"} \X (Hosts \cup Prefixes))
Adapters == [of : Natives, mask : SUBSET SUBSET CPU]
Adapter(module, native, mask) == [of |-> <<module, native>>, mask |-> mask]

(* m_description: a host name or a prefix of one, the type string of an    *)
(* hwloc object, or the name the ROCm library gives a device.              *)
Descriptions == ({"name"} \X (Hosts \cup Prefixes))
                  \cup ({"hwloc"} \X ({ObjType[o] : o \in Objects} \cup {"OSDev"}))
                  \cup ({"rocm"} \X Devs)

VARIABLES
  graph,     \* root_graph()
  env,       \* what the current call of init() finds
  phase,     \* of init(): "idle", "running", or how the process left it
  current,   \* the module whose init_graph is running, or "none"
  status     \* what each init_graph last returned

interface == <<graph, env, phase, current, status>>

InterfaceTypeOK ==
  /\ graph \in GraphType(Ids, Adapters, Descriptions)
  /\ env \in Envs
  /\ phase \in {"idle", "running", "threw", "aborted"}
  /\ current \in Modules \cup {"none"}
  /\ status \in [Modules -> Statuses \cup {"none"}]

InterfaceInit ==
  /\ graph = EmptyGraph(Ids)
  /\ env \in Envs
  /\ phase = "idle"
  /\ current = "none"
  /\ status = [m \in Modules |-> "none"]

Running(m) == phase = "running" /\ current = m

(* The module goes on: only the graph and its own locals may change.       *)
Stay == UNCHANGED <<env, phase, current, status>>

(* init_graph of m returns s.                                              *)
Return(m, s) ==
  /\ current' = "none"
  /\ status' = [status EXCEPT ![m] = s]
  /\ UNCHANGED <<env, phase>>

(* An exception leaves init(), or an assert ends the process.              *)
Leave(how) ==
  /\ phase' = how
  /\ UNCHANGED <<env, current, status>>
==============================================================================

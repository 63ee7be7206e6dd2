------------------------------ MODULE YlocInit ------------------------------
(***************************************************************************)
(* yloc::init() (init.cc): sorts the modules by init_order and calls       *)
(* init_graph of the enabled ones on the root graph, ignoring what they    *)
(* return.  The application may call it again.                             *)
(***************************************************************************)
EXTENDS HwlocModule, GpuModules, SupermucModule, MpiModule

CONSTANTS
  ModuleList,   \* list_modules(): the modules built in, as CMake lists them
  Enabled,      \* m_enabled of each
  MaxInits      \* bound on the calls of init()

ASSUME InitConstants ==
  /\ ModuleList \in Seq(Modules)
  /\ \A i, j \in DOMAIN ModuleList : ModuleList[i] = ModuleList[j] => i = j
  /\ Enabled \subseteq Modules
  /\ MaxInits \in Nat

(* m_init_order: SECOND for mpi, the default FIRST for the others.         *)
InitOrder(m) == IF m = "mpi" THEN 1 ELSE 0

VARIABLES todo,    \* the modules the loop of init() has still to look at
          inits    \* number of calls of init() so far

vars == <<interface, walk, gpu, smRank, mpi, todo, inits>>

TypeOK ==
  /\ InterfaceTypeOK /\ HwlocTypeOK /\ GpuTypeOK /\ SupermucTypeOK /\ MpiTypeOK
  /\ todo \in Seq(Modules)
  /\ inits \in 0..MaxInits

Init ==
  /\ InterfaceInit /\ HwlocInit /\ GpuInit /\ SupermucInit /\ MpiInit
  /\ todo = <<>>
  /\ inits = 0

(* The orders std::sort may leave the list in.                             *)
SortedLists ==
  {s \in [DOMAIN ModuleList -> Modules] :
     /\ \A m \in Modules : (\E i \in DOMAIN s : s[i] = m)
                             <=> (\E i \in DOMAIN ModuleList : ModuleList[i] = m)
     /\ \A i, j \in DOMAIN s : i < j => InitOrder(s[i]) <= InitOrder(s[j])
     /\ StableSort => \A i, j \in DOMAIN ModuleList :
          i < j /\ InitOrder(ModuleList[i]) = InitOrder(ModuleList[j]) =>
            \E k, l \in DOMAIN s : k < l /\ s[k] = ModuleList[i] /\ s[l] = ModuleList[j]}

locals == <<walk, gpu, smRank, mpi>>

InitCall ==
  /\ phase = "idle" /\ inits < MaxInits
  /\ todo' \in SortedLists
  /\ env' \in {e \in Envs : e.nprocs = env.nprocs}
  /\ phase' = "running"
  /\ inits' = inits + 1
  /\ UNCHANGED <<graph, current, status, locals>>

(* Mutant of CallModule: a disabled module is not passed over.             *)
CallModuleStuck ==
  /\ Running("none") /\ todo # <<>>
  /\ todo' = IF Head(todo) \in Enabled THEN Tail(todo) ELSE todo
  /\ current' = IF Head(todo) \in Enabled THEN Head(todo) ELSE "none"
  /\ UNCHANGED <<graph, env, phase, status, locals, inits>>

(* The next iteration of the loop: call the module, or skip a disabled one.*)
CallModule ==
  /\ Running("none") /\ todo # <<>>
  /\ todo' = Tail(todo)
  /\ current' = IF Head(todo) \in Enabled THEN Head(todo) ELSE "none"
  /\ UNCHANGED <<graph, env, phase, status, locals, inits>>

InitReturn ==
  /\ Running("none") /\ todo = <<>>
  /\ phase' = "idle"
  /\ UNCHANGED <<graph, env, current, status, locals, todo, inits>>

ModuleStep ==
  \/ HwlocNext /\ UNCHANGED <<gpu, smRank, mpi>>
  \/ GpuNext /\ UNCHANGED <<walk, smRank, mpi>>
  \/ SupermucNext /\ UNCHANGED <<walk, gpu, mpi>>
  \/ MpiNext /\ UNCHANGED <<walk, gpu, smRank>>

(* What the thread inside init() does.                                     *)
InitStep ==
  \/ CallModule
  \/ InitReturn
  \/ ModuleStep /\ UNCHANGED <<todo, inits>>

Next == InitCall \/ InitStep

(* init() is one thread with nothing to wait for in this model, so a step  *)
(* it can take is taken.  Nobody is obliged to call init() again.          *)
Spec == Init /\ [][Next]_vars /\ WF_vars(InitStep)

------------------------------------------------------------------------------
(* Every identifier names its own existing vertex and every edge joins two *)
(* existing vertices, whichever modules ran, failed, or ran twice: the     *)
(* modules find each other's vertices through m_identifier_map only.       *)
IdentifiersSound == IdsSound(graph) /\ EdgesSound(graph)

(* No module takes away what another one found: an identifier keeps its    *)
(* vertex and a vertex that has a type only ever gets a class derived from *)
(* it (hwloc's PCIDevice becomes nvml's GPU, never the other way round).   *)
Directory == INSTANCE ComponentDirectory WITH
  handle <- graph.ids,
  kind <- [v \in DOMAIN graph.vertices |-> graph.vertices[v].type]
ImplementsDirectory == Directory!Spec

(* The descriptors the modules hold across steps, in the active calls of   *)
(* make_hwloc_graph, in vertices[] of the GPU modules and in               *)
(* lowest_containing_vertex, always name vertices of the graph, and so     *)
(* does m_root_vertex once there is one.                                   *)
RootSound == graph.root = 1 \/ graph.root \in DOMAIN graph.vertices
WalkSound == \A i \in DOMAIN walk : walk[i].vd \in DOMAIN graph.vertices
GpuSound ==
  /\ Len(gpu.vertices) = gpu.count /\ Len(gpu.devices) = gpu.count
  /\ gpu.next <= gpu.count + 1
  /\ \A i \in 1..gpu.count : i < gpu.next => gpu.vertices[i] \in DOMAIN graph.vertices
  /\ gpu.stage = "links" => gpu.next = gpu.count + 1
  /\ gpu.stage = "start" => gpu = NoLocals
  /\ gpu.src < gpu.dst
  /\ gpu.src < gpu.count => gpu.dst <= gpu.count
MpiSound ==
  mpi.stage = "descend" =>
    /\ mpi.rank < NRanks
    /\ mpi.at \in DOMAIN graph.vertices
    /\ graph.ids[RankId] \in DOMAIN graph.vertices
LocalsSound == RootSound /\ WalkSound /\ GpuSound /\ MpiSound

(* Devices and processes exist once: whatever is a PCIDevice or an         *)
(* MPIProcess is named by an identifier, so that the hwloc and GPU modules,*)
(* and a second init(), find the same vertex instead of adding another.    *)
DevicesNotDuplicated ==
  \A v \in DOMAIN graph.vertices :
    /\ IsA(graph.vertices[v].type, "PCIDevice") =>
         \E b \in Bdfs : graph.ids[<<"bdfid", b>>] = v
    /\ IsA(graph.vertices[v].type, "MPIProcess") =>
         \E i \in Ranks : graph.ids[<<"mpi_rank", i>>] = v

(* The first init() has returned.                                          *)
InitDone == phase = "idle" /\ inits = 1
Ran(m) == status[m] = "SUCCESS"

PciObjects == {o \in Objects : ObjType[o] = "PCI_DEVICE"}
NvmlBdfs == {NvmlBdfid(NvmlDevs[i]) : i \in DOMAIN NvmlDevs}
RocmIndex(b) == {i \in DOMAIN RocmDevs : RocmDevs[i] = b}

(* What the modules that ran know between them, said without an order.     *)
KnownIds ==
  UNION
    {IF Ran("hwloc") THEN {<<"machine", GetHostName>>}
                            \cup {<<"bdfid", BdfOf[o]>> : o \in PciObjects} ELSE {},
     IF Ran("nvml") THEN {"bdfid"} \X NvmlBdfs ELSE {},
     IF Ran("rocm") THEN {<<"bdfid", RocmDevs[i]>> : i \in DOMAIN RocmDevs} ELSE {},
     IF Ran("supermuc") THEN {<<"machine", ProcName[i]>> : i \in Ranks}
       \cup {<<"system", Truncate(ProcName[i], n)>> : i \in Ranks, n \in 1..3} ELSE {},
     IF Ran("mpi") THEN {<<"machine", ProcName[i]>> : i \in Ranks}
                          \cup ({"mpi_rank"} \X Ranks) ELSE {}}

IsGpu(b) == (Ran("nvml") /\ b \in NvmlBdfs) \/ (Ran("rocm") /\ RocmIndex(b) # {})
SeenByHwloc(b) == Ran("hwloc") /\ \E o \in PciObjects : BdfOf[o] = b
Named(h) == (Ran("hwloc") /\ h = GetHostName) \/ Ran("supermuc")

FinalType(id) ==
  CASE id[1] = "machine"  -> IF Named(id[2]) THEN "Node" ELSE "UnknownComponentType"
    [] id[1] = "bdfid"    -> IF IsGpu(id[2]) THEN "GPU" ELSE "PCIDevice"
    [] id[1] = "mpi_rank" -> "MPIProcess"
    [] id[1] = "system"   -> "Misc"

FinalDescription(id) ==
  CASE id[1] = "machine"  -> IF Named(id[2]) THEN {<<"name", id[2]>>} ELSE {}
    [] id[1] = "bdfid"    -> IF Ran("rocm") /\ RocmIndex(id[2]) # {}
                               THEN {<<"rocm", Max(RocmIndex(id[2]))>>}
                               ELSE IF SeenByHwloc(id[2]) THEN {<<"hwloc", "PCI_DEVICE">>}
                                                          ELSE {}
    [] id[1] = "mpi_rank" -> {}
    [] id[1] = "system"   -> {<<"name", id[2]>>}

(* What the graph says of every named component after init() does not      *)
(* depend on the order std::sort leaves equal init_orders in.              *)
OrderIndependent ==
  InitDone => \A id \in Ids :
    /\ graph.ids[id] # NoVertex <=> id \in KnownIds
    /\ id \in KnownIds =>
         LET v == graph.vertices[graph.ids[id]]
         IN v.type = FinalType(id) /\ v.description = FinalDescription(id)

ChildEdges(u, v) ==
  {i \in DOMAIN graph.edges :
     graph.edges[i].source = u /\ graph.edges[i].target = v /\ graph.edges[i].type = "CHILD"}
ParentEdges(u, v) ==
  {i \in DOMAIN graph.edges :
     graph.edges[i].source = u /\ graph.edges[i].target = v /\ graph.edges[i].type = "PARENT"}
Vertices == DOMAIN graph.vertices
Parents(v) == {u \in Vertices : ChildEdges(u, v) # {}}

(* The vertices reached from the parentless ones in at most k CHILD edges. *)
Reached ==
  LET reach[k \in 0..Len(graph.vertices)] ==
        IF k = 0 THEN {v \in Vertices : Parents(v) = {}}
        ELSE LET near == reach[k - 1]
             IN near \cup {v \in Vertices : Parents(v) \cap near # {}}
  IN reach[Len(graph.vertices)]

(* After one init() the CHILD edges of all modules together form a forest  *)
(* and every CHILD edge has exactly its PARENT edge: the walks along CHILD *)
(* edges (lowest_containing_vertex) end, and distances up and down agree.  *)
HierarchyIsForest ==
  InitDone =>
    /\ \A u, v \in Vertices : Cardinality(ChildEdges(u, v)) <= 1
                              /\ Cardinality(ChildEdges(u, v)) = Cardinality(ParentEdges(v, u))
    /\ \A v \in Vertices : Cardinality(Parents(v)) <= 1
    /\ Reached = Vertices

LinksBetween(u, v) ==
  {i \in DOMAIN graph.edges : graph.edges[i].source = u /\ graph.edges[i].target = v
                                /\ graph.edges[i].type = "GPU_INTERCONNECT"}
NvmlVertexOf(i) == graph.ids[<<"bdfid", NvmlBdfid(NvmlDevs[i])>>]
RocmVertexOf(i) == graph.ids[<<"bdfid", RocmDevs[i]>>]

(* Where every query succeeds, two vertices are joined by interconnect     *)
(* edges, one each way, exactly if their devices are one hop apart.        *)
InterconnectExact ==
  InitDone => \A u, v \in Vertices :
    Cardinality(LinksBetween(u, v)) =
      IF \/ Ran("nvml") /\ \E i, j \in DOMAIN NvmlDevs :
              i # j /\ {i, j} \in NvmlLinks /\ u = NvmlVertexOf(i) /\ v = NvmlVertexOf(j)
         \/ Ran("rocm") /\ \E i, j \in DOMAIN RocmDevs :
              i # j /\ RocmHops[{i, j}] = 1 /\ u = RocmVertexOf(i) /\ v = RocmVertexOf(j)
      THEN 1 ELSE 0

(* A device is one vertex exactly if hwloc and the vendor library agree on *)
(* its address.  NVML does not tell the function, so the device is joined  *)
(* with what hwloc has at function 0 of its slot: with itself if it is     *)
(* there, else with a neighbour or with nothing.                           *)
AdapterAt(v, of) ==
  \E k \in DOMAIN graph.vertices[v].adapters : graph.vertices[v].adapters[k].of = of
Joined(of1, of2) == \E v \in Vertices : AdapterAt(v, of1) /\ AdapterAt(v, of2)
DevicesJoined ==
  InitDone /\ Ran("hwloc") => \A o \in PciObjects :
    /\ Ran("nvml") => \A i \in DOMAIN NvmlDevs :
         Joined(<<"hwloc", o>>, <<"nvml", i>>) <=>
           BdfOf[o][4] = 0 /\ \A part \in 1..3 : BdfOf[o][part] = NvmlDevs[i][part]
    /\ Ran("rocm") => \A i \in DOMAIN RocmDevs :
         Joined(<<"hwloc", o>>, <<"rocm", i>>) <=> BdfOf[o] = RocmDevs[i]

RankVertex(i) == graph.ids[<<"mpi_rank", i>>]
RankMask(i) == LET as == graph.vertices[RankVertex(i)].adapters IN as[Len(as)].mask
Contains(v, mask) == \E m \in GetMask(graph, v) : mask \subseteq m
Hardware == {v \in Vertices : graph.vertices[v].type # "MPIProcess"}

(* Where hwloc and mpi both ran, every rank of this machine that has a     *)
(* mask hangs below a vertex that contains the mask, and no vertex of the  *)
(* whole graph that contains it has fewer CPUs; every other rank hangs     *)
(* below its machine.                                                      *)
ProcsPlacedLowest ==
  InitDone /\ Ran("hwloc") /\ Ran("mpi") => \A i \in Ranks :
    \E p \in Hardware :
      /\ Parents(RankVertex(i)) = {p}
      /\ RankMask(i) = {} => p = graph.ids[<<"machine", ProcName[i]>>]
      /\ \A mask \in RankMask(i) :
           /\ Contains(p, mask)
           /\ \A v \in Hardware : Contains(v, mask) => Count(graph, p) <= Count(graph, v)

(* The k-th adapter of a rank and its k-th parent come from the same       *)
(* init(), and the parent, if it has CPUs at all, has those of the         *)
(* adapter's mask: a rank that moved between two calls was placed anew and *)
(* the masks on record say by what, though get() gives the first of them.  *)
EdgesUp(v) ==
  {e \in DOMAIN graph.edges : graph.edges[e].source = v /\ graph.edges[e].type = "PARENT"}
PlacementsBacked ==
  phase \in {"idle", "threw"} => \A i \in Ranks : RankVertex(i) # NoVertex =>
    LET adapters == graph.vertices[RankVertex(i)].adapters
        up == EdgesUp(RankVertex(i))
    IN /\ Len(adapters) = Cardinality(up)
       /\ \A e \in up : \A mask \in adapters[Cardinality({d \in up : d <= e})].mask :
            \A cpus \in GetMask(graph, graph.edges[e].target) : mask \subseteq cpus

(* Every call of init() comes to an end, by returning, by an exception or  *)
(* by an assertion, whatever the libraries answer.                         *)
InitTerminates == phase = "running" ~> phase # "running"

------------------------------------------------------------------------------
(* Claims of the source that the code does not keep; each is the subject   *)
(* of a run that finds it violated.                                        *)

(* mpi/init_graph.cc:44,53: a rank is attached to the machine it runs on,  *)
(* or into the hwloc tree of this machine if it runs here.                 *)
ProcsOnOwnMachine ==
  InitDone /\ Ran("mpi") => \A i \in Ranks : \A p \in Parents(RankVertex(i)) :
    \/ p = graph.ids[<<"machine", ProcName[i]>>]
    \/ /\ ProcName[i] = ProcName[Me]
       /\ \E k \in DOMAIN graph.vertices[p].adapters :
            graph.vertices[p].adapters[k].of[1] = "hwloc"

(* nvml_impl.cc:122: the vertex of an NVIDIA device is a PCIDevice when    *)
(* the module finds it.                                                    *)
NvmlAssertionHolds == phase = "aborted" => current # "nvml"

(* rocm_impl.cc:117: a device is associated with the graph node of its     *)
(* own PCI address.                                                        *)
RocmDevicesOnTheirVertex ==
  \A v \in Vertices : \A k \in DOMAIN graph.vertices[v].adapters :
    LET a == graph.vertices[v].adapters[k]
    IN a.of[1] = "rocm" /\ a.of[2] \in DOMAIN RocmDevs =>
         v = RocmVertexOf(a.of[2])
==============================================================================

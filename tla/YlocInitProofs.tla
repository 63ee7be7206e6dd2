--------------------------- MODULE YlocInitProofs ---------------------------
(***************************************************************************)
(* Invariants of init() for every platform: any topology, any number of    *)
(* devices, ranks and hosts, any set of built-in and enabled modules, any  *)
(* outcome of the library calls, and any number of calls of init().        *)
(***************************************************************************)
EXTENDS YlocInit, GraphProofs, SequenceTheorems, WellFoundedInduction

GoodY(g) == Good(Ids, Adapters, Descriptions, g)
GrowsY(g, h) == Grows(Ids, Adapters, Descriptions, g, h)

------------------------------------------------------------------------------
(* The component types the modules assign exist.                           *)
LEMMA AssignedTypes ==
  {"Node", "Misc", "GPU", "MPIProcess"} \subseteq Types
<1>1. {<<"Node", "Component">>, <<"Misc", "Component">>, <<"GPU", "Accelerator">>,
       <<"MPIProcess", "LogicalComponent">>} \subseteq Inherits
  BY DEF Inherits
<1> QED BY <1>1 DEF Types

LEMMA HwlocTypeInTypes ==
  ASSUME NEW o \in Objects
  PROVE  HwlocType(o) \in Types
<1>1. {<<"L1DataCache", "L1Cache">>, <<"L2DataCache", "L2Cache">>,
       <<"L3DataCache", "L3Cache">>, <<"L4DataCache", "L4Cache">>, <<"DataCache", "Cache">>,
       <<"L1InstructionCache", "L1Cache">>, <<"L2InstructionCache", "L2Cache">>,
       <<"L3InstructionCache", "L3Cache">>, <<"Memory", "Storage">>,
       <<"LogicalGPU", "LogicalAccelerator">>, <<"LogicalAccelerator", "Component">>,
       <<"Misc", "Component">>, <<"PhysicalCore", "CPUCore">>, <<"LogicalCore", "CPUCore">>,
       <<"Node", "Component">>, <<"Bridge", "Component">>, <<"PCIDevice", "Component">>}
        \subseteq Inherits
  BY DEF Inherits
<1>2. {"L1DataCache", "L2DataCache", "L3DataCache", "L4DataCache", "DataCache",
       "L1InstructionCache", "L2InstructionCache", "L3InstructionCache", "Memory",
       "LogicalGPU", "LogicalAccelerator", "Misc", "PhysicalCore", "LogicalCore",
       "Node", "Bridge", "PCIDevice"} \subseteq Types
  BY <1>1 DEF Types
<1>3. ObjType[o] \in DOMAIN YlocTypeOf BY TopologyConstants
<1>4. \A t \in DOMAIN YlocTypeOf : YlocTypeOf[t] \in Types
  BY <1>2 DEF YlocTypeOf
<1> QED BY <1>3, <1>4 DEF HwlocType

(* The bases of a class are declared classes.                              *)
LEMMA BasesAreTypes ==
  \A p \in Inherits : p[2] \in Types
<1>1. {"Component", "Compute", "CPUCore", "Storage", "Memory", "Cache", "PersistentStorage",
       "DataCache", "InstructionCache", "UnifiedCache", "L1Cache", "L2Cache", "L3Cache",
       "L4Cache", "PCIDevice", "LogicalAccelerator", "Accelerator", "GPU", "InputOutput",
       "Link", "LogicalEdgeType", "LogicalComponent"} \subseteq Types
  <2>1. {<<"Compute", "Component">>, <<"CPUCore", "Compute">>, <<"Storage", "Component">>,
         <<"Memory", "Storage">>, <<"Cache", "Storage">>, <<"PersistentStorage", "Storage">>,
         <<"DataCache", "Cache">>, <<"InstructionCache", "Cache">>,
         <<"UnifiedCache", "DataCache">>, <<"L1Cache", "Cache">>, <<"L2Cache", "Cache">>,
         <<"L3Cache", "Cache">>, <<"L4Cache", "Cache">>, <<"PCIDevice", "Component">>,
         <<"LogicalAccelerator", "Component">>, <<"Accelerator", "PCIDevice">>,
         <<"GPU", "Accelerator">>, <<"InputOutput", "Component">>, <<"Link", "Component">>,
         <<"LogicalEdgeType", "Component">>, <<"LogicalComponent", "Component">>}
          \subseteq Inherits
    BY DEF Inherits
  <2> QED BY <2>1 DEF Types
<1>2. \A p \in Inherits : p[2] \in
      {"Component", "Compute", "CPUCore", "Storage", "Memory", "Cache", "PersistentStorage",
       "DataCache", "InstructionCache", "UnifiedCache", "L1Cache", "L2Cache", "L3Cache",
       "L4Cache", "PCIDevice", "LogicalAccelerator", "Accelerator", "GPU", "InputOutput",
       "Link", "LogicalEdgeType", "LogicalComponent"}
  BY DEF Inherits
<1> QED BY <1>1, <1>2

(* A set of classes that has every class derived from one of its members   *)
(* has no member above a class outside it.                                 *)
LEMMA OutsideDerived ==
  ASSUME NEW P, \A p \in Inherits : p[2] \in P => p[1] \in P,
         NEW t \in Types, t \notin P
  PROVE  Ancestors[t] \cap P = {}
<1> DEFINE Ok(S) == S \subseteq Types /\ S \cap P = {}
<1>1. ASSUME NEW S, Ok(S) PROVE Ok(WithBases(S))
  <2> SUFFICES ASSUME NEW u \in S, NEW b \in Bases[u] PROVE b \in Types /\ b \notin P
    BY <1>1 DEF WithBases
  <2>1. PICK p \in Inherits : p[1] = u /\ p[2] = b BY <1>1 DEF Bases
  <2> QED BY <1>1, <2>1, BasesAreTypes
<1>2. Ok({t}) OBVIOUS
<1> DEFINE S1 == WithBases({t})
           S2 == WithBases(S1)
           S3 == WithBases(S2)
           S4 == WithBases(S3)
           S5 == WithBases(S4)
<1> HIDE DEF Ok
<1>3. Ok(S1) BY <1>1, <1>2
<1> HIDE DEF S1
<1>4. Ok(S2) BY <1>1, <1>3
<1> HIDE DEF S2
<1>5. Ok(S3) BY <1>1, <1>4
<1> HIDE DEF S3
<1>6. Ok(S4) BY <1>1, <1>5
<1> HIDE DEF S4
<1>7. Ok(S5) BY <1>1, <1>6
<1>8. Ancestors[t] = S5 BY DEF Ancestors, S1, S2, S3, S4
<1> QED BY <1>7, <1>8 DEF Ok

PciClasses == {"PCIDevice", "Accelerator", "GPU", "FPGA", "GPUCore", "GPUMemory",
               "NetworkDevice"}

(* Only the objects hwloc calls PCI devices are typed as one.              *)
LEMMA PciObjectsHaveAddress ==
  ASSUME NEW o \in Objects, IsA(HwlocType(o), "PCIDevice")
  PROVE  ObjType[o] = "PCI_DEVICE" /\ BdfOf[o] \in Bdfs
<1>1. \A p \in Inherits : p[2] \in PciClasses => p[1] \in PciClasses
  BY DEF Inherits, PciClasses
<1>2. HwlocType(o) \in PciClasses
  BY <1>1, OutsideDerived, HwlocTypeInTypes DEF IsA, PciClasses
<1>3. \A t \in DOMAIN YlocTypeOf : YlocTypeOf[t] \in PciClasses => t = "PCI_DEVICE"
  BY DEF YlocTypeOf, PciClasses
<1>4. ObjType[o] \in DOMAIN YlocTypeOf BY TopologyConstants
<1>5. ObjType[o] = "PCI_DEVICE" BY <1>2, <1>3, <1>4 DEF HwlocType
<1> QED BY <1>5, TopologyConstants

(* The identifiers, adapters and descriptions the modules build.           *)
LEMMA PrefixOfHost ==
  ASSUME NEW h \in Hosts, NEW n \in 1..3
  PROVE  Truncate(h, n) \in Prefixes
  BY DEF Prefixes

LEMMA IdsOf ==
  /\ \A h \in Hosts : <<"machine", h>> \in Ids
  /\ \A b \in Bdfs : <<"bdfid", b>> \in Ids
  /\ \A i \in Ranks : <<"mpi_rank", i>> \in Ids
  /\ \A p \in Prefixes : <<"system", p>> \in Ids
  BY DEF Ids

LEMMA AdaptersOf ==
  ASSUME NEW mask \in SUBSET SUBSET CPU
  PROVE  /\ \A o \in Objects : Adapter("hwloc", o, mask) \in Adapters
         /\ \A i \in Ranks : Adapter("mpi", i, mask) \in Adapters
         /\ \A i \in Devs : Adapter("nvml", i, mask) \in Adapters
         /\ \A i \in Devs : Adapter("rocm", i, mask) \in Adapters
         /\ \A n \in Hosts \cup Prefixes : Adapter("supermuc", n, mask) \in Adapters
  BY DEF Adapter, Adapters, Natives

LEMMA DescriptionsOf ==
  /\ \A n \in Hosts \cup Prefixes : <<"name", n>> \in Descriptions
  /\ \A o \in Objects : <<"hwloc", HwlocToString(o)>> \in Descriptions
  /\ \A i \in Devs : <<"rocm", i>> \in Descriptions
<1>1. \A o \in Objects : HwlocToString(o) = "OSDev" \/ HwlocToString(o) = ObjType[o]
  BY Zenon DEF HwlocToString
<1> QED BY <1>1 DEF Descriptions

------------------------------------------------------------------------------
(* h is g with other properties at some of its vertices.                   *)
Touches(g, h) == GrowsY(g, h) /\ SameShape(g, h)

LEMMA GrowsYTransitive ==
  ASSUME NEW f, NEW g, NEW h, GoodY(f), GrowsY(f, g), GrowsY(g, h)
  PROVE  GrowsY(f, h)
  BY GrowsTransitive DEF GoodY, GrowsY

LEMMA GrowsYReflexive ==
  ASSUME NEW g, GoodY(g)
  PROVE  GrowsY(g, g)
  BY GrowsReflexive DEF GoodY, GrowsY

LEMMA GrowsYGood ==
  ASSUME NEW g, NEW h, GrowsY(g, h)
  PROVE  GoodY(h)
  BY DEF GoodY, GrowsY, Grows

(* A descriptor stays valid when the graph grows.                          *)
LEMMA DescriptorsKept ==
  ASSUME NEW g, NEW h, GoodY(g), GrowsY(g, h), NEW v \in 1..Len(g.vertices)
  PROVE  v \in 1..Len(h.vertices)
  BY DEF GoodY, GrowsY, Grows, Good, GraphType, Keeps

LEMMA VertexRange ==
  ASSUME NEW g, GoodY(g)
  PROVE  DOMAIN g.vertices = 1..Len(g.vertices) /\ Len(g.vertices) \in Nat
  BY DEF GoodY, Good, GraphType

LEMMA TouchesTransitive ==
  ASSUME NEW f, NEW g, NEW h, GoodY(f), Touches(f, g), Touches(g, h)
  PROVE  Touches(f, h)
<1>1. GrowsY(f, h) BY GrowsYTransitive DEF Touches
<1>2. SameShape(f, h) BY DEF Touches, SameShape
<1> QED BY <1>1, <1>2 DEF Touches

LEMMA TouchesKeepsRange ==
  ASSUME NEW g, NEW h, Touches(g, h)
  PROVE  /\ GoodY(h) /\ 1..Len(h.vertices) = 1..Len(g.vertices)
         /\ h.ids = g.ids /\ h.root = g.root
  BY GrowsYGood DEF Touches, SameShape

(* The assignments the modules make to a vertex.                           *)
LEMMA AssignmentsTouch ==
  ASSUME NEW g, GoodY(g), NEW v \in 1..Len(g.vertices)
  PROVE  /\ \A a \in Adapters : Touches(g, AddAdapter(g, v, a))
         /\ \A t \in Types : Touches(g, SetType(g, v, t)) /\ Touches(g, TypeIfUnknown(g, v, t))
         /\ \A d \in Descriptions : /\ Touches(g, SetDescription(g, v, d))
                                    /\ Touches(g, DescribeIfEmpty(g, v, d))
  BY AddAdapterGrows, SetTypeGrows, TypeIfUnknownGrows, SetDescriptionGrows,
     DescribeIfEmptyGrows DEF GoodY, GrowsY, Touches

LEMMA AddVertexIdY ==
  ASSUME NEW g, GoodY(g), NEW id \in Ids
  PROVE  LET h == AddVertexId(g, id)
         IN GrowsY(g, h) /\ GoodY(h) /\ h.ids[id] \in 1..Len(h.vertices) /\ h.root = g.root
  BY AddVertexIdGrows, GrowsYGood DEF GoodY, GrowsY

LEMMA AddVertexY ==
  ASSUME NEW g, GoodY(g)
  PROVE  LET h == AddVertex(g)
         IN /\ GrowsY(g, h) /\ GoodY(h) /\ h.root = g.root
            /\ Len(g.vertices) + 1 \in 1..Len(h.vertices)
<1>1. Len(g.vertices) \in Nat BY VertexRange
<1> QED BY <1>1, AddVertexGrows, GrowsYGood DEF GoodY, GrowsY

LEMMA LinkY ==
  ASSUME NEW g, GoodY(g), NEW u \in 1..Len(g.vertices), NEW v \in 1..Len(g.vertices)
  PROVE  /\ GrowsY(g, Link(g, u, v)) /\ GoodY(Link(g, u, v))
         /\ Link(g, u, v).vertices = g.vertices
         /\ Link(g, u, v).ids = g.ids /\ Link(g, u, v).root = g.root
         /\ GrowsY(g, LinkOnce(g, u, v)) /\ GoodY(LinkOnce(g, u, v))
         /\ LinkOnce(g, u, v).vertices = g.vertices
         /\ LinkOnce(g, u, v).ids = g.ids /\ LinkOnce(g, u, v).root = g.root
  BY LinkGrows, LinkOnceGrows, GrowsYGood DEF GoodY, GrowsY

------------------------------------------------------------------------------
(* What each module does to the graph in one step makes it grow.           *)

(* The machine vertex of hwloc/init_graph.cc, which becomes the root.      *)
LEMMA MachineGrows ==
  ASSUME NEW g, GoodY(g)
  PROVE  LET id == <<"machine", GetHostName>>
             added == AddVertexId(g, id)
             vd == added.ids[id]
             described == SetRootVertex(SetDescription(added, vd, <<"name", GetHostName>>), vd)
             h == TypeIfUnknown(AddAdapter(described, vd, HwlocAdapter(MachineObj)),
                                vd, HwlocType(MachineObj))
         IN GrowsY(g, h) /\ vd \in 1..Len(h.vertices) /\ h.root = vd
<1> DEFINE id == <<"machine", GetHostName>>
           added == AddVertexId(g, id)
           vd == added.ids[id]
           named == SetDescription(added, vd, <<"name", GetHostName>>)
           rooted == SetRootVertex(named, vd)
           adapted == AddAdapter(rooted, vd, HwlocAdapter(MachineObj))
           h == TypeIfUnknown(adapted, vd, HwlocType(MachineObj))
<1>1. /\ id \in Ids /\ <<"name", GetHostName>> \in Descriptions
      /\ HwlocAdapter(MachineObj) \in Adapters /\ HwlocType(MachineObj) \in Types
  BY TopologyConstants, IdsOf, DescriptionsOf, AdaptersOf, HwlocTypeInTypes
     DEF HwlocAdapter
<1>2. GrowsY(g, added) /\ GoodY(added) /\ vd \in 1..Len(added.vertices)
  BY <1>1, AddVertexIdY
<1> HIDE DEF id, added, vd
<1>3. Touches(added, named) BY <1>1, <1>2, AssignmentsTouch
<1>4. GoodY(named) /\ vd \in 1..Len(named.vertices) BY <1>2, <1>3, TouchesKeepsRange
<1> HIDE DEF named
<1>5. /\ GrowsY(named, rooted) /\ GoodY(rooted) /\ rooted.root = vd
      /\ vd \in 1..Len(rooted.vertices)
  BY <1>4, SetRootGrows, GrowsYGood DEF GoodY, GrowsY
<1> HIDE DEF rooted
<1>6. Touches(rooted, adapted) BY <1>1, <1>5, AssignmentsTouch
<1>7. GoodY(adapted) /\ vd \in 1..Len(adapted.vertices) /\ adapted.root = vd
  BY <1>5, <1>6, TouchesKeepsRange
<1> HIDE DEF adapted
<1>8. Touches(adapted, h) BY <1>1, <1>7, AssignmentsTouch
<1>9. vd \in 1..Len(h.vertices) /\ h.root = vd BY <1>7, <1>8, TouchesKeepsRange
<1>10. GrowsY(g, h)
  <2>1. GrowsY(g, named) BY <1>2, <1>3, GrowsYTransitive DEF Touches
  <2>2. GrowsY(g, rooted) BY <2>1, <1>5, GrowsYTransitive
  <2>3. GrowsY(g, adapted) BY <2>2, <1>6, GrowsYTransitive DEF Touches
  <2> QED BY <2>3, <1>8, GrowsYTransitive DEF Touches
<1> QED BY <1>9, <1>10 DEF h, adapted, rooted, named, vd, added, id

(* One iteration of make_hwloc_graph.                                      *)
LEMMA AddChildGrows ==
  ASSUME NEW g, GoodY(g), NEW vd \in 1..Len(g.vertices), NEW o \in Objects
  PROVE  LET h == AddChild(g, vd, o)
         IN GrowsY(g, h) /\ ChildVertex(g, o) \in 1..Len(h.vertices) /\ h.root = g.root
<1> DEFINE added == ChildGraph(g, o)
           child == ChildVertex(g, o)
           described == DescribeIfEmpty(added, child, <<"hwloc", HwlocToString(o)>>)
           adapted == AddAdapter(described, child, HwlocAdapter(o))
           typed == TypeIfUnknown(adapted, child, HwlocType(o))
<1>1. /\ <<"hwloc", HwlocToString(o)>> \in Descriptions
      /\ HwlocAdapter(o) \in Adapters /\ HwlocType(o) \in Types
  BY TopologyConstants, DescriptionsOf, AdaptersOf, HwlocTypeInTypes DEF HwlocAdapter
<1>2. GrowsY(g, added) /\ GoodY(added) /\ child \in 1..Len(added.vertices)
        /\ added.root = g.root
  <2>1. CASE IsA(HwlocType(o), "PCIDevice")
    <3>1. BdfOf[o] \in Bdfs BY <2>1, PciObjectsHaveAddress
    <3> QED BY <2>1, <3>1, IdsOf, AddVertexIdY DEF ChildGraph, ChildVertex
  <2>2. CASE ~IsA(HwlocType(o), "PCIDevice")
    BY <2>2, AddVertexY DEF ChildGraph, ChildVertex
  <2> QED BY <2>1, <2>2
<1> HIDE DEF added, child
<1>3. Touches(added, described) BY <1>1, <1>2, AssignmentsTouch
<1>4. GoodY(described) /\ child \in 1..Len(described.vertices)
  BY <1>2, <1>3, TouchesKeepsRange
<1> HIDE DEF described
<1>5. Touches(described, adapted) BY <1>1, <1>4, AssignmentsTouch
<1>6. GoodY(adapted) /\ child \in 1..Len(adapted.vertices)
  BY <1>4, <1>5, TouchesKeepsRange
<1> HIDE DEF adapted
<1>7. Touches(adapted, typed) BY <1>1, <1>6, AssignmentsTouch
<1>8. Touches(added, typed) BY <1>2, <1>3, <1>5, <1>7, TouchesTransitive
<1>9. /\ GoodY(typed) /\ child \in 1..Len(typed.vertices) /\ typed.root = g.root
      /\ GrowsY(g, typed) /\ vd \in 1..Len(typed.vertices)
  BY <1>2, <1>8, TouchesKeepsRange, GrowsYTransitive, DescriptorsKept DEF Touches
<1> HIDE DEF typed
<1>10. /\ GrowsY(typed, Link(typed, vd, child))
       /\ Link(typed, vd, child).vertices = typed.vertices
       /\ Link(typed, vd, child).root = typed.root
  BY <1>9, LinkY
<1>11. GrowsY(g, Link(typed, vd, child)) BY <1>9, <1>10, GrowsYTransitive
<1>12. AddChild(g, vd, o) = Link(typed, vd, child)
  BY DEF AddChild, typed, adapted, described, added, child
<1> QED BY <1>9, <1>10, <1>11, <1>12 DEF child

(* The vertex and adapter of an NVIDIA device, and its type.               *)
LEMMA NvmlGrows ==
  ASSUME GoodY(graph), NEW h \in DOMAIN NvmlDevs
  PROVE  LET g == NvmlAttach(h)
             typed == SetType(g, NvmlVertex(h), "GPU")
         IN /\ GrowsY(graph, g) /\ g.root = graph.root
            /\ GrowsY(graph, typed) /\ typed.root = graph.root
            /\ NvmlVertex(h) \in 1..Len(typed.vertices)
<1> DEFINE id == <<"bdfid", NvmlBdfid(NvmlDevs[h])>>
           added == AddVertexId(graph, id)
           vd == added.ids[id]
           g == AddAdapter(added, vd, Adapter("nvml", h, {}))
<1>1. id \in Ids BY GpuConstants, IdsOf
<1>2. h \in Devs BY GpuConstants, PlatformConstants DEF Devs
<1>3. Adapter("nvml", h, {}) \in Adapters /\ "GPU" \in Types
  BY <1>2, AdaptersOf, AssignedTypes
<1>4. /\ GrowsY(graph, added) /\ GoodY(added) /\ vd \in 1..Len(added.vertices)
      /\ added.root = graph.root
  BY <1>1, AddVertexIdY
<1>5. NvmlAttach(h) = g BY DEF NvmlAttach
<1>6. NvmlVertex(h) = g.ids[id] BY <1>5 DEF NvmlVertex
<1> HIDE DEF id, added
<1>7. Touches(added, g) BY <1>3, <1>4, AssignmentsTouch
<1>8. /\ GoodY(g) /\ vd \in 1..Len(g.vertices) /\ g.root = graph.root
      /\ g.ids[id] = vd /\ GrowsY(graph, g)
  BY <1>4, <1>7, TouchesKeepsRange, GrowsYTransitive DEF Touches
<1> HIDE DEF g, vd
<1>9. Touches(g, SetType(g, vd, "GPU")) BY <1>3, <1>8, AssignmentsTouch
<1>10. LET typed == SetType(g, vd, "GPU")
       IN GrowsY(graph, typed) /\ typed.root = graph.root /\ vd \in 1..Len(typed.vertices)
  BY <1>8, <1>9, TouchesKeepsRange, GrowsYTransitive DEF Touches
<1> QED BY <1>5, <1>6, <1>8, <1>10

(* The vertex, adapter, description and type of an AMD device.             *)
LEMMA RocmGrows ==
  ASSUME NEW g, GoodY(g), NEW b \in Bdfs, NEW i \in Devs
  PROVE  LET id == <<"bdfid", b>>
             added == AddVertexId(g, id)
             vd == added.ids[id]
             described == SetDescription(AddAdapter(added, vd, Adapter("rocm", i, {})),
                                         vd, <<"rocm", i>>)
             h == SetType(described, vd, "GPU")
         IN GrowsY(g, h) /\ h.root = g.root /\ vd \in 1..Len(h.vertices)
<1> DEFINE id == <<"bdfid", b>>
           added == AddVertexId(g, id)
           vd == added.ids[id]
           adapted == AddAdapter(added, vd, Adapter("rocm", i, {}))
           described == SetDescription(adapted, vd, <<"rocm", i>>)
           h == SetType(described, vd, "GPU")
<1>1. /\ id \in Ids /\ Adapter("rocm", i, {}) \in Adapters
      /\ <<"rocm", i>> \in Descriptions /\ "GPU" \in Types
  BY IdsOf, AdaptersOf, DescriptionsOf, AssignedTypes
<1>2. /\ GrowsY(g, added) /\ GoodY(added) /\ vd \in 1..Len(added.vertices)
      /\ added.root = g.root
  BY <1>1, AddVertexIdY
<1> HIDE DEF id, added, vd
<1>3. Touches(added, adapted) BY <1>1, <1>2, AssignmentsTouch
<1>4. GoodY(adapted) /\ vd \in 1..Len(adapted.vertices) BY <1>2, <1>3, TouchesKeepsRange
<1> HIDE DEF adapted
<1>5. Touches(adapted, described) BY <1>1, <1>4, AssignmentsTouch
<1>6. GoodY(described) /\ vd \in 1..Len(described.vertices)
  BY <1>4, <1>5, TouchesKeepsRange
<1> HIDE DEF described
<1>7. Touches(described, h) BY <1>1, <1>6, AssignmentsTouch
<1>8. Touches(added, h) BY <1>2, <1>3, <1>5, <1>7, TouchesTransitive
<1>9. GrowsY(g, h) /\ h.root = g.root /\ vd \in 1..Len(h.vertices)
  BY <1>2, <1>8, TouchesKeepsRange, GrowsYTransitive DEF Touches
<1> QED BY <1>9 DEF h, described, adapted, vd, added, id

LEMMA InterconnectGrows ==
  ASSUME NEW g, GoodY(g), NEW u \in 1..Len(g.vertices), NEW v \in 1..Len(g.vertices)
  PROVE  GrowsY(g, Interconnect(g, u, v)) /\ Interconnect(g, u, v).root = g.root
<1> DEFINE f == AddEdge(g, u, v, "GPU_INTERCONNECT")
           h == AddEdge(f, v, u, "GPU_INTERCONNECT")
<1>1. GrowsY(g, f) /\ f.vertices = g.vertices /\ f.root = g.root
  BY AddEdgeGrows DEF EdgeTypes, GoodY, GrowsY
<1>2. GoodY(f) BY <1>1, GrowsYGood
<1>3. Interconnect(g, u, v) = h BY DEF Interconnect
<1> HIDE DEF f
<1>4. GrowsY(f, h) /\ h.root = f.root
  BY <1>1, <1>2, AddEdgeGrows DEF EdgeTypes, GoodY, GrowsY
<1>5. GrowsY(g, h) BY <1>1, <1>4, GrowsYTransitive
<1> QED BY <1>1, <1>3, <1>4, <1>5

(* make_supermuc_node, for a prefix of a host name or for a host.          *)
LEMMA SupermucNodeGrows ==
  ASSUME NEW g, GoodY(g), NEW id \in Ids, NEW t \in Types,
         NEW n \in Hosts \cup Prefixes
  PROVE  LET added == AddVertexId(g, id)
             vd == added.ids[id]
             h == AddAdapter(SetDescription(SetType(added, vd, t), vd, <<"name", n>>),
                             vd, Adapter("supermuc", n, {}))
         IN GrowsY(g, h) /\ GoodY(h) /\ h.root = g.root /\ h.ids[id] \in 1..Len(h.vertices)
<1> DEFINE added == AddVertexId(g, id)
           vd == added.ids[id]
           typed == SetType(added, vd, t)
           described == SetDescription(typed, vd, <<"name", n>>)
           h == AddAdapter(described, vd, Adapter("supermuc", n, {}))
<1>1. Adapter("supermuc", n, {}) \in Adapters /\ <<"name", n>> \in Descriptions
  BY AdaptersOf, DescriptionsOf
<1>2. /\ GrowsY(g, added) /\ GoodY(added) /\ vd \in 1..Len(added.vertices)
      /\ added.root = g.root
  BY AddVertexIdY
<1>3. vd = added.ids[id] OBVIOUS
<1> HIDE DEF added, vd
<1>4. Touches(added, typed) BY <1>2, AssignmentsTouch
<1>5. GoodY(typed) /\ vd \in 1..Len(typed.vertices) BY <1>2, <1>4, TouchesKeepsRange
<1> HIDE DEF typed
<1>6. Touches(typed, described) BY <1>1, <1>5, AssignmentsTouch
<1>7. GoodY(described) /\ vd \in 1..Len(described.vertices)
  BY <1>5, <1>6, TouchesKeepsRange
<1> HIDE DEF described
<1>8. Touches(described, h) BY <1>1, <1>7, AssignmentsTouch
<1>9. Touches(added, h) BY <1>2, <1>4, <1>6, <1>8, TouchesTransitive
<1>10. /\ GrowsY(g, h) /\ GoodY(h) /\ h.root = g.root
       /\ h.ids[id] \in 1..Len(h.vertices)
  BY <1>2, <1>3, <1>9, TouchesKeepsRange, GrowsYTransitive DEF Touches
<1> QED BY <1>10 DEF h, described, typed, vd, added

(* An identifier that names a vertex names the same one in a grown graph.  *)
LEMMA IdentifierKept ==
  ASSUME NEW g, NEW h, GoodY(g), GrowsY(g, h), NEW id \in Ids,
         g.ids[id] \in 1..Len(g.vertices)
  PROVE  h.ids[id] = g.ids[id] /\ h.ids[id] \in 1..Len(h.vertices)
<1>1. h.ids[id] = g.ids[id]
  BY VertexRange DEF GoodY, Good, GraphType, GrowsY, Grows, Keeps, NoVertex
<1> QED BY <1>1, DescriptorsKept

(* One iteration of make_supermuc_graph.                                   *)
LEMMA HostPathGrows ==
  ASSUME NEW g, GoodY(g), NEW host \in Hosts
  PROVE  GrowsY(g, HostPath(g, host)) /\ HostPath(g, host).root = g.root
<1> DEFINE column == Truncate(host, 3)
           rack == Truncate(host, 2)
           island == Truncate(host, 1)
           slotId == <<"machine", host>>
           columnId == <<"system", column>>
           rackId == <<"system", rack>>
           islandId == <<"system", island>>
           g1 == SlotNode(g, host)
           g2 == SystemNode(g1, column)
           g3 == SystemNode(g2, rack)
           nodes == SystemNode(g3, island)
           racked == LinkOnce(nodes, nodes.ids[islandId], nodes.ids[rackId])
           columned == LinkOnce(racked, nodes.ids[rackId], nodes.ids[columnId])
           h == LinkOnce(columned, nodes.ids[columnId], nodes.ids[slotId])
<1>1. /\ column \in Prefixes /\ rack \in Prefixes /\ island \in Prefixes
      /\ {slotId, columnId, rackId, islandId} \subseteq Ids
      /\ "Misc" \in Types /\ "Node" \in Types
  BY PrefixOfHost, IdsOf, AssignedTypes
<1>2. HostPath(g, host) = h BY DEF HostPath
<1> HIDE DEF column, rack, island
<1>3. GrowsY(g, g1) /\ GoodY(g1) /\ g1.root = g.root /\ g1.ids[slotId] \in 1..Len(g1.vertices)
  BY <1>1, SupermucNodeGrows DEF SlotNode
<1> HIDE DEF g1
<1>4. /\ GrowsY(g1, g2) /\ GoodY(g2) /\ g2.root = g1.root
      /\ g2.ids[columnId] \in 1..Len(g2.vertices)
  BY <1>1, <1>3, SupermucNodeGrows DEF SystemNode
<1> HIDE DEF g2
<1>5. /\ GrowsY(g2, g3) /\ GoodY(g3) /\ g3.root = g2.root
      /\ g3.ids[rackId] \in 1..Len(g3.vertices)
  BY <1>1, <1>4, SupermucNodeGrows DEF SystemNode
<1> HIDE DEF g3
<1>6. /\ GrowsY(g3, nodes) /\ GoodY(nodes) /\ nodes.root = g3.root
      /\ nodes.ids[islandId] \in 1..Len(nodes.vertices)
  BY <1>1, <1>5, SupermucNodeGrows DEF SystemNode
<1> HIDE DEF nodes, slotId, columnId, rackId, islandId
<1>7. GrowsY(g2, nodes) BY <1>4, <1>5, <1>6, GrowsYTransitive
<1>8. GrowsY(g1, nodes) BY <1>3, <1>4, <1>7, GrowsYTransitive
<1>9. GrowsY(g, nodes) /\ nodes.root = g.root
  BY <1>3, <1>4, <1>5, <1>6, <1>8, GrowsYTransitive
<1>10. /\ nodes.ids[slotId] \in 1..Len(nodes.vertices)
       /\ nodes.ids[columnId] \in 1..Len(nodes.vertices)
       /\ nodes.ids[rackId] \in 1..Len(nodes.vertices)
  BY <1>1, <1>3, <1>4, <1>5, <1>6, <1>7, <1>8, IdentifierKept
<1>11. /\ GrowsY(nodes, racked) /\ GoodY(racked)
       /\ racked.vertices = nodes.vertices /\ racked.root = nodes.root
  BY <1>6, <1>10, LinkY
<1> HIDE DEF racked
<1>12. /\ GrowsY(racked, columned) /\ GoodY(columned)
       /\ columned.vertices = nodes.vertices /\ columned.root = nodes.root
  BY <1>10, <1>11, LinkY
<1> HIDE DEF columned
<1>13. GrowsY(columned, h) /\ h.root = nodes.root
  BY <1>10, <1>12, LinkY
<1>14. GrowsY(g, h)
  BY <1>9, <1>11, <1>12, <1>13, GrowsYTransitive
<1> QED BY <1>2, <1>9, <1>13, <1>14

(* The vertex of a rank and that of its machine.                           *)
LEMMA AddRankGrows ==
  ASSUME NEW g, GoodY(g), mpi.rank \in Ranks, env \in Envs
  PROVE  LET h == AddRank(g)
         IN /\ GrowsY(g, h) /\ GoodY(h) /\ h.root = g.root
            /\ h.ids[RankId] \in 1..Len(h.vertices)
            /\ h.ids[MachineId] \in 1..Len(h.vertices)
            /\ RankId \in Ids /\ MachineId \in Ids
<1> DEFINE f == AddVertexId(g, MachineId)
           added == AddVertexId(f, RankId)
           vd == added.ids[RankId]
           a == Adapter("mpi", mpi.rank, IF Pinned THEN {Mask} ELSE {})
           typed == SetType(added, vd, "MPIProcess")
           h == AddAdapter(typed, vd, a)
<1>1. RankId \in Ids /\ MachineId \in Ids
  BY IdsOf, PlatformConstants DEF RankId, MachineId, Host
<1>2. Mask \subseteq CPU BY MpiConstants DEF Mask, MaskOf, Bits
<1>3. a \in Adapters /\ "MPIProcess" \in Types BY <1>2, AdaptersOf, AssignedTypes
<1>4. AddRank(g) = h BY DEF AddRank
<1>5. /\ GrowsY(g, f) /\ GoodY(f) /\ f.root = g.root
      /\ f.ids[MachineId] \in 1..Len(f.vertices)
  BY <1>1, AddVertexIdY
<1> HIDE DEF f, a
<1>6. /\ GrowsY(f, added) /\ GoodY(added) /\ added.root = f.root
      /\ vd \in 1..Len(added.vertices)
  BY <1>1, <1>5, AddVertexIdY
<1>7. added.ids[MachineId] \in 1..Len(added.vertices)
  BY <1>1, <1>5, <1>6, IdentifierKept
<1>8. vd = added.ids[RankId] OBVIOUS
<1> HIDE DEF added, vd
<1>9. Touches(added, typed) BY <1>3, <1>6, AssignmentsTouch
<1>10. GoodY(typed) /\ vd \in 1..Len(typed.vertices) BY <1>6, <1>9, TouchesKeepsRange
<1> HIDE DEF typed
<1>11. Touches(typed, h) BY <1>3, <1>10, AssignmentsTouch
<1>12. Touches(added, h) BY <1>6, <1>9, <1>11, TouchesTransitive
<1>13. GrowsY(g, h)
  BY <1>5, <1>6, <1>12, GrowsYTransitive DEF Touches
<1> QED BY <1>1, <1>4, <1>5, <1>6, <1>7, <1>8, <1>12, <1>13, TouchesKeepsRange

------------------------------------------------------------------------------
(* The inductive invariant.  None of the three properties is inductive by  *)
(* itself: an identifier stays sound because the descriptors the modules   *)
(* hold are, and those because the graph only grows.                       *)
IInv == TypeOK /\ IdentifiersSound /\ LocalsSound

(* The same, by the part of the state that each action changes.            *)
GraphInv == GoodY(graph) /\ RootSound
ControlInv ==
  /\ env \in Envs
  /\ phase \in {"idle", "running", "threw", "aborted"}
  /\ current \in Modules \cup {"none"}
  /\ status \in [Modules -> Statuses \cup {"none"}]
WalkInv == HwlocTypeOK /\ WalkSound
GpuInv == GpuTypeOK /\ GpuSound
MpiInv == MpiTypeOK /\ MpiSound
LoopInv == todo \in Seq(Modules) /\ inits \in 0..MaxInits

LEMMA Parts ==
  IInv <=> /\ GraphInv /\ ControlInv /\ WalkInv /\ GpuInv /\ MpiInv
           /\ SupermucTypeOK /\ LoopInv
  BY DEF IInv, TypeOK, InterfaceTypeOK, IdentifiersSound, LocalsSound, GraphInv, GoodY, Good,
         ControlInv, WalkInv, GpuInv, MpiInv, LoopInv

(* A graph that grows and keeps its root keeps GraphInv.                   *)
LEMMA GraphGrows ==
  ASSUME GraphInv, GrowsY(graph, graph'), graph'.root = graph.root
  PROVE  GraphInv'
<1>1. GoodY(graph)' BY GrowsYGood DEF GoodY
<1>2. RootSound'
  BY <1>1, GrowsYGood, VertexRange, DescriptorsKept DEF GraphInv, RootSound
<1> QED BY <1>1, <1>2 DEF GraphInv

LEMMA GraphSame ==
  ASSUME GraphInv, UNCHANGED graph
  PROVE  GraphInv' /\ GrowsY(graph, graph')
  BY GrowsYReflexive DEF GraphInv, GoodY, RootSound

(* The descriptors a module holds stay valid while others add to the graph.*)
LEMMA LocalsFrame ==
  ASSUME GraphInv, GrowsY(graph, graph')
  PROVE  /\ WalkInv /\ UNCHANGED walk => WalkInv'
         /\ GpuInv /\ UNCHANGED gpu => GpuInv'
         /\ MpiInv /\ UNCHANGED mpi => MpiInv'
<1>1. /\ GoodY(graph) /\ GoodY(graph')
      /\ DOMAIN graph.vertices = 1..Len(graph.vertices)
      /\ DOMAIN graph'.vertices = 1..Len(graph'.vertices)
  BY GrowsYGood, VertexRange DEF GraphInv
<1>2. \A v \in DOMAIN graph.vertices : v \in DOMAIN graph'.vertices
  BY <1>1, DescriptorsKept
<1>3. ASSUME WalkInv, UNCHANGED walk PROVE WalkInv'
  BY <1>2, <1>3 DEF WalkInv, HwlocTypeOK, WalkSound
<1>4. ASSUME GpuInv, UNCHANGED gpu PROVE GpuInv'
  BY <1>2, <1>4 DEF GpuInv, GpuTypeOK, GpuSound
<1>5. ASSUME MpiInv, UNCHANGED mpi PROVE MpiInv'
  <2>1. ASSUME mpi.stage = "descend" PROVE graph'.ids[RankId] \in DOMAIN graph'.vertices
    <3>1. mpi.rank \in Ranks
      BY <1>5, <2>1, PlatformConstants DEF MpiInv, MpiTypeOK, MpiSound, Ranks
    <3>2. RankId \in Ids BY <3>1, IdsOf DEF RankId
    <3> QED BY <1>1, <1>5, <2>1, <3>2, IdentifierKept DEF MpiInv, MpiSound
  <2>2. MpiTypeOK' BY <1>5 DEF MpiInv, MpiTypeOK
  <2>3. MpiSound'
    BY <1>2, <1>5, <2>1 DEF MpiInv, MpiSound, RankId
  <2> QED BY <2>2, <2>3 DEF MpiInv
<1> QED BY <1>3, <1>4, <1>5

(* What the module actions do to the state of init() itself.               *)
LEMMA ControlSteps ==
  ASSUME ControlInv,
         \/ Stay
         \/ \E m \in Modules, s \in Statuses : Return(m, s)
         \/ Leave("threw") \/ Leave("aborted")
  PROVE  ControlInv'
<1>1. CASE Stay BY <1>1 DEF Stay, ControlInv
<1>2. ASSUME NEW m \in Modules, NEW s \in Statuses, Return(m, s) PROVE ControlInv'
  BY <1>2 DEF Return, ControlInv
<1>3. CASE Leave("threw") \/ Leave("aborted") BY <1>3 DEF Leave, ControlInv
<1> QED BY <1>1, <1>2, <1>3

------------------------------------------------------------------------------
(* hwloc: the active calls of make_hwloc_graph hold existing vertices.     *)
LEMMA HwlocStep ==
  ASSUME GraphInv, ControlInv, WalkInv, HwlocNext
  PROVE  GraphInv' /\ GrowsY(graph, graph') /\ ControlInv' /\ WalkInv'
<1>1. walk \in Seq(Calls) /\ \A i \in DOMAIN walk : walk[i].vd \in DOMAIN graph.vertices
  BY DEF WalkInv, HwlocTypeOK, WalkSound
<1>2. GoodY(graph) /\ DOMAIN graph.vertices = 1..Len(graph.vertices)
  BY VertexRange DEF GraphInv
<1>3. CASE HwlocVersionMismatch
  <2>1. GraphInv' /\ GrowsY(graph, graph') BY <1>3, GraphSame DEF HwlocVersionMismatch
  <2>2. ControlInv'
    BY <1>3, ControlSteps DEF HwlocVersionMismatch, Modules, Statuses
  <2>3. WalkInv' BY <1>3, <2>1, LocalsFrame DEF HwlocVersionMismatch
  <2> QED BY <2>1, <2>2, <2>3
<1>4. CASE HwlocAddMachine
  <2> DEFINE id == <<"machine", GetHostName>>
             vd == AddVertexId(graph, id).ids[id]
  <2>1. GrowsY(graph, graph') /\ vd \in 1..Len(graph'.vertices) /\ graph'.root = vd
    BY <1>2, <1>4, MachineGrows DEF HwlocAddMachine
  <2>2. walk' = <<[obj |-> MachineObj, vd |-> vd, next |-> 1]>> /\ Stay
    BY <1>4 DEF HwlocAddMachine
  <2> HIDE DEF vd
  <2>3. GoodY(graph') /\ DOMAIN graph'.vertices = 1..Len(graph'.vertices)
          /\ Len(graph'.vertices) \in Nat
    BY <2>1, GrowsYGood, VertexRange
  <2>4. GraphInv' BY <2>1, <2>3 DEF GraphInv, RootSound, GoodY
  <2>5. [obj |-> MachineObj, vd |-> vd, next |-> 1] \in Calls
    BY <2>1, <2>3, TopologyConstants DEF Calls
  <2>6. WalkInv'
    BY <2>1, <2>2, <2>3, <2>5 DEF WalkInv, HwlocTypeOK, WalkSound
  <2> QED BY <2>1, <2>2, <2>4, <2>6, ControlSteps
<1>5. CASE HwlocVisitChild
  <2> DEFINE child == Children[Top.obj][Top.next]
             cvd == ChildVertex(graph, child)
             call == [obj |-> child, vd |-> cvd, next |-> 1]
             w == [walk EXCEPT ![Len(walk)].next = @ + 1]
  <2>1. /\ Len(walk) \in DOMAIN walk /\ Top \in Calls /\ Top.vd \in 1..Len(graph.vertices)
        /\ Len(walk) \in Nat
    BY <1>1, <1>2, <1>5 DEF HwlocVisitChild, Top
  <2>2. child \in Objects
    BY <2>1, <1>5, TopologyConstants DEF HwlocVisitChild, HasNextChild, Calls
  <2>3. graph' = AddChild(graph, Top.vd, child) /\ walk' = Append(w, call) /\ Stay
    BY <1>5 DEF HwlocVisitChild
  <2>4. /\ GrowsY(graph, graph') /\ cvd \in 1..Len(graph'.vertices)
        /\ graph'.root = graph.root
    BY <1>2, <2>1, <2>2, <2>3, AddChildGrows
  <2>5. GraphInv' BY <2>4, GraphGrows
  <2>6. DOMAIN graph'.vertices = 1..Len(graph'.vertices) /\ Len(graph'.vertices) \in Nat
    BY <2>4, GrowsYGood, VertexRange
  <2>7. call \in Calls BY <2>2, <2>4, <2>6 DEF Calls
  <2>8. w \in Seq(Calls) /\ Len(w) = Len(walk) /\ \A i \in DOMAIN w : w[i].vd = walk[i].vd
    <3> DEFINE top == [Top EXCEPT !.next = @ + 1]
    <3>1. top \in Calls BY <2>1 DEF Calls
    <3>2. w = [walk EXCEPT ![Len(walk)] = top] BY DEF Top
    <3>3. w \in Seq(Calls) /\ Len(w) = Len(walk)
      <4> HIDE DEF top, w
      <4> QED BY <1>1, <2>1, <3>1, <3>2, ExceptSeq
    <3>4. \A i \in DOMAIN w : w[i].vd = walk[i].vd
      BY <1>1, <2>1, <3>2 DEF Top, Calls
    <3> QED BY <3>3, <3>4
  <2> HIDE DEF call, w, cvd, child
  <2>9. walk' \in Seq(Calls) BY <2>3, <2>7, <2>8
  <2>10. ASSUME NEW i \in DOMAIN walk' PROVE walk'[i].vd \in DOMAIN graph'.vertices
    <3>1. CASE i \in DOMAIN walk
      <4>1. walk'[i].vd = walk[i].vd BY <3>1, <1>1, <2>3, <2>7, <2>8
      <4> QED BY <3>1, <4>1, <1>1, <1>2, <2>4, <2>6, DescriptorsKept
    <3>2. CASE i \notin DOMAIN walk
      <4>1. walk'[i] = call BY <3>2, <1>1, <2>3, <2>7, <2>8
      <4> QED BY <4>1, <2>4, <2>6 DEF call
    <3> QED BY <3>1, <3>2
  <2>11. WalkInv' BY <2>9, <2>10 DEF WalkInv, HwlocTypeOK, WalkSound
  <2> QED BY <2>3, <2>4, <2>5, <2>11, ControlSteps
<1>6. CASE HwlocAscend
  <2>1. GraphInv' /\ GrowsY(graph, graph') BY <1>6, GraphSame DEF HwlocAscend
  <2>2. Stay /\ walk' = SubSeq(walk, 1, Len(walk) - 1) /\ Len(walk) > 1 /\ graph' = graph
    BY <1>6 DEF HwlocAscend
  <2>3. /\ walk' \in Seq(Calls)
        /\ \A i \in DOMAIN walk' : i \in DOMAIN walk /\ walk'[i] = walk[i]
    BY <1>1, <2>2
  <2>4. WalkInv' BY <1>1, <2>2, <2>3 DEF WalkInv, HwlocTypeOK, WalkSound
  <2> QED BY <2>1, <2>2, <2>4, ControlSteps
<1>7. CASE HwlocReturn
  <2>1. GraphInv' /\ GrowsY(graph, graph') BY <1>7, GraphSame DEF HwlocReturn
  <2>2. ControlInv' BY <1>7, ControlSteps DEF HwlocReturn, Modules, Statuses
  <2>3. WalkInv' BY <1>7 DEF HwlocReturn, WalkInv, HwlocTypeOK, WalkSound
  <2> QED BY <2>1, <2>2, <2>3
<1> QED BY <1>3, <1>4, <1>5, <1>6, <1>7 DEF HwlocNext

(* The locals of the GPU modules as facts about one record.                *)
LEMMA GpuFacts ==
  ASSUME GpuInv
  PROVE  /\ gpu \in [stage : GpuStages, count : 0..MaxDevs, next : Nat \ {0},
                     vertices : Seq(Nat \ {0}), devices : Seq(0..MaxDevs),
                     device : 0..MaxDevs, bdfid : SUBSET Bdfs,
                     src : Nat \ {0}, dst : Nat \ {0}]
         /\ gpu.count \in Nat /\ gpu.next \in Nat \ {0} /\ gpu.src \in Nat \ {0}
         /\ gpu.dst \in Nat \ {0}
         /\ gpu.vertices \in Seq(Nat \ {0}) /\ DOMAIN gpu.vertices = 1..gpu.count
         /\ gpu.devices \in Seq(0..MaxDevs) /\ DOMAIN gpu.devices = 1..gpu.count
  BY PlatformConstants DEF GpuInv, GpuTypeOK, GpuSound

(* vertices[i] and devices[i] of the iteration are written.                *)
LEMMA DeviceStored ==
  ASSUME GraphInv, GpuInv, GrowsY(graph, graph'), gpu.stage = "devices",
         gpu.next <= gpu.count, NEW vd \in 1..Len(graph'.vertices),
         NEW device \in 0..MaxDevs, NEW bdfid \in SUBSET Bdfs, NEW devices \in Seq(0..MaxDevs),
         Len(devices) = gpu.count,
         gpu' = [gpu EXCEPT !.next = gpu.next + 1, !.device = device, !.bdfid = bdfid,
                            !.vertices = [gpu.vertices EXCEPT ![gpu.next] = vd],
                            !.devices = devices]
  PROVE  GpuInv'
<1> DEFINE vs == [gpu.vertices EXCEPT ![gpu.next] = vd]
<1>1. GoodY(graph) /\ GoodY(graph')
      /\ DOMAIN graph.vertices = 1..Len(graph.vertices) /\ Len(graph.vertices) \in Nat
      /\ DOMAIN graph'.vertices = 1..Len(graph'.vertices) /\ Len(graph'.vertices) \in Nat
  BY GrowsYGood, VertexRange DEF GraphInv
<1>2. /\ vs \in Seq(Nat \ {0}) /\ Len(vs) = gpu.count
      /\ \A i \in 1..gpu.count : vs[i] = IF i = gpu.next THEN vd ELSE gpu.vertices[i]
  <2>1. gpu.next \in 1..Len(gpu.vertices) /\ vd \in Nat \ {0} /\ Len(gpu.vertices) = gpu.count
    BY <1>1, GpuFacts DEF GpuInv, GpuSound
  <2> QED BY <2>1, GpuFacts, ExceptSeq
<1> HIDE DEF vs
<1>3. /\ gpu'.stage = "devices" /\ gpu'.count = gpu.count /\ gpu'.next = gpu.next + 1
      /\ gpu'.vertices = vs /\ gpu'.devices = devices
      /\ gpu'.src = gpu.src /\ gpu'.dst = gpu.dst
  BY GpuFacts DEF vs
<1>4. GpuTypeOK'
  <2>1. gpu.next + 1 \in Nat \ {0} BY GpuFacts
  <2>2. gpu' = [gpu EXCEPT !.next = gpu.next + 1, !.device = device, !.bdfid = bdfid,
                           !.vertices = vs, !.devices = devices]
    BY DEF vs
  <2>3. gpu \in [stage : GpuStages, count : 0..MaxDevs, next : Nat \ {0},
                 vertices : Seq(Nat \ {0}), devices : Seq(0..MaxDevs),
                 device : 0..MaxDevs, bdfid : SUBSET Bdfs,
                 src : Nat \ {0}, dst : Nat \ {0}]
    BY GpuFacts
  <2>4. vs \in Seq(Nat \ {0}) BY <1>2
  <2> HIDE DEF vs
  <2> QED BY <2>1, <2>2, <2>3, <2>4 DEF GpuTypeOK
<1>5. ASSUME NEW i \in 1..gpu.count, i < gpu.next + 1
      PROVE  vs[i] \in DOMAIN graph'.vertices
  <2>1. CASE i = gpu.next BY <2>1, <1>1, <1>2
  <2>2. CASE i # gpu.next
    <3>1. i < gpu.next BY <2>2, <1>5, GpuFacts
    <3>2. gpu.vertices[i] \in 1..Len(graph.vertices)
      BY <3>1, <1>1 DEF GpuInv, GpuSound
    <3> QED BY <3>2, <2>2, <1>1, <1>2, DescriptorsKept
  <2> QED BY <2>1, <2>2
<1>6. GpuSound'
  <2>1. gpu.next + 1 <= gpu.count + 1 BY GpuFacts
  <2> QED BY <1>2, <1>3, <1>5, <2>1 DEF GpuInv, GpuSound
<1> QED BY <1>4, <1>6 DEF GpuInv

(* nvml and rocm: vertices[] holds existing vertices up to the device the  *)
(* loop has come to, and only those are linked.                            *)
LEMMA GpuStep ==
  ASSUME GraphInv, ControlInv, GpuInv, GpuNext
  PROVE  GraphInv' /\ GrowsY(graph, graph') /\ ControlInv' /\ GpuInv'
<1>1. GoodY(graph) /\ DOMAIN graph.vertices = 1..Len(graph.vertices)
  BY VertexRange DEF GraphInv
<1>2. CASE NvmlDevice
  <2>1. PICK h \in NvmlHandles \cap DOMAIN NvmlDevs :
          /\ graph' = SetType(NvmlAttach(h), NvmlVertex(h), "GPU")
          /\ gpu' = [gpu EXCEPT !.next = @ + 1, !.device = h,
                                !.vertices[gpu.next] = NvmlVertex(h),
                                !.devices[gpu.next] = h]
    BY <1>2 DEF NvmlDevice
  <2>2. gpu.stage = "devices" /\ gpu.next <= gpu.count /\ Stay
    BY <1>2 DEF NvmlDevice, AtDevice
  <2>3. /\ GrowsY(graph, graph') /\ graph'.root = graph.root
        /\ NvmlVertex(h) \in 1..Len(graph'.vertices)
    BY <1>1, <2>1, NvmlGrows
  <2>4. h \in 0..MaxDevs BY GpuConstants, PlatformConstants
  <2> DEFINE devices == [gpu.devices EXCEPT ![gpu.next] = h]
  <2>5. devices \in Seq(0..MaxDevs) /\ Len(devices) = gpu.count
    <3>1. gpu.next \in 1..Len(gpu.devices) /\ Len(gpu.devices) = gpu.count
      BY <2>2, GpuFacts DEF GpuInv, GpuSound
    <3> QED BY <2>4, <3>1, GpuFacts, ExceptSeq
  <2>6. gpu' = [gpu EXCEPT !.next = gpu.next + 1, !.device = h, !.bdfid = gpu.bdfid,
                           !.vertices = [gpu.vertices EXCEPT ![gpu.next] = NvmlVertex(h)],
                           !.devices = devices]
    BY <2>1, GpuFacts
  <2> HIDE DEF devices
  <2>7. gpu.bdfid \in SUBSET Bdfs BY GpuFacts
  <2>8. GpuInv' BY <2>2, <2>3, <2>4, <2>5, <2>6, <2>7, DeviceStored
  <2> QED BY <2>2, <2>3, <2>8, GraphGrows, ControlSteps
<1>3. CASE NvmlAssertFails
  <2>1. PICK h \in NvmlHandles \cap DOMAIN NvmlDevs : graph' = NvmlAttach(h)
    BY <1>3 DEF NvmlAssertFails
  <2>2. GrowsY(graph, graph') /\ graph'.root = graph.root
    BY <1>1, <2>1, NvmlGrows
  <2>3. Leave("aborted") /\ UNCHANGED gpu BY <1>3 DEF NvmlAssertFails
  <2> QED BY <2>2, <2>3, GraphGrows, ControlSteps, LocalsFrame
<1>4. CASE NvmlThrows
  <2>1. Leave("threw") /\ UNCHANGED <<graph, gpu>> BY <1>4 DEF NvmlThrows
  <2> QED BY <2>1, GraphSame, ControlSteps, LocalsFrame
<1>5. CASE RocmDevice
  <2>1. PICK b \in RocmBdfids :
          LET id == <<"bdfid", b>>
              g == AddVertexId(graph, id)
              vd == g.ids[id]
              described == SetDescription(AddAdapter(g, vd, Adapter("rocm", gpu.next, {})),
                                          vd, <<"rocm", gpu.next>>)
          IN /\ graph' = SetType(described, vd, "GPU")
             /\ gpu' = [gpu EXCEPT !.next = @ + 1, !.bdfid = {b}, !.vertices[gpu.next] = vd]
    BY <1>5 DEF RocmDevice
  <2> DEFINE vd == AddVertexId(graph, <<"bdfid", b>>).ids[<<"bdfid", b>>]
  <2>2. gpu.stage = "devices" /\ gpu.next <= gpu.count /\ Stay
    BY <1>5 DEF RocmDevice, AtDevice
  <2>3. gpu.next \in Devs /\ b \in Bdfs
    BY <2>2, GpuFacts, PlatformConstants DEF Devs, RocmBdfids
  <2>4. GrowsY(graph, graph') /\ graph'.root = graph.root /\ vd \in 1..Len(graph'.vertices)
    BY <1>1, <2>1, <2>3, RocmGrows
  <2>5. gpu' = [gpu EXCEPT !.next = gpu.next + 1, !.device = gpu.device, !.bdfid = {b},
                           !.vertices = [gpu.vertices EXCEPT ![gpu.next] = vd],
                           !.devices = gpu.devices]
    BY <2>1, GpuFacts
  <2> HIDE DEF vd
  <2>6. /\ gpu.device \in 0..MaxDevs /\ gpu.devices \in Seq(0..MaxDevs)
        /\ Len(gpu.devices) = gpu.count
    BY GpuFacts DEF GpuInv, GpuSound
  <2>7. GpuInv' BY <2>2, <2>3, <2>4, <2>5, <2>6, DeviceStored
  <2> QED BY <2>2, <2>4, <2>7, GraphGrows, ControlSteps
<1>6. ASSUME NEW m \in {"nvml", "rocm"}, GpuCount(m)
      PROVE  GraphInv' /\ GrowsY(graph, graph') /\ ControlInv' /\ GpuInv'
  <2>1. UNCHANGED graph /\ Stay /\ gpu.stage = "start" BY <1>6 DEF GpuCount
  <2>2. PICK n \in 0..MaxDevs :
          gpu' = [gpu EXCEPT !.stage = "devices", !.count = n,
                             !.vertices = [i \in 1..n |-> 1],
                             !.devices = [i \in 1..n |-> 0]]
    BY <1>6 DEF GpuCount
  <2>3. gpu = NoLocals BY <2>1 DEF GpuInv, GpuSound
  <2> DEFINE vs == [i \in 1..n |-> 1]
             ds == [i \in 1..n |-> 0]
  <2>4. /\ n \in Nat
        /\ vs \in Seq(Nat \ {0}) /\ Len(vs) = n
        /\ ds \in Seq(0..MaxDevs) /\ Len(ds) = n
    <3>1. n \in Nat BY PlatformConstants
    <3>2. vs \in [1..n -> Nat \ {0}] /\ ds \in [1..n -> 0..MaxDevs]
      BY PlatformConstants
    <3>3. vs \in Seq(Nat \ {0}) /\ ds \in Seq(0..MaxDevs) BY <3>1, <3>2, SeqDef
    <3> QED BY <3>1, <3>3
  <2> HIDE DEF vs, ds
  <2>5. gpu' = [NoLocals EXCEPT !.stage = "devices", !.count = n, !.vertices = vs,
                                !.devices = ds]
    BY <2>2, <2>3 DEF vs, ds
  <2>6. gpu' = [stage |-> "devices", count |-> n, next |-> 1, vertices |-> vs,
                devices |-> ds, device |-> 0, bdfid |-> {}, src |-> 1, dst |-> 2]
    BY <2>5 DEF NoLocals
  <2>7. GpuTypeOK'
    <3>1. 0 \in 0..MaxDevs /\ {} \in SUBSET Bdfs /\ "devices" \in GpuStages
      BY PlatformConstants DEF GpuStages
    <3> QED BY <2>4, <2>6, <3>1 DEF GpuTypeOK
  <2>8. GpuSound' BY <2>4, <2>6 DEF GpuSound
  <2> QED BY <2>1, <2>7, <2>8, GraphSame, ControlSteps DEF GpuInv
<1>7. ASSUME NEW m \in {"nvml", "rocm"}, GpuCountThrows(m)
      PROVE  GraphInv' /\ GrowsY(graph, graph') /\ ControlInv' /\ GpuInv'
  <2>1. Leave("threw") /\ UNCHANGED <<graph, gpu>> BY <1>7 DEF GpuCountThrows
  <2> QED BY <2>1, GraphSame, ControlSteps, LocalsFrame
<1>8. ASSUME NEW m \in {"nvml", "rocm"}, GpuDevicesDone(m)
      PROVE  GraphInv' /\ GrowsY(graph, graph') /\ ControlInv' /\ GpuInv'
  <2>1. /\ UNCHANGED graph /\ Stay /\ gpu.next > gpu.count
        /\ gpu' = [gpu EXCEPT !.stage = "links"]
    BY <1>8 DEF GpuDevicesDone
  <2>2. GpuTypeOK' BY <2>1, GpuFacts DEF GpuTypeOK, GpuStages
  <2>3. gpu.next = gpu.count + 1 BY <2>1, GpuFacts DEF GpuInv, GpuSound
  <2>4. GpuSound' BY <2>1, <2>3, GpuFacts DEF GpuInv, GpuSound
  <2> QED BY <2>1, <2>2, <2>4, GraphSame, ControlSteps DEF GpuInv
<1>9. ASSUME NEW m \in {"nvml", "rocm"}, GpuPair(m)
      PROVE  GraphInv' /\ GrowsY(graph, graph') /\ ControlInv' /\ GpuInv'
  <2> DEFINE u == gpu.vertices[gpu.src]
             v == gpu.vertices[gpu.dst]
  <2>1. gpu' = NextPair /\ Stay /\ gpu.stage = "links" /\ gpu.src < gpu.count
    BY <1>9 DEF GpuPair, AtPair
  <2>2. graph' = Interconnect(graph, u, v) \/ graph' = graph BY <1>9 DEF GpuPair
  <2>3. u \in 1..Len(graph.vertices) /\ v \in 1..Len(graph.vertices)
    <3>1. /\ gpu.next = gpu.count + 1 /\ gpu.src < gpu.dst /\ gpu.dst <= gpu.count
          /\ \A i \in 1..gpu.count : i < gpu.next => gpu.vertices[i] \in 1..Len(graph.vertices)
      BY <1>1, <2>1 DEF GpuInv, GpuSound
    <3>2. /\ gpu.src \in 1..gpu.count /\ gpu.src < gpu.next
          /\ gpu.dst \in 1..gpu.count /\ gpu.dst < gpu.next
      BY <3>1, <2>1, GpuFacts
    <3> QED BY <3>1, <3>2
  <2>4. GrowsY(graph, graph') /\ graph'.root = graph.root
    BY <1>1, <2>2, <2>3, InterconnectGrows, GrowsYReflexive
  <2>5. \A i \in DOMAIN graph.vertices : i \in DOMAIN graph'.vertices
    BY <1>1, <2>4, DescriptorsKept, GrowsYGood, VertexRange
  <2>6. GpuTypeOK'
    <3>1. gpu.dst + 1 \in Nat \ {0} /\ gpu.src + 1 \in Nat \ {0} /\ gpu.src + 2 \in Nat \ {0}
      BY GpuFacts
    <3>2. CASE gpu' = [gpu EXCEPT !.dst = gpu.dst + 1]
      BY <3>1, <3>2, GpuFacts DEF GpuTypeOK
    <3>3. CASE gpu' = [gpu EXCEPT !.src = gpu.src + 1, !.dst = gpu.src + 2]
      BY <3>1, <3>3, GpuFacts DEF GpuTypeOK
    <3> QED BY <2>1, <3>2, <3>3 DEF NextPair
  <2>7. /\ gpu'.stage = "links" /\ gpu'.count = gpu.count /\ gpu'.next = gpu.next
        /\ gpu'.vertices = gpu.vertices /\ gpu'.devices = gpu.devices
        /\ gpu'.src < gpu'.dst /\ (gpu'.src < gpu.count => gpu'.dst <= gpu.count)
    BY <2>1, GpuFacts DEF NextPair, GpuInv, GpuSound
  <2>8. GpuSound' BY <2>1, <2>5, <2>7 DEF GpuInv, GpuSound
  <2> QED BY <2>1, <2>4, <2>6, <2>8, GraphGrows, ControlSteps DEF GpuInv
<1>10. ASSUME NEW m \in {"nvml", "rocm"}, GpuReturn(m)
       PROVE  GraphInv' /\ GrowsY(graph, graph') /\ ControlInv' /\ GpuInv'
  <2>1. UNCHANGED graph /\ gpu' = NoLocals /\ Return(m, "SUCCESS") BY <1>10 DEF GpuReturn
  <2>2. m \in Modules /\ "SUCCESS" \in Statuses BY DEF Modules, Statuses
  <2>3. GpuTypeOK' BY <2>1, PlatformConstants DEF GpuTypeOK, NoLocals, GpuStages
  <2>4. GpuSound' BY <2>1 DEF GpuSound, NoLocals
  <2> QED BY <2>1, <2>2, <2>3, <2>4, GraphSame, ControlSteps DEF GpuInv
<1> QED BY <1>2, <1>3, <1>4, <1>5, <1>6, <1>7, <1>8, <1>9, <1>10 DEF GpuNext

(* A set of numbers that has a member has a least one.                     *)
LEMMA MinOfNaturals ==
  ASSUME NEW S \in SUBSET Nat, S # {}
  PROVE  Min(S) \in S
<1> DEFINE Less == OpToRel(<, Nat)
<1>1. \A x, y \in Nat : x < y => <<x, y>> \in Less BY DEF OpToRel
<1>2. \E x \in S : \A y \in S : ~(<<y, x>> \in Less)
  <2>1. IsWellFoundedOn(Less, Nat) BY NatLessThanWellFounded
  <2> HIDE DEF Less
  <2> QED BY <2>1, WFMin
<1> HIDE DEF Less
<1>3. PICK x \in S : \A y \in S : ~(<<y, x>> \in Less) BY <1>2
<1>4. ASSUME NEW y \in S PROVE x <= y
  <2>1. x \in Nat /\ y \in Nat OBVIOUS
  <2>2. ~(y < x) BY <1>1, <1>3, <2>1
  <2> QED BY <2>1, <2>2
<1>5. \E m \in S : \A y \in S : m <= y BY <1>4
<1> QED BY <1>5 DEF Min

(* supermuc: the path of a host is added between existing vertices.        *)
LEMMA SupermucStep ==
  ASSUME GraphInv, ControlInv, SupermucTypeOK, SupermucNext
  PROVE  GraphInv' /\ GrowsY(graph, graph') /\ ControlInv' /\ SupermucTypeOK'
<1>1. GoodY(graph) BY DEF GraphInv
<1>2. CASE SupermucRefuses
  <2>1. /\ UNCHANGED <<graph, smRank>> /\ Return("supermuc", "INIT_ERROR")
    BY <1>2 DEF SupermucRefuses
  <2>2. "supermuc" \in Modules /\ "INIT_ERROR" \in Statuses BY DEF Modules, Statuses
  <2> QED BY <2>1, <2>2, GraphSame, ControlSteps DEF SupermucTypeOK
<1>3. CASE SupermucAddHost
  <2>1. /\ graph' = HostPath(graph, ProcName[smRank]) /\ smRank' = smRank + 1
        /\ smRank < NRanks /\ Stay
    BY <1>3 DEF SupermucAddHost
  <2>2. smRank \in Ranks /\ smRank' \in 0..NRanks
    BY <2>1, PlatformConstants DEF SupermucTypeOK, Ranks
  <2>3. ProcName[smRank] \in Hosts BY <2>2, PlatformConstants
  <2>4. GrowsY(graph, graph') /\ graph'.root = graph.root
    BY <1>1, <2>1, <2>3, HostPathGrows
  <2> QED BY <2>1, <2>2, <2>4, GraphGrows, ControlSteps DEF SupermucTypeOK
<1>4. CASE SupermucReturn
  <2>1. UNCHANGED graph /\ smRank' = 0 /\ Return("supermuc", "SUCCESS")
    BY <1>4 DEF SupermucReturn
  <2>2. "supermuc" \in Modules /\ "SUCCESS" \in Statuses BY DEF Modules, Statuses
  <2> QED BY <2>1, <2>2, GraphSame, ControlSteps, PlatformConstants DEF SupermucTypeOK
<1> QED BY <1>2, <1>3, <1>4 DEF SupermucNext

(* mpi: lowest_containing_vertex stands at an existing vertex, and the     *)
(* vertex of the rank it is called for exists.                             *)
LEMMA MpiStep ==
  ASSUME GraphInv, ControlInv, MpiInv, MpiNext
  PROVE  GraphInv' /\ GrowsY(graph, graph') /\ ControlInv' /\ MpiInv'
<1>1. GoodY(graph) /\ DOMAIN graph.vertices = 1..Len(graph.vertices)
  BY VertexRange DEF GraphInv
<1>2. mpi \in [stage : {"start", "ranks", "descend"}, cpusets : [Ranks -> SUBSET Nat],
               rank : 0..NRanks, at : Nat]
  BY DEF MpiInv, MpiTypeOK
<1>3. NRanks \in Nat /\ 0 \in 0..NRanks /\ {"mpi"} \subseteq Modules
      /\ {"SUCCESS", "INIT_ERROR"} \subseteq Statuses
  BY PlatformConstants DEF Modules, Statuses
<1>4. CASE MpiRefuses
  <2>1. UNCHANGED <<graph, mpi>> /\ Return("mpi", "INIT_ERROR") BY <1>4 DEF MpiRefuses
  <2> QED BY <1>3, <2>1, GraphSame, ControlSteps, LocalsFrame
<1>5. CASE MpiGather
  <2>1. UNCHANGED graph /\ Stay BY <1>5 DEF MpiGather
  <2>2. PICK cpusets \in [Ranks -> CpuChoices] :
          mpi' = [mpi EXCEPT !.stage = "ranks", !.cpusets = cpusets]
    BY <1>5 DEF MpiGather
  <2>3. cpusets \in [Ranks -> SUBSET Nat] BY MpiConstants
  <2>4. MpiTypeOK' BY <1>2, <2>2, <2>3 DEF MpiTypeOK
  <2>5. MpiSound' BY <1>2, <2>2 DEF MpiSound
  <2> QED BY <2>1, <2>4, <2>5, GraphSame, ControlSteps DEF MpiInv
<1>6. CASE MpiAddRemote
  <2> DEFINE g == AddRank(graph)
             h == Link(g, g.ids[MachineId], g.ids[RankId])
  <2>1. /\ graph' = h /\ mpi' = [mpi EXCEPT !.rank = mpi.rank + 1] /\ Stay
        /\ mpi.stage = "ranks" /\ mpi.rank < NRanks
    BY <1>6 DEF MpiAddRemote
  <2>2. mpi.rank \in Ranks /\ mpi.rank + 1 \in 0..NRanks BY <1>2, <1>3, <2>1 DEF Ranks
  <2>3. /\ GrowsY(graph, g) /\ GoodY(g) /\ g.root = graph.root
        /\ g.ids[RankId] \in 1..Len(g.vertices) /\ g.ids[MachineId] \in 1..Len(g.vertices)
    BY <1>1, <2>2, AddRankGrows DEF ControlInv
  <2> HIDE DEF g
  <2>4. GrowsY(g, h) /\ h.root = g.root BY <2>3, LinkY
  <2>5. GrowsY(graph, graph') /\ graph'.root = graph.root
    BY <1>1, <2>1, <2>3, <2>4, GrowsYTransitive
  <2>6. MpiTypeOK' BY <1>2, <2>1, <2>2 DEF MpiTypeOK
  <2>7. MpiSound' BY <1>2, <2>1 DEF MpiSound
  <2> QED BY <2>1, <2>5, <2>6, <2>7, GraphGrows, ControlSteps DEF MpiInv
<1>7. CASE MpiAddLocal
  <2>1. /\ graph' = AddRank(graph) /\ Stay
        /\ mpi' = [mpi EXCEPT !.stage = "descend", !.at = graph.root]
        /\ mpi.rank < NRanks
    BY <1>7 DEF MpiAddLocal
  <2>2. mpi.rank \in Ranks BY <1>2, <1>3, <2>1 DEF Ranks
  <2>3. /\ GrowsY(graph, graph') /\ GoodY(graph') /\ graph'.root = graph.root
        /\ graph'.ids[RankId] \in 1..Len(graph'.vertices)
    BY <1>1, <2>1, <2>2, AddRankGrows DEF ControlInv
  <2>4. DOMAIN graph'.vertices = 1..Len(graph'.vertices) /\ Len(graph'.vertices) \in Nat
    BY <2>3, VertexRange
  <2>5. GraphInv' BY <2>3, GraphGrows
  <2>6. graph.root \in Nat /\ graph.root \in DOMAIN graph'.vertices
    <3>1. graph.root \in Nat BY <1>1 DEF GoodY, Good, GraphType
    <3>2. 1 \in DOMAIN graph'.vertices BY <2>3, <2>4
    <3> QED BY <3>1, <3>2, <2>3, <2>5 DEF GraphInv, RootSound
  <2>7. MpiTypeOK' BY <1>2, <2>1, <2>6 DEF MpiTypeOK
  <2>8. MpiSound' BY <1>2, <2>1, <2>3, <2>4, <2>6 DEF MpiSound, RankId
  <2> QED BY <2>1, <2>3, <2>5, <2>7, <2>8, ControlSteps DEF MpiInv
<1>8. CASE MpiDescend
  <2>1. UNCHANGED graph /\ Stay /\ mpi.stage = "descend" BY <1>8 DEF MpiDescend
  <2>2. PICK v \in LowerVertices : mpi' = [mpi EXCEPT !.at = v] BY <1>8 DEF MpiDescend
  <2>3. PICK i \in Candidates(graph, mpi.at, Mask) : v = graph.edges[i].target
    <3> DEFINE cs == Candidates(graph, mpi.at, Mask)
               least == {k \in cs : \A j \in cs : Count(graph, graph.edges[k].target)
                                                    <= Count(graph, graph.edges[j].target)}
    <3>1. \E k \in IF StableSort /\ least # {} THEN {Min(least)} ELSE least :
            v = graph.edges[k].target
      BY <2>2 DEF LowerVertices, Lower
    <3>2. least \subseteq cs OBVIOUS
    <3>3. cs \subseteq DOMAIN graph.edges BY DEF Candidates
    <3>4. least # {} => Min(least) \in least
      <4>1. graph.edges \in Seq(EdgeType) BY <1>1 DEF GoodY, Good, GraphType
      <4>2. least \subseteq Nat BY <4>1, <3>2, <3>3
      <4> HIDE DEF least
      <4> QED BY <4>2, MinOfNaturals
    <3> HIDE DEF least, cs
    <3> QED BY <3>1, <3>2, <3>4 DEF cs
  <2>4. v \in DOMAIN graph.vertices
    BY <1>1, <2>3 DEF Candidates, GoodY, Good, EdgesSound
  <2>5. v \in Nat BY <1>1, <2>4, VertexRange
  <2>6. MpiTypeOK' BY <1>2, <2>2, <2>5 DEF MpiTypeOK
  <2>7. MpiSound' BY <1>2, <2>1, <2>2, <2>4 DEF MpiInv, MpiSound, RankId
  <2> QED BY <2>1, <2>6, <2>7, GraphSame, ControlSteps DEF MpiInv
<1>9. CASE MpiAttach
  <2>1. /\ graph' = Link(graph, mpi.at, graph.ids[RankId]) /\ Stay /\ mpi.stage = "descend"
        /\ mpi' = [mpi EXCEPT !.stage = "ranks", !.rank = mpi.rank + 1, !.at = NoVertex]
    BY <1>9 DEF MpiAttach
  <2>2. /\ mpi.rank < NRanks /\ mpi.at \in 1..Len(graph.vertices)
        /\ graph.ids[RankId] \in 1..Len(graph.vertices)
    BY <1>1, <2>1 DEF MpiInv, MpiSound
  <2>3. GrowsY(graph, graph') /\ graph'.root = graph.root BY <1>1, <2>1, <2>2, LinkY
  <2>4. mpi.rank + 1 \in 0..NRanks BY <1>2, <1>3, <2>2
  <2>5. MpiTypeOK' BY <1>2, <2>1, <2>4 DEF MpiTypeOK, NoVertex
  <2>6. MpiSound' BY <1>2, <2>1 DEF MpiSound
  <2> QED BY <2>1, <2>3, <2>5, <2>6, GraphGrows, ControlSteps DEF MpiInv
<1>10. CASE MpiAssertFails
  <2>1. UNCHANGED <<graph, mpi>> /\ Leave("aborted") BY <1>10 DEF MpiAssertFails
  <2> QED BY <1>1, <2>1, GraphSame, ControlSteps, LocalsFrame
<1>11. CASE MpiReturn
  <2>1. UNCHANGED graph /\ mpi' = MpiIdle /\ Return("mpi", "SUCCESS") BY <1>11 DEF MpiReturn
  <2>2. MpiTypeOK' BY <1>3, <2>1 DEF MpiTypeOK, MpiIdle, NoVertex
  <2>3. MpiSound' BY <2>1 DEF MpiSound, MpiIdle
  <2> QED BY <1>3, <2>1, <2>2, <2>3, GraphSame, ControlSteps DEF MpiInv
<1> QED BY <1>4, <1>5, <1>6, <1>7, <1>8, <1>9, <1>10, <1>11 DEF MpiNext

------------------------------------------------------------------------------
(* What std::sort leaves is a list of modules.                             *)
LEMMA SortedListsType ==
  SortedLists \subseteq Seq(Modules)
<1>1. Len(ModuleList) \in Nat /\ DOMAIN ModuleList = 1..Len(ModuleList)
  BY InitConstants
<1> SUFFICES ASSUME NEW s \in SortedLists PROVE s \in Seq(Modules)
  OBVIOUS
<1>2. s \in [1..Len(ModuleList) -> Modules] BY <1>1 DEF SortedLists
<1> QED BY <1>1, <1>2, SeqDef

LEMMA InitInvariant ==
  Init => IInv
<1> SUFFICES ASSUME Init PROVE IInv
  OBVIOUS
<1>1. GraphInv
  <2>1. GoodY(graph) BY EmptyGraphGood DEF Init, InterfaceInit, GoodY
  <2>2. RootSound BY DEF Init, InterfaceInit, RootSound, EmptyGraph
  <2> QED BY <2>1, <2>2 DEF GraphInv
<1>2. ControlInv BY PlatformConstants DEF Init, InterfaceInit, ControlInv
<1>3. WalkInv BY DEF Init, HwlocInit, WalkInv, HwlocTypeOK, WalkSound
<1>4. GpuInv
  <2>1. gpu = NoLocals BY DEF Init, GpuInit
  <2>2. 0 \in 0..MaxDevs BY PlatformConstants
  <2>3. GpuTypeOK BY <2>1, <2>2 DEF GpuTypeOK, NoLocals, GpuStages
  <2>4. GpuSound BY <2>1 DEF GpuSound, NoLocals
  <2> QED BY <2>3, <2>4 DEF GpuInv
<1>5. MpiInv
  <2>1. mpi = MpiIdle /\ 0 \in 0..NRanks BY PlatformConstants DEF Init, MpiInit
  <2>2. MpiTypeOK BY <2>1 DEF MpiTypeOK, MpiIdle, NoVertex
  <2>3. MpiSound BY <2>1 DEF MpiSound, MpiIdle
  <2> QED BY <2>2, <2>3 DEF MpiInv
<1>6. SupermucTypeOK /\ LoopInv
  BY PlatformConstants, InitConstants DEF Init, SupermucInit, SupermucTypeOK, LoopInv
<1> QED BY <1>1, <1>2, <1>3, <1>4, <1>5, <1>6, Parts

(* One step per action of init() and one per module.                       *)
LEMMA NextInvariant ==
  IInv /\ [Next]_vars => IInv' /\ GrowsY(graph, graph')
<1> SUFFICES ASSUME IInv, [Next]_vars PROVE IInv' /\ GrowsY(graph, graph')
  OBVIOUS
<1>1. /\ GraphInv /\ ControlInv /\ WalkInv /\ GpuInv /\ MpiInv
      /\ SupermucTypeOK /\ LoopInv
  BY Parts
<1> DEFINE NewInv == /\ GraphInv /\ ControlInv /\ WalkInv /\ GpuInv /\ MpiInv
                     /\ SupermucTypeOK /\ LoopInv
<1> SUFFICES NewInv' /\ GrowsY(graph, graph')
  <2>1. (IInv <=> NewInv)'
    BY DEF IInv, TypeOK, InterfaceTypeOK, IdentifiersSound, LocalsSound, GraphInv, GoodY, Good,
           ControlInv, WalkInv, GpuInv, MpiInv, LoopInv
  <2> QED BY <2>1
<1>2. CASE InitCall
  <2>1. /\ UNCHANGED <<graph, current, status, walk, gpu, smRank, mpi>>
        /\ todo' \in SortedLists /\ env' \in Envs /\ phase' = "running"
        /\ inits' = inits + 1 /\ inits < MaxInits
    BY <1>2 DEF InitCall, locals
  <2>2. LoopInv' BY <1>1, <2>1, SortedListsType, InitConstants DEF LoopInv
  <2>3. ControlInv' BY <1>1, <2>1, PlatformConstants DEF ControlInv
  <2>4. SupermucTypeOK' BY <1>1, <2>1 DEF SupermucTypeOK
  <2> QED BY <1>1, <2>1, <2>2, <2>3, <2>4, GraphSame, LocalsFrame
<1>3. CASE CallModule
  <2>1. /\ UNCHANGED <<graph, env, phase, status, walk, gpu, smRank, mpi, inits>>
        /\ todo # <<>> /\ todo' = Tail(todo) /\ current' \in {Head(todo), "none"}
    BY <1>3 DEF CallModule, locals
  <2>2. Head(todo) \in Modules /\ Tail(todo) \in Seq(Modules) BY <1>1, <2>1 DEF LoopInv
  <2>3. LoopInv' BY <1>1, <2>1, <2>2 DEF LoopInv
  <2>4. ControlInv' BY <1>1, <2>1, <2>2 DEF ControlInv
  <2>5. SupermucTypeOK' BY <1>1, <2>1 DEF SupermucTypeOK
  <2> QED BY <1>1, <2>1, <2>3, <2>4, <2>5, GraphSame, LocalsFrame
<1>4. CASE InitReturn
  <2>1. /\ UNCHANGED <<graph, env, current, status, walk, gpu, smRank, mpi, todo, inits>>
        /\ phase' = "idle"
    BY <1>4 DEF InitReturn, locals
  <2>2. LoopInv' /\ ControlInv' /\ SupermucTypeOK'
    BY <1>1, <2>1 DEF LoopInv, ControlInv, SupermucTypeOK
  <2> QED BY <1>1, <2>1, <2>2, GraphSame, LocalsFrame
<1>5. CASE HwlocNext /\ UNCHANGED <<gpu, smRank, mpi>> /\ UNCHANGED <<todo, inits>>
  <2>1. GraphInv' /\ GrowsY(graph, graph') /\ ControlInv' /\ WalkInv'
    BY <1>1, <1>5, HwlocStep
  <2>2. SupermucTypeOK' /\ LoopInv' BY <1>1, <1>5 DEF SupermucTypeOK, LoopInv
  <2> QED BY <1>1, <1>5, <2>1, <2>2, LocalsFrame
<1>6. CASE GpuNext /\ UNCHANGED <<walk, smRank, mpi>> /\ UNCHANGED <<todo, inits>>
  <2>1. GraphInv' /\ GrowsY(graph, graph') /\ ControlInv' /\ GpuInv'
    BY <1>1, <1>6, GpuStep
  <2>2. SupermucTypeOK' /\ LoopInv' BY <1>1, <1>6 DEF SupermucTypeOK, LoopInv
  <2> QED BY <1>1, <1>6, <2>1, <2>2, LocalsFrame
<1>7. CASE SupermucNext /\ UNCHANGED <<walk, gpu, mpi>> /\ UNCHANGED <<todo, inits>>
  <2>1. GraphInv' /\ GrowsY(graph, graph') /\ ControlInv' /\ SupermucTypeOK'
    BY <1>1, <1>7, SupermucStep
  <2>2. LoopInv' BY <1>1, <1>7 DEF LoopInv
  <2> QED BY <1>1, <1>7, <2>1, <2>2, LocalsFrame
<1>8. CASE MpiNext /\ UNCHANGED <<walk, gpu, smRank>> /\ UNCHANGED <<todo, inits>>
  <2>1. GraphInv' /\ GrowsY(graph, graph') /\ ControlInv' /\ MpiInv'
    BY <1>1, <1>8, MpiStep
  <2>2. SupermucTypeOK' /\ LoopInv' BY <1>1, <1>8 DEF SupermucTypeOK, LoopInv
  <2> QED BY <1>1, <1>8, <2>1, <2>2, LocalsFrame
<1>9. CASE UNCHANGED vars
  <2>1. UNCHANGED <<graph, env, phase, current, status, walk, gpu, smRank, mpi, todo, inits>>
    BY <1>9 DEF vars, interface
  <2>2. LoopInv' /\ ControlInv' /\ SupermucTypeOK'
    BY <1>1, <2>1 DEF LoopInv, ControlInv, SupermucTypeOK
  <2> QED BY <1>1, <2>1, <2>2, GraphSame, LocalsFrame
<1> QED BY <1>2, <1>3, <1>4, <1>5, <1>6, <1>7, <1>8, <1>9 DEF Next, InitStep, ModuleStep

(* The inductive invariant holds in every reachable state.                 *)
LEMMA Invariance ==
  Spec => []IInv
  BY InitInvariant, NextInvariant, PTL DEF Spec

(* Type correctness of init() and the five modules.                        *)
THEOREM InitTypeCorrect ==
  Spec => []TypeOK
<1>1. IInv => TypeOK BY DEF IInv
<1> QED BY <1>1, Invariance, PTL

(* m_identifier_map and the edges are sound whatever modules are built in  *)
(* and enabled, in whatever order they run, whatever the libraries answer, *)
(* and however often init() is called.                                     *)
THEOREM InitIdentifiersSound ==
  Spec => []IdentifiersSound
<1>1. IInv => IdentifiersSound BY DEF IInv
<1> QED BY <1>1, Invariance, PTL

(* No module ever uses a descriptor that is not one of the graph's: the    *)
(* recursion of make_hwloc_graph, the vertices[] of the GPU modules that   *)
(* are linked, and the descent of lowest_containing_vertex.                *)
THEOREM InitLocalsSound ==
  Spec => []LocalsSound
<1>1. IInv => LocalsSound BY DEF IInv
<1> QED BY <1>1, Invariance, PTL

------------------------------------------------------------------------------
(* Second part: init() implements ComponentDirectory, and devices and      *)
(* processes exist once.  Both rest on the type of a vertex fitting what   *)
(* names it, on which the modules agree only through the prefixes of their *)
(* identifiers.                                                            *)

Unknown == "UnknownComponentType"

(* The types a vertex may have, by the prefix of the identifier it has.    *)
KindsOf == [machine |-> {Unknown, "Node"}, bdfid |-> {Unknown, "PCIDevice", "GPU"},
            mpi_rank |-> {Unknown, "MPIProcess"}, system |-> {Unknown, "Misc"}]

(* The one it ends with, if the module that sets it runs.                  *)
Latest == [machine |-> "Node", bdfid |-> "GPU", mpi_rank |-> "MPIProcess",
           system |-> "Misc"]

(* The types hwloc gives the vertices that nothing names.                  *)
Plain == {Unknown} \cup
         {HwlocType(o) : o \in {x \in Objects : ~IsA(HwlocType(x), "PCIDevice")}}

NamedFit(g) ==
  \A id \in Ids : g.ids[id] # NoVertex => g.vertices[g.ids[id]].type \in KindsOf[id[1]]
OthersFit(g) ==
  \A v \in DOMAIN g.vertices : (\E id \in Ids : g.ids[id] = v) \/ g.vertices[v].type \in Plain

(* The inductive invariant of this module: a graph whose types fit.        *)
KindsFit(g) == GoodY(g) /\ NamedFit(g) /\ OthersFit(g)

Becomes(t, u) == t = u \/ t = Unknown \/ (t = "PCIDevice" /\ u = "GPU")

(* What one assignment or one whole step may do to the names and types.    *)
Moves(g, h) ==
  /\ KindsFit(h)
  /\ Len(g.vertices) <= Len(h.vertices)
  /\ \A id \in Ids : \/ h.ids[id] = g.ids[id]
                     \/ g.ids[id] = NoVertex /\ h.ids[id] \in Len(g.vertices) + 1 .. Len(h.vertices)
  /\ \A v \in 1..Len(g.vertices) : Becomes(g.vertices[v].type, h.vertices[v].type)

(* h has the names and types of g.                                         *)
SameTypes(g, h) ==
  /\ Len(h.vertices) = Len(g.vertices) /\ h.ids = g.ids
  /\ \A v \in 1..Len(g.vertices) : h.vertices[v].type = g.vertices[v].type

------------------------------------------------------------------------------
LEMMA Shape ==
  ASSUME NEW g, GoodY(g)
  PROVE  /\ Len(g.vertices) \in Nat /\ DOMAIN g.vertices = 1..Len(g.vertices)
         /\ g.vertices \in Seq(VertexType(Adapters, Descriptions))
         /\ DOMAIN g.ids = Ids
         /\ \A id \in Ids : g.ids[id] \in 0..Len(g.vertices)
  BY DEF GoodY, Good, GraphType, IdsSound

LEMMA TypeOfVertex ==
  ASSUME NEW g, GoodY(g), NEW v \in DOMAIN g.vertices
  PROVE  g.vertices[v].type \in Types
<1>1. g.vertices[v] \in VertexType(Adapters, Descriptions) BY Shape
<1> QED BY <1>1 DEF VertexType

LEMMA BecomesTransitive ==
  ASSUME NEW t, NEW u, NEW w, Becomes(t, u), Becomes(u, w)
  PROVE  Becomes(t, w)
  BY DEF Becomes, Unknown

LEMMA MovesReflexive ==
  ASSUME NEW g, KindsFit(g)
  PROVE  Moves(g, g)
  BY Shape DEF KindsFit, Moves, Becomes

LEMMA MovesTransitive ==
  ASSUME NEW f, NEW g, NEW h, KindsFit(f), Moves(f, g), Moves(g, h)
  PROVE  Moves(f, h)
<1>1. /\ Len(f.vertices) \in Nat /\ Len(g.vertices) \in Nat /\ Len(h.vertices) \in Nat
      /\ \A id \in Ids : g.ids[id] \in 0..Len(g.vertices)
      /\ Len(f.vertices) <= Len(g.vertices) /\ Len(g.vertices) <= Len(h.vertices)
  BY Shape DEF KindsFit, Moves
<1>2. ASSUME NEW id \in Ids
      PROVE  \/ h.ids[id] = f.ids[id]
             \/ f.ids[id] = NoVertex /\ h.ids[id] \in Len(f.vertices) + 1 .. Len(h.vertices)
  BY <1>1 DEF Moves, NoVertex
<1>3. ASSUME NEW v \in 1..Len(f.vertices)
      PROVE  Becomes(f.vertices[v].type, h.vertices[v].type)
  <2>1. v \in 1..Len(g.vertices) BY <1>1
  <2> QED BY <2>1, BecomesTransitive DEF Moves
<1> QED BY <1>1, <1>2, <1>3 DEF Moves

(* Adapters, descriptions, edges and the root are not part of a type.      *)
LEMMA SameTypesMove ==
  ASSUME NEW g, NEW h, KindsFit(g), GoodY(h), SameTypes(g, h)
  PROVE  Moves(g, h)
<1>1. /\ Len(g.vertices) \in Nat /\ DOMAIN g.vertices = 1..Len(g.vertices)
      /\ DOMAIN h.vertices = 1..Len(g.vertices)
      /\ \A id \in Ids : g.ids[id] \in 0..Len(g.vertices)
  BY Shape DEF KindsFit, SameTypes
<1>2. NamedFit(h) BY <1>1 DEF KindsFit, NamedFit, SameTypes, NoVertex
<1>3. OthersFit(h) BY <1>1 DEF KindsFit, OthersFit, SameTypes
<1> QED BY <1>1, <1>2, <1>3 DEF KindsFit, Moves, SameTypes, Becomes

LEMMA NewVertexUnknown ==
  NewVertex.type = Unknown
  BY DEF NewVertex, Unknown

(* Every prefix allows a vertex that has no type yet.                      *)
LEMMA PrefixOf ==
  ASSUME NEW id \in Ids
  PROVE  id[1] \in {"machine", "bdfid", "mpi_rank", "system"}
  BY DEF Ids

LEMMA UnknownFits ==
  ASSUME NEW id \in Ids
  PROVE  Unknown \in KindsOf[id[1]]
  BY PrefixOf DEF KindsOf

(* A vertex that nothing names is added without a type.                    *)
LEMMA AddVertexMoves ==
  ASSUME NEW g, KindsFit(g)
  PROVE  LET h == AddVertex(g)
         IN /\ Moves(g, h) /\ Len(h.vertices) = Len(g.vertices) + 1
            /\ h.vertices[Len(g.vertices) + 1].type = Unknown
            /\ \A id \in Ids : h.ids[id] # Len(g.vertices) + 1
<1> DEFINE h == AddVertex(g)
           n == Len(g.vertices)
<1>1. /\ n \in Nat /\ DOMAIN g.vertices = 1..n
      /\ g.vertices \in Seq(VertexType(Adapters, Descriptions))
      /\ \A id \in Ids : g.ids[id] \in 0..n
  BY Shape DEF KindsFit
<1>2. GoodY(h) /\ h.ids = g.ids /\ Len(h.vertices) = n + 1
  BY AddVertexGrows DEF KindsFit, GoodY, Grows
<1>3. DOMAIN h.vertices = 1..n + 1 BY <1>2, Shape
<1>4. h.vertices = Append(g.vertices, NewVertex) BY DEF AddVertex, KindsFit, GoodY, Good, GraphType
<1>5. /\ \A v \in 1..n : h.vertices[v] = g.vertices[v]
      /\ h.vertices[n + 1].type = Unknown
  BY <1>1, <1>4, NewVertexUnknown
<1> HIDE DEF h, n
<1>6. NamedFit(h)
  BY <1>1, <1>2, <1>5 DEF KindsFit, NamedFit, NoVertex
<1>7. OthersFit(h)
  <2> SUFFICES ASSUME NEW v \in 1..n + 1
               PROVE  (\E id \in Ids : h.ids[id] = v) \/ h.vertices[v].type \in Plain
    BY <1>3 DEF OthersFit
  <2>1. CASE v = n + 1 BY <2>1, <1>5 DEF Plain
  <2>2. CASE v \in 1..n BY <2>2, <1>1, <1>2, <1>5 DEF KindsFit, OthersFit
  <2> QED BY <1>1, <2>1, <2>2
<1>8. \A id \in Ids : h.ids[id] # n + 1 BY <1>1, <1>2
<1>9. Moves(g, h)
  BY <1>1, <1>2, <1>5, <1>6, <1>7 DEF KindsFit, Moves, Becomes, n
<1> QED BY <1>2, <1>5, <1>8, <1>9 DEF h, n

(* A named vertex is found again, or added without a type.                 *)
LEMMA AddVertexIdMoves ==
  ASSUME NEW g, KindsFit(g), NEW id \in Ids
  PROVE  LET h == AddVertexId(g, id)
         IN Moves(g, h) /\ h.ids[id] \in 1..Len(h.vertices)
<1>1. CASE g.ids[id] # NoVertex
  <2>1. AddVertexId(g, id) = g BY <1>1 DEF AddVertexId
  <2>2. g.ids[id] \in 1..Len(g.vertices) BY <1>1, Shape DEF KindsFit, NoVertex
  <2> QED BY <2>1, <2>2, MovesReflexive
<1>2. CASE g.ids[id] = NoVertex
  <2> DEFINE f == AddVertex(g)
             n == Len(g.vertices) + 1
             h == AddVertexId(g, id)
  <2>1. /\ Moves(g, f) /\ Len(f.vertices) = n /\ f.vertices[n].type = Unknown
        /\ f.ids = g.ids
    BY AddVertexMoves, AddVertexGrows DEF KindsFit, GoodY
  <2>2. n \in Nat \ {0} /\ DOMAIN f.vertices = 1..n /\ GoodY(f)
        /\ DOMAIN f.ids = Ids
    BY <2>1, Shape DEF KindsFit, Moves
  <2>3. h = [f EXCEPT !.ids[id] = n] BY <1>2 DEF AddVertexId
  <2>4. GoodY(h) BY AddVertexIdY DEF KindsFit
  <2> HIDE DEF h
  <2>5. h.vertices = f.vertices /\ h.ids = [f.ids EXCEPT ![id] = n]
    BY <2>2, <2>3 DEF GoodY, Good, GraphType
  <2> HIDE DEF f
  <2>6. \A i \in Ids : h.ids[i] = IF i = id THEN n ELSE f.ids[i]
    BY <2>2, <2>5
  <2>7. NamedFit(h)
    BY <2>1, <2>5, <2>6, UnknownFits DEF KindsFit, NamedFit, Moves
  <2>8. OthersFit(h)
    <3> SUFFICES ASSUME NEW v \in 1..n
                 PROVE  (\E i \in Ids : h.ids[i] = v) \/ h.vertices[v].type \in Plain
      BY <2>2, <2>5 DEF OthersFit
    <3>1. CASE v = n BY <3>1, <2>6
    <3>2. CASE v # n
      <4>1. (\E i \in Ids : f.ids[i] = v) \/ f.vertices[v].type \in Plain
        BY <2>1, <2>2 DEF Moves, KindsFit, OthersFit
      <4>2. f.ids[id] # v BY <1>2, <2>1 DEF NoVertex
      <4> QED BY <4>1, <4>2, <2>5, <2>6
    <3> QED BY <3>1, <3>2
  <2>9. \A i \in Ids : \/ h.ids[i] = g.ids[i]
                       \/ g.ids[i] = NoVertex /\ h.ids[i] \in n..n
    BY <1>2, <2>1, <2>2, <2>6
  <2>10. Moves(g, h)
    BY <2>1, <2>4, <2>5, <2>7, <2>8, <2>9 DEF KindsFit, Moves
  <2>11. h.ids[id] = n /\ n \in 1..Len(h.vertices) BY <2>1, <2>2, <2>5, <2>6
  <2> QED BY <2>10, <2>11 DEF h
<1> QED BY <1>1, <1>2

(* Assigning the same graph other adapters, descriptions, edges or root.   *)
LEMMA UntypedMoves ==
  ASSUME NEW g, KindsFit(g), NEW v \in 1..Len(g.vertices)
  PROVE  /\ \A a \in Adapters : LET h == AddAdapter(g, v, a)
                               IN Moves(g, h) /\ SameTypes(g, h)
         /\ \A d \in Descriptions : LET h == SetDescription(g, v, d)
                                   IN Moves(g, h) /\ SameTypes(g, h)
         /\ \A d \in Descriptions : LET h == DescribeIfEmpty(g, v, d)
                                   IN Moves(g, h) /\ SameTypes(g, h)
         /\ LET h == SetRootVertex(g, v) IN Moves(g, h) /\ SameTypes(g, h)
<1>1. GoodY(g) /\ DOMAIN g.vertices = 1..Len(g.vertices)
  BY Shape DEF KindsFit
<1>2. ASSUME NEW h, GoodY(h), SameTypes(g, h) PROVE Moves(g, h)
  BY <1>2, SameTypesMove
<1>3. \A x : SameTypes(x, x) BY DEF SameTypes
<1>4. ASSUME NEW a \in Adapters
      PROVE  SameTypes(g, AddAdapter(g, v, a)) /\ GoodY(AddAdapter(g, v, a))
  <2>1. Touches(g, AddAdapter(g, v, a)) BY <1>1, AssignmentsTouch
  <2>2. AddAdapter(g, v, a).vertices =
          [g.vertices EXCEPT ![v].adapters = Append(@, a)]
    BY <1>1 DEF AddAdapter, GoodY, Good, GraphType
  <2>3. \A u \in 1..Len(g.vertices) : AddAdapter(g, v, a).vertices[u].type = g.vertices[u].type
    BY <1>1, <2>2, Shape DEF VertexType
  <2> QED BY <2>1, <2>3, TouchesKeepsRange DEF Touches, SameShape, SameTypes
<1>5. ASSUME NEW d \in Descriptions
      PROVE  SameTypes(g, SetDescription(g, v, d)) /\ GoodY(SetDescription(g, v, d))
  <2>1. Touches(g, SetDescription(g, v, d)) BY <1>1, AssignmentsTouch
  <2>2. SetDescription(g, v, d).vertices = [g.vertices EXCEPT ![v].description = {d}]
    BY <1>1 DEF SetDescription, GoodY, Good, GraphType
  <2>3. \A u \in 1..Len(g.vertices) :
          SetDescription(g, v, d).vertices[u].type = g.vertices[u].type
    BY <1>1, <2>2, Shape DEF VertexType
  <2> QED BY <2>1, <2>3, TouchesKeepsRange DEF Touches, SameShape, SameTypes
<1>6. LET h == SetRootVertex(g, v) IN SameTypes(g, h) /\ GoodY(h)
  BY <1>1, SetRootGrows DEF SameTypes, GoodY, Grows
<1> QED BY <1>1, <1>2, <1>3, <1>4, <1>5, <1>6 DEF DescribeIfEmpty

LEMMA LinkMoves ==
  ASSUME NEW g, KindsFit(g), NEW u \in 1..Len(g.vertices), NEW v \in 1..Len(g.vertices)
  PROVE  /\ Moves(g, Link(g, u, v)) /\ SameTypes(g, Link(g, u, v))
         /\ Moves(g, LinkOnce(g, u, v)) /\ SameTypes(g, LinkOnce(g, u, v))
  BY LinkY, SameTypesMove DEF KindsFit, SameTypes

(* Assigning a type: it must fit what names the vertex.                    *)
LEMMA SetTypeMoves ==
  ASSUME NEW g, KindsFit(g), NEW v \in 1..Len(g.vertices), NEW t \in Types,
         Becomes(g.vertices[v].type, t),
         \A id \in Ids : g.ids[id] = v => t \in KindsOf[id[1]],
         (\E id \in Ids : g.ids[id] = v) \/ t \in Plain
  PROVE  LET h == SetType(g, v, t)
         IN Moves(g, h) /\ h.ids = g.ids /\ Len(h.vertices) = Len(g.vertices)
<1> DEFINE h == SetType(g, v, t)
<1>1. /\ GoodY(g) /\ Len(g.vertices) \in Nat /\ DOMAIN g.vertices = 1..Len(g.vertices)
      /\ \A id \in Ids : g.ids[id] \in 0..Len(g.vertices)
  BY Shape DEF KindsFit
<1>2. Touches(g, h) BY <1>1, AssignmentsTouch
<1>3. /\ GoodY(h) /\ h.ids = g.ids /\ Len(h.vertices) = Len(g.vertices)
      /\ DOMAIN h.vertices = 1..Len(g.vertices)
  BY <1>2, TouchesKeepsRange, Shape DEF Touches, SameShape
<1>4. h.vertices = [g.vertices EXCEPT ![v].type = t]
  BY <1>1 DEF SetType, GoodY, Good, GraphType
<1>5. \A u \in 1..Len(g.vertices) :
        h.vertices[u].type = IF u = v THEN t ELSE g.vertices[u].type
  BY <1>1, <1>4, Shape DEF VertexType
<1> HIDE DEF h
<1>6. NamedFit(h)
  BY <1>1, <1>3, <1>5 DEF KindsFit, NamedFit, NoVertex
<1>7. OthersFit(h)
  BY <1>1, <1>3, <1>5 DEF KindsFit, OthersFit
<1>8. \A u \in 1..Len(g.vertices) : Becomes(g.vertices[u].type, h.vertices[u].type)
  BY <1>5 DEF Becomes
<1>9. Moves(g, h) BY <1>1, <1>3, <1>6, <1>7, <1>8 DEF KindsFit, Moves
<1> QED BY <1>3, <1>9 DEF h

(* The modules give a named vertex the latest of its kinds.                *)
LEMMA SetLatestMoves ==
  ASSUME NEW g, KindsFit(g), NEW id \in Ids, NEW v \in 1..Len(g.vertices), g.ids[id] = v,
         NEW t \in Types, t = Latest[id[1]]
  PROVE  LET h == SetType(g, v, t)
         IN Moves(g, h) /\ h.ids = g.ids /\ Len(h.vertices) = Len(g.vertices)
<1>1. g.ids[id] # NoVertex BY Shape DEF KindsFit, NoVertex
<1>2. g.vertices[v].type \in KindsOf[id[1]] BY <1>1 DEF KindsFit, NamedFit
<1>3. Becomes(g.vertices[v].type, t) /\ t \in KindsOf[id[1]]
  BY <1>2, PrefixOf DEF KindsOf, Latest, Becomes
<1>4. \A i \in Ids : g.ids[i] = v => i = id
  BY <1>1, Shape DEF KindsFit, GoodY, Good, IdsSound
<1> QED BY <1>3, <1>4, SetTypeMoves

(* hwloc gives its type only to a vertex that has none.                    *)
LEMMA TypeIfUnknownMoves ==
  ASSUME NEW g, KindsFit(g), NEW v \in 1..Len(g.vertices), NEW t \in Types,
         \A id \in Ids : g.ids[id] = v => t \in KindsOf[id[1]],
         (\E id \in Ids : g.ids[id] = v) \/ t \in Plain
  PROVE  LET h == TypeIfUnknown(g, v, t)
         IN Moves(g, h) /\ h.ids = g.ids /\ Len(h.vertices) = Len(g.vertices)
<1>1. CASE g.vertices[v].type = Unknown
  BY <1>1, SetTypeMoves DEF TypeIfUnknown, Unknown, Becomes
<1>2. CASE g.vertices[v].type # Unknown
  BY <1>2, MovesReflexive DEF TypeIfUnknown, Unknown
<1> QED BY <1>1, <1>2

------------------------------------------------------------------------------
(* What each module does to the graph in one step moves it.                *)

(* The two ranges of a graph whose names and types another one shares.     *)
LEMMA MovedRange ==
  ASSUME NEW g, NEW h, Moves(g, h), SameTypes(g, h)
  PROVE  KindsFit(h) /\ 1..Len(h.vertices) = 1..Len(g.vertices) /\ h.ids = g.ids
  BY DEF Moves, SameTypes

(* An identifier that has a vertex keeps it.                               *)
LEMMA NameKept ==
  ASSUME NEW g, NEW h, KindsFit(g), Moves(g, h), NEW id \in Ids,
         g.ids[id] \in 1..Len(g.vertices)
  PROVE  h.ids[id] = g.ids[id] /\ h.ids[id] \in 1..Len(h.vertices)
<1>1. h.ids[id] = g.ids[id] BY DEF Moves, NoVertex
<1>2. Len(g.vertices) \in Nat /\ Len(h.vertices) \in Nat BY Shape DEF KindsFit, Moves
<1> QED BY <1>1, <1>2 DEF Moves

LEMMA MachineMoves ==
  ASSUME NEW g, KindsFit(g)
  PROVE  LET id == <<"machine", GetHostName>>
             added == AddVertexId(g, id)
             vd == added.ids[id]
             described == SetRootVertex(SetDescription(added, vd, <<"name", GetHostName>>), vd)
             h == TypeIfUnknown(AddAdapter(described, vd, HwlocAdapter(MachineObj)),
                                vd, HwlocType(MachineObj))
         IN Moves(g, h)
<1> DEFINE id == <<"machine", GetHostName>>
           added == AddVertexId(g, id)
           vd == added.ids[id]
           named == SetDescription(added, vd, <<"name", GetHostName>>)
           rooted == SetRootVertex(named, vd)
           adapted == AddAdapter(rooted, vd, HwlocAdapter(MachineObj))
           h == TypeIfUnknown(adapted, vd, HwlocType(MachineObj))
<1>1. /\ id \in Ids /\ <<"name", GetHostName>> \in Descriptions
      /\ HwlocAdapter(MachineObj) \in Adapters /\ HwlocType(MachineObj) \in Types
  BY TopologyConstants, IdsOf, DescriptionsOf, AdaptersOf, HwlocTypeInTypes
     DEF HwlocAdapter
<1>2. HwlocType(MachineObj) = Latest[id[1]]
  BY TopologyConstants DEF HwlocType, YlocTypeOf, Latest
<1>3. HwlocType(MachineObj) \in KindsOf[id[1]] BY <1>2 DEF KindsOf, Latest
<1>4. Moves(g, added) /\ KindsFit(added) /\ vd \in 1..Len(added.vertices)
  BY <1>1, AddVertexIdMoves DEF Moves
<1>5. added.ids[id] = vd OBVIOUS
<1> HIDE DEF id, added, vd
<1>6. Moves(added, named) /\ SameTypes(added, named) BY <1>1, <1>4, UntypedMoves
<1>7. KindsFit(named) /\ 1..Len(named.vertices) = 1..Len(added.vertices)
        /\ named.ids = added.ids
  BY <1>6, MovedRange
<1> HIDE DEF named
<1>8. Moves(named, rooted) /\ SameTypes(named, rooted) BY <1>4, <1>7, UntypedMoves
<1>9. KindsFit(rooted) /\ 1..Len(rooted.vertices) = 1..Len(added.vertices)
        /\ rooted.ids = added.ids
  BY <1>7, <1>8, MovedRange
<1> HIDE DEF rooted
<1>10. Moves(rooted, adapted) /\ SameTypes(rooted, adapted)
  BY <1>1, <1>4, <1>9, UntypedMoves
<1>11. KindsFit(adapted) /\ vd \in 1..Len(adapted.vertices) /\ adapted.ids[id] = vd
  BY <1>4, <1>5, <1>9, <1>10, MovedRange
<1> HIDE DEF adapted
<1>12. \A i \in Ids : adapted.ids[i] = vd => i = id
  BY <1>1, <1>11, Shape DEF KindsFit, GoodY, Good, IdsSound, NoVertex
<1>13. Moves(adapted, h) BY <1>1, <1>3, <1>11, <1>12, TypeIfUnknownMoves
<1>14. Moves(g, h)
  <2>1. Moves(g, named) BY <1>4, <1>6, MovesTransitive
  <2>2. Moves(g, rooted) BY <2>1, <1>8, MovesTransitive
  <2>3. Moves(g, adapted) BY <2>2, <1>10, MovesTransitive
  <2> QED BY <2>3, <1>13, MovesTransitive
<1> QED BY <1>14 DEF h, adapted, rooted, named, vd, added, id

(* The one type hwloc gives to a vertex that has an address.               *)
LEMMA PciTypes ==
  ASSUME NEW o \in Objects, IsA(HwlocType(o), "PCIDevice")
  PROVE  HwlocType(o) = "PCIDevice" /\ BdfOf[o] \in Bdfs
  BY PciObjectsHaveAddress DEF HwlocType, YlocTypeOf

LEMMA AddChildMoves ==
  ASSUME NEW g, KindsFit(g), NEW vd \in 1..Len(g.vertices), NEW o \in Objects
  PROVE  Moves(g, AddChild(g, vd, o))
<1> DEFINE added == ChildGraph(g, o)
           child == ChildVertex(g, o)
           described == DescribeIfEmpty(added, child, <<"hwloc", HwlocToString(o)>>)
           adapted == AddAdapter(described, child, HwlocAdapter(o))
           typed == TypeIfUnknown(adapted, child, HwlocType(o))
<1>1. /\ <<"hwloc", HwlocToString(o)>> \in Descriptions
      /\ HwlocAdapter(o) \in Adapters /\ HwlocType(o) \in Types
  BY TopologyConstants, DescriptionsOf, AdaptersOf, HwlocTypeInTypes DEF HwlocAdapter
<1>2. /\ Moves(g, added) /\ child \in 1..Len(added.vertices)
      /\ \A id \in Ids : added.ids[id] = child => HwlocType(o) \in KindsOf[id[1]]
      /\ (\E id \in Ids : added.ids[id] = child) \/ HwlocType(o) \in Plain
  <2>1. CASE IsA(HwlocType(o), "PCIDevice")
    <3> DEFINE id == <<"bdfid", BdfOf[o]>>
    <3>1. id \in Ids /\ HwlocType(o) \in KindsOf[id[1]]
      BY <2>1, PciTypes, IdsOf DEF KindsOf
    <3>2. added = AddVertexId(g, id) /\ child = added.ids[id]
      BY <2>1 DEF ChildGraph, ChildVertex
    <3> HIDE DEF id, added, child
    <3>3. Moves(g, added) /\ child \in 1..Len(added.vertices)
      BY <3>1, <3>2, AddVertexIdMoves
    <3>4. \A i \in Ids : added.ids[i] = child => i = id
      BY <3>1, <3>2, <3>3, Shape DEF Moves, KindsFit, GoodY, Good, IdsSound, NoVertex
    <3> QED BY <3>1, <3>2, <3>3, <3>4
  <2>2. CASE ~IsA(HwlocType(o), "PCIDevice")
    <3>1. added = AddVertex(g) /\ child = Len(g.vertices) + 1
      BY <2>2 DEF ChildGraph, ChildVertex
    <3>2. HwlocType(o) \in Plain BY <2>2 DEF Plain
    <3>3. Len(g.vertices) \in Nat BY Shape DEF KindsFit
    <3> QED BY <3>1, <3>2, <3>3, AddVertexMoves
  <2> QED BY <2>1, <2>2
<1>3. KindsFit(added) BY <1>2 DEF Moves
<1> HIDE DEF added, child
<1>4. Moves(added, described) /\ SameTypes(added, described) BY <1>1, <1>2, <1>3, UntypedMoves
<1>5. KindsFit(described) /\ child \in 1..Len(described.vertices)
        /\ described.ids = added.ids
  BY <1>2, <1>4, MovedRange
<1> HIDE DEF described
<1>6. Moves(described, adapted) /\ SameTypes(described, adapted)
  BY <1>1, <1>5, UntypedMoves
<1>7. KindsFit(adapted) /\ child \in 1..Len(adapted.vertices) /\ adapted.ids = added.ids
  BY <1>5, <1>6, MovedRange
<1> HIDE DEF adapted
<1>8. Moves(adapted, typed) /\ Len(typed.vertices) = Len(adapted.vertices)
  BY <1>1, <1>2, <1>7, TypeIfUnknownMoves
<1>9. KindsFit(typed) /\ child \in 1..Len(typed.vertices) BY <1>7, <1>8 DEF Moves
<1> HIDE DEF typed
<1>10. Moves(g, typed)
  <2>1. Moves(g, described) BY <1>2, <1>4, MovesTransitive
  <2>2. Moves(g, adapted) BY <2>1, <1>6, MovesTransitive
  <2> QED BY <2>2, <1>8, MovesTransitive
<1>11. vd \in 1..Len(typed.vertices)
  <2>1. Len(g.vertices) \in Nat /\ Len(typed.vertices) \in Nat
    BY <1>9, Shape DEF KindsFit
  <2> QED BY <2>1, <1>10 DEF Moves
<1>12. Moves(typed, Link(typed, vd, child)) BY <1>9, <1>11, LinkMoves
<1>13. Moves(g, Link(typed, vd, child)) BY <1>10, <1>12, MovesTransitive
<1> QED BY <1>13 DEF AddChild, typed, adapted, described, added, child

LEMMA NvmlMoves ==
  ASSUME KindsFit(graph), NEW d \in DOMAIN NvmlDevs
  PROVE  /\ Moves(graph, NvmlAttach(d))
         /\ Moves(graph, SetType(NvmlAttach(d), NvmlVertex(d), "GPU"))
<1> DEFINE id == <<"bdfid", NvmlBdfid(NvmlDevs[d])>>
           added == AddVertexId(graph, id)
           vd == added.ids[id]
           g == AddAdapter(added, vd, Adapter("nvml", d, {}))
<1>1. id \in Ids BY GpuConstants, IdsOf
<1>2. d \in Devs BY GpuConstants, PlatformConstants DEF Devs
<1>3. /\ Adapter("nvml", d, {}) \in Adapters /\ "GPU" \in Types
      /\ "GPU" = Latest[id[1]]
  BY <1>2, AdaptersOf, AssignedTypes DEF Latest
<1>4. Moves(graph, added) /\ KindsFit(added) /\ vd \in 1..Len(added.vertices)
  BY <1>1, AddVertexIdMoves DEF Moves
<1>5. NvmlAttach(d) = g BY DEF NvmlAttach
<1>6. NvmlVertex(d) = g.ids[id] BY <1>5 DEF NvmlVertex
<1>7. added.ids[id] = vd OBVIOUS
<1> HIDE DEF id, added, vd
<1>8. Moves(added, g) /\ SameTypes(added, g) BY <1>3, <1>4, UntypedMoves
<1>9. KindsFit(g) /\ vd \in 1..Len(g.vertices) /\ g.ids[id] = vd
  BY <1>4, <1>7, <1>8, MovedRange
<1>10. Moves(graph, g) BY <1>4, <1>8, MovesTransitive
<1> HIDE DEF g
<1>11. Moves(g, SetType(g, vd, "GPU")) BY <1>1, <1>3, <1>9, SetLatestMoves
<1>12. Moves(graph, SetType(g, vd, "GPU")) BY <1>10, <1>11, MovesTransitive
<1> QED BY <1>5, <1>6, <1>9, <1>10, <1>12

LEMMA RocmMoves ==
  ASSUME NEW g, KindsFit(g), NEW b \in Bdfs, NEW i \in Devs
  PROVE  LET id == <<"bdfid", b>>
             added == AddVertexId(g, id)
             vd == added.ids[id]
             described == SetDescription(AddAdapter(added, vd, Adapter("rocm", i, {})),
                                         vd, <<"rocm", i>>)
         IN Moves(g, SetType(described, vd, "GPU"))
<1> DEFINE id == <<"bdfid", b>>
           added == AddVertexId(g, id)
           vd == added.ids[id]
           adapted == AddAdapter(added, vd, Adapter("rocm", i, {}))
           described == SetDescription(adapted, vd, <<"rocm", i>>)
           h == SetType(described, vd, "GPU")
<1>1. /\ id \in Ids /\ Adapter("rocm", i, {}) \in Adapters
      /\ <<"rocm", i>> \in Descriptions /\ "GPU" \in Types /\ "GPU" = Latest[id[1]]
  BY IdsOf, AdaptersOf, DescriptionsOf, AssignedTypes DEF Latest
<1>2. Moves(g, added) /\ KindsFit(added) /\ vd \in 1..Len(added.vertices)
  BY <1>1, AddVertexIdMoves DEF Moves
<1>3. added.ids[id] = vd OBVIOUS
<1> HIDE DEF id, added, vd
<1>4. Moves(added, adapted) /\ SameTypes(added, adapted) BY <1>1, <1>2, UntypedMoves
<1>5. KindsFit(adapted) /\ vd \in 1..Len(adapted.vertices) /\ adapted.ids = added.ids
  BY <1>2, <1>4, MovedRange
<1> HIDE DEF adapted
<1>6. Moves(adapted, described) /\ SameTypes(adapted, described)
  BY <1>1, <1>5, UntypedMoves
<1>7. KindsFit(described) /\ vd \in 1..Len(described.vertices) /\ described.ids[id] = vd
  BY <1>3, <1>5, <1>6, MovedRange
<1> HIDE DEF described
<1>8. Moves(described, h) BY <1>1, <1>7, SetLatestMoves
<1>9. Moves(g, adapted) BY <1>2, <1>4, MovesTransitive
<1>10. Moves(g, described) BY <1>9, <1>6, MovesTransitive
<1>11. Moves(g, h) BY <1>10, <1>8, MovesTransitive
<1> QED BY <1>11 DEF h, described, adapted, vd, added, id

LEMMA InterconnectMoves ==
  ASSUME NEW g, KindsFit(g), NEW u \in 1..Len(g.vertices), NEW v \in 1..Len(g.vertices)
  PROVE  Moves(g, Interconnect(g, u, v))
<1> DEFINE f == AddEdge(g, u, v, "GPU_INTERCONNECT")
           h == AddEdge(f, v, u, "GPU_INTERCONNECT")
<1>1. GoodY(f) /\ f.vertices = g.vertices /\ f.ids = g.ids
  BY AddEdgeGrows DEF EdgeTypes, KindsFit, GoodY, Grows
<1>2. Interconnect(g, u, v) = h BY DEF Interconnect
<1> HIDE DEF f
<1>3. GoodY(h) /\ h.vertices = g.vertices /\ h.ids = g.ids
  BY <1>1, AddEdgeGrows DEF EdgeTypes, GoodY, Grows
<1> HIDE DEF h
<1>4. SameTypes(g, h) BY <1>3 DEF SameTypes
<1> QED BY <1>2, <1>3, <1>4, SameTypesMove

LEMMA SupermucNodeMoves ==
  ASSUME NEW g, KindsFit(g), NEW id \in Ids, NEW t \in Types, t = Latest[id[1]],
         NEW n \in Hosts \cup Prefixes
  PROVE  LET added == AddVertexId(g, id)
             vd == added.ids[id]
             h == AddAdapter(SetDescription(SetType(added, vd, t), vd, <<"name", n>>),
                             vd, Adapter("supermuc", n, {}))
         IN Moves(g, h) /\ KindsFit(h) /\ h.ids[id] \in 1..Len(h.vertices)
<1> DEFINE added == AddVertexId(g, id)
           vd == added.ids[id]
           typed == SetType(added, vd, t)
           described == SetDescription(typed, vd, <<"name", n>>)
           h == AddAdapter(described, vd, Adapter("supermuc", n, {}))
<1>1. Adapter("supermuc", n, {}) \in Adapters /\ <<"name", n>> \in Descriptions
  BY AdaptersOf, DescriptionsOf
<1>2. Moves(g, added) /\ KindsFit(added) /\ vd \in 1..Len(added.vertices)
  BY AddVertexIdMoves DEF Moves
<1>3. added.ids[id] = vd OBVIOUS
<1> HIDE DEF added, vd
<1>4. /\ Moves(added, typed) /\ typed.ids = added.ids
      /\ Len(typed.vertices) = Len(added.vertices)
  BY <1>2, <1>3, SetLatestMoves
<1>5. KindsFit(typed) /\ vd \in 1..Len(typed.vertices) BY <1>2, <1>4 DEF Moves
<1> HIDE DEF typed
<1>6. Moves(typed, described) /\ SameTypes(typed, described) BY <1>1, <1>5, UntypedMoves
<1>7. KindsFit(described) /\ vd \in 1..Len(described.vertices) /\ described.ids = added.ids
  BY <1>4, <1>5, <1>6, MovedRange
<1> HIDE DEF described
<1>8. Moves(described, h) /\ SameTypes(described, h) BY <1>1, <1>7, UntypedMoves
<1>9. KindsFit(h) /\ vd \in 1..Len(h.vertices) /\ h.ids[id] = vd
  BY <1>3, <1>7, <1>8, MovedRange
<1>10. Moves(g, typed) BY <1>2, <1>4, MovesTransitive
<1>11. Moves(g, described) BY <1>10, <1>6, MovesTransitive
<1>12. Moves(g, h) BY <1>11, <1>8, MovesTransitive
<1> QED BY <1>9, <1>12 DEF h, described, typed, vd, added

LEMMA HostPathMoves ==
  ASSUME NEW g, KindsFit(g), NEW host \in Hosts
  PROVE  Moves(g, HostPath(g, host))
<1> DEFINE column == Truncate(host, 3)
           rack == Truncate(host, 2)
           island == Truncate(host, 1)
           slotId == <<"machine", host>>
           columnId == <<"system", column>>
           rackId == <<"system", rack>>
           islandId == <<"system", island>>
           g1 == SlotNode(g, host)
           g2 == SystemNode(g1, column)
           g3 == SystemNode(g2, rack)
           nodes == SystemNode(g3, island)
           racked == LinkOnce(nodes, nodes.ids[islandId], nodes.ids[rackId])
           columned == LinkOnce(racked, nodes.ids[rackId], nodes.ids[columnId])
           h == LinkOnce(columned, nodes.ids[columnId], nodes.ids[slotId])
<1>1. /\ column \in Prefixes /\ rack \in Prefixes /\ island \in Prefixes
      /\ {slotId, columnId, rackId, islandId} \subseteq Ids
      /\ "Misc" \in Types /\ "Node" \in Types
      /\ Latest[slotId[1]] = "Node"
      /\ \A id \in {columnId, rackId, islandId} : Latest[id[1]] = "Misc"
  BY PrefixOfHost, IdsOf, AssignedTypes DEF Latest
<1>2. HostPath(g, host) = h BY DEF HostPath
<1> HIDE DEF column, rack, island
<1>3. Moves(g, g1) /\ KindsFit(g1) /\ g1.ids[slotId] \in 1..Len(g1.vertices)
  BY <1>1, SupermucNodeMoves DEF SlotNode
<1> HIDE DEF g1
<1>4. Moves(g1, g2) /\ KindsFit(g2) /\ g2.ids[columnId] \in 1..Len(g2.vertices)
  BY <1>1, <1>3, SupermucNodeMoves DEF SystemNode
<1> HIDE DEF g2
<1>5. Moves(g2, g3) /\ KindsFit(g3) /\ g3.ids[rackId] \in 1..Len(g3.vertices)
  BY <1>1, <1>4, SupermucNodeMoves DEF SystemNode
<1> HIDE DEF g3
<1>6. Moves(g3, nodes) /\ KindsFit(nodes) /\ nodes.ids[islandId] \in 1..Len(nodes.vertices)
  BY <1>1, <1>5, SupermucNodeMoves DEF SystemNode
<1> HIDE DEF nodes, slotId, columnId, rackId, islandId
<1>7. Moves(g2, nodes) BY <1>4, <1>5, <1>6, MovesTransitive
<1>8. Moves(g1, nodes) BY <1>3, <1>4, <1>7, MovesTransitive
<1>9. Moves(g, nodes) BY <1>3, <1>8, MovesTransitive
<1>10. /\ nodes.ids[slotId] \in 1..Len(nodes.vertices)
       /\ nodes.ids[columnId] \in 1..Len(nodes.vertices)
       /\ nodes.ids[rackId] \in 1..Len(nodes.vertices)
  BY <1>1, <1>3, <1>4, <1>5, <1>6, <1>7, <1>8, NameKept
<1>11. Moves(nodes, racked) /\ SameTypes(nodes, racked) BY <1>6, <1>10, LinkMoves
<1>12. KindsFit(racked) /\ 1..Len(racked.vertices) = 1..Len(nodes.vertices)
  BY <1>6, <1>11, MovedRange
<1> HIDE DEF racked
<1>13. Moves(racked, columned) /\ SameTypes(racked, columned)
  BY <1>6, <1>10, <1>12, LinkMoves
<1>14. KindsFit(columned) /\ 1..Len(columned.vertices) = 1..Len(nodes.vertices)
  BY <1>12, <1>13, MovedRange
<1> HIDE DEF columned
<1>15. Moves(columned, h) BY <1>10, <1>14, LinkMoves
<1>16. Moves(g, racked) BY <1>9, <1>11, MovesTransitive
<1>17. Moves(g, columned) BY <1>16, <1>13, MovesTransitive
<1>18. Moves(g, h) BY <1>17, <1>15, MovesTransitive
<1> QED BY <1>2, <1>18

LEMMA AddRankMoves ==
  ASSUME NEW g, KindsFit(g), mpi.rank \in Ranks, env \in Envs
  PROVE  LET h == AddRank(g)
         IN /\ Moves(g, h) /\ KindsFit(h)
            /\ h.ids[RankId] \in 1..Len(h.vertices)
            /\ h.ids[MachineId] \in 1..Len(h.vertices)
<1> DEFINE f == AddVertexId(g, MachineId)
           added == AddVertexId(f, RankId)
           vd == added.ids[RankId]
           a == Adapter("mpi", mpi.rank, IF Pinned THEN {Mask} ELSE {})
           typed == SetType(added, vd, "MPIProcess")
           h == AddAdapter(typed, vd, a)
<1>1. RankId \in Ids /\ MachineId \in Ids
  BY IdsOf, PlatformConstants DEF RankId, MachineId, Host
<1>2. Mask \subseteq CPU BY MpiConstants DEF Mask, MaskOf, Bits
<1>3. a \in Adapters /\ "MPIProcess" \in Types /\ "MPIProcess" = Latest[RankId[1]]
  BY <1>2, AdaptersOf, AssignedTypes DEF Latest, RankId
<1>4. AddRank(g) = h BY DEF AddRank
<1> HIDE DEF a
<1>5. Moves(g, f) /\ KindsFit(f) /\ f.ids[MachineId] \in 1..Len(f.vertices)
  BY <1>1, AddVertexIdMoves DEF Moves
<1> HIDE DEF f
<1>6. Moves(f, added) /\ KindsFit(added) /\ vd \in 1..Len(added.vertices)
  BY <1>1, <1>5, AddVertexIdMoves DEF Moves
<1>7. added.ids[MachineId] \in 1..Len(added.vertices)
  BY <1>1, <1>5, <1>6, NameKept
<1>8. added.ids[RankId] = vd OBVIOUS
<1> HIDE DEF added, vd
<1>9. /\ Moves(added, typed) /\ typed.ids = added.ids
      /\ Len(typed.vertices) = Len(added.vertices)
  BY <1>1, <1>3, <1>6, <1>8, SetLatestMoves
<1>10. KindsFit(typed) /\ vd \in 1..Len(typed.vertices) BY <1>6, <1>9 DEF Moves
<1> HIDE DEF typed
<1>11. Moves(typed, h) /\ SameTypes(typed, h) BY <1>3, <1>10, UntypedMoves
<1>12. /\ KindsFit(h) /\ 1..Len(h.vertices) = 1..Len(added.vertices) /\ h.ids = added.ids
  BY <1>9, <1>11, MovedRange
<1>13. Moves(g, added) BY <1>5, <1>6, MovesTransitive
<1>14. Moves(g, typed) BY <1>13, <1>9, MovesTransitive
<1>15. Moves(g, h) BY <1>14, <1>11, MovesTransitive
<1> HIDE DEF h
<1> QED BY <1>4, <1>6, <1>7, <1>8, <1>12, <1>15

------------------------------------------------------------------------------
(* The steps of init(), by the modules that take them.                     *)

LEMMA Untouched ==
  ASSUME KindsFit(graph), UNCHANGED graph
  PROVE  Moves(graph, graph')
  BY MovesReflexive

LEMMA HwlocMoves ==
  ASSUME KindsFit(graph), WalkInv, HwlocNext
  PROVE  Moves(graph, graph')
<1>1. CASE HwlocAddMachine
  BY <1>1, MachineMoves DEF HwlocAddMachine
<1>2. CASE HwlocVisitChild
  <2> DEFINE child == Children[Top.obj][Top.next]
  <2>1. Top \in Calls /\ Top.vd \in 1..Len(graph.vertices)
    <3>1. walk \in Seq(Calls) /\ walk # <<>>
            /\ \A i \in DOMAIN walk : walk[i].vd \in DOMAIN graph.vertices
      BY <1>2 DEF WalkInv, HwlocTypeOK, WalkSound, HwlocVisitChild
    <3>2. DOMAIN graph.vertices = 1..Len(graph.vertices) BY Shape DEF KindsFit
    <3> QED BY <3>1, <3>2 DEF Top
  <2>2. child \in Objects
    BY <2>1, <1>2, TopologyConstants DEF HwlocVisitChild, HasNextChild, Calls
  <2>3. graph' = AddChild(graph, Top.vd, child) BY <1>2 DEF HwlocVisitChild
  <2> HIDE DEF child
  <2> QED BY <2>1, <2>2, <2>3, AddChildMoves
<1>3. CASE HwlocVersionMismatch \/ HwlocAscend \/ HwlocReturn
  BY <1>3, Untouched DEF HwlocVersionMismatch, HwlocAscend, HwlocReturn
<1> QED BY <1>1, <1>2, <1>3 DEF HwlocNext

LEMMA GpuMoves ==
  ASSUME KindsFit(graph), GpuInv, GpuNext
  PROVE  Moves(graph, graph')
<1>1. CASE NvmlDevice
  <2>1. PICK d \in NvmlHandles \cap DOMAIN NvmlDevs :
          graph' = SetType(NvmlAttach(d), NvmlVertex(d), "GPU")
    BY <1>1 DEF NvmlDevice
  <2> QED BY <2>1, NvmlMoves
<1>2. CASE NvmlAssertFails
  <2>1. PICK d \in NvmlHandles \cap DOMAIN NvmlDevs : graph' = NvmlAttach(d)
    BY <1>2 DEF NvmlAssertFails
  <2> QED BY <2>1, NvmlMoves
<1>3. CASE RocmDevice
  <2>1. PICK b \in RocmBdfids :
          LET id == <<"bdfid", b>>
              g == AddVertexId(graph, id)
              vd == g.ids[id]
              described == SetDescription(AddAdapter(g, vd, Adapter("rocm", gpu.next, {})),
                                          vd, <<"rocm", gpu.next>>)
          IN graph' = SetType(described, vd, "GPU")
    BY <1>3 DEF RocmDevice
  <2>2. gpu.next \in Devs /\ b \in Bdfs
    BY <1>3, GpuFacts, PlatformConstants DEF Devs, RocmBdfids, RocmDevice, AtDevice
  <2> QED BY <2>1, <2>2, RocmMoves
<1>4. ASSUME NEW m \in {"nvml", "rocm"}, GpuPair(m) PROVE Moves(graph, graph')
  <2> DEFINE u == gpu.vertices[gpu.src]
             v == gpu.vertices[gpu.dst]
  <2>1. gpu.stage = "links" /\ gpu.src < gpu.count BY <1>4 DEF GpuPair, AtPair
  <2>2. graph' = Interconnect(graph, u, v) \/ graph' = graph BY <1>4 DEF GpuPair
  <2>3. u \in 1..Len(graph.vertices) /\ v \in 1..Len(graph.vertices)
    <3>1. /\ gpu.next = gpu.count + 1 /\ gpu.src < gpu.dst /\ gpu.dst <= gpu.count
          /\ \A i \in 1..gpu.count : i < gpu.next => gpu.vertices[i] \in 1..Len(graph.vertices)
      BY <2>1, Shape DEF GpuInv, GpuSound, KindsFit
    <3>2. /\ gpu.src \in 1..gpu.count /\ gpu.src < gpu.next
          /\ gpu.dst \in 1..gpu.count /\ gpu.dst < gpu.next
      BY <3>1, <2>1, GpuFacts
    <3> QED BY <3>1, <3>2
  <2> QED BY <2>2, <2>3, InterconnectMoves, MovesReflexive
<1>5. CASE NvmlThrows BY <1>5, Untouched DEF NvmlThrows
<1>6. ASSUME NEW m \in {"nvml", "rocm"},
             GpuCount(m) \/ GpuCountThrows(m) \/ GpuDevicesDone(m) \/ GpuReturn(m)
      PROVE  Moves(graph, graph')
  BY <1>6, Untouched DEF GpuCount, GpuCountThrows, GpuDevicesDone, GpuReturn
<1> QED BY <1>1, <1>2, <1>3, <1>4, <1>5, <1>6 DEF GpuNext

LEMMA SupermucMoves ==
  ASSUME KindsFit(graph), SupermucTypeOK, SupermucNext
  PROVE  Moves(graph, graph')
<1>1. CASE SupermucAddHost
  <2>1. graph' = HostPath(graph, ProcName[smRank]) /\ smRank \in Ranks
    BY <1>1, PlatformConstants DEF SupermucAddHost, SupermucTypeOK, Ranks
  <2> QED BY <2>1, HostPathMoves, PlatformConstants
<1>2. CASE SupermucRefuses \/ SupermucReturn
  BY <1>2, Untouched DEF SupermucRefuses, SupermucReturn
<1> QED BY <1>1, <1>2 DEF SupermucNext

LEMMA MpiMoves ==
  ASSUME KindsFit(graph), ControlInv, MpiInv, MpiNext
  PROVE  Moves(graph, graph')
<1>1. NRanks \in Nat /\ mpi.rank \in 0..NRanks /\ env \in Envs
  BY PlatformConstants DEF MpiInv, MpiTypeOK, ControlInv
<1>2. CASE MpiAddRemote
  <2> DEFINE g == AddRank(graph)
             h == Link(g, g.ids[MachineId], g.ids[RankId])
  <2>1. graph' = h /\ mpi.rank \in Ranks BY <1>1, <1>2 DEF MpiAddRemote, Ranks
  <2>2. /\ Moves(graph, g) /\ KindsFit(g) /\ g.ids[RankId] \in 1..Len(g.vertices)
        /\ g.ids[MachineId] \in 1..Len(g.vertices)
    BY <1>1, <2>1, AddRankMoves
  <2> HIDE DEF g
  <2>3. Moves(g, h) BY <2>2, LinkMoves
  <2> QED BY <2>1, <2>2, <2>3, MovesTransitive
<1>3. CASE MpiAddLocal
  <2>1. graph' = AddRank(graph) /\ mpi.rank \in Ranks BY <1>1, <1>3 DEF MpiAddLocal, Ranks
  <2> QED BY <1>1, <2>1, AddRankMoves
<1>4. CASE MpiAttach
  <2>1. graph' = Link(graph, mpi.at, graph.ids[RankId]) /\ mpi.stage = "descend"
    BY <1>4 DEF MpiAttach
  <2>2. mpi.at \in 1..Len(graph.vertices) /\ graph.ids[RankId] \in 1..Len(graph.vertices)
    BY <2>1, Shape DEF MpiInv, MpiSound, KindsFit
  <2> QED BY <2>1, <2>2, LinkMoves
<1>5. CASE MpiRefuses \/ MpiGather \/ MpiDescend \/ MpiAssertFails \/ MpiReturn
  BY <1>5, Untouched DEF MpiRefuses, MpiGather, MpiDescend, MpiAssertFails, MpiReturn
<1> QED BY <1>2, <1>3, <1>4, <1>5 DEF MpiNext

(* Every step of init() keeps the types fitting what names the vertices.   *)
LEMMA StepMoves ==
  IInv /\ KindsFit(graph) /\ [Next]_vars => Moves(graph, graph')
<1> SUFFICES ASSUME IInv, KindsFit(graph), [Next]_vars PROVE Moves(graph, graph')
  OBVIOUS
<1>1. ControlInv /\ WalkInv /\ GpuInv /\ MpiInv /\ SupermucTypeOK BY Parts
<1>2. CASE InitCall \/ CallModule \/ InitReturn \/ UNCHANGED vars
  BY <1>2, Untouched DEF InitCall, CallModule, InitReturn, vars, interface
<1>3. CASE HwlocNext BY <1>1, <1>3, HwlocMoves
<1>4. CASE GpuNext BY <1>1, <1>4, GpuMoves
<1>5. CASE SupermucNext BY <1>1, <1>5, SupermucMoves
<1>6. CASE MpiNext BY <1>1, <1>6, MpiMoves
<1> QED BY <1>2, <1>3, <1>4, <1>5, <1>6 DEF Next, InitStep, ModuleStep

LEMMA InitFits ==
  Init => KindsFit(graph)
<1> SUFFICES ASSUME Init PROVE KindsFit(graph)
  OBVIOUS
<1>1. graph = EmptyGraph(Ids) BY DEF Init, InterfaceInit
<1>2. GoodY(graph) BY <1>1, EmptyGraphGood DEF GoodY
<1>3. NamedFit(graph) BY <1>1 DEF NamedFit, EmptyGraph
<1>4. OthersFit(graph) BY <1>1 DEF OthersFit, EmptyGraph
<1> QED BY <1>2, <1>3, <1>4 DEF KindsFit

LEMMA FitInvariance ==
  Spec => []KindsFit(graph)
<1>1. IInv /\ KindsFit(graph) /\ [Next]_vars => KindsFit(graph)'
  <2> SUFFICES ASSUME IInv, KindsFit(graph), [Next]_vars PROVE KindsFit(graph)'
    OBVIOUS
  <2>1. KindsFit(graph') BY StepMoves DEF Moves
  <2> QED BY <2>1 DEF KindsFit, GoodY, NamedFit, OthersFit
<1> QED BY <1>1, InitFits, Invariance, PTL DEF Spec

(* What a class derived from PCIDevice or MPIProcess can be.               *)
LEMMA PciKinds ==
  ASSUME NEW t \in Types, IsA(t, "PCIDevice")
  PROVE  t \in PciClasses
<1>1. \A p \in Inherits : p[2] \in PciClasses => p[1] \in PciClasses
  BY DEF Inherits, PciClasses
<1> QED BY <1>1, OutsideDerived DEF IsA, PciClasses

LEMMA ProcessKinds ==
  ASSUME NEW t \in Types, IsA(t, "MPIProcess")
  PROVE  t = "MPIProcess"
<1> DEFINE P == {"MPIProcess"}
<1>1. \A p \in Inherits : p[2] \in P => p[1] \in P
  BY DEF Inherits
<1> QED BY <1>1, OutsideDerived DEF IsA

LEMMA PlainKinds ==
  ASSUME NEW t \in Plain
  PROVE  ~IsA(t, "PCIDevice") /\ ~IsA(t, "MPIProcess")
<1>1. Unknown \in Types
  <2>1. <<"UnknownComponentType", "Component">> \in Inherits BY DEF Inherits
  <2> QED BY <2>1 DEF Types, Unknown
<1>2. t \in Types /\ t # "MPIProcess"
  <2>1. \A o \in Objects : HwlocType(o) # "MPIProcess"
    BY TopologyConstants DEF HwlocType, YlocTypeOf
  <2> QED BY <1>1, <2>1, HwlocTypeInTypes DEF Plain, Unknown
<1>3. ~IsA(t, "PCIDevice")
  <2>1. CASE t = Unknown BY <1>2, <2>1, PciKinds DEF Unknown, PciClasses
  <2>2. CASE t # Unknown BY <2>2 DEF Plain
  <2> QED BY <2>1, <2>2
<1> QED BY <1>2, <1>3, ProcessKinds

LEMMA FitUnique ==
  KindsFit(graph) => DevicesNotDuplicated
<1> SUFFICES ASSUME KindsFit(graph), NEW v \in DOMAIN graph.vertices
             PROVE  /\ IsA(graph.vertices[v].type, "PCIDevice") =>
                         \E b \in Bdfs : graph.ids[<<"bdfid", b>>] = v
                    /\ IsA(graph.vertices[v].type, "MPIProcess") =>
                         \E i \in Ranks : graph.ids[<<"mpi_rank", i>>] = v
  BY DEF DevicesNotDuplicated
<1> DEFINE t == graph.vertices[v].type
<1>1. t \in Types BY TypeOfVertex DEF KindsFit
<1>2. v # NoVertex BY Shape DEF KindsFit, NoVertex
<1> HIDE DEF t
<1> SUFFICES ASSUME IsA(t, "PCIDevice") \/ IsA(t, "MPIProcess")
             PROVE  /\ IsA(t, "PCIDevice") =>
                         \E b \in Bdfs : graph.ids[<<"bdfid", b>>] = v
                    /\ IsA(t, "MPIProcess") =>
                         \E i \in Ranks : graph.ids[<<"mpi_rank", i>>] = v
  BY DEF t
<1>3. t \notin Plain BY PlainKinds
<1>4. PICK id \in Ids : graph.ids[id] = v BY <1>3 DEF KindsFit, OthersFit, t
<1>5. t \in KindsOf[id[1]] BY <1>2, <1>4 DEF KindsFit, NamedFit, t
<1>6. ASSUME IsA(t, "PCIDevice") PROVE \E b \in Bdfs : graph.ids[<<"bdfid", b>>] = v
  <2>1. t \in PciClasses BY <1>1, <1>6, PciKinds
  <2>2. id[1] = "bdfid" BY <2>1, <1>5, PrefixOf DEF KindsOf, PciClasses, Unknown
  <2>3. PICK b \in Bdfs : id = <<"bdfid", b>> BY <2>2 DEF Ids
  <2> QED BY <2>3, <1>4
<1>7. ASSUME IsA(t, "MPIProcess") PROVE \E i \in Ranks : graph.ids[<<"mpi_rank", i>>] = v
  <2>1. t = "MPIProcess" BY <1>1, <1>7, ProcessKinds
  <2>2. id[1] = "mpi_rank" BY <2>1, <1>5, PrefixOf DEF KindsOf, Unknown
  <2>3. PICK i \in Ranks : id = <<"mpi_rank", i>> BY <2>2 DEF Ids
  <2> QED BY <2>3, <1>4
<1> QED BY <1>6, <1>7

(* A vertex that is a PCI device or a process is named by its address or   *)
(* its rank, so no module and no second init() adds another for the same,  *)
(* on any platform: make_hwloc_graph, the device loops of nvml and rocm    *)
(* and make_mpi_graph all go through add_vertex(id).                       *)
THEOREM InitDevicesOnce ==
  Spec => []DevicesNotDuplicated
  BY FitInvariance, FitUnique, PTL

------------------------------------------------------------------------------
LEMMA BasesGrow ==
  ASSUME NEW S
  PROVE  S \subseteq WithBases(S)
  BY DEF WithBases

(* Every class is above itself, and a GPU is a PCI device.                 *)
LEMMA IsAReflexive ==
  ASSUME NEW t \in Types
  PROVE  IsA(t, t)
<1>1. \A S : t \in S => t \in WithBases(S) BY BasesGrow
<1> QED BY <1>1 DEF IsA, Ancestors

LEMMA GpuIsPciDevice ==
  IsA("GPU", "PCIDevice")
<1>1. <<"GPU", "Accelerator">> \in Inherits /\ <<"Accelerator", "PCIDevice">> \in Inherits
  BY DEF Inherits
<1>2. "GPU" \in Types /\ "Accelerator" \in Types BY <1>1 DEF Types
<1>3. "Accelerator" \in Bases["GPU"] /\ "PCIDevice" \in Bases["Accelerator"]
  BY <1>1, <1>2 DEF Bases
<1>4. "Accelerator" \in WithBases({"GPU"}) BY <1>3 DEF WithBases
<1>5. "PCIDevice" \in WithBases(WithBases({"GPU"})) BY <1>3, <1>4 DEF WithBases
<1>6. \A S : "PCIDevice" \in S => "PCIDevice" \in WithBases(S) BY BasesGrow
<1> QED BY <1>2, <1>5, <1>6 DEF IsA, Ancestors

(* The directory's classes are those of component_types.h.                 *)
LEMMA SameClasses ==
  Directory!Types = Types /\ \A t, u : Directory!IsA(t, u) <=> IsA(t, u)
<1>1. Directory!Inherits = Inherits BY Zenon DEF Directory!Inherits, Inherits
<1>2. Directory!Types = Types BY <1>1, Zenon DEF Directory!Types, Types
<1>3. Directory!Bases = Bases BY <1>1, <1>2, Zenon DEF Directory!Bases, Bases
<1>4. \A S : Directory!WithBases(S) = WithBases(S)
  BY <1>3, Zenon DEF Directory!WithBases, WithBases
<1>5. Directory!Ancestors = Ancestors
  BY <1>2, <1>4 DEF Directory!Ancestors, Ancestors
<1> QED BY <1>2, <1>5 DEF Directory!IsA, IsA

(* A step that moves the graph is a step of the directory.                 *)
LEMMA MovesContribute ==
  KindsFit(graph) /\ Moves(graph, graph') => Directory!Contribute
<1> SUFFICES ASSUME KindsFit(graph), Moves(graph, graph') PROVE Directory!Contribute
  OBVIOUS
<1>1. /\ GoodY(graph) /\ GoodY(graph')
      /\ DOMAIN graph.vertices = 1..Len(graph.vertices) /\ Len(graph.vertices) \in Nat
      /\ DOMAIN graph'.vertices = 1..Len(graph'.vertices) /\ Len(graph'.vertices) \in Nat
      /\ Len(graph.vertices) <= Len(graph'.vertices)
  BY Shape DEF KindsFit, Moves
<1>2. Directory!Register
  BY <1>1 DEF Moves, Directory!Register, Directory!Handles, Directory!NoHandle, NoVertex
<1>3. Directory!Unshared
  BY <1>1, Shape DEF GoodY, Good, IdsSound, Directory!Unshared, Directory!NoHandle, NoVertex
<1>4. Directory!Classify
  <2> SUFFICES ASSUME NEW v \in DOMAIN graph.vertices
               PROVE  /\ v \in DOMAIN graph'.vertices
                      /\ graph.vertices[v].type # "UnknownComponentType" =>
                           IsA(graph'.vertices[v].type, graph.vertices[v].type)
    BY <1>1, SameClasses DEF Directory!Classify, Directory!Handles
  <2>1. v \in DOMAIN graph'.vertices BY <1>1
  <2>2. Becomes(graph.vertices[v].type, graph'.vertices[v].type) BY <1>1 DEF Moves
  <2>3. graph.vertices[v].type \in Types BY <1>1, TypeOfVertex
  <2> QED BY <2>1, <2>2, <2>3, IsAReflexive, GpuIsPciDevice DEF Becomes, Unknown
<1> QED BY <1>2, <1>3, <1>4 DEF Directory!Contribute

(* init(), called any number of times with any modules and any answers of  *)
(* the libraries, implements the component directory: identifiers keep     *)
(* their vertices and a type is only replaced by a class derived from it.  *)
THEOREM InitIsADirectory ==
  Spec => ImplementsDirectory
<1>1. Init => Directory!Init
  <2> SUFFICES ASSUME Init PROVE Directory!Init
    OBVIOUS
  <2>1. graph.ids = [id \in Ids |-> 0] /\ graph.vertices = <<>>
    BY DEF Init, InterfaceInit, EmptyGraph, NoVertex
  <2> QED BY <2>1 DEF Directory!Init, Directory!Handles, Directory!NoHandle
<1>2. IInv /\ KindsFit(graph) /\ [Next]_vars =>
        [Directory!Contribute]_<<graph.ids,
          [v \in DOMAIN graph.vertices |-> graph.vertices[v].type]>>
  BY StepMoves, MovesContribute
<1> QED BY <1>1, <1>2, Invariance, FitInvariance, PTL
   DEF Spec, ImplementsDirectory, Directory!Spec
=============================================================================

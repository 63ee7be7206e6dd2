---------------------------- MODULE HwlocModule ----------------------------
(***************************************************************************)
(* modules/hwloc: walks the hwloc topology in preorder and copies it into  *)
(* the graph.  The recursion of make_hwloc_graph is the sequence walk of   *)
(* its active calls, the innermost one last.                               *)
(***************************************************************************)
EXTENDS ModuleInterface

CONSTANTS
  MachineObj,   \* hwloc_get_root_obj
  Children,     \* the children of each object, in hwloc_get_next_child order
  CpusetOf,     \* its cpuset, as an optional: {} for I/O and misc objects
  BdfOf,        \* the address of a PCI object
  GetHostName   \* gethostname() on this machine

(* hwloc_2_yloc_type.  An OS device is named by its osdev type, a cache by *)
(* its level; instruction caches are filtered out by set_hwloc_options     *)
(* and so are bridges.                                                     *)
YlocTypeOf ==
  [L1CACHE |-> "L1DataCache", L2CACHE |-> "L2DataCache", L3CACHE |-> "L3DataCache",
   L4CACHE |-> "L4DataCache", L5CACHE |-> "DataCache",
   L1ICACHE |-> "L1InstructionCache", L2ICACHE |-> "L2InstructionCache",
   L3ICACHE |-> "L3InstructionCache",
   NUMANODE |-> "Memory", MEMCACHE |-> "Memory",
   OSDEV_GPU |-> "LogicalGPU", OSDEV_COPROC |-> "LogicalAccelerator",
   OSDEV_DMA |-> "Misc", OSDEV_NETWORK |-> "Misc", OSDEV_OPENFABRICS |-> "Misc",
   OSDEV_BLOCK |-> "Misc", CORE |-> "PhysicalCore", PU |-> "LogicalCore",
   MACHINE |-> "Node", PACKAGE |-> "Misc", GROUP |-> "Misc", MISC |-> "Misc",
   BRIDGE |-> "Bridge", PCI_DEVICE |-> "PCIDevice", DIE |-> "Misc"]

HwlocType(o) == YlocTypeOf[ObjType[o]]

ASSUME TopologyConstants ==
  /\ MachineObj \in Objects
  /\ Children \in [Objects -> Seq(Objects)]
  /\ \A o \in Objects : ObjType[o] \in DOMAIN YlocTypeOf
  /\ ObjType[MachineObj] = "MACHINE"
  /\ \A o \in Objects : ObjType[o] = "MACHINE" => o = MachineObj
  /\ CpusetOf \in [Objects -> SUBSET SUBSET CPU]
  /\ \A o \in Objects : ObjType[o] = "PCI_DEVICE" => BdfOf[o] \in Bdfs
  /\ GetHostName \in Hosts

(* What hwloc guarantees of a topology: every object is below the root; an *)
(* object has one cpuset or none, and an I/O object none.                  *)
ASSUME TopologyShape ==
  /\ \A S \in SUBSET Objects :
       MachineObj \in S /\ (\A o \in S : \A k \in DOMAIN Children[o] : Children[o][k] \in S)
         => S = Objects
  /\ \A o \in Objects : \A m1, m2 \in CpusetOf[o] : m1 = m2
  /\ \A o \in Objects : ObjType[o] = "PCI_DEVICE" => CpusetOf[o] = {}

(* And of its tree: an object is the child of one object, once, the root   *)
(* of none; and two PCI objects have two addresses.                        *)
ASSUME TopologyTree ==
  /\ \A o, p \in Objects : \A k \in DOMAIN Children[o], l \in DOMAIN Children[p] :
       Children[o][k] = Children[p][l] => o = p /\ k = l
  /\ \A o \in Objects : \A k \in DOMAIN Children[o] : Children[o][k] # MachineObj
  /\ \A o, p \in Objects : ObjType[o] = "PCI_DEVICE" /\ ObjType[p] = "PCI_DEVICE"
                              /\ BdfOf[o] = BdfOf[p] => o = p

(* And of its CPUs.  A child has none but its parent's.  A memory object,  *)
(* if it has any, has all of them, and so has what is below it; it comes   *)
(* after the siblings it shares them with, the others share none.          *)
IsMemory(o) == ObjType[o] \in {"NUMANODE", "MEMCACHE"}
ASSUME CpusetsNest ==
  /\ CpusetOf[MachineObj] # {}
  /\ \A o \in Objects : \A k \in DOMAIN Children[o] : \A m \in CpusetOf[Children[o][k]] :
       /\ \E n \in CpusetOf[o] : m \subseteq n /\ (IsMemory(Children[o][k]) /\ m # {} => m = n)
       /\ IsMemory(o) /\ m # {} => IsMemory(Children[o][k])
       /\ \A l \in DOMAIN Children[o] : \A n \in CpusetOf[Children[o][l]] :
            k < l /\ m \cap n # {} => IsMemory(Children[o][l])

VARIABLE walk

Calls == [obj : Objects, vd : Nat \ {0}, next : Nat \ {0}]

HwlocTypeOK == walk \in Seq(Calls)
HwlocInit == walk = <<>>

HwlocAdapter(o) == Adapter("hwloc", o, CpusetOf[o])

(* HwlocAdapter::to_string: the type only, the same for every OS device.   *)
HwlocToString(o) ==
  IF ObjType[o] \in {"OSDEV_GPU", "OSDEV_COPROC", "OSDEV_DMA", "OSDEV_NETWORK",
                     "OSDEV_OPENFABRICS", "OSDEV_BLOCK"}
    THEN "OSDev" ELSE ObjType[o]

(* check_hwloc_api_version fails.                                          *)
HwlocVersionMismatch ==
  /\ Running("hwloc") /\ walk = <<>> /\ ~env.abi
  /\ Return("hwloc", "INIT_ERROR")
  /\ UNCHANGED <<graph, walk>>

(* The machine vertex, up to the call of make_hwloc_graph.                 *)
HwlocAddMachine ==
  LET id == <<"machine", GetHostName>>
      g == AddVertexId(graph, id)
      vd == g.ids[id]
      described == SetRootVertex(SetDescription(g, vd, <<"name", GetHostName>>), vd)
  IN /\ Running("hwloc") /\ walk = <<>> /\ env.abi
     /\ graph' = TypeIfUnknown(AddAdapter(described, vd, HwlocAdapter(MachineObj)),
                               vd, HwlocType(MachineObj))
     /\ walk' = <<[obj |-> MachineObj, vd |-> vd, next |-> 1]>>
     /\ Stay

(* The vertex of a child: by its address for a PCI device, else a new one. *)
ChildGraph(g, o) ==
  IF IsA(HwlocType(o), "PCIDevice")
    THEN AddVertexId(g, <<"bdfid", BdfOf[o]>>)
    ELSE AddVertex(g)

ChildVertex(g, o) ==
  IF IsA(HwlocType(o), "PCIDevice")
    THEN ChildGraph(g, o).ids[<<"bdfid", BdfOf[o]>>]
    ELSE Len(g.vertices) + 1

(* Mutant of AddChild: the type is written whatever the vertex had.        *)
AddChildRetypes(g, vd, o) ==
  LET child == ChildVertex(g, o)
      described == DescribeIfEmpty(ChildGraph(g, o), child, <<"hwloc", HwlocToString(o)>>)
      typed == SetType(AddAdapter(described, child, HwlocAdapter(o)), child, HwlocType(o))
  IN Link(typed, vd, child)

(* One iteration of the loop of make_hwloc_graph, up to the recursive call.*)
AddChild(g, vd, o) ==
  LET child == ChildVertex(g, o)
      described == DescribeIfEmpty(ChildGraph(g, o), child, <<"hwloc", HwlocToString(o)>>)
      typed == TypeIfUnknown(AddAdapter(described, child, HwlocAdapter(o)),
                             child, HwlocType(o))
  IN Link(typed, vd, child)

Top == walk[Len(walk)]
HasNextChild == Top.next <= Len(Children[Top.obj])

HwlocVisitChild ==
  /\ Running("hwloc") /\ walk # <<>> /\ HasNextChild
  /\ LET child == Children[Top.obj][Top.next]
     IN /\ graph' = AddChild(graph, Top.vd, child)
        /\ walk' = Append([walk EXCEPT ![Len(walk)].next = @ + 1],
                          [obj |-> child, vd |-> ChildVertex(graph, child), next |-> 1])
  /\ Stay

(* A recursive call returns to its caller.                                 *)
HwlocAscend ==
  /\ Running("hwloc") /\ Len(walk) > 1 /\ ~HasNextChild
  /\ walk' = SubSeq(walk, 1, Len(walk) - 1)
  /\ UNCHANGED graph
  /\ Stay

HwlocReturn ==
  /\ Running("hwloc") /\ Len(walk) = 1 /\ ~HasNextChild
  /\ walk' = <<>>
  /\ Return("hwloc", "SUCCESS")
  /\ UNCHANGED graph

HwlocNext ==
  \/ HwlocVersionMismatch
  \/ HwlocAddMachine
  \/ HwlocVisitChild
  \/ HwlocAscend
  \/ HwlocReturn
==============================================================================

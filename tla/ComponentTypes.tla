--------------------------- MODULE ComponentTypes ---------------------------
(***************************************************************************)
(* The component type hierarchy of component_types.h.  A type is the name  *)
(* of its class; a class inherits from the bases its YLOC_DECLARE_TYPE     *)
(* names; is_a<T> is a dynamic_cast, so it holds for the class itself and  *)
(* for everything above it.                                                *)
(***************************************************************************)

(* <<derived class, base class>> for every declaration of the header.      *)
Inherits ==
  {<<"UnknownComponentType", "Component">>, <<"Node", "Component">>,
   <<"Compute", "Component">>, <<"CPUCore", "Compute">>,
   <<"LogicalCore", "CPUCore">>, <<"PhysicalCore", "CPUCore">>,
   <<"Storage", "Component">>, <<"Memory", "Storage">>, <<"Cache", "Storage">>,
   <<"PersistentStorage", "Storage">>, <<"VolatileMemory", "Memory">>,
   <<"NonVolatileMemory", "Memory">>, <<"DataCache", "Cache">>,
   <<"InstructionCache", "Cache">>, <<"UnifiedCache", "DataCache">>,
   <<"UnifiedCache", "InstructionCache">>,
   <<"L1Cache", "Cache">>, <<"L2Cache", "Cache">>,
   <<"L3Cache", "Cache">>, <<"L4Cache", "Cache">>,
   <<"L1DataCache", "L1Cache">>, <<"L1DataCache", "DataCache">>,
   <<"L2DataCache", "L2Cache">>, <<"L2DataCache", "DataCache">>,
   <<"L3DataCache", "L3Cache">>, <<"L3DataCache", "DataCache">>,
   <<"L4DataCache", "L4Cache">>, <<"L4DataCache", "DataCache">>,
   <<"L1InstructionCache", "L1Cache">>, <<"L1InstructionCache", "InstructionCache">>,
   <<"L2InstructionCache", "L2Cache">>, <<"L2InstructionCache", "InstructionCache">>,
   <<"L3InstructionCache", "L3Cache">>, <<"L3InstructionCache", "InstructionCache">>,
   <<"L4InstructionCache", "L4Cache">>, <<"L4InstructionCache", "InstructionCache">>,
   <<"L1UnifiedCache", "L1Cache">>, <<"L1UnifiedCache", "UnifiedCache">>,
   <<"L2UnifiedCache", "L2Cache">>, <<"L2UnifiedCache", "UnifiedCache">>,
   <<"L3UnifiedCache", "L3Cache">>, <<"L3UnifiedCache", "UnifiedCache">>,
   <<"L4UnifiedCache", "L4Cache">>, <<"L4UnifiedCache", "UnifiedCache">>,
   <<"SolidStateDrive", "PersistentStorage">>, <<"HardDiskDrive", "PersistentStorage">>,
   <<"PCIDevice", "Component">>, <<"Bridge", "Component">>,
   <<"LogicalAccelerator", "Component">>, <<"LogicalGPU", "LogicalAccelerator">>,
   <<"Accelerator", "PCIDevice">>, <<"GPU", "Accelerator">>, <<"FPGA", "Accelerator">>,
   <<"GPUCore", "GPU">>, <<"GPUCore", "Compute">>,
   <<"GPUMemory", "GPU">>, <<"GPUMemory", "Memory">>,
   <<"InputOutput", "Component">>, <<"NetworkDevice", "PCIDevice">>,
   <<"NetworkDevice", "InputOutput">>,
   <<"Link", "Component">>, <<"Bus", "Link">>, <<"Misc", "Component">>,
   <<"LogicalEdgeType", "Component">>, <<"Parent", "LogicalEdgeType">>,
   <<"Child", "LogicalEdgeType">>, <<"LogicalComponent", "Component">>,
   <<"MPIProcess", "LogicalComponent">>}

Types == {p[1] : p \in Inherits} \cup {"Component"}

(* The direct bases of a class.                                            *)
Bases == [t \in Types |-> {p[2] : p \in {q \in Inherits : q[1] = t}}]

(* A set of classes with their direct bases added.                         *)
WithBases(S) == S \cup UNION {Bases[t] : t \in S}

(* No declaration of the header is more than five levels below Component.  *)
Ancestors ==
  [t \in Types |-> WithBases(WithBases(WithBases(WithBases(WithBases({t})))))]

(* GraphElement::is_a<u> on an element whose m_type is t.                  *)
IsA(t, u) == u \in Ancestors[t]

(* Five levels are enough: another one adds no class.                      *)
ASSUME AncestorsComplete == \A t \in Types : WithBases(Ancestors[t]) = Ancestors[t]
=============================================================================

--------------------------- MODULE PropertyLookup ---------------------------
(***************************************************************************)
(* GraphElement::get: what an application reads from a vertex of the       *)
(* finished graph.  A property has a name and a type; the answer is that   *)
(* of the first adapter that has one, so with several modules behind one   *)
(* vertex it could depend on which of them ran first.                      *)
(*                                                                         *)
(* A value that a library measures is modelled by what it is measured of;  *)
(* every query of a library may fail, and then the adapter has no value.   *)
(***************************************************************************)
EXTENDS YlocInit

(* Adapter::map(): the type of each property that is defined for all       *)
(* modules.  module_map() is this map too, no module overrides it.         *)
GlobalProperties ==
  [p \in {"memory", "memory_usage", "memory_load", "memory_frequency", "bdfid",
          "numa_affinity", "bandwidth", "bandwidth_min", "bandwidth_max", "throughput",
          "latency", "frequency", "temperature", "power", "usage", "load",
          "pci_throughput", "pci_throughput_read", "pci_throughput_write", "mpi_rank",
          "cpu_affinity_mask"} |->
     CASE p = "temperature"       -> "int64"
       [] p = "cpu_affinity_mask" -> "AffinityMask"
       [] OTHER                   -> "uint64"]
Names == DOMAIN GlobalProperties

(* hwloc_obj_type_is_cache, hwloc_obj_type_is_memory                       *)
HasSize(o) ==
  ObjType[o] \in {"L1CACHE", "L2CACHE", "L3CACHE", "L4CACHE", "L5CACHE", "L1ICACHE",
                  "L2ICACHE", "L3ICACHE", "NUMANODE", "MEMCACHE"}

(* The fields of a bdfid: 32, 8, 5 and 3 bits wide.                        *)
Bdfid(b) == <<b[1], b[2] % 256, b[3] % 32, b[4] % 8>>

NvmlQueries ==
  {"memory", "memory_usage", "memory_load", "memory_frequency", "numa_affinity",
   "temperature", "frequency", "load", "power"}
RocmQueries == NvmlQueries \cup {"pci_throughput", "pci_throughput_read", "pci_throughput_write"}

(* What the member function p of each adapter class returns; where a class *)
(* does not override it, ADAPTER_PROPERTY makes it no value.               *)
HwlocValue(o, mask, p) ==
  CASE p = "memory" /\ HasSize(o)                 -> {<<"size", o>>}
    [] p = "bdfid" /\ ObjType[o] = "PCI_DEVICE"   -> {Bdfid(BdfOf[o])}
    [] p = "cpu_affinity_mask"                    -> mask
    [] OTHER                                      -> {}

NvmlValue(i, p) ==
  CASE p = "bdfid"         -> {Bdfid(NvmlBdfid(NvmlDevs[i]))}
    [] p \in NvmlQueries   -> {<<p, "nvml", i>>}
    [] OTHER               -> {}

RocmValue(i, p) ==
  CASE p = "bdfid"         -> {Bdfid(RocmDevs[i])}
    [] p \in RocmQueries   -> {<<p, "rocm", i>>}
    [] OTHER               -> {}

MpiValue(i, mask, p) ==
  CASE p = "mpi_rank"            -> {i}
    [] p = "cpu_affinity_mask"   -> mask
    [] OTHER                     -> {}

(* The value adapter a has for p when the library answers.                 *)
Value(a, p) ==
  CASE a.of[1] = "hwloc"      -> HwlocValue(a.of[2], a.mask, p)
    [] a.of[1] = "nvml"       -> NvmlValue(a.of[2], p)
    [] a.of[1] = "rocm"       -> RocmValue(a.of[2], p)
    [] a.of[1] = "mpi"        -> MpiValue(a.of[2], a.mask, p)
    [] a.of[1] = "supermuc"   -> {}

(* get<type>(p) on vertex v.  A name that is not in the map is looked up   *)
(* in the module maps, where it is not either.                             *)
Get(v, p, type) ==
  LET adapters == graph.vertices[v].adapters
      having == {k \in DOMAIN adapters : Value(adapters[k], p) # {}}
  IN IF p \in Names /\ GlobalProperties[p] = type /\ having # {}
       THEN Value(adapters[Min(having)], p)
       ELSE {}

(* get<std::string>(p), but for the text: any type will do.                *)
GetText(v, p) == IF p \in Names THEN Get(v, p, GlobalProperties[p]) ELSE {}

------------------------------------------------------------------------------
(* All adapters of a vertex that have a value for a property have the same *)
(* one: the answer of get does not depend on which module came first, nor  *)
(* on which of the libraries fails to answer.                              *)
PropertiesUnambiguous ==
  InitDone => \A v \in Vertices, p \in Names :
    LET adapters == graph.vertices[v].adapters
    IN Cardinality(UNION {Value(adapters[k], p) : k \in DOMAIN adapters}) <= 1

(* What the modules that ran can tell of a component, without an order.    *)
Expected(id, p) ==
  CASE id[1] = "system" -> {}
    [] id[1] = "machine" ->
         IF p = "cpu_affinity_mask" /\ Ran("hwloc") /\ id[2] = GetHostName
           THEN CpusetOf[MachineObj] ELSE {}
    [] id[1] = "mpi_rank" -> IF p = "mpi_rank" THEN {id[2]}
                             ELSE IF p = "cpu_affinity_mask" THEN RankMask(id[2]) ELSE {}
    [] id[1] = "bdfid" ->
         IF p = "bdfid" THEN {Bdfid(id[2])}
         ELSE UNION ({NvmlValue(i, p) : i \in {k \in DOMAIN NvmlDevs :
                        Ran("nvml") /\ NvmlBdfid(NvmlDevs[k]) = id[2]}}
                     \cup {RocmValue(i, p) : i \in {k \in DOMAIN RocmDevs :
                             Ran("rocm") /\ RocmDevs[k] = id[2]}})

(* An application that looks up a component by its identifier reads all    *)
(* that any module knows of it and nothing of another component; the       *)
(* address it reads from a device is the one in the identifier.            *)
LookupComplete ==
  InitDone => \A id \in KnownIds, p \in Names : GetText(graph.ids[id], p) = Expected(id, p)
==============================================================================

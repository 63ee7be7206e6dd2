----------------------------- MODULE GpuModules -----------------------------
(***************************************************************************)
(* modules/nvml and modules/rocm: one vertex per device, found by its PCI  *)
(* address, then the GPU_INTERCONNECT edges.  The two have the same shape  *)
(* and never run at once, so they share the variable gpu for their locals. *)
(*                                                                         *)
(* Neither module acts on a failed library call: CHECK_*_MSG prints, and   *)
(* EXIT_ERR_* shuts the library down and goes on.  What a failed call was  *)
(* to write stays as it was: the value of the iteration before, or, for a  *)
(* variable never written, an arbitrary one.                               *)
(***************************************************************************)
EXTENDS ModuleInterface

CONSTANTS
  NvmlDevs,      \* the address of each NVIDIA device, by index
  NvmlLinks,     \* pairs {i, j} of them joined by NVLink
  RocmDevs,      \* the address of each AMD device, by index
  RocmHops,      \* number of hops between a pair {i, j} of them
  QueryFaults    \* may a query fail although the library is up

(* Mutant of NvmlBdfid: the whole address.                                 *)
NvmlBdfidWithFunction(b) == b

(* NVML does not give the function of an address: bdfid_get assumes 0.     *)
NvmlBdfid(b) == <<b[1], b[2], b[3], 0>>

ASSUME GpuConstants ==
  /\ NvmlDevs \in Seq(Bdfs) /\ RocmDevs \in Seq(Bdfs)
  /\ \A i \in DOMAIN NvmlDevs : NvmlBdfid(NvmlDevs[i]) \in Bdfs
  /\ Len(NvmlDevs) <= MaxDevs /\ Len(RocmDevs) <= MaxDevs
  /\ \A i, j \in DOMAIN RocmDevs : i # j => RocmHops[{i, j}] \in Nat
  /\ QueryFaults \in BOOLEAN

(* Every GPU has a slot of its own.                                        *)
ASSUME DeviceAddresses ==
  /\ \A i, j \in DOMAIN NvmlDevs : NvmlBdfid(NvmlDevs[i]) = NvmlBdfid(NvmlDevs[j]) => i = j
  /\ \A i, j \in DOMAIN RocmDevs : RocmDevs[i] = RocmDevs[j] => i = j
  /\ \A i \in DOMAIN NvmlDevs, j \in DOMAIN RocmDevs : NvmlBdfid(NvmlDevs[i]) # RocmDevs[j]

(* Locals of init_graph and of the interconnect function.                  *)
VARIABLE gpu

GpuStages == {"start", "devices", "links"}
NoLocals == [stage |-> "start", count |-> 0, next |-> 1, vertices |-> <<>>,
             devices |-> <<>>, device |-> 0, bdfid |-> {}, src |-> 1, dst |-> 2]

GpuTypeOK ==
  gpu \in [stage : GpuStages, count : 0..MaxDevs, next : Nat \ {0},
           vertices : Seq(Nat \ {0}), devices : Seq(0..MaxDevs), device : 0..MaxDevs,
           bdfid : SUBSET Bdfs, src : Nat \ {0}, dst : Nat \ {0}]

GpuInit == gpu = NoLocals

(* A query of the library of module m may fail.                            *)
MayFail(m) == QueryFaults \/ ~env[m]
DevsOf(m) == IF m = "nvml" THEN NvmlDevs ELSE RocmDevs

(* Initialise the library and ask for num_devices, which an unsuccessful   *)
(* query leaves uninitialised.                                             *)
GpuCount(m) ==
  /\ Running(m) /\ gpu.stage = "start"
  /\ \E n \in 0..MaxDevs :
       /\ n = Len(DevsOf(m)) \/ MayFail(m)
       /\ gpu' = [gpu EXCEPT !.stage = "devices", !.count = n,
                             !.vertices = [i \in 1..n |-> 1],
                             !.devices = [i \in 1..n |-> 0]]
  /\ UNCHANGED graph
  /\ Stay

(* The vectors cannot be allocated: the uninitialised count is too large.  *)
GpuCountThrows(m) ==
  /\ Running(m) /\ gpu.stage = "start" /\ MayFail(m)
  /\ Leave("threw")
  /\ UNCHANGED <<graph, gpu>>

AtDevice(m) == Running(m) /\ gpu.stage = "devices" /\ gpu.next <= gpu.count

(* The handle nvmlDeviceGetHandleByIndex_v2 leaves in device.              *)
NvmlHandles ==
  {h \in {gpu.next, gpu.device} :
     \/ h = gpu.next /\ env.nvml /\ h \in DOMAIN NvmlDevs
     \/ h = gpu.device /\ (MayFail("nvml") \/ gpu.next \notin DOMAIN NvmlDevs)}

(* The vertex and adapter of an nvml device, before the assertion.         *)
NvmlAttach(h) ==
  LET id == <<"bdfid", NvmlBdfid(NvmlDevs[h])>>
      g == AddVertexId(graph, id)
  IN AddAdapter(g, g.ids[id], Adapter("nvml", h, {}))

NvmlVertex(h) == NvmlAttach(h).ids[<<"bdfid", NvmlBdfid(NvmlDevs[h])>>]

NvmlDevice ==
  /\ AtDevice("nvml") /\ env.nvml
  /\ \E h \in NvmlHandles \cap DOMAIN NvmlDevs :
       LET vd == NvmlVertex(h)
       IN /\ NDEBUG \/ IsA(NvmlAttach(h).vertices[vd].type, "PCIDevice")
          /\ graph' = SetType(NvmlAttach(h), vd, "GPU")
          /\ gpu' = [gpu EXCEPT !.next = @ + 1, !.device = h,
                                !.vertices[gpu.next] = vd, !.devices[gpu.next] = h]
  /\ Stay

(* assert(g[vd].is_a<PCIDevice>()) fails.                                  *)
NvmlAssertFails ==
  /\ AtDevice("nvml") /\ env.nvml /\ ~NDEBUG
  /\ \E h \in NvmlHandles \cap DOMAIN NvmlDevs :
       /\ ~IsA(NvmlAttach(h).vertices[NvmlVertex(h)].type, "PCIDevice")
       /\ graph' = NvmlAttach(h)
  /\ Leave("aborted")
  /\ UNCHANGED gpu

(* bdfid().value() without a value: nvmlDeviceGetPciInfo_v3 failed, or was *)
(* given a handle that was never written.                                  *)
NvmlThrows ==
  /\ AtDevice("nvml")
  /\ MayFail("nvml") \/ NvmlHandles \cap DOMAIN NvmlDevs = {}
  /\ Leave("threw")
  /\ UNCHANGED <<graph, gpu>>

(* Mutant of RocmBdfids: bdfid is set for the first device only.           *)
RocmBdfidsOnce ==
  IF gpu.bdfid = {} THEN {b \in Bdfs : \E i \in DOMAIN RocmDevs : i = gpu.next /\ b = RocmDevs[i]}
                    ELSE gpu.bdfid

(* The value rsmi_dev_pci_id_get leaves in bdfid, declared before the loop.*)
RocmBdfids ==
  {b \in Bdfs :
     \/ env.rocm /\ gpu.next \in DOMAIN RocmDevs /\ b = RocmDevs[gpu.next]
     \/ /\ MayFail("rocm") \/ gpu.next \notin DOMAIN RocmDevs
        /\ gpu.bdfid = {} \/ b \in gpu.bdfid}

(* The type is written before the assertions on it, so they hold.          *)
RocmDevice ==
  /\ AtDevice("rocm")
  /\ \E b \in RocmBdfids :
       LET id == <<"bdfid", b>>
           g == AddVertexId(graph, id)
           vd == g.ids[id]
           described == SetDescription(AddAdapter(g, vd, Adapter("rocm", gpu.next, {})),
                                       vd, <<"rocm", gpu.next>>)
       IN /\ graph' = SetType(described, vd, "GPU")
          /\ gpu' = [gpu EXCEPT !.next = @ + 1, !.bdfid = {b}, !.vertices[gpu.next] = vd]
  /\ Stay

GpuDevicesDone(m) ==
  /\ Running(m) /\ gpu.stage = "devices" /\ gpu.next > gpu.count
  /\ gpu' = [gpu EXCEPT !.stage = "links"]
  /\ UNCHANGED graph
  /\ Stay

(* The nested loops over dev_ind_src and dev_ind_dst.                      *)
AtPair(m) == Running(m) /\ gpu.stage = "links" /\ gpu.src < gpu.count
NextPair ==
  IF gpu.dst < gpu.count
    THEN [gpu EXCEPT !.dst = @ + 1]
    ELSE [gpu EXCEPT !.src = @ + 1, !.dst = gpu.src + 2]

(* hops == 1 for the pair, as far as the library can tell it.              *)
NvlinkUp == {gpu.devices[gpu.src], gpu.devices[gpu.dst]} \in NvmlLinks
OneHop == /\ {gpu.src, gpu.dst} \subseteq DOMAIN RocmDevs
          /\ RocmHops[{gpu.src, gpu.dst}] = 1

DirectLink(m) ==
  {up \in BOOLEAN :
     \/ up = IF m = "nvml" THEN NvlinkUp ELSE OneHop
     \/ MayFail(m) \/ ~({gpu.src, gpu.dst} \subseteq DOMAIN DevsOf(m))}

(* Mutant of Interconnect: only one direction is added.                    *)
InterconnectOneWay(g, u, v) == AddEdge(g, u, v, "GPU_INTERCONNECT")

Interconnect(g, u, v) ==
  AddEdge(AddEdge(g, u, v, "GPU_INTERCONNECT"), v, u, "GPU_INTERCONNECT")

GpuPair(m) ==
  /\ AtPair(m)
  /\ \E up \in DirectLink(m) :
       graph' = IF up
                  THEN Interconnect(graph, gpu.vertices[gpu.src], gpu.vertices[gpu.dst])
                  ELSE graph
  /\ gpu' = NextPair
  /\ Stay

GpuReturn(m) ==
  /\ Running(m) /\ gpu.stage = "links" /\ gpu.src >= gpu.count
  /\ gpu' = NoLocals
  /\ Return(m, "SUCCESS")
  /\ UNCHANGED graph

GpuNext ==
  \/ NvmlDevice
  \/ NvmlAssertFails
  \/ NvmlThrows
  \/ RocmDevice
  \/ \E m \in {"nvml", "rocm"} :
       GpuCount(m) \/ GpuCountThrows(m) \/ GpuDevicesDone(m) \/ GpuPair(m) \/ GpuReturn(m)
==============================================================================

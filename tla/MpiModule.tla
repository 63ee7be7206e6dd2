------------------------------ MODULE MpiModule ------------------------------
(***************************************************************************)
(* modules/mpi: one vertex per rank, below the machine it runs on, or, on  *)
(* this machine, below the lowest vertex whose CPUs contain its affinity   *)
(* mask.  The recursion of lowest_containing_vertex (util.cc) is a tail    *)
(* call: its only state is the vertex it stands at.                        *)
(***************************************************************************)
EXTENDS ModuleInterface

CONSTANTS
  CpuChoices,     \* what sched_getaffinity may leave in a rank's cpuset; it
                  \* is uninitialised, so anything, where the call fails
  StableSort      \* does std::sort keep the order of equal elements

ASSUME MpiConstants ==
  /\ CpuChoices \subseteq SUBSET Nat
  /\ \A e \in Envs : 0 .. e.nprocs - 1 \subseteq CPU
  /\ StableSort \in BOOLEAN

VARIABLE mpi   \* locals of make_mpi_graph and of lowest_containing_vertex

MpiIdle == [stage |-> "start", cpusets |-> [i \in Ranks |-> {}], rank |-> 0, at |-> NoVertex]

MpiTypeOK ==
  mpi \in [stage : {"start", "ranks", "descend"}, cpusets : [Ranks -> SUBSET Nat],
           rank : 0..NRanks, at : Nat]

MpiInit == mpi = MpiIdle

(* The bits of an AffinityMask.  The kernel may number CPUs with gaps.     *)
Bits == 0 .. env.nprocs - 1

(* AffinityMask(cpu_set_t): CPUs without a bit are dropped.                *)
MaskOf(cpuset) == cpuset \cap Bits

MpiRefuses ==
  /\ Running("mpi") /\ ~env.mpi
  /\ Return("mpi", "INIT_ERROR")
  /\ UNCHANGED <<graph, mpi>>

(* The two Allgathers.                                                     *)
MpiGather ==
  /\ Running("mpi") /\ env.mpi /\ mpi.stage = "start"
  /\ \E cpusets \in [Ranks -> CpuChoices] :
       mpi' = [mpi EXCEPT !.stage = "ranks", !.cpusets = cpusets]
  /\ UNCHANGED graph
  /\ Stay

Host == ProcName[mpi.rank]
RankId == <<"mpi_rank", mpi.rank>>
MachineId == <<"machine", Host>>
Mask == MaskOf(mpi.cpusets[mpi.rank])

(* The rank is on this machine and its mask.any() holds.                   *)
Pinned == Host = ProcName[Me] /\ Mask # {}

(* Mutant of AddRank: a rank that is found again keeps its adapter.        *)
AddRankOnce(g) ==
  LET added == AddVertexId(AddVertexId(g, MachineId), RankId)
      vd == added.ids[RankId]
  IN IF added.vertices[vd].adapters # <<>> THEN added
     ELSE AddAdapter(SetType(added, vd, "MPIProcess"), vd,
                     Adapter("mpi", mpi.rank, IF Pinned THEN {Mask} ELSE {}))

(* The loop body up to the test of the host name.  The adapter's mask is   *)
(* the one set_cpu_affinity_mask gives it, or none.                        *)
AddRank(g) ==
  LET added == AddVertexId(AddVertexId(g, MachineId), RankId)
      vd == added.ids[RankId]
  IN AddAdapter(SetType(added, vd, "MPIProcess"), vd,
                Adapter("mpi", mpi.rank, IF Pinned THEN {Mask} ELSE {}))

(* A rank elsewhere, or without a mask: below its machine.                 *)
MpiAddRemote ==
  /\ Running("mpi") /\ mpi.stage = "ranks" /\ mpi.rank < NRanks /\ ~Pinned
  /\ LET g == AddRank(graph) IN graph' = Link(g, g.ids[MachineId], g.ids[RankId])
  /\ mpi' = [mpi EXCEPT !.rank = @ + 1]
  /\ Stay

(* A rank here: lowest_containing_vertex(mask) is called on the root.      *)
MpiAddLocal ==
  /\ Running("mpi") /\ mpi.stage = "ranks" /\ mpi.rank < NRanks /\ Pinned
  /\ graph' = AddRank(graph)
  /\ mpi' = [mpi EXCEPT !.stage = "descend", !.at = graph.root]
  /\ Stay

(* Mutant of LowerVertices: any candidate, not one with the fewest CPUs.   *)
LowerVerticesUnsorted ==
  {graph.edges[i].target : i \in Candidates(graph, mpi.at, Mask)}

LowerVertices == Lower(graph, mpi.at, Mask, StableSort)

(* AffinityMask(hwloc_bitmap_t) asserts that each CPU has a bit when the   *)
(* mask of a child is looked up.  Without the assertion the CPU is written *)
(* into the spare bits of the last block, and counted (beyond the block    *)
(* the behaviour is undefined; the CPU numbers of the model stay within).  *)
MaskTooWide ==
  \E i \in DOMAIN graph.edges :
    /\ graph.edges[i].source = mpi.at /\ graph.edges[i].type = "CHILD"
    /\ \E mask \in GetMask(graph, graph.edges[i].target) : ~(mask \subseteq Bits)

MpiAssertFails ==
  /\ Running("mpi") /\ mpi.stage = "descend" /\ ~NDEBUG /\ MaskTooWide
  /\ Leave("aborted")
  /\ UNCHANGED <<graph, mpi>>

(* The recursive call on candidates[0].                                    *)
MpiDescend ==
  /\ Running("mpi") /\ mpi.stage = "descend" /\ (NDEBUG \/ ~MaskTooWide)
  /\ \E v \in LowerVertices : mpi' = [mpi EXCEPT !.at = v]
  /\ UNCHANGED graph
  /\ Stay

(* No candidate is left: the rank goes below the vertex reached.           *)
MpiAttach ==
  /\ Running("mpi") /\ mpi.stage = "descend" /\ (NDEBUG \/ ~MaskTooWide)
  /\ LowerVertices = {}
  /\ graph' = Link(graph, mpi.at, graph.ids[RankId])
  /\ mpi' = [mpi EXCEPT !.stage = "ranks", !.rank = @ + 1, !.at = NoVertex]
  /\ Stay

MpiReturn ==
  /\ Running("mpi") /\ mpi.stage = "ranks" /\ mpi.rank = NRanks
  /\ mpi' = MpiIdle
  /\ Return("mpi", "SUCCESS")
  /\ UNCHANGED graph

MpiNext ==
  \/ MpiRefuses \/ MpiGather \/ MpiAddRemote \/ MpiAddLocal
  \/ MpiDescend \/ MpiAssertFails \/ MpiAttach \/ MpiReturn
==============================================================================

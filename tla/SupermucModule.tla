--------------------------- MODULE SupermucModule ---------------------------
(***************************************************************************)
(* modules/supermuc: builds island - rack - column - node from the names   *)
(* of the hosts of all ranks.  The gathered names are a constant: what the *)
(* Allgather means for the other ranks is the subject of CollectiveInit.   *)
(***************************************************************************)
EXTENDS ModuleInterface

CONSTANT
  Supermuc    \* host names that follow the convention iXXrXXcXXsXX

(* A rank whose name does not follow the convention returns before the     *)
(* Allgather, and then no rank gets past its first gather (MixedNamesBlock *)
(* of CollectiveInit), so make_supermuc_graph runs only where all names    *)
(* follow it.                                                              *)
ASSUME SupermucConstants ==
  ProcName[Me] \in Supermuc => \A i \in Ranks : ProcName[i] \in Supermuc

VARIABLE smRank   \* the loop counter i of make_supermuc_graph

SupermucTypeOK == smRank \in 0..NRanks
SupermucInit == smRank = 0

(* MPI is not initialised, or the name is not one of SuperMUC's.           *)
SupermucRefuses ==
  /\ Running("supermuc")
  /\ ~env.mpi \/ ProcName[Me] \notin Supermuc
  /\ Return("supermuc", "INIT_ERROR")
  /\ UNCHANGED <<graph, smRank>>

(* make_supermuc_node                                                      *)
SystemNode(g, name) ==
  LET id == <<"system", name>>
      added == AddVertexId(g, id)
      vd == added.ids[id]
  IN AddAdapter(SetDescription(SetType(added, vd, "Misc"), vd, <<"name", name>>),
                vd, Adapter("supermuc", name, {}))

SlotNode(g, host) ==
  LET id == <<"machine", host>>
      added == AddVertexId(g, id)
      vd == added.ids[id]
  IN AddAdapter(SetDescription(SetType(added, vd, "Node"), vd, <<"name", host>>),
                vd, Adapter("supermuc", host, {}))

(* Mutant of HostPath: the edges are added without looking for them.       *)
HostPathAgain(g, host) ==
  LET column == Truncate(host, 3)
      rack == Truncate(host, 2)
      island == Truncate(host, 1)
      nodes == SystemNode(SystemNode(SystemNode(SlotNode(g, host), column), rack), island)
      system(name) == nodes.ids[<<"system", name>>]
      racked == Link(nodes, system(island), system(rack))
      columned == Link(racked, system(rack), system(column))
  IN Link(columned, system(column), nodes.ids[<<"machine", host>>])

(* One iteration of make_supermuc_graph.                                   *)
HostPath(g, host) ==
  LET column == Truncate(host, 3)
      rack == Truncate(host, 2)
      island == Truncate(host, 1)
      nodes == SystemNode(SystemNode(SystemNode(SlotNode(g, host), column), rack), island)
      system(name) == nodes.ids[<<"system", name>>]
      racked == LinkOnce(nodes, system(island), system(rack))
      columned == LinkOnce(racked, system(rack), system(column))
  IN LinkOnce(columned, system(column), nodes.ids[<<"machine", host>>])

Conforms == env.mpi /\ ProcName[Me] \in Supermuc

SupermucAddHost ==
  /\ Running("supermuc") /\ Conforms /\ smRank < NRanks
  /\ graph' = HostPath(graph, ProcName[smRank])
  /\ smRank' = smRank + 1
  /\ Stay

SupermucReturn ==
  /\ Running("supermuc") /\ Conforms /\ smRank = NRanks
  /\ smRank' = 0
  /\ Return("supermuc", "SUCCESS")
  /\ UNCHANGED graph

SupermucNext == SupermucRefuses \/ SupermucAddHost \/ SupermucReturn
==============================================================================

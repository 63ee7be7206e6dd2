---------------------------- MODULE TopologyGraph ----------------------------
(***************************************************************************)
(* class Graph (graph.h) as a value: a boost adjacency_list with vecS      *)
(* storage, the map from identifiers to vertices, and the root vertex.     *)
(*                                                                         *)
(*   vertices  sequence of bundled vertex properties (GraphElement);       *)
(*             the vertex_t descriptor d is the index d + 1                *)
(*   edges     sequence of edges, in insertion order (boost keeps one list *)
(*             per vertex; the order among the out-edges of a vertex is    *)
(*             the order of insertion)                                     *)
(*   ids       m_identifier_map; 0 is "not in the map"                     *)
(*   root      m_root_vertex, value-initialised to descriptor 0            *)
(*                                                                         *)
(* Every method is an operator from graphs to graphs.  A std::optional is  *)
(* the set of its values: {} or a singleton.                               *)
(***************************************************************************)
EXTENDS Integers, Sequences, FiniteSets, FiniteSetsExt, ComponentTypes

NoVertex == 0

(* Mutant of NewVertex: m_type has no initialiser.                         *)
NewVertexUntyped == [type |-> "nullptr", adapters |-> <<>>, description |-> {}]

(* A vertex as boost default-constructs it.                                *)
NewVertex == [type |-> "UnknownComponentType", adapters |-> <<>>, description |-> {}]

EdgeTypes == {"PARENT", "CHILD", "GPU_INTERCONNECT"}

(* A Graph as its constructor leaves it.                                   *)
EmptyGraph(Ids) ==
  [vertices |-> <<>>, edges |-> <<>>, ids |-> [id \in Ids |-> NoVertex], root |-> 1]

(* Graph::add_vertex(): the new vertex is the last one.                    *)
AddVertex(g) == [g EXCEPT !.vertices = Append(@, NewVertex)]

(* Mutant of AddVertexId: the identifier is not looked up first.           *)
AddVertexIdNoFind(g, id) ==
  [AddVertex(g) EXCEPT !.ids[id] = Len(g.vertices) + 1]

(* Mutant of AddVertexId: the number of vertices before the call is stored *)
(* for the descriptor of the new one.                                      *)
AddVertexIdOffByOne(g, id) ==
  IF g.ids[id] # NoVertex
    THEN g
    ELSE [AddVertex(g) EXCEPT !.ids[id] = Len(g.vertices)]

(* Mutant of AddVertexId: the map entry keeps its value-initialised        *)
(* descriptor.                                                             *)
AddVertexIdDefault(g, id) ==
  IF g.ids[id] # NoVertex THEN g ELSE [AddVertex(g) EXCEPT !.ids[id] = 1]

(* Graph::add_vertex(id): afterwards ids[id] is the vertex it returns.     *)
AddVertexId(g, id) ==
  IF g.ids[id] # NoVertex
    THEN g
    ELSE [AddVertex(g) EXCEPT !.ids[id] = Len(g.vertices) + 1]

(* operator[](identifier_t): m_identifier_map[id] inserts descriptor 0 for *)
(* an identifier that is not in the map.                                   *)
IndexId(g, id) ==
  IF g.ids[id] # NoVertex THEN g ELSE [g EXCEPT !.ids[id] = 1]

(* Mutant of SetRootVertex: the descriptor is off by one.                  *)
SetRootVertexOffByOne(g, v) == [g EXCEPT !.root = v + 1]

(* Graph::set_root_vertex                                                  *)
SetRootVertex(g, v) == [g EXCEPT !.root = v]

AddEdge(g, u, v, t) ==
  [g EXCEPT !.edges = Append(@, [source |-> u, target |-> v, type |-> t])]

(* The two add_edge calls with which every module hangs v below u.         *)
Link(g, u, v) == AddEdge(AddEdge(g, u, v, "CHILD"), v, u, "PARENT")

(* boost::edge(u, v, g).second: an edge of any type.                       *)
HasEdge(g, u, v) ==
  \E i \in DOMAIN g.edges : g.edges[i].source = u /\ g.edges[i].target = v

LinkOnce(g, u, v) == IF HasEdge(g, u, v) THEN g ELSE Link(g, u, v)

(* Mutant of AddAdapter: a vertex keeps the adapter of its first module.   *)
AddAdapterOnce(g, v, a) ==
  IF g.vertices[v].adapters = <<>> THEN [g EXCEPT !.vertices[v].adapters = <<a>>] ELSE g

(* GraphElement::add_adapter and the assignments to its fields.            *)
AddAdapter(g, v, a) == [g EXCEPT !.vertices[v].adapters = Append(@, a)]
SetType(g, v, t) == [g EXCEPT !.vertices[v].type = t]
SetDescription(g, v, d) == [g EXCEPT !.vertices[v].description = {d}]

TypeIfUnknown(g, v, t) ==
  IF g.vertices[v].type = "UnknownComponentType" THEN SetType(g, v, t) ELSE g

DescribeIfEmpty(g, v, d) ==
  IF g.vertices[v].description = {} THEN SetDescription(g, v, d) ELSE g

(* get<AffinityMask>("cpu_affinity_mask"): the value of the first adapter  *)
(* that has one.                                                           *)
GetMask(g, v) ==
  LET adapters == g.vertices[v].adapters
      having == {i \in DOMAIN adapters : adapters[i].mask # {}}
  IN IF having = {} THEN {} ELSE adapters[Min(having)].mask

(* The children of v that lowest_containing_vertex pushes as candidates,   *)
(* as indices of their CHILD edges.                                        *)
Candidates(g, v, mask) ==
  {i \in DOMAIN g.edges :
     /\ g.edges[i].source = v
     /\ g.edges[i].type = "CHILD"
     /\ \E m \in GetMask(g, g.edges[i].target) : mask \subseteq m
     /\ ~IsA(g.vertices[g.edges[i].target].type, "MPIProcess")}

Count(g, v) == Cardinality(CHOOSE m \in GetMask(g, v) : TRUE)

(* What candidates[0] can be after the sort by count.  std::sort leaves    *)
(* the order of equal elements open; a stable one keeps the first.         *)
Lower(g, v, mask, stable) ==
  LET cs == Candidates(g, v, mask)
      least == {i \in cs : \A j \in cs : Count(g, g.edges[i].target)
                                           <= Count(g, g.edges[j].target)}
  IN {g.edges[i].target :
        i \in IF stable /\ least # {} THEN {Min(least)} ELSE least}

------------------------------------------------------------------------------
(* What a graph value is, over given sets of identifiers, adapters and     *)
(* descriptions.                                                           *)
VertexType(A, D) == [type : Types, adapters : Seq(A), description : SUBSET D]
EdgeType == [source : Nat, target : Nat, type : EdgeTypes]
GraphType(Ids, A, D) ==
  [vertices : Seq(VertexType(A, D)), edges : Seq(EdgeType),
   ids : [Ids -> Nat], root : Nat]

(* Every identifier in the map names a vertex of the graph, and no two     *)
(* identifiers name the same one.                                          *)
IdsSound(g) ==
  /\ \A id \in DOMAIN g.ids : g.ids[id] \in 0..Len(g.vertices)
  /\ \A id1, id2 \in DOMAIN g.ids :
       g.ids[id1] = g.ids[id2] => id1 = id2 \/ g.ids[id1] = NoVertex

(* Every edge joins two vertices of the graph.                             *)
EdgesSound(g) ==
  \A i \in DOMAIN g.edges :
    g.edges[i].source \in DOMAIN g.vertices /\ g.edges[i].target \in DOMAIN g.vertices

(* g2 keeps every vertex of g1, every identifier's vertex and every edge.  *)
Keeps(g1, g2) ==
  /\ Len(g1.vertices) <= Len(g2.vertices)
  /\ Len(g1.edges) <= Len(g2.edges)
  /\ \A i \in DOMAIN g1.edges : g2.edges[i] = g1.edges[i]
  /\ \A id \in DOMAIN g1.ids : g1.ids[id] # NoVertex => g2.ids[id] = g1.ids[id]
==============================================================================

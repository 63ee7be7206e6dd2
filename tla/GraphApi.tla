------------------------------ MODULE GraphApi ------------------------------
(***************************************************************************)
(* The public interface of class Graph as a state machine: a client calls  *)
(* the methods of graph.h in any order.  StrayIndex says whether the client*)
(* also indexes the graph with identifiers it never added.                 *)
(***************************************************************************)
EXTENDS TopologyGraph

CONSTANTS Ids,          \* identifiers a client uses
          MaxVertices,  \* bound on the number of vertices
          MaxEdges,     \* bound on the number of edges
          StrayIndex    \* may operator[] be given an unknown identifier

ASSUME GraphApiConstants ==
  /\ MaxVertices \in Nat /\ MaxEdges \in Nat
  /\ StrayIndex \in BOOLEAN

VARIABLES graph,    \* the Graph object
          origin,   \* history: for each vertex, the identifier it was created for
          last      \* history: the last add_vertex(id), its id and its result

vars == <<graph, origin, last>>

NoCall == [id |-> {}, vertex |-> NoVertex]

Init ==
  /\ graph = EmptyGraph(Ids)
  /\ origin = <<>>
  /\ last = NoCall

HasRoom == Len(graph.vertices) < MaxVertices

AddAnonymousVertex ==
  /\ HasRoom
  /\ graph' = AddVertex(graph)
  /\ origin' = Append(origin, {})
  /\ last' = NoCall

AddNamedVertex(id) ==
  /\ HasRoom \/ graph.ids[id] # NoVertex
  /\ graph' = AddVertexId(graph, id)
  /\ origin' = IF Len(graph'.vertices) > Len(graph.vertices)
                 THEN Append(origin, {id}) ELSE origin
  /\ last' = [id |-> {id}, vertex |-> graph'.ids[id]]

(* Indexing an unknown identifier reads vertex 0, so there is one.         *)
IndexVertex(id) ==
  /\ graph.ids[id] # NoVertex \/ (StrayIndex /\ graph.vertices # <<>>)
  /\ graph' = IndexId(graph, id)
  /\ last' = NoCall
  /\ UNCHANGED origin

ChooseRoot(v) ==
  /\ graph' = SetRootVertex(graph, v)
  /\ last' = NoCall
  /\ UNCHANGED origin

Connect(u, v, t) ==
  /\ Len(graph.edges) < MaxEdges
  /\ graph' = AddEdge(graph, u, v, t)
  /\ last' = NoCall
  /\ UNCHANGED origin

Next ==
  \/ AddAnonymousVertex
  \/ \E id \in Ids : AddNamedVertex(id) \/ IndexVertex(id)
  \/ \E v \in DOMAIN graph.vertices : ChooseRoot(v)
  \/ \E u, v \in DOMAIN graph.vertices, t \in EdgeTypes : Connect(u, v, t)

Spec == Init /\ [][Next]_vars

------------------------------------------------------------------------------
(* The state has its type: graphs over Ids whose vertices carry no adapter *)
(* or description (no method of Graph itself adds one).                    *)
TypeOK ==
  /\ graph \in GraphType(Ids, {}, {})
  /\ origin \in Seq(SUBSET Ids)
  /\ last \in [id : SUBSET Ids, vertex : Nat]

(* graph.h:51-54 of add_vertex(id): it returns the vertex of id, adding it *)
(* if there is none.  Whatever calls came before, the vertex that comes    *)
(* back exists and is the one created for this very identifier.            *)
AddVertexReturnsItsOwn ==
  \A id \in last.id : last.vertex \in DOMAIN origin /\ id \in origin[last.vertex]

(* m_identifier_map stays sound under any sequence of calls: each entry    *)
(* names an existing vertex, no two the same one, and every edge joins two *)
(* existing vertices.                                                      *)
MapSound == IdsSound(graph) /\ EdgesSound(graph)

(* A descriptor handed out stays valid: no call of graph.h removes a       *)
(* vertex or an edge, or gives an identifier another vertex.               *)
DescriptorsStable == [][Keeps(graph, graph')]_vars

(* The inductive invariant behind the two: descriptor and history agree.   *)
OriginAgrees ==
  /\ Len(origin) = Len(graph.vertices)
  /\ \A id \in Ids : graph.ids[id] # NoVertex =>
       graph.ids[id] \in DOMAIN origin /\ origin[graph.ids[id]] = {id}
  /\ \A id \in last.id : graph.ids[id] = last.vertex /\ last.vertex # NoVertex

=============================================================================

--------------------------- MODULE GraphApiProofs ---------------------------
(***************************************************************************)
(* The contract of class Graph, for any number of identifiers, vertices    *)
(* and edges, as long as operator[] is only given identifiers in the map.  *)
(***************************************************************************)
EXTENDS GraphApi, GraphProofs

GoodApi(g) == Good(Ids, {}, {}, g)

(* The inductive invariant.                                                *)
ApiInv == TypeOK /\ MapSound /\ OriginAgrees

(* It gives what add_vertex(id) promises.                                  *)
LEMMA ApiInvImplies == ApiInv => AddVertexReturnsItsOwn
  BY DEF ApiInv, TypeOK, OriginAgrees, AddVertexReturnsItsOwn

LEMMA ApiInvGood == ApiInv => GoodApi(graph)
  BY DEF ApiInv, TypeOK, MapSound, GoodApi, Good

LEMMA ApiInit == Init => ApiInv
<1> SUFFICES ASSUME Init PROVE ApiInv OBVIOUS
<1>1. GoodApi(graph) BY EmptyGraphGood DEF Init, GoodApi
<1>2. TypeOK /\ MapSound
  BY <1>1 DEF GoodApi, Good, Init, TypeOK, MapSound, NoCall, NoVertex
<1>3. OriginAgrees
  BY DEF Init, OriginAgrees, EmptyGraph, NoCall, NoVertex
<1> QED BY <1>2, <1>3 DEF ApiInv

(* An action that only changes the graph, and not its identifiers or the   *)
(* number of its vertices, keeps the invariant.                            *)
LEMMA ApiSameIds ==
  ASSUME ApiInv, GoodApi(graph'), graph'.ids = graph.ids,
         Len(graph'.vertices) = Len(graph.vertices), last' = NoCall, origin' = origin
  PROVE  ApiInv'
  BY DEF ApiInv, GoodApi, Good, TypeOK, MapSound, OriginAgrees, NoCall, NoVertex

LEMMA ApiStep ==
  ASSUME StrayIndex = FALSE, ApiInv, [Next]_vars
  PROVE  ApiInv' /\ (graph' = graph \/ Keeps(graph, graph'))
<1>0. GoodApi(graph) BY ApiInvGood
<1>t. /\ graph.vertices \in Seq(VertexType({}, {})) /\ graph.ids \in [Ids -> Nat]
      /\ Len(graph.vertices) \in Nat /\ origin \in Seq(SUBSET Ids)
      /\ Len(origin) = Len(graph.vertices)
  BY DEF ApiInv, TypeOK, GraphType, OriginAgrees
<1>1. CASE AddAnonymousVertex
  <2>1. /\ Grows(Ids, {}, {}, graph, graph') /\ graph'.ids = graph.ids
        /\ Len(graph'.vertices) = Len(graph.vertices) + 1
    BY <1>1, <1>0, AddVertexGrows DEF AddAnonymousVertex, GoodApi
  <2>2. origin' = Append(origin, {}) /\ last' = NoCall BY <1>1 DEF AddAnonymousVertex
  <2>3. TypeOK' /\ MapSound'
    BY <2>1, <2>2, <1>t DEF Grows, Good, TypeOK, MapSound, NoCall, NoVertex
  <2>4. OriginAgrees'
    BY <2>1, <2>2, <1>t DEF ApiInv, OriginAgrees, NoCall, NoVertex
  <2> QED BY <2>1, <2>3, <2>4 DEF ApiInv, Grows
<1>2. ASSUME NEW id \in Ids, AddNamedVertex(id)
      PROVE  ApiInv' /\ Keeps(graph, graph')
  <2>1. /\ graph' = AddVertexId(graph, id)
        /\ Grows(Ids, {}, {}, graph, graph')
        /\ graph'.ids[id] \in 1..Len(graph'.vertices)
    BY <1>2, <1>0, AddVertexIdGrows DEF AddNamedVertex, GoodApi
  <2>2. last' = [id |-> {id}, vertex |-> graph'.ids[id]] BY <1>2 DEF AddNamedVertex
  <2>3. graph'.ids \in [Ids -> Nat] /\ graph'.ids[id] # NoVertex
    BY <2>1 DEF Grows, Good, GraphType, NoVertex
  <2>4. CASE graph.ids[id] # NoVertex
    <3>1. graph' = graph BY <2>1, <2>4 DEF AddVertexId
    <3>n. ~(Len(graph'.vertices) > Len(graph.vertices)) BY <3>1, <1>t
    <3>2. origin' = origin BY <3>n, <1>2 DEF AddNamedVertex
    <3>3. TypeOK' /\ MapSound'
      BY <2>1, <2>2, <2>3, <3>2, <1>t DEF Grows, Good, TypeOK, MapSound
    <3>4. OriginAgrees' BY <3>1, <3>2, <2>2, <2>3 DEF ApiInv, OriginAgrees
    <3> QED BY <2>1, <3>3, <3>4 DEF ApiInv, Grows
  <2>5. CASE graph.ids[id] = NoVertex
    <3> DEFINE n == Len(graph.vertices) + 1
    <3>1. graph' = [AddVertex(graph) EXCEPT !.ids[id] = n]
      BY <2>1, <2>5 DEF AddVertexId
    <3>2. /\ Len(AddVertex(graph).vertices) = n /\ AddVertex(graph).ids = graph.ids
          /\ Good(Ids, {}, {}, AddVertex(graph))
      BY <1>0, AddVertexGrows DEF GoodApi, Grows
    <3>3. Len(graph'.vertices) = n /\ graph'.ids = [graph.ids EXCEPT ![id] = n]
      BY <3>1, <3>2 DEF Good, GraphType
    <3>4. origin' = Append(origin, {id}) BY <3>3, <1>2, <1>t DEF AddNamedVertex
    <3>5. TypeOK' /\ MapSound'
      BY <2>1, <2>2, <2>3, <3>4, <1>t DEF Grows, Good, TypeOK, MapSound
    <3>6. OriginAgrees'
      BY <3>3, <3>4, <2>2, <2>3, <1>t DEF ApiInv, OriginAgrees, NoVertex
    <3> QED BY <2>1, <3>5, <3>6 DEF ApiInv, Grows
  <2> QED BY <2>4, <2>5
<1>3. ASSUME NEW id \in Ids, IndexVertex(id)
      PROVE  ApiInv' /\ graph' = graph
  <2>1. graph' = graph BY <1>3 DEF IndexVertex, IndexId
  <2> QED BY <2>1, <1>3, <1>0, ApiSameIds DEF IndexVertex
<1>4. ASSUME NEW v \in DOMAIN graph.vertices, ChooseRoot(v)
      PROVE  ApiInv' /\ Keeps(graph, graph')
  <2>1. v \in 1..Len(graph.vertices) BY <1>t
  <2>2. /\ Grows(Ids, {}, {}, graph, graph') /\ graph'.vertices = graph.vertices
        /\ graph'.ids = graph.ids
    BY <1>4, <1>0, <2>1, SetRootGrows DEF ChooseRoot, GoodApi
  <2> QED BY <2>2, <1>4, ApiSameIds DEF ChooseRoot, Grows, GoodApi
<1>5. ASSUME NEW u \in DOMAIN graph.vertices, NEW v \in DOMAIN graph.vertices,
             NEW t \in EdgeTypes, Connect(u, v, t)
      PROVE  ApiInv' /\ Keeps(graph, graph')
  <2>1. u \in 1..Len(graph.vertices) /\ v \in 1..Len(graph.vertices) BY <1>t
  <2>2. /\ Grows(Ids, {}, {}, graph, graph') /\ graph'.vertices = graph.vertices
        /\ graph'.ids = graph.ids
    BY <1>5, <1>0, <2>1, AddEdgeGrows DEF Connect, GoodApi
  <2> QED BY <2>2, <1>5, ApiSameIds DEF Connect, Grows, GoodApi
<1>6. CASE UNCHANGED vars
  BY <1>6 DEF vars, ApiInv, TypeOK, MapSound, OriginAgrees
<1> QED BY <1>1, <1>2, <1>3, <1>4, <1>5, <1>6 DEF Next

(* Any client, also one that indexes unknown identifiers, leaves a graph   *)
(* of the right type: what goes wrong then (AddVertexReturnsItsOwn) is not *)
(* a value out of range (graph.h:91-97).                                   *)
THEOREM ApiTypeCorrect ==
  Spec => []TypeOK
<1>1. Init => TypeOK BY ApiInit DEF ApiInv
<1>2. TypeOK /\ [Next]_vars => TypeOK'
  <2> SUFFICES ASSUME TypeOK, [Next]_vars PROVE TypeOK'
    OBVIOUS
  <2> DEFINE GT == GraphType(Ids, {}, {})
  <2>1. /\ graph \in GT /\ graph.vertices \in Seq(VertexType({}, {}))
        /\ graph.edges \in Seq(EdgeType) /\ Len(graph.vertices) \in Nat
        /\ origin \in Seq(SUBSET Ids)
    BY DEF TypeOK, GraphType
  <2>2. AddVertex(graph) \in GT
    <3>1. Append(graph.vertices, NewVertex) \in Seq(VertexType({}, {}))
      BY <2>1, NewVertexType
    <3> QED BY <2>1, <3>1 DEF AddVertex, GraphType
  <2>3. CASE AddAnonymousVertex
    <3>1. Append(origin, {}) \in Seq(SUBSET Ids) BY <2>1
    <3> QED BY <2>2, <2>3, <3>1 DEF AddAnonymousVertex, TypeOK, NoCall, NoVertex
  <2>4. ASSUME NEW id \in Ids, AddNamedVertex(id) PROVE TypeOK'
    <3>1. graph' \in GT
      <4>1. graph' = AddVertexId(graph, id) BY <2>4 DEF AddNamedVertex
      <4>2. ASSUME NEW f \in GT, NEW n \in Nat PROVE [f EXCEPT !.ids[id] = n] \in GT
        BY <4>2 DEF GraphType
      <4>3. Len(graph.vertices) + 1 \in Nat BY <2>1
      <4> DEFINE f0 == AddVertex(graph)
                 n0 == Len(graph.vertices) + 1
      <4>4. f0 \in GT /\ n0 \in Nat BY <2>2, <4>3
      <4> HIDE DEF f0, n0
      <4>5. [f0 EXCEPT !.ids[id] = n0] \in GT BY <4>2, <4>4
      <4> QED BY <2>1, <4>1, <4>5 DEF AddVertexId, f0, n0
    <3>2. Append(origin, {id}) \in Seq(SUBSET Ids) BY <2>1
    <3>3. origin' \in Seq(SUBSET Ids) BY <2>1, <2>4, <3>2 DEF AddNamedVertex
    <3>4. last' = [id |-> {id}, vertex |-> graph'.ids[id]] /\ graph'.ids[id] \in Nat
      BY <2>4, <3>1 DEF AddNamedVertex, GraphType
    <3> QED BY <3>1, <3>3, <3>4 DEF TypeOK
  <2>5. ASSUME NEW id \in Ids, IndexVertex(id) PROVE TypeOK'
    <3>1. graph' \in GT BY <2>1, <2>5 DEF IndexVertex, IndexId, GraphType
    <3> QED BY <2>1, <2>5, <3>1 DEF IndexVertex, TypeOK, NoCall, NoVertex
  <2>6. ASSUME NEW v \in DOMAIN graph.vertices, ChooseRoot(v) PROVE TypeOK'
    <3>1. v \in Nat BY <2>1
    <3>2. graph' \in GT BY <2>1, <2>6, <3>1 DEF ChooseRoot, SetRootVertex, GraphType
    <3> QED BY <2>1, <2>6, <3>2 DEF ChooseRoot, TypeOK, NoCall, NoVertex
  <2>7. ASSUME NEW u \in DOMAIN graph.vertices, NEW v \in DOMAIN graph.vertices,
               NEW t \in EdgeTypes, Connect(u, v, t)
        PROVE  TypeOK'
    <3>1. [source |-> u, target |-> v, type |-> t] \in EdgeType BY <2>1 DEF EdgeType
    <3>2. Append(graph.edges, [source |-> u, target |-> v, type |-> t]) \in Seq(EdgeType)
      BY <2>1, <3>1
    <3>3. graph' \in GT BY <2>1, <2>7, <3>2 DEF Connect, AddEdge, GraphType
    <3> QED BY <2>1, <2>7, <3>3 DEF Connect, TypeOK, NoCall, NoVertex
  <2>8. CASE UNCHANGED vars BY <2>8 DEF vars, TypeOK
  <2> QED BY <2>3, <2>4, <2>5, <2>6, <2>7, <2>8 DEF Next
<1> QED BY <1>1, <1>2, PTL DEF Spec

(* The state keeps its type and m_identifier_map stays sound, for any      *)
(* sequence of calls (graph.h:45-107).                                     *)
THEOREM ApiMapSound ==
  ASSUME StrayIndex = FALSE
  PROVE  Spec => [](TypeOK /\ MapSound)
<1>1. ApiInv /\ [Next]_vars => ApiInv' BY ApiStep
<1>2. ApiInv => TypeOK /\ MapSound BY DEF ApiInv
<1> QED BY ApiInit, <1>1, <1>2, PTL DEF Spec

(* add_vertex(id) returns the vertex created for id (graph.h:50-67).       *)
THEOREM ApiAddVertexContract ==
  ASSUME StrayIndex = FALSE
  PROVE  Spec => []AddVertexReturnsItsOwn
<1>1. ApiInv /\ [Next]_vars => ApiInv' BY ApiStep
<1> QED BY ApiInit, <1>1, ApiInvImplies, PTL DEF Spec

(* A descriptor handed out stays valid (graph.h:45-107).                   *)
THEOREM ApiDescriptorsStable ==
  ASSUME StrayIndex = FALSE
  PROVE  Spec => DescriptorsStable
<1>1. ApiInv /\ [Next]_vars => ApiInv' BY ApiStep
<1>2. ApiInv /\ [Next]_vars => [Keeps(graph, graph')]_vars
  <2> SUFFICES ASSUME ApiInv, [Next]_vars PROVE [Keeps(graph, graph')]_vars OBVIOUS
  <2>1. graph' = graph \/ Keeps(graph, graph') BY ApiStep
  <2>2. Keeps(graph, graph)
    BY ApiInvGood, GrowsReflexive DEF GoodApi, Grows
  <2> QED BY <2>1, <2>2
<1> QED BY ApiInit, <1>1, <1>2, PTL DEF Spec, DescriptorsStable
==============================================================================

----------------------------- MODULE GraphProofs -----------------------------
(***************************************************************************)
(* What the operators of TopologyGraph preserve, for graphs over any sets  *)
(* of identifiers, adapters and descriptions.                              *)
(***************************************************************************)
EXTENDS TopologyGraph, TLAPS

(* A graph of the right type whose identifiers and edges are sound.        *)
Good(I, A, D, g) == g \in GraphType(I, A, D) /\ IdsSound(g) /\ EdgesSound(g)

(* h is good and has everything g has.                                     *)
Grows(I, A, D, g, h) == Good(I, A, D, h) /\ Keeps(g, h)

(* h differs from g at most in the properties of its vertices.             *)
SameShape(g, h) ==
  Len(h.vertices) = Len(g.vertices) /\ h.edges = g.edges /\ h.ids = g.ids /\ h.root = g.root

(* Growing is transitive.                                                  *)
LEMMA GrowsTransitive ==
  ASSUME NEW I, NEW A, NEW D, NEW f, NEW g, NEW h,
         Good(I, A, D, f), Grows(I, A, D, f, g), Grows(I, A, D, g, h)
  PROVE  Grows(I, A, D, f, h)
  BY DEF Good, Grows, Keeps, GraphType

LEMMA GrowsReflexive ==
  ASSUME NEW I, NEW A, NEW D, NEW g, Good(I, A, D, g)
  PROVE  Grows(I, A, D, g, g)
  BY DEF Good, Grows, Keeps, GraphType

(* A new Graph is good.                                                    *)
LEMMA EmptyGraphGood ==
  ASSUME NEW I, NEW A, NEW D
  PROVE  Good(I, A, D, EmptyGraph(I))
  BY DEF Good, EmptyGraph, GraphType, IdsSound, EdgesSound, NoVertex

(* A new vertex has the type of a vertex.                                  *)
LEMMA NewVertexType ==
  ASSUME NEW A, NEW D
  PROVE  NewVertex \in VertexType(A, D)
<1>1. "UnknownComponentType" \in Types
  <2>1. <<"UnknownComponentType", "Component">> \in Inherits BY DEF Inherits
  <2> QED BY <2>1 DEF Types
<1> QED BY <1>1 DEF NewVertex, VertexType

(* add_vertex() keeps what is there and makes room for one descriptor.     *)
LEMMA AddVertexGrows ==
  ASSUME NEW I, NEW A, NEW D, NEW g, Good(I, A, D, g)
  PROVE  /\ Grows(I, A, D, g, AddVertex(g))
         /\ Len(AddVertex(g).vertices) = Len(g.vertices) + 1
         /\ AddVertex(g).ids = g.ids /\ AddVertex(g).edges = g.edges
         /\ AddVertex(g).root = g.root
<1> DEFINE h == AddVertex(g)
<1>1. /\ h.vertices = Append(g.vertices, NewVertex)
      /\ h.ids = g.ids /\ h.edges = g.edges /\ h.root = g.root
  BY DEF AddVertex, Good, GraphType
<1>2. g.vertices \in Seq(VertexType(A, D)) BY DEF Good, GraphType
<1>3. h.vertices \in Seq(VertexType(A, D)) /\ Len(h.vertices) = Len(g.vertices) + 1
  BY <1>1, <1>2, NewVertexType
<1>4. h \in GraphType(I, A, D)
  BY <1>3 DEF Good, GraphType, AddVertex
<1>5. IdsSound(h)
  BY <1>1, <1>3, <1>2 DEF Good, IdsSound, GraphType
<1>6. EdgesSound(h)
  BY <1>1, <1>3, <1>2 DEF Good, EdgesSound, GraphType
<1>7. Keeps(g, h)
  BY <1>1, <1>3, <1>2 DEF Keeps, Good, GraphType
<1> QED BY <1>1, <1>3, <1>4, <1>5, <1>6, <1>7 DEF Grows, Good

(* add_vertex(id) keeps what is there, and afterwards id names a vertex.   *)
LEMMA AddVertexIdGrows ==
  ASSUME NEW I, NEW A, NEW D, NEW g, Good(I, A, D, g), NEW id \in I
  PROVE  /\ Grows(I, A, D, g, AddVertexId(g, id))
         /\ AddVertexId(g, id).ids[id] \in 1..Len(AddVertexId(g, id).vertices)
         /\ AddVertexId(g, id).root = g.root
<1>1. CASE g.ids[id] # NoVertex
  <2>1. AddVertexId(g, id) = g BY <1>1 DEF AddVertexId
  <2>2. g.ids[id] \in 1..Len(g.vertices)
    BY <1>1 DEF Good, IdsSound, GraphType, NoVertex
  <2> QED BY <2>1, <2>2, GrowsReflexive
<1>2. CASE g.ids[id] = NoVertex
  <2> DEFINE f == AddVertex(g)
             n == Len(g.vertices) + 1
             h == [f EXCEPT !.ids[id] = n]
  <2>1. AddVertexId(g, id) = h BY <1>2 DEF AddVertexId
  <2>2. /\ Good(I, A, D, f) /\ Keeps(g, f) /\ Len(f.vertices) = n
        /\ f.ids = g.ids /\ f.edges = g.edges /\ f.root = g.root
    BY AddVertexGrows DEF Grows
  <2>3. n \in Nat /\ n # 0 /\ g.ids \in [I -> Nat] BY DEF Good, GraphType
  <2> HIDE DEF f, n
  <2>4. /\ h.vertices = f.vertices /\ h.edges = f.edges /\ h.root = f.root
        /\ h.ids = [f.ids EXCEPT ![id] = n]
    BY <2>2 DEF Good, GraphType
  <2>5. h \in GraphType(I, A, D) BY <2>2, <2>3 DEF Good, GraphType
  <2>6. \A i \in I : g.ids[i] \in 0..n /\ g.ids[i] # n
    BY DEF Good, IdsSound, GraphType, n
  <2>7. IdsSound(h)
    BY <2>2, <2>3, <2>4, <2>6 DEF Good, IdsSound, NoVertex
  <2>8. EdgesSound(h) BY <2>2, <2>4 DEF Good, EdgesSound
  <2>9. Keeps(g, h) BY <1>2, <2>2, <2>3, <2>4 DEF Keeps, NoVertex
  <2>10. h.ids[id] = n /\ n \in 1..Len(h.vertices) BY <2>2, <2>3, <2>4
  <2> QED BY <2>1, <2>2, <2>4, <2>5, <2>7, <2>8, <2>9, <2>10 DEF Grows, Good
<1> QED BY <1>1, <1>2

(* add_edge between existing vertices keeps what is there.                 *)
LEMMA AddEdgeGrows ==
  ASSUME NEW I, NEW A, NEW D, NEW g, Good(I, A, D, g), NEW t \in EdgeTypes,
         NEW u \in 1..Len(g.vertices), NEW v \in 1..Len(g.vertices)
  PROVE  /\ Grows(I, A, D, g, AddEdge(g, u, v, t))
         /\ AddEdge(g, u, v, t).vertices = g.vertices
         /\ AddEdge(g, u, v, t).ids = g.ids
         /\ AddEdge(g, u, v, t).root = g.root
<1> DEFINE e == [source |-> u, target |-> v, type |-> t]
           h == AddEdge(g, u, v, t)
<1>1. /\ g.vertices \in Seq(VertexType(A, D)) /\ g.edges \in Seq(EdgeType)
  BY DEF Good, GraphType
<1>2. Len(g.vertices) \in Nat BY <1>1
<1>3. e \in EdgeType BY <1>2 DEF EdgeType
<1>4. /\ h.edges = Append(g.edges, e) /\ h.vertices = g.vertices
      /\ h.ids = g.ids /\ h.root = g.root
  BY DEF AddEdge, Good, GraphType
<1>5. h \in GraphType(I, A, D)
  <2>1. h = [g EXCEPT !.edges = Append(g.edges, e)] BY DEF AddEdge
  <2>2. Append(g.edges, e) \in Seq(EdgeType) BY <1>1, <1>3
  <2> HIDE DEF e, h
  <2> QED BY <2>1, <2>2 DEF Good, GraphType
<1>6. IdsSound(h) BY <1>4 DEF Good, IdsSound
<1>7. EdgesSound(h)
  <2> SUFFICES ASSUME NEW i \in DOMAIN h.edges
               PROVE  h.edges[i].source \in DOMAIN h.vertices
                        /\ h.edges[i].target \in DOMAIN h.vertices
    BY DEF EdgesSound
  <2>1. DOMAIN h.vertices = 1..Len(g.vertices) BY <1>1, <1>4
  <2>2. CASE i \in DOMAIN g.edges
    BY <2>2, <1>1, <1>3, <1>4 DEF Good, EdgesSound
  <2>3. CASE i \notin DOMAIN g.edges
    <3>1. h.edges[i] = e BY <2>3, <1>1, <1>3, <1>4
    <3> QED BY <3>1, <2>1
  <2> QED BY <2>2, <2>3
<1>8. Keeps(g, h) BY <1>1, <1>2, <1>3, <1>4 DEF Keeps
<1> QED BY <1>4, <1>5, <1>6, <1>7, <1>8 DEF Grows, Good

(* Both edges between a vertex and its parent.                             *)
LEMMA LinkGrows ==
  ASSUME NEW I, NEW A, NEW D, NEW g, Good(I, A, D, g),
         NEW u \in 1..Len(g.vertices), NEW v \in 1..Len(g.vertices)
  PROVE  /\ Grows(I, A, D, g, Link(g, u, v))
         /\ Link(g, u, v).vertices = g.vertices
         /\ Link(g, u, v).ids = g.ids
         /\ Link(g, u, v).root = g.root
<1> DEFINE f == AddEdge(g, u, v, "CHILD")
<1>1. /\ Grows(I, A, D, g, f) /\ f.vertices = g.vertices
      /\ f.ids = g.ids /\ f.root = g.root
  BY AddEdgeGrows DEF EdgeTypes
<1>2. Good(I, A, D, f) BY <1>1 DEF Grows
<1> HIDE DEF f
<1>3. LET h == AddEdge(f, v, u, "PARENT")
      IN /\ Grows(I, A, D, f, h) /\ h.vertices = f.vertices
         /\ h.ids = f.ids /\ h.root = f.root
  BY <1>1, <1>2, AddEdgeGrows DEF EdgeTypes
<1>4. Link(g, u, v) = AddEdge(f, v, u, "PARENT") BY DEF Link, f
<1> QED BY <1>1, <1>3, <1>4, GrowsTransitive

LEMMA LinkOnceGrows ==
  ASSUME NEW I, NEW A, NEW D, NEW g, Good(I, A, D, g),
         NEW u \in 1..Len(g.vertices), NEW v \in 1..Len(g.vertices)
  PROVE  /\ Grows(I, A, D, g, LinkOnce(g, u, v))
         /\ LinkOnce(g, u, v).vertices = g.vertices
         /\ LinkOnce(g, u, v).ids = g.ids
         /\ LinkOnce(g, u, v).root = g.root
  BY LinkGrows, GrowsReflexive DEF LinkOnce

(* Assigning to the properties of a vertex leaves the shape of the graph.  *)
LEMMA ReplaceVertexGrows ==
  ASSUME NEW I, NEW A, NEW D, NEW g, Good(I, A, D, g),
         NEW v \in 1..Len(g.vertices), NEW x \in VertexType(A, D)
  PROVE  LET h == [g EXCEPT !.vertices[v] = x]
         IN Grows(I, A, D, g, h) /\ SameShape(g, h)
<1> DEFINE h == [g EXCEPT !.vertices[v] = x]
<1>1. g.vertices \in Seq(VertexType(A, D)) BY DEF Good, GraphType
<1>2. /\ h.vertices = [g.vertices EXCEPT ![v] = x]
      /\ h.edges = g.edges /\ h.ids = g.ids /\ h.root = g.root
  BY DEF Good, GraphType
<1>3. h.vertices \in Seq(VertexType(A, D)) /\ Len(h.vertices) = Len(g.vertices)
  BY <1>1, <1>2
<1>4. SameShape(g, h) BY <1>2, <1>3 DEF SameShape
<1>5. h \in GraphType(I, A, D) BY <1>3 DEF Good, GraphType
<1>6. IdsSound(h) /\ EdgesSound(h)
  BY <1>1, <1>2, <1>3 DEF Good, IdsSound, EdgesSound
<1>7. Keeps(g, h) BY <1>1, <1>2, <1>3 DEF Keeps
<1> QED BY <1>4, <1>5, <1>6, <1>7 DEF Grows, Good

LEMMA AddAdapterGrows ==
  ASSUME NEW I, NEW A, NEW D, NEW g, Good(I, A, D, g),
         NEW v \in 1..Len(g.vertices), NEW a \in A
  PROVE  Grows(I, A, D, g, AddAdapter(g, v, a)) /\ SameShape(g, AddAdapter(g, v, a))
<1> DEFINE x == [g.vertices[v] EXCEPT !.adapters = Append(@, a)]
<1>1. g.vertices[v] \in VertexType(A, D) BY DEF Good, GraphType
<1>2. x \in VertexType(A, D)
  <2>1. g.vertices[v].adapters \in Seq(A) BY <1>1 DEF VertexType
  <2>2. Append(g.vertices[v].adapters, a) \in Seq(A) BY <2>1
  <2> QED BY <1>1, <2>2 DEF VertexType
<1>3. AddAdapter(g, v, a) = [g EXCEPT !.vertices[v] = x]
  BY DEF AddAdapter, Good, GraphType
<1> HIDE DEF x
<1> QED BY <1>2, <1>3, ReplaceVertexGrows

LEMMA SetTypeGrows ==
  ASSUME NEW I, NEW A, NEW D, NEW g, Good(I, A, D, g),
         NEW v \in 1..Len(g.vertices), NEW t \in Types
  PROVE  Grows(I, A, D, g, SetType(g, v, t)) /\ SameShape(g, SetType(g, v, t))
<1> DEFINE x == [g.vertices[v] EXCEPT !.type = t]
<1>1. g.vertices[v] \in VertexType(A, D) BY DEF Good, GraphType
<1>2. x \in VertexType(A, D) BY <1>1 DEF VertexType
<1>3. SetType(g, v, t) = [g EXCEPT !.vertices[v] = x]
  BY DEF SetType, Good, GraphType
<1> HIDE DEF x
<1> QED BY <1>2, <1>3, ReplaceVertexGrows

LEMMA SetDescriptionGrows ==
  ASSUME NEW I, NEW A, NEW D, NEW g, Good(I, A, D, g),
         NEW v \in 1..Len(g.vertices), NEW d \in D
  PROVE  Grows(I, A, D, g, SetDescription(g, v, d)) /\ SameShape(g, SetDescription(g, v, d))
<1> DEFINE x == [g.vertices[v] EXCEPT !.description = {d}]
<1>1. g.vertices[v] \in VertexType(A, D) BY DEF Good, GraphType
<1>2. x \in VertexType(A, D) BY <1>1 DEF VertexType
<1>3. SetDescription(g, v, d) = [g EXCEPT !.vertices[v] = x]
  BY DEF SetDescription, Good, GraphType
<1> HIDE DEF x
<1> QED BY <1>2, <1>3, ReplaceVertexGrows

LEMMA SameShapeReflexive ==
  ASSUME NEW g PROVE SameShape(g, g)
  BY DEF SameShape

LEMMA TypeIfUnknownGrows ==
  ASSUME NEW I, NEW A, NEW D, NEW g, Good(I, A, D, g),
         NEW v \in 1..Len(g.vertices), NEW t \in Types
  PROVE  Grows(I, A, D, g, TypeIfUnknown(g, v, t)) /\ SameShape(g, TypeIfUnknown(g, v, t))
  BY SetTypeGrows, GrowsReflexive, SameShapeReflexive DEF TypeIfUnknown

LEMMA DescribeIfEmptyGrows ==
  ASSUME NEW I, NEW A, NEW D, NEW g, Good(I, A, D, g),
         NEW v \in 1..Len(g.vertices), NEW d \in D
  PROVE  Grows(I, A, D, g, DescribeIfEmpty(g, v, d)) /\ SameShape(g, DescribeIfEmpty(g, v, d))
  BY SetDescriptionGrows, GrowsReflexive, SameShapeReflexive DEF DescribeIfEmpty

(* set_root_vertex changes nothing else.                                   *)
LEMMA SetRootGrows ==
  ASSUME NEW I, NEW A, NEW D, NEW g, Good(I, A, D, g), NEW v \in 1..Len(g.vertices)
  PROVE  LET h == SetRootVertex(g, v)
         IN /\ Grows(I, A, D, g, h) /\ h.vertices = g.vertices /\ h.edges = g.edges
            /\ h.ids = g.ids /\ h.root = v
<1> DEFINE h == SetRootVertex(g, v)
<1>1. g.vertices \in Seq(VertexType(A, D)) /\ v \in Nat BY DEF Good, GraphType
<1>2. h.vertices = g.vertices /\ h.edges = g.edges /\ h.ids = g.ids /\ h.root = v
  BY DEF SetRootVertex, Good, GraphType
<1>3. h \in GraphType(I, A, D) BY <1>1 DEF Good, GraphType, SetRootVertex
<1>4. IdsSound(h) /\ EdgesSound(h) BY <1>2 DEF Good, IdsSound, EdgesSound
<1>5. Keeps(g, h) BY <1>1, <1>2 DEF Keeps, Good, GraphType
<1> QED BY <1>2, <1>3, <1>4, <1>5 DEF Grows, Good
==============================================================================

--------------------------- MODULE HierarchyProofs ---------------------------
(***************************************************************************)
(* The CHILD and PARENT edges of the graph after the first init() form one *)
(* forest, whatever the order of the modules: HierarchyIsForest.           *)
(*                                                                         *)
(* The statement is not inductive: that the next edge joins two vertices   *)
(* that nothing joins yet follows from what the modules have and have not  *)
(* done.  HierInv says, at every moment of the first init(), who hangs     *)
(* from whom.  A vertex hangs from another exactly if hwloc's walk has put *)
(* its object below the other's (TreeEdge), if supermuc has told a host    *)
(* whose path they are on (NameEdge), or if it is that of a rank, which    *)
(* hangs from one vertex once it was attached (RanksHang).  It needs       *)
(* that a vertex has one hwloc object and an object one vertex             *)
(* (ObjectsOnce), and that the walk never comes to an object again         *)
(* (WalkFresh), which is where TopologyTree is used.                       *)
(*                                                                         *)
(* Added(g, h, A) is what a step does to vertices and adapters; each       *)
(* assignment of each module is shown to add what it should, and the step  *)
(* of each module to keep HierInv.                                         *)
(*                                                                         *)
(* From HierInv, for the graph after init(): no vertex hangs from two      *)
(* (OneParent), and each but the root hangs from one that is closer to it  *)
(* (the machine's prefixes, the machine, its objects by depth, the ranks), *)
(* so an unfolding of the recursion of Reached meets every vertex          *)
(* (AllReached, by induction on the number of vertices met).               *)
(***************************************************************************)
EXTENDS ContentProofs

(* What a graph says edge by edge and adapter by adapter.                  *)
EdgeIs(g, t, k, u, v) ==
  /\ k \in DOMAIN g.edges
  /\ g.edges[k].source = u /\ g.edges[k].target = v /\ g.edges[k].type = t
HoldsAt(g, v, k, a) ==
  v \in DOMAIN g.vertices /\ k \in DOMAIN g.vertices[v].adapters /\ g.vertices[v].adapters[k] = a

(* h is g grown by new vertices and, at the vertices they are paired with  *)
(* in A, by adapters behind those that are there.                          *)
Added(g, h, A) ==
  /\ GrowsY(g, h) /\ h.edges = g.edges
  /\ \A v, k, a : HoldsAt(g, v, k, a) => HoldsAt(h, v, k, a)
  /\ \A v, k, a : HoldsAt(h, v, k, a) => HoldsAt(g, v, k, a) \/ <<v, a>> \in A
  /\ \A v, a : <<v, a>> \in A => \E k : HoldsAt(h, v, k, a)

(* A graph is itself grown by nothing.                                     *)
LEMMA AddedReflexive ==
  ASSUME NEW g, GoodY(g)
  PROVE  Added(g, g, {})
  BY GrowsYReflexive DEF Added

(* Two such steps in a row add what both add.                              *)
LEMMA AddedTransitive ==
  ASSUME NEW f, NEW g, NEW h, NEW A, NEW B, GoodY(f), Added(f, g, A), Added(g, h, B)
  PROVE  Added(f, h, A \cup B)
<1>1. GrowsY(f, h) /\ h.edges = f.edges BY GrowsYTransitive DEF Added
<1> QED BY <1>1 DEF Added

(* A step that leaves the vertices and edges alone adds nothing.           *)
LEMMA SameVerticesAdded ==
  ASSUME NEW g, NEW h, GrowsY(g, h), h.vertices = g.vertices, h.edges = g.edges
  PROVE  Added(g, h, {})
  BY DEF Added, HoldsAt

(* A new vertex has no adapters.                                           *)
LEMMA VertexAppended ==
  ASSUME NEW g, NEW h, GoodY(g), GrowsY(g, h), h.edges = g.edges,
         h.vertices = Append(g.vertices, NewVertex)
  PROVE  Added(g, h, {})
<1> DEFINE T == VertexType(Adapters, Descriptions)
<1>1. g.vertices \in Seq(T) BY DEF GoodY, Good, GraphType
<1>2. NewVertex \in T BY NewVertexType
<1>3. /\ DOMAIN h.vertices = 1..Len(g.vertices) + 1 /\ DOMAIN g.vertices = 1..Len(g.vertices)
      /\ h.vertices[Len(g.vertices) + 1] = NewVertex
      /\ \A i \in 1..Len(g.vertices) : h.vertices[i] = g.vertices[i]
  BY <1>1, <1>2, AppendFacts
<1>4. DOMAIN NewVertex.adapters = {} BY DEF NewVertex
<1>5. \A v \in DOMAIN h.vertices : v \in DOMAIN g.vertices \/ v = Len(g.vertices) + 1
  BY <1>1, <1>3
<1>6. \A v \in DOMAIN g.vertices : v \in DOMAIN h.vertices BY <1>1, <1>3
<1>7. \A v, k, a : HoldsAt(h, v, k, a) <=> HoldsAt(g, v, k, a)
  BY <1>3, <1>4, <1>5, <1>6 DEF HoldsAt
<1> QED BY <1>7 DEF Added

(* Graph::add_vertex() adds no adapter.                                    *)
LEMMA AddVertexAdds ==
  ASSUME NEW g, GoodY(g)
  PROVE  Added(g, AddVertex(g), {})
<1>1. GrowsY(g, AddVertex(g)) /\ AddVertex(g).edges = g.edges
  BY AddVertexGrows DEF GoodY, GrowsY
<1>2. AddVertex(g).vertices = Append(g.vertices, NewVertex)
  BY DEF AddVertex, GoodY, Good, GraphType
<1> QED BY <1>1, <1>2, VertexAppended

(* Nor does Graph::add_vertex(id).                                         *)
LEMMA AddVertexIdAdds ==
  ASSUME NEW g, GoodY(g), NEW id \in Ids
  PROVE  Added(g, AddVertexId(g, id), {})
<1>1. CASE g.ids[id] # NoVertex BY <1>1, AddedReflexive DEF AddVertexId
<1>2. CASE g.ids[id] = NoVertex
  <2> DEFINE h == AddVertexId(g, id)
  <2>1. GrowsY(g, h) BY AddVertexIdY
  <2>2. h = [AddVertex(g) EXCEPT !.ids[id] = Len(g.vertices) + 1]
    BY <1>2 DEF AddVertexId
  <2>3. h.vertices = AddVertex(g).vertices /\ h.edges = AddVertex(g).edges
    BY <2>2 DEF AddVertex, GoodY, Good, GraphType
  <2>4. AddVertex(g).vertices = Append(g.vertices, NewVertex) /\ AddVertex(g).edges = g.edges
    BY DEF AddVertex, GoodY, Good, GraphType
  <2> QED BY <2>1, <2>3, <2>4, VertexAppended
<1> QED BY <1>1, <1>2

(* A sequence of assignments to one vertex.                                *)
Assigned(f, g, A, v) == GoodY(g) /\ Added(f, g, A) /\ v \in 1..Len(g.vertices)

(* An assignment to another field of a vertex adds no adapter.             *)
LEMMA OnlyAtAdds ==
  ASSUME NEW g, NEW h, GoodY(g), NEW v \in 1..Len(g.vertices), Touches(g, h), OnlyAt(g, h, v),
         h.vertices[v].adapters = g.vertices[v].adapters
  PROVE  Added(g, h, {})
<1>1. GrowsY(g, h) /\ h.edges = g.edges BY DEF Touches, SameShape
<1>2. \A w, k, a : HoldsAt(h, w, k, a) <=> HoldsAt(g, w, k, a) BY DEF HoldsAt, OnlyAt
<1> QED BY <1>1, <1>2 DEF Added

(* add_adapter adds one, behind those that are there.                      *)
LEMMA AppendAdds ==
  ASSUME NEW g, NEW h, GoodY(g), NEW v \in 1..Len(g.vertices), Touches(g, h), OnlyAt(g, h, v),
         NEW a \in Adapters, h.vertices[v].adapters = Append(g.vertices[v].adapters, a)
  PROVE  Added(g, h, {<<v, a>>})
<1>1. GrowsY(g, h) /\ h.edges = g.edges BY DEF Touches, SameShape
<1>2. v \in DOMAIN g.vertices /\ DOMAIN h.vertices = DOMAIN g.vertices BY Shape DEF OnlyAt
<1>3. g.vertices[v].adapters \in Seq(Adapters)
  <2>1. g.vertices[v] \in VertexType(Adapters, Descriptions) BY Shape
  <2> QED BY <2>1 DEF VertexType
<1> DEFINE s == g.vertices[v].adapters
<1>4. /\ DOMAIN h.vertices[v].adapters = 1..Len(s) + 1 /\ DOMAIN s = 1..Len(s) /\ Len(s) \in Nat
      /\ h.vertices[v].adapters[Len(s) + 1] = a
      /\ \A i \in 1..Len(s) : h.vertices[v].adapters[i] = s[i]
  BY <1>3, AppendFacts
<1>5. \A k : k \in 1..Len(s) + 1 <=> k \in 1..Len(s) \/ k = Len(s) + 1 BY <1>4
<1>6. \A k, b : HoldsAt(h, v, k, b) <=> HoldsAt(g, v, k, b) \/ (k = Len(s) + 1 /\ b = a)
  <2> HIDE DEF s
  <2>1. \A k, b : HoldsAt(g, v, k, b) <=> k \in 1..Len(s) /\ s[k] = b
    BY <1>2, <1>4 DEF HoldsAt, s
  <2>2. \A k, b : HoldsAt(h, v, k, b) <=> k \in 1..Len(s) + 1 /\ h.vertices[v].adapters[k] = b
    BY <1>2, <1>4 DEF HoldsAt
  <2>3. Len(s) + 1 \notin 1..Len(s) BY <1>4
  <2> QED BY <1>4, <1>5, <2>1, <2>2, <2>3
<1>7. \A w, k, b : w # v => (HoldsAt(h, w, k, b) <=> HoldsAt(g, w, k, b))
  BY <1>2 DEF HoldsAt, OnlyAt
<1> HIDE DEF s
<1>8. \A w, k, b : HoldsAt(g, w, k, b) => HoldsAt(h, w, k, b) BY <1>6, <1>7
<1>9. \A w, k, b : HoldsAt(h, w, k, b) => HoldsAt(g, w, k, b) \/ <<w, b>> \in {<<v, a>>}
  BY <1>6, <1>7
<1>10. \A w, b : <<w, b>> \in {<<v, a>>} => \E k : HoldsAt(h, w, k, b) BY <1>6
<1> QED BY <1>1, <1>8, <1>9, <1>10 DEF Added

(* The assignments the modules make, as members of such a sequence.        *)
LEMMA AssignmentsAdd ==
  ASSUME NEW f, NEW g, NEW A, NEW v, GoodY(f), Assigned(f, g, A, v)
  PROVE  /\ \A t \in Types : /\ Assigned(f, SetType(g, v, t), A, v)
                             /\ SetType(g, v, t).ids = g.ids /\ SetType(g, v, t).root = g.root
         /\ \A t \in Types : /\ Assigned(f, TypeIfUnknown(g, v, t), A, v)
                             /\ TypeIfUnknown(g, v, t).ids = g.ids
                             /\ TypeIfUnknown(g, v, t).root = g.root
         /\ \A d \in Descriptions : /\ Assigned(f, SetDescription(g, v, d), A, v)
                                    /\ SetDescription(g, v, d).ids = g.ids
                                    /\ SetDescription(g, v, d).root = g.root
         /\ \A d \in Descriptions : /\ Assigned(f, DescribeIfEmpty(g, v, d), A, v)
                                    /\ DescribeIfEmpty(g, v, d).ids = g.ids
                                    /\ DescribeIfEmpty(g, v, d).root = g.root
         /\ \A a \in Adapters : /\ Assigned(f, AddAdapter(g, v, a), A \cup {<<v, a>>}, v)
                                /\ AddAdapter(g, v, a).ids = g.ids
                                /\ AddAdapter(g, v, a).root = g.root
<1>1. GoodY(g) /\ v \in 1..Len(g.vertices) /\ Added(f, g, A) BY DEF Assigned
<1>2. /\ v \in DOMAIN g.vertices /\ DOMAIN g.vertices = 1..Len(g.vertices)
      /\ g.vertices[v] \in VertexType(Adapters, Descriptions)
  BY <1>1, Shape
<1>3. ASSUME NEW h, NEW B, Touches(g, h), Added(g, h, B)
      PROVE  Assigned(f, h, A \cup B, v) /\ h.ids = g.ids /\ h.root = g.root
  <2>1. GoodY(h) /\ 1..Len(h.vertices) = 1..Len(g.vertices) /\ h.ids = g.ids /\ h.root = g.root
    BY <1>3, TouchesKeepsRange
  <2> QED BY <1>1, <1>3, <2>1, AddedTransitive DEF Assigned
<1>4. ASSUME NEW h, Touches(g, h), Added(g, h, {})
      PROVE  Assigned(f, h, A, v) /\ h.ids = g.ids /\ h.root = g.root
  <2>1. A \cup {} = A OBVIOUS
  <2> QED BY <1>3, <1>4, <2>1
<1>5. \A w \in DOMAIN g.vertices : w \in 1..Len(g.vertices) BY <1>2
<1>6. ASSUME NEW h, Touches(g, h), NEW x, h.vertices = [g.vertices EXCEPT ![v] = x],
             x.adapters = g.vertices[v].adapters
      PROVE  Added(g, h, {})
  <2>1. OnlyAt(g, h, v) /\ h.vertices[v] = x
    BY <1>2, <1>6, TouchesKeepsRange DEF OnlyAt
  <2> QED BY <1>1, <1>6, <2>1, OnlyAtAdds
<1>7. \A t \in Types : Touches(g, SetType(g, v, t)) /\ Added(g, SetType(g, v, t), {})
  <2> SUFFICES ASSUME NEW t \in Types
               PROVE  Touches(g, SetType(g, v, t)) /\ Added(g, SetType(g, v, t), {})
    OBVIOUS
  <2> DEFINE h == SetType(g, v, t)
             x == [g.vertices[v] EXCEPT !.type = t]
  <2>1. h.vertices = [g.vertices EXCEPT ![v] = x]
    BY <1>1 DEF SetType, GoodY, Good, GraphType
  <2>2. x.adapters = g.vertices[v].adapters BY <1>2 DEF VertexType
  <2>3. Touches(g, h) BY <1>1, AssignmentsTouch
  <2> HIDE DEF h, x
  <2> QED BY <1>6, <2>1, <2>2, <2>3 DEF h
<1>8. \A d \in Descriptions :
        Touches(g, SetDescription(g, v, d)) /\ Added(g, SetDescription(g, v, d), {})
  <2> SUFFICES ASSUME NEW d \in Descriptions
               PROVE  Touches(g, SetDescription(g, v, d)) /\ Added(g, SetDescription(g, v, d), {})
    OBVIOUS
  <2> DEFINE h == SetDescription(g, v, d)
             x == [g.vertices[v] EXCEPT !.description = {d}]
  <2>1. h.vertices = [g.vertices EXCEPT ![v] = x]
    BY <1>1 DEF SetDescription, GoodY, Good, GraphType
  <2>2. x.adapters = g.vertices[v].adapters BY <1>2 DEF VertexType
  <2>3. Touches(g, h) BY <1>1, AssignmentsTouch
  <2> HIDE DEF h, x
  <2> QED BY <1>6, <2>1, <2>2, <2>3 DEF h
<1>9. \A t \in Types : Touches(g, TypeIfUnknown(g, v, t)) /\ Added(g, TypeIfUnknown(g, v, t), {})
  BY <1>1, <1>7, AddedReflexive, AssignmentsTouch DEF TypeIfUnknown
<1>10. \A d \in Descriptions :
         Touches(g, DescribeIfEmpty(g, v, d)) /\ Added(g, DescribeIfEmpty(g, v, d), {})
  BY <1>1, <1>8, AddedReflexive, AssignmentsTouch DEF DescribeIfEmpty
<1>11. \A a \in Adapters : Touches(g, AddAdapter(g, v, a))
                            /\ Added(g, AddAdapter(g, v, a), {<<v, a>>})
  BY <1>1, AssignmentsTouch, AssignsOnlyAt, AppendAdds
<1> QED BY <1>3, <1>4, <1>7, <1>8, <1>9, <1>10, <1>11

(* The vertex a module gets from add_vertex(id) exists.                    *)
LEMMA NamedFirst ==
  ASSUME NEW g, GoodY(g), NEW id \in Ids
  PROVE  LET h == AddVertexId(g, id)
         IN Assigned(g, h, {}, h.ids[id]) /\ h.root = g.root
  BY AddVertexIdAdds, AddVertexIdY DEF Assigned

(* What the steps of the modules add.                                      *)
LEMMA NvmlAdds ==
  ASSUME GoodY(graph), NEW i \in DOMAIN NvmlDevs
  PROVE  LET v == NvmlVertex(i)
             A == {<<v, Adapter("nvml", i, {})>>}
         IN Added(graph, NvmlAttach(i), A) /\ Added(graph, SetType(NvmlAttach(i), v, "GPU"), A)
<1> DEFINE id == NvmlId(i)
           added == AddVertexId(graph, id)
           v == added.ids[id]
           a == Adapter("nvml", i, {})
           attached == AddAdapter(added, v, a)
<1>1. id \in Ids /\ a \in Adapters /\ "GPU" \in Types
  BY DeviceIds, AdaptersOf, AssignedTypes
<1>2. NvmlAttach(i) = attached BY DEF NvmlAttach, NvmlId
<1>3. Assigned(graph, added, {}, v) BY <1>1, NamedFirst
<1>4. v = added.ids[id] OBVIOUS
<1> HIDE DEF added, v, id, a
<1>5. Assigned(graph, attached, {} \cup {<<v, a>>}, v) /\ attached.ids = added.ids
  <2>1. a \in Adapters BY <1>1
  <2> QED BY <1>3, <2>1, AssignmentsAdd
<1> HIDE DEF attached
<1>6. Assigned(graph, SetType(attached, v, "GPU"), {} \cup {<<v, a>>}, v)
  BY <1>1, <1>5, AssignmentsAdd
<1>7. NvmlVertex(i) = v BY <1>2, <1>4, <1>5 DEF NvmlVertex, id, NvmlId
<1>8. {} \cup {<<v, a>>} = {<<v, a>>} OBVIOUS
<1> QED BY <1>2, <1>5, <1>6, <1>7, <1>8 DEF Assigned, a

(* rocm's loop body adds the device's adapter at its vertex.               *)
LEMMA RocmAdds ==
  ASSUME NEW g, GoodY(g), NEW b \in Bdfs, NEW i \in Devs
  PROVE  LET id == <<"bdfid", b>>
             added == AddVertexId(g, id)
             vd == added.ids[id]
             described == SetDescription(AddAdapter(added, vd, Adapter("rocm", i, {})),
                                         vd, <<"rocm", i>>)
         IN Added(g, SetType(described, vd, "GPU"), {<<vd, Adapter("rocm", i, {})>>})
<1> DEFINE id == <<"bdfid", b>>
           added == AddVertexId(g, id)
           v == added.ids[id]
           a == Adapter("rocm", i, {})
           adapted == AddAdapter(added, v, a)
           described == SetDescription(adapted, v, <<"rocm", i>>)
<1>1. /\ id \in Ids /\ a \in Adapters /\ "GPU" \in Types /\ <<"rocm", i>> \in Descriptions
  BY IdsOf, AdaptersOf, AssignedTypes, DescriptionsOf
<1>2. Assigned(g, added, {}, v) BY <1>1, NamedFirst
<1> HIDE DEF added, v, id, a
<1>3. Assigned(g, adapted, {} \cup {<<v, a>>}, v) BY <1>1, <1>2, AssignmentsAdd
<1> HIDE DEF adapted
<1>4. Assigned(g, described, {} \cup {<<v, a>>}, v) BY <1>1, <1>3, AssignmentsAdd
<1> HIDE DEF described
<1>5. Assigned(g, SetType(described, v, "GPU"), {} \cup {<<v, a>>}, v)
  BY <1>1, <1>4, AssignmentsAdd
<1>6. {} \cup {<<v, a>>} = {<<v, a>>} OBVIOUS
<1> QED BY <1>5, <1>6 DEF Assigned, a, described, adapted, v, added, id

(* make_supermuc_node, and the node of the host itself, add one adapter.   *)
LEMMA SupermucNodeAdds ==
  ASSUME NEW g, GoodY(g), NEW id \in Ids, NEW n \in Hosts \cup Prefixes, NEW t \in Types
  PROVE  LET added == AddVertexId(g, id)
             vd == added.ids[id]
             h == AddAdapter(SetDescription(SetType(added, vd, t), vd, <<"name", n>>),
                             vd, Adapter("supermuc", n, {}))
         IN Added(g, h, {<<vd, Adapter("supermuc", n, {})>>})
<1> DEFINE added == AddVertexId(g, id)
           v == added.ids[id]
           a == Adapter("supermuc", n, {})
           typed == SetType(added, v, t)
           described == SetDescription(typed, v, <<"name", n>>)
<1>1. a \in Adapters /\ <<"name", n>> \in Descriptions BY AdaptersOf, DescriptionsOf
<1>2. Assigned(g, added, {}, v) BY NamedFirst
<1> HIDE DEF added, v, a
<1>3. Assigned(g, typed, {}, v) BY <1>1, <1>2, AssignmentsAdd
<1> HIDE DEF typed
<1>4. Assigned(g, described, {}, v) BY <1>1, <1>3, AssignmentsAdd
<1> HIDE DEF described
<1>5. Assigned(g, AddAdapter(described, v, a), {} \cup {<<v, a>>}, v)
  BY <1>1, <1>4, AssignmentsAdd
<1>6. {} \cup {<<v, a>>} = {<<v, a>>} OBVIOUS
<1> QED BY <1>5, <1>6 DEF Assigned, a, described, typed, v, added

(* The four vertices of a host get supermuc's adapters and no others.      *)
LEMMA HostPathAdds ==
  ASSUME NEW g, GoodY(g), NEW host \in Hosts
  PROVE  LET system(n) == <<"system", Truncate(host, n)>>
         IN \E nodes, A :
              /\ Added(g, nodes, A) /\ GoodY(nodes) /\ nodes.root = g.root
              /\ \A v, a : <<v, a>> \in A => \E n : a = Adapter("supermuc", n, {})
              /\ nodes.ids[<<"machine", host>>] \in 1..Len(nodes.vertices)
              /\ \A n \in 1..3 : nodes.ids[system(n)] \in 1..Len(nodes.vertices)
              /\ HostPath(g, host) =
                   LinkOnce(LinkOnce(LinkOnce(nodes, nodes.ids[system(1)], nodes.ids[system(2)]),
                                     nodes.ids[system(2)], nodes.ids[system(3)]),
                            nodes.ids[system(3)], nodes.ids[<<"machine", host>>])
<1> DEFINE column == Truncate(host, 3)
           rack == Truncate(host, 2)
           island == Truncate(host, 1)
           g1 == SlotNode(g, host)
           g2 == SystemNode(g1, column)
           g3 == SystemNode(g2, rack)
           nodes == SystemNode(g3, island)
           slotId == <<"machine", host>>
           systemId(n) == <<"system", n>>
<1>1. /\ column \in Prefixes /\ rack \in Prefixes /\ island \in Prefixes
      /\ slotId \in Ids /\ systemId(column) \in Ids /\ systemId(rack) \in Ids
      /\ systemId(island) \in Ids /\ "Misc" \in Types /\ "Node" \in Types
  BY PrefixOfHost, IdsOf, AssignedTypes
<1> DEFINE Supermucs(A) == \A v, a : <<v, a>> \in A => \E n : a = Adapter("supermuc", n, {})
<1>2. HostPath(g, host) =
        LinkOnce(LinkOnce(LinkOnce(nodes, nodes.ids[systemId(island)], nodes.ids[systemId(rack)]),
                          nodes.ids[systemId(rack)], nodes.ids[systemId(column)]),
                 nodes.ids[systemId(column)], nodes.ids[slotId])
  BY DEF HostPath
<1>3. ASSUME NEW f, GoodY(f), NEW p \in Prefixes, systemId(p) \in Ids
      PROVE  LET h == SystemNode(f, p)
             IN /\ GoodY(h) /\ h.root = f.root /\ h.ids[systemId(p)] \in 1..Len(h.vertices)
                /\ GrowsY(f, h) /\ \E A : Added(f, h, A) /\ Supermucs(A)
  <2> DEFINE h == SystemNode(f, p)
  <2>1. "Misc" \in Types /\ p \in Hosts \cup Prefixes BY <1>1
  <2>2. /\ GoodY(h) /\ h.root = f.root /\ h.ids[systemId(p)] \in 1..Len(h.vertices)
        /\ GrowsY(f, h)
    BY <1>3, <2>1, SupermucNodeGrows DEF SystemNode
  <2>3. PICK v : Added(f, h, {<<v, Adapter("supermuc", p, {})>>})
    BY <1>3, <2>1, SupermucNodeAdds DEF SystemNode
  <2>4. Supermucs({<<v, Adapter("supermuc", p, {})>>}) OBVIOUS
  <2> HIDE DEF h, Supermucs
  <2> QED BY <2>2, <2>3, <2>4 DEF h
<1>4. /\ GoodY(g1) /\ g1.root = g.root /\ g1.ids[slotId] \in 1..Len(g1.vertices)
      /\ GrowsY(g, g1) /\ \E A : Added(g, g1, A) /\ Supermucs(A)
  <2>1. "Node" \in Types /\ host \in Hosts \cup Prefixes /\ slotId \in Ids BY <1>1
  <2>2. /\ GoodY(g1) /\ g1.root = g.root /\ g1.ids[slotId] \in 1..Len(g1.vertices)
        /\ GrowsY(g, g1)
    BY <2>1, SupermucNodeGrows DEF SlotNode
  <2>3. PICK v : Added(g, g1, {<<v, Adapter("supermuc", host, {})>>})
    BY <2>1, SupermucNodeAdds DEF SlotNode
  <2>4. Supermucs({<<v, Adapter("supermuc", host, {})>>}) OBVIOUS
  <2> HIDE DEF g1, Supermucs
  <2> QED BY <2>2, <2>3, <2>4
<1> HIDE DEF column, rack, island, g1
<1>5. /\ GoodY(g2) /\ g2.root = g1.root /\ g2.ids[systemId(column)] \in 1..Len(g2.vertices)
      /\ GrowsY(g1, g2) /\ \E A : Added(g1, g2, A) /\ Supermucs(A)
  BY <1>1, <1>3, <1>4
<1> HIDE DEF g2
<1>6. /\ GoodY(g3) /\ g3.root = g2.root /\ g3.ids[systemId(rack)] \in 1..Len(g3.vertices)
      /\ GrowsY(g2, g3) /\ \E A : Added(g2, g3, A) /\ Supermucs(A)
  BY <1>1, <1>3, <1>5
<1> HIDE DEF g3
<1>7. /\ GoodY(nodes) /\ nodes.root = g3.root
      /\ nodes.ids[systemId(island)] \in 1..Len(nodes.vertices)
      /\ GrowsY(g3, nodes) /\ \E A : Added(g3, nodes, A) /\ Supermucs(A)
  BY <1>1, <1>3, <1>6
<1> HIDE DEF nodes
<1>8. GrowsY(g2, nodes) /\ GrowsY(g1, nodes)
  BY <1>4, <1>5, <1>6, <1>7, GrowsYTransitive
<1>9. /\ nodes.ids[slotId] \in 1..Len(nodes.vertices)
      /\ nodes.ids[systemId(column)] \in 1..Len(nodes.vertices)
      /\ nodes.ids[systemId(rack)] \in 1..Len(nodes.vertices)
  BY <1>1, <1>4, <1>5, <1>6, <1>7, <1>8, IdentifierKept
<1>10. \E A : Added(g, nodes, A) /\ Supermucs(A)
  <2>1. ASSUME NEW f1, NEW f2, NEW f3, GoodY(f1), \E A : Added(f1, f2, A) /\ Supermucs(A),
               \E A : Added(f2, f3, A) /\ Supermucs(A)
        PROVE  \E A : Added(f1, f3, A) /\ Supermucs(A)
    <3>1. PICK A1 : Added(f1, f2, A1) /\ Supermucs(A1) BY <2>1
    <3>2. PICK A2 : Added(f2, f3, A2) /\ Supermucs(A2) BY <2>1
    <3>3. Added(f1, f3, A1 \cup A2) BY <2>1, <3>1, <3>2, AddedTransitive
    <3>4. Supermucs(A1 \cup A2) BY <3>1, <3>2
    <3> QED BY <3>3, <3>4
  <2> HIDE DEF Supermucs
  <2>2. \E A : Added(g, g2, A) /\ Supermucs(A) BY <1>4, <1>5, <2>1
  <2>3. \E A : Added(g, g3, A) /\ Supermucs(A) BY <1>6, <2>1, <2>2
  <2> QED BY <1>7, <2>1, <2>3
<1>11. \A n \in 1..3 : n = 1 \/ n = 2 \/ n = 3 OBVIOUS
<1>12. \A n \in 1..3 : nodes.ids[<<"system", Truncate(host, n)>>] \in 1..Len(nodes.vertices)
  BY <1>7, <1>9, <1>11 DEF column, rack, island
<1>13. nodes.root = g.root BY <1>4, <1>5, <1>6, <1>7
<1>14. PICK A : Added(g, nodes, A) /\ Supermucs(A) BY <1>10
<1> QED BY <1>2, <1>7, <1>9, <1>12, <1>13, <1>14 DEF column, rack, island

(* mpi's loop body adds the rank's adapter at the rank's vertex.           *)
LEMMA AddRankAdds ==
  ASSUME NEW g, GoodY(g), mpi.rank \in Ranks, env \in Envs
  PROVE  LET h == AddRank(g)
             a == Adapter("mpi", mpi.rank, IF Pinned THEN {Mask} ELSE {})
         IN Added(g, h, {<<h.ids[RankId], a>>})
<1> DEFINE f == AddVertexId(g, MachineId)
           added == AddVertexId(f, RankId)
           v == added.ids[RankId]
           a == Adapter("mpi", mpi.rank, IF Pinned THEN {Mask} ELSE {})
           typed == SetType(added, v, "MPIProcess")
           h == AddAdapter(typed, v, a)
<1>1. RankId \in Ids /\ MachineId \in Ids
  BY IdsOf, PlatformConstants DEF RankId, MachineId, Host
<1>2. Mask \subseteq CPU BY MpiConstants DEF Mask, MaskOf, Bits
<1>3. a \in Adapters /\ "MPIProcess" \in Types BY <1>2, AdaptersOf, AssignedTypes
<1>4. AddRank(g) = h BY DEF AddRank
<1>5. Added(g, f, {}) /\ GoodY(f) BY <1>1, AddVertexIdAdds, AddVertexIdY
<1> HIDE DEF f, a
<1>6. Assigned(f, added, {}, v) BY <1>1, <1>5, NamedFirst
<1>7. Assigned(g, added, {}, v)
  <2>1. {} \cup {} = {} OBVIOUS
  <2> HIDE DEF added, v
  <2> QED BY <1>5, <1>6, <2>1, AddedTransitive DEF Assigned
<1>8. v = added.ids[RankId] OBVIOUS
<1> HIDE DEF added, v
<1>9. Assigned(g, typed, {}, v) /\ typed.ids = added.ids
  <2>1. "MPIProcess" \in Types BY <1>3
  <2> QED BY <1>7, <2>1, AssignmentsAdd
<1> HIDE DEF typed
<1>10. Assigned(g, h, {} \cup {<<v, a>>}, v) /\ h.ids = typed.ids
  <2>1. a \in Adapters BY <1>3
  <2> QED BY <1>9, <2>1, AssignmentsAdd
<1>11. {} \cup {<<v, a>>} = {<<v, a>>} /\ h.ids[RankId] = v BY <1>8, <1>9, <1>10
<1> QED BY <1>4, <1>10, <1>11 DEF Assigned, a

(* hwloc's first step adds the adapter of the machine object.              *)
LEMMA MachineAdds ==
  ASSUME NEW g, GoodY(g)
  PROVE  LET id == <<"machine", GetHostName>>
             added == AddVertexId(g, id)
             vd == added.ids[id]
             described == SetRootVertex(SetDescription(added, vd, <<"name", GetHostName>>), vd)
             h == TypeIfUnknown(AddAdapter(described, vd, HwlocAdapter(MachineObj)),
                                vd, HwlocType(MachineObj))
         IN Added(g, h, {<<vd, HwlocAdapter(MachineObj)>>}) /\ h.ids[id] = vd /\ h.root = vd
<1> DEFINE id == <<"machine", GetHostName>>
           added == AddVertexId(g, id)
           vd == added.ids[id]
           named == SetDescription(added, vd, <<"name", GetHostName>>)
           rooted == SetRootVertex(named, vd)
           a == HwlocAdapter(MachineObj)
           adapted == AddAdapter(rooted, vd, a)
           h == TypeIfUnknown(adapted, vd, HwlocType(MachineObj))
<1>1. /\ id \in Ids /\ <<"name", GetHostName>> \in Descriptions
      /\ a \in Adapters /\ HwlocType(MachineObj) \in Types
  BY TopologyConstants, IdsOf, DescriptionsOf, AdaptersOf, HwlocTypeInTypes
     DEF HwlocAdapter
<1>2. Assigned(g, added, {}, vd) BY <1>1, NamedFirst
<1>3. vd = added.ids[id] OBVIOUS
<1> HIDE DEF id, added, vd, a
<1>4. Assigned(g, named, {}, vd) /\ named.ids = added.ids BY <1>1, <1>2, AssignmentsAdd
<1> HIDE DEF named
<1>5. /\ GrowsY(named, rooted) /\ rooted.vertices = named.vertices
      /\ rooted.edges = named.edges /\ rooted.ids = named.ids /\ rooted.root = vd
  BY <1>4, SetRootGrows DEF GoodY, GrowsY, Assigned
<1> HIDE DEF rooted
<1>6. Assigned(g, rooted, {}, vd)
  <2>1. Added(named, rooted, {}) /\ GoodY(rooted) BY <1>5, SameVerticesAdded, GrowsYGood
  <2>2. {} \cup {} = {} OBVIOUS
  <2> QED BY <1>4, <1>5, <2>1, <2>2, AddedTransitive DEF Assigned
<1>7. Assigned(g, adapted, {} \cup {<<vd, a>>}, vd) /\ adapted.ids = rooted.ids
        /\ adapted.root = rooted.root
  <2>1. a \in Adapters BY <1>1
  <2> QED BY <1>6, <2>1, AssignmentsAdd
<1> HIDE DEF adapted
<1>8. Assigned(g, h, {} \cup {<<vd, a>>}, vd) /\ h.ids = adapted.ids /\ h.root = adapted.root
  <2>1. HwlocType(MachineObj) \in Types BY <1>1
  <2> QED BY <1>7, <2>1, AssignmentsAdd
<1>9. {} \cup {<<vd, a>>} = {<<vd, a>>} /\ h.ids[id] = vd /\ h.root = vd
  BY <1>3, <1>4, <1>5, <1>7, <1>8
<1>10. Added(g, h, {<<vd, a>>}) BY <1>8, <1>9 DEF Assigned
<1> QED BY <1>9, <1>10 DEF h, adapted, rooted, named, vd, added, id, a

(* A visit of make_hwloc_graph adds the adapter of the child it visits.    *)
LEMMA ChildAdds ==
  ASSUME NEW g, GoodY(g), NEW vd \in 1..Len(g.vertices), NEW o \in Objects
  PROVE  \E typed : /\ AddChild(g, vd, o) = Link(typed, vd, ChildVertex(g, o))
                    /\ Added(g, typed, {<<ChildVertex(g, o), HwlocAdapter(o)>>})
                    /\ GoodY(typed) /\ typed.root = g.root
                    /\ ChildVertex(g, o) \in 1..Len(typed.vertices)
                    /\ vd \in 1..Len(typed.vertices)
<1> DEFINE added == ChildGraph(g, o)
           child == ChildVertex(g, o)
           a == HwlocAdapter(o)
           described == DescribeIfEmpty(added, child, <<"hwloc", HwlocToString(o)>>)
           adapted == AddAdapter(described, child, a)
           typed == TypeIfUnknown(adapted, child, HwlocType(o))
<1>1. /\ <<"hwloc", HwlocToString(o)>> \in Descriptions
      /\ a \in Adapters /\ HwlocType(o) \in Types
  BY TopologyConstants, DescriptionsOf, AdaptersOf, HwlocTypeInTypes DEF HwlocAdapter
<1>2. Assigned(g, added, {}, child) /\ added.root = g.root
  <2>1. CASE IsA(HwlocType(o), "PCIDevice")
    <3>1. BdfOf[o] \in Bdfs BY <2>1, PciObjectsHaveAddress
    <3> QED BY <2>1, <3>1, IdsOf, NamedFirst DEF ChildGraph, ChildVertex
  <2>2. CASE ~IsA(HwlocType(o), "PCIDevice")
    BY <2>2, AddVertexAdds, AddVertexY DEF ChildGraph, ChildVertex, Assigned
  <2> QED BY <2>1, <2>2
<1> HIDE DEF added, child, a
<1>3. Assigned(g, described, {}, child) /\ described.root = g.root
  BY <1>1, <1>2, AssignmentsAdd
<1> HIDE DEF described
<1>4. Assigned(g, adapted, {} \cup {<<child, a>>}, child) /\ adapted.root = g.root
  <2>1. a \in Adapters BY <1>1
  <2> QED BY <1>3, <2>1, AssignmentsAdd
<1> HIDE DEF adapted
<1>5. Assigned(g, typed, {} \cup {<<child, a>>}, child) /\ typed.root = g.root
  <2>1. HwlocType(o) \in Types BY <1>1
  <2> QED BY <1>4, <2>1, AssignmentsAdd
<1>6. {} \cup {<<child, a>>} = {<<child, a>>} OBVIOUS
<1>7. AddChild(g, vd, o) = Link(typed, vd, child)
  BY DEF AddChild, typed, adapted, described, added, child, a
<1> HIDE DEF typed
<1>8. vd \in 1..Len(typed.vertices)
  BY <1>5, DescriptorsKept DEF Assigned, Added
<1> QED BY <1>5, <1>6, <1>7, <1>8 DEF Assigned, child, a

------------------------------------------------------------------------------
(* The edges of the hierarchy.                                             *)
Hangs(g, u, v) == \E k : EdgeIs(g, "CHILD", k, u, v)
HangsOnce(g) ==
  /\ \A u, v : Hangs(g, u, v) <=> \E k : EdgeIs(g, "PARENT", k, v, u)
  /\ \A t \in {"CHILD", "PARENT"} : \A k, l, u, v :
       EdgeIs(g, t, k, u, v) /\ EdgeIs(g, t, l, u, v) => k = l

(* add_edge appends one edge and keeps the others.                         *)
LEMMA EdgeAppended ==
  ASSUME NEW g, GoodY(g), NEW u, NEW v, NEW t, NEW s, NEW k, NEW a, NEW b
  PROVE  EdgeIs(AddEdge(g, u, v, t), s, k, a, b) <=>
           EdgeIs(g, s, k, a, b) \/ (k = Len(g.edges) + 1 /\ a = u /\ b = v /\ s = t)
<1> DEFINE e == [source |-> u, target |-> v, type |-> t]
           h == AddEdge(g, u, v, t)
<1>1. g.edges \in Seq(EdgeType) BY DEF GoodY, Good, GraphType
<1>2. h.edges = Append(g.edges, e) BY DEF AddEdge, GoodY, Good, GraphType
<1>3. g.edges \in Seq(EdgeType \cup {e}) /\ e \in EdgeType \cup {e} BY <1>1
<1>4. e.source = u /\ e.target = v /\ e.type = t OBVIOUS
<1> HIDE DEF e, h
<1>5. /\ DOMAIN h.edges = 1..Len(g.edges) + 1 /\ DOMAIN g.edges = 1..Len(g.edges)
      /\ Len(g.edges) \in Nat
      /\ h.edges[Len(g.edges) + 1] = e /\ \A i \in 1..Len(g.edges) : h.edges[i] = g.edges[i]
  BY <1>2, <1>3, AppendFacts
<1>6. k \in DOMAIN h.edges <=> k \in DOMAIN g.edges \/ k = Len(g.edges) + 1 BY <1>5
<1>7. Len(g.edges) + 1 \notin DOMAIN g.edges BY <1>5
<1> QED BY <1>4, <1>5, <1>6, <1>7 DEF EdgeIs, h

(* An edge joins two vertices and has one of the three types.              *)
LEMMA EdgeWithin ==
  ASSUME NEW g, GoodY(g), NEW s, NEW k, NEW u, NEW v, EdgeIs(g, s, k, u, v)
  PROVE  /\ k \in 1..Len(g.edges) /\ k # Len(g.edges) + 1 /\ s \in EdgeTypes
         /\ u \in 1..Len(g.vertices) /\ v \in 1..Len(g.vertices)
<1>1. g.edges \in Seq(EdgeType) /\ EdgesSound(g) BY DEF GoodY, Good, GraphType
<1>2. DOMAIN g.vertices = 1..Len(g.vertices) BY Shape
<1>3. k \in 1..Len(g.edges) /\ Len(g.edges) \in Nat BY <1>1 DEF EdgeIs
<1>4. g.edges[k] \in EdgeType BY <1>1, <1>3
<1> QED BY <1>1, <1>2, <1>3, <1>4 DEF EdgeIs, EdgesSound, EdgeType

(* A pair of edges that was not there before hangs v below u, once.        *)
LEMMA LinkHangs ==
  ASSUME NEW g, GoodY(g), NEW u \in 1..Len(g.vertices), NEW v \in 1..Len(g.vertices),
         HangsOnce(g), ~Hangs(g, u, v)
  PROVE  LET h == Link(g, u, v)
         IN /\ HangsOnce(h)
            /\ \A a, b : Hangs(h, a, b) <=> Hangs(g, a, b) \/ (a = u /\ b = v)
<1> DEFINE f == AddEdge(g, u, v, "CHILD")
           h == AddEdge(f, v, u, "PARENT")
           n == Len(g.edges) + 1
           m == Len(f.edges) + 1
<1>1. GoodY(f)
  BY AddEdgeGrows DEF GoodY, Grows, EdgeTypes
<1>2. \A s, k, a, b : EdgeIs(f, s, k, a, b) <=>
          EdgeIs(g, s, k, a, b) \/ (k = n /\ a = u /\ b = v /\ s = "CHILD")
  BY EdgeAppended
<1>3. \A s, a, b : ~EdgeIs(g, s, n, a, b) BY EdgeWithin
<1> HIDE DEF f
<1>4. \A s, k, a, b : EdgeIs(h, s, k, a, b) <=>
          EdgeIs(f, s, k, a, b) \/ (k = m /\ a = v /\ b = u /\ s = "PARENT")
  BY <1>1, EdgeAppended
<1>5. \A s, a, b : ~EdgeIs(f, s, m, a, b) BY <1>1, EdgeWithin
<1>6. Link(g, u, v) = h BY DEF Link, f
<1> HIDE DEF h, n, m
<1>7. \A k, a, b : EdgeIs(h, "CHILD", k, a, b) <=>
          EdgeIs(g, "CHILD", k, a, b) \/ (k = n /\ a = u /\ b = v)
  BY <1>2, <1>4
<1>8. \A k, a, b : EdgeIs(h, "PARENT", k, a, b) <=>
          EdgeIs(g, "PARENT", k, a, b) \/ (k = m /\ a = v /\ b = u)
  BY <1>2, <1>4
<1>9. ~\E k : EdgeIs(g, "PARENT", k, v, u) BY DEF HangsOnce
<1>10. \A a, b : Hangs(h, a, b) <=> Hangs(g, a, b) \/ (a = u /\ b = v)
  BY <1>7 DEF Hangs
<1>11. \A a, b : (\E k : EdgeIs(h, "PARENT", k, b, a))
                    <=> (\E k : EdgeIs(g, "PARENT", k, b, a)) \/ (a = u /\ b = v)
  BY <1>8
<1>12. \A k, l, a, b : EdgeIs(h, "CHILD", k, a, b) /\ EdgeIs(h, "CHILD", l, a, b) => k = l
  BY <1>7 DEF HangsOnce, Hangs
<1>13. \A k, l, a, b : EdgeIs(h, "PARENT", k, a, b) /\ EdgeIs(h, "PARENT", l, a, b) => k = l
  BY <1>8, <1>9 DEF HangsOnce
<1>14. HangsOnce(h)
  <2>1. \A a, b : Hangs(h, a, b) <=> \E k : EdgeIs(h, "PARENT", k, b, a)
    BY <1>10, <1>11 DEF HangsOnce
  <2> QED BY <1>12, <1>13, <2>1 DEF HangsOnce
<1> QED BY <1>6, <1>10, <1>14

(* An edge of any type keeps make_supermuc_graph from adding its pair.     *)
LEMMA LinkOnceHangs ==
  ASSUME NEW g, GoodY(g), NEW u \in 1..Len(g.vertices), NEW v \in 1..Len(g.vertices),
         HangsOnce(g), ~Hangs(g, v, u), ~\E k : EdgeIs(g, "GPU_INTERCONNECT", k, u, v)
  PROVE  LET h == LinkOnce(g, u, v)
         IN /\ HangsOnce(h)
            /\ \A a, b : Hangs(h, a, b) <=> Hangs(g, a, b) \/ (a = u /\ b = v)
<1>1. CASE HasEdge(g, u, v)
  <2>1. PICK k : k \in DOMAIN g.edges /\ g.edges[k].source = u /\ g.edges[k].target = v
    BY <1>1 DEF HasEdge
  <2>2. EdgeIs(g, g.edges[k].type, k, u, v) BY <2>1 DEF EdgeIs
  <2>3. g.edges[k].type \in {"PARENT", "CHILD", "GPU_INTERCONNECT"}
    BY <2>2, EdgeWithin DEF EdgeTypes
  <2>4. ~EdgeIs(g, "PARENT", k, u, v) BY DEF HangsOnce
  <2>5. Hangs(g, u, v) BY <2>2, <2>3, <2>4 DEF Hangs
  <2> QED BY <1>1, <2>5 DEF LinkOnce
<1>2. CASE ~HasEdge(g, u, v)
  <2>1. ~Hangs(g, u, v) BY <1>2 DEF Hangs, EdgeIs, HasEdge
  <2> QED BY <1>2, <2>1, LinkHangs DEF LinkOnce
<1> QED BY <1>1, <1>2

(* An interconnect between GPUs hangs nothing.                             *)
LEMMA InterconnectHangs ==
  ASSUME NEW g, GoodY(g), NEW u \in 1..Len(g.vertices), NEW v \in 1..Len(g.vertices), HangsOnce(g)
  PROVE  LET h == Interconnect(g, u, v)
         IN HangsOnce(h) /\ \A a, b : Hangs(h, a, b) <=> Hangs(g, a, b)
<1> DEFINE f == AddEdge(g, u, v, "GPU_INTERCONNECT")
           h == AddEdge(f, v, u, "GPU_INTERCONNECT")
<1>1. GoodY(f)
  BY AddEdgeGrows DEF GoodY, Grows, EdgeTypes
<1>2. \A s, k, a, b : s # "GPU_INTERCONNECT" => (EdgeIs(f, s, k, a, b) <=> EdgeIs(g, s, k, a, b))
  BY EdgeAppended
<1> HIDE DEF f
<1>3. \A s, k, a, b : s # "GPU_INTERCONNECT" => (EdgeIs(h, s, k, a, b) <=> EdgeIs(f, s, k, a, b))
  BY <1>1, EdgeAppended
<1>4. Interconnect(g, u, v) = h BY DEF Interconnect, f
<1> HIDE DEF h
<1>5. \A s \in {"CHILD", "PARENT"} : \A k, a, b : EdgeIs(h, s, k, a, b) <=> EdgeIs(g, s, k, a, b)
  BY <1>2, <1>3
<1> QED BY <1>4, <1>5 DEF HangsOnce, Hangs

(* Only the edges matter.                                                  *)
LEMMA SameEdgesHang ==
  ASSUME NEW g, NEW h, h.edges = g.edges
  PROVE  /\ \A t, k, u, v : EdgeIs(h, t, k, u, v) <=> EdgeIs(g, t, k, u, v)
         /\ \A u, v : Hangs(h, u, v) <=> Hangs(g, u, v)
         /\ HangsOnce(h) <=> HangsOnce(g)
<1>1. \A t, k, u, v : EdgeIs(h, t, k, u, v) <=> EdgeIs(g, t, k, u, v) BY DEF EdgeIs
<1> HIDE DEF EdgeIs
<1> QED BY <1>1 DEF HangsOnce, Hangs

------------------------------------------------------------------------------
(* The invariant.                                                          *)
At(g, o, v) == \E k, a : HoldsAt(g, v, k, a) /\ a.of = <<"hwloc", o>>
TreeEdge(u, v) ==
  \E o \in Objects : \E k \in DOMAIN Children[o] :
    At(graph, o, u) /\ At(graph, Children[o][k], v)
PathEdges(h) ==
  {<<<<"system", Truncate(h, 1)>>, <<"system", Truncate(h, 2)>>>>,
   <<<<"system", Truncate(h, 2)>>, <<"system", Truncate(h, 3)>>>>,
   <<<<"system", Truncate(h, 3)>>, <<"machine", h>>>>}
NameEdge(u, v) ==
  \E i \in HostsTold : \E e \in PathEdges(ProcName[i]) : u = graph.ids[e[1]] /\ v = graph.ids[e[2]]
Attached(i) == Ran("mpi") \/ (current = "mpi" /\ i < mpi.rank)

EdgesTold ==
  /\ HangsOnce(graph)
  /\ \A u, v : TreeEdge(u, v) \/ NameEdge(u, v) => Hangs(graph, u, v)
  /\ \A u, v : Hangs(graph, u, v) =>
       TreeEdge(u, v) \/ NameEdge(u, v) \/ \E i \in Ranks : v = RankVertex(i)
RanksHang ==
  /\ \A i \in Ranks : (\E u : Hangs(graph, u, RankVertex(i))) <=> Attached(i)
  /\ \A i \in Ranks : \A u, v : Hangs(graph, u, RankVertex(i)) /\ Hangs(graph, v, RankVertex(i))
                                  => u = v
  /\ \A i \in Ranks : \A u, v : Hangs(graph, u, v) => u # RankVertex(i)
  /\ \A i \in Ranks : RankVertex(i) # 1 /\ RankVertex(i) # graph.root
ObjectsOnce == \A o \in Objects : \A u, v : At(graph, o, u) /\ At(graph, o, v) => u = v
HierGraph == EdgesTold /\ RanksHang /\ ObjectsOnce

Found(o) == \E v : At(graph, o, v)
WalkFresh ==
  /\ \A o \in Objects : \A k \in DOMAIN Children[o] : Found(Children[o][k]) => Found(o)
  /\ \A i \in DOMAIN walk :
       /\ At(graph, walk[i].obj, walk[i].vd)
       /\ \A k \in DOMAIN Children[walk[i].obj] :
            k >= walk[i].next => ~Found(Children[walk[i].obj][k])
  /\ \A i, j \in DOMAIN walk : walk[i].obj = walk[j].obj => i = j
DescendsPlain == mpi.stage = "descend" => \A i \in Ranks : RankVertex(i) # mpi.at
HierInv == First => HierGraph /\ WalkFresh /\ DescendsPlain

(* The ends of the three edges of a host's path are identifiers.           *)
LEMMA PathEdgeIds ==
  ASSUME NEW h \in Hosts, NEW e \in PathEdges(h)
  PROVE  /\ e[1] \in PathIds(h) /\ e[2] \in PathIds(h) /\ e[1] \in Ids /\ e[2] \in Ids
         /\ e[1][1] = "system" /\ e[2][1] \in {"system", "machine"} /\ e[1] # e[2]
         /\ e[1][1] = "system" /\ (e[2] = <<"machine", h>> \/ e[2][1] = "system")
<1>1. \A n \in 1..3 : Truncate(h, n) \in Prefixes BY PrefixOfHost
<1>2. \A n \in 1..3 : Len(Truncate(h, n)) = n BY HostNames, PlatformConstants DEF Truncate
<1>3. <<"machine", h>> \in Ids /\ \A n \in 1..3 : <<"system", Truncate(h, n)>> \in Ids
  BY <1>1, IdsOf
<1>4. Truncate(h, 1) # Truncate(h, 2) /\ Truncate(h, 2) # Truncate(h, 3) BY <1>2
<1> QED BY <1>3, <1>4 DEF PathEdges, PathIds

(* A prefix of a prefix is a prefix of the name.                           *)
LEMMA TruncateTwice ==
  ASSUME NEW h \in Hosts, NEW m \in 1..3, NEW n \in 1..3, m <= n
  PROVE  Truncate(h, m) = SubSeq(Truncate(h, n), 1, m) /\ Len(Truncate(h, n)) = n
<1>1. PICK S : h \in Seq(S) /\ Len(h) = 4 BY HostNames, PlatformConstants
<1>2. Truncate(h, n) = [i \in 1..n |-> h[i]] BY <1>1 DEF Truncate
<1>3. Truncate(h, m) = [i \in 1..m |-> h[i]] BY <1>1 DEF Truncate
<1>4. Truncate(h, n) \in Seq(S) /\ Len(Truncate(h, n)) = n BY <1>1 DEF Truncate
<1>5. SubSeq(Truncate(h, n), 1, m) = [i \in 1..m |-> Truncate(h, n)[i]] BY <1>4
<1>6. \A i \in 1..m : Truncate(h, n)[i] = h[i] BY <1>2
<1> QED BY <1>3, <1>4, <1>5, <1>6

(* Two hosts whose paths meet share what is above.                         *)
LEMMA PathEdgesAgree ==
  ASSUME NEW g \in Hosts, NEW h \in Hosts, NEW d \in PathEdges(g), NEW e \in PathEdges(h),
         d[2] = e[2]
  PROVE  d[1] = e[1]
<1>1. /\ Len(Truncate(g, 2)) = 2 /\ Len(Truncate(h, 2)) = 2
      /\ Len(Truncate(g, 3)) = 3 /\ Len(Truncate(h, 3)) = 3
  BY TruncateTwice
<1>2. Truncate(g, 2) # Truncate(h, 3) /\ Truncate(g, 3) # Truncate(h, 2) BY <1>1
<1>3. Truncate(g, 2) = Truncate(h, 2) => Truncate(g, 1) = Truncate(h, 1) BY TruncateTwice
<1>4. Truncate(g, 3) = Truncate(h, 3) => Truncate(g, 2) = Truncate(h, 2) BY TruncateTwice
<1> QED BY <1>2, <1>3, <1>4 DEF PathEdges

(* A rank has a vertex once mpi has told of it, and none before.           *)
LEMMA RankKnown ==
  ASSUME ToldExactly, NEW i \in Ranks
  PROVE  /\ GoodY(graph) /\ <<"mpi_rank", i>> \in Ids
         /\ i \in RanksTold => RankVertex(i) \in 1..Len(graph.vertices)
         /\ i \notin RanksTold => RankVertex(i) = NoVertex
<1> DEFINE id == <<"mpi_rank", i>>
           x == Elem(graph, id)
<1>1. id \in Ids BY IdsOf
<1>2. GoodY(graph) BY DEF ToldExactly, Tells, Content
<1>3. graph.ids[id] # NoVertex <=> Of(x) # {} \/ id \in NamesOf(RanksTold)
  BY <1>1 DEF ToldExactly, Tells
<1>4. id \notin NamesOf(RanksTold) BY DEF NamesOf
<1>5. i \in RanksTold => Of(x) # {}
  <2> SUFFICES ASSUME i \in RanksTold PROVE Has(graph, id, <<"mpi", i>>)
    BY DEF Has
  <2>1. ~ByWalk(id, <<"mpi", i>>) BY DEF ByWalk
  <2>2. <<id, <<"mpi", i>>>> \in Pairs BY InPairs DEF Pairs
  <2> QED BY <1>1, <2>1, <2>2 DEF ToldExactly, Tells
<1>6. i \notin RanksTold => Of(x) = {}
  <2> SUFFICES ASSUME i \notin RanksTold PROVE x.adapters = <<>>
    BY DEF Of
  <2>1. Len(x.adapters) = 0 BY UntoldRank
  <2>2. x.adapters \in Seq(Adapters) BY <1>1, <1>2, ElemType DEF VertexType
  <2> HIDE DEF x
  <2> QED BY <2>1, <2>2
<1>7. graph.ids[id] # NoVertex => graph.ids[id] \in 1..Len(graph.vertices)
  BY <1>1, <1>2, NamedVertex
<1> HIDE DEF x
<1> QED BY <1>1, <1>2, <1>3, <1>4, <1>5, <1>6, <1>7 DEF RankVertex

(* The names of a host have vertices once supermuc has told of them.       *)
LEMMA HostKnown ==
  ASSUME ToldExactly, NEW i \in HostsTold, NEW id \in PathIds(ProcName[i])
  PROVE  id \in Ids /\ graph.ids[id] \in 1..Len(graph.vertices)
<1>1. i \in Ranks BY DEF HostsTold
<1>2. id \in Ids /\ id[1] \in {"machine", "system"}
  BY <1>1, ProcHosts, IdsOf DEF PathIds
<1>3. ~ByWalk(id, <<"supermuc", id[2]>>) BY <1>2 DEF ByWalk
<1>4. <<id, <<"supermuc", id[2]>>>> \in Pairs BY InPairs DEF Pairs
<1>5. Has(graph, id, <<"supermuc", id[2]>>) BY <1>2, <1>3, <1>4 DEF ToldExactly, Tells
<1>6. graph.ids[id] # NoVertex BY <1>2, <1>5 DEF Has, ToldExactly, Tells
<1>7. GoodY(graph) BY DEF ToldExactly, Tells, Content
<1> QED BY <1>2, <1>6, <1>7, NamedVertex

------------------------------------------------------------------------------
(* What the content of the graph says of its objects.                      *)
LEMMA NativeAt ==
  ASSUME NEW g, Content(g), NEW id \in Ids, NEW o, At(g, o, g.ids[id])
  PROVE  Belongs(id, <<"hwloc", o>>) /\ g.ids[id] # NoVertex
<1>1. PICK k, a : HoldsAt(g, g.ids[id], k, a) /\ a.of = <<"hwloc", o>> BY DEF At
<1>2. g.ids[id] \in 1..Len(g.vertices) /\ Len(g.vertices) \in Nat
  <2>1. GoodY(g) BY DEF Content
  <2>2. DOMAIN g.vertices = 1..Len(g.vertices) BY <2>1, VertexRange
  <2> QED BY <1>1, <2>1, <2>2, VertexRange DEF HoldsAt
<1>3. g.ids[id] # NoVertex BY <1>2 DEF NoVertex
<1>4. Elem(g, id) = g.vertices[g.ids[id]] BY <1>3 DEF Elem
<1>5. Fits(id, Elem(g, id)) BY DEF Content
<1>6. Belongs(id, Elem(g, id).adapters[k].of) BY <1>1, <1>4, <1>5 DEF Fits, HoldsAt
<1> QED BY <1>1, <1>3, <1>4, <1>6 DEF HoldsAt

(* A vertex without a name stands for one object that is no PCI device.    *)
LEMMA PlainAt ==
  ASSUME NEW g, Content(g), NEW v, Unnamed(g, v), NEW o \in Objects, At(g, o, v)
  PROVE  o \notin PciObjects /\ g.vertices[v].adapters = <<HwlocAdapter(o)>>
<1>1. PICK k, a : HoldsAt(g, v, k, a) /\ a.of = <<"hwloc", o>> BY DEF At
<1>2. PlainFits(g.vertices[v]) BY DEF Content, Unnamed
<1>3. PICK p \in Objects \ PciObjects : g.vertices[v].adapters = <<HwlocAdapter(p)>>
  BY <1>2 DEF PlainFits
<1>4. a = HwlocAdapter(p) BY <1>1, <1>3 DEF HoldsAt
<1>5. o = p BY <1>1, <1>4, AdapterFields DEF HwlocAdapter
<1> QED BY <1>3, <1>5

(* hwloc names the machine and the PCI devices only.                       *)
LEMMA HwlocBelongs ==
  ASSUME NEW id, NEW o, Belongs(id, <<"hwloc", o>>)
  PROVE  \/ o = MachineObj /\ id = <<"machine", GetHostName>>
         \/ o \in PciObjects /\ id = HwlocId(o)
  BY DEF Belongs

(* A vertex stands for one object of the topology at most.                 *)
LEMMA OneObject ==
  ASSUME NEW g, Content(g), NEW o \in Objects, NEW p \in Objects, NEW v,
         At(g, o, v), At(g, p, v)
  PROVE  o = p
<1>1. CASE \E id \in Ids : g.ids[id] = v
  <2>1. PICK id \in Ids : g.ids[id] = v BY <1>1
  <2>2. Belongs(id, <<"hwloc", o>>) /\ Belongs(id, <<"hwloc", p>>) BY <2>1, NativeAt
  <2>3. \A x, y \in PciObjects : HwlocId(x) = HwlocId(y) => x = y
    BY TopologyTree DEF HwlocId, PciObjects
  <2> QED BY <2>2, <2>3, HwlocBelongs DEF HwlocId
<1>2. CASE Unnamed(g, v)
  <2>1. <<HwlocAdapter(o)>> = <<HwlocAdapter(p)>> BY <1>2, PlainAt
  <2>2. HwlocAdapter(o) = HwlocAdapter(p) BY <2>1
  <2>3. HwlocAdapter(o).of = <<"hwloc", o>> /\ HwlocAdapter(p).of = <<"hwloc", p>>
    BY AdapterFields DEF HwlocAdapter
  <2> QED BY <2>2, <2>3
<1>3. v \in DOMAIN g.vertices BY DEF At, HoldsAt
<1> QED BY <1>1, <1>2, <1>3 DEF Unnamed

(* The objects seen are those that are somewhere.                          *)
LEMMA SeenAt ==
  ASSUME NEW g, Content(g), NEW o \in Objects
  PROVE  o \in Seen(g) <=> \E v : At(g, o, v)
<1>1. ASSUME NEW v, At(g, o, v) PROVE o \in Seen(g)
  <2>1. PICK k, a : HoldsAt(g, v, k, a) /\ a.of = <<"hwloc", o>> BY <1>1 DEF At
  <2>2. <<"hwloc", o>> \in Of(g.vertices[v]) /\ v \in DOMAIN g.vertices
    BY <2>1 DEF Of, HoldsAt
  <2>3. ASSUME NEW id \in Ids, g.ids[id] = v PROVE Has(g, id, <<"hwloc", o>>)
    BY <1>1, <2>2, <2>3, NativeAt DEF Has, Elem
  <2> QED BY <2>2, <2>3 DEF Seen, Unnamed
<1>2. ASSUME NEW x, NEW v \in DOMAIN g.vertices, x = g.vertices[v], <<"hwloc", o>> \in Of(x)
      PROVE  At(g, o, v)
  BY <1>2 DEF Of, At, HoldsAt
<1>3. ASSUME NEW id \in Ids, Has(g, id, <<"hwloc", o>>) PROVE \E v : At(g, o, v)
  <2>1. g.ids[id] # NoVertex BY <1>3, OfNew DEF Has, Elem
  <2>2. g.ids[id] \in DOMAIN g.vertices BY <2>1, NamedVertex, VertexRange DEF Content
  <2> QED BY <1>2, <1>3, <2>1, <2>2 DEF Has, Elem
<1> QED BY <1>1, <1>2, <1>3 DEF Seen

(* What adding vertices and adapters does to the places of the objects.    *)
LEMMA AtAdded ==
  ASSUME NEW g, NEW h, NEW A, Added(g, h, A)
  PROVE  \A o, v : At(h, o, v) <=> At(g, o, v) \/ \E a : <<v, a>> \in A /\ a.of = <<"hwloc", o>>
<1> SUFFICES ASSUME NEW o, NEW v
             PROVE  At(h, o, v) <=>
                      At(g, o, v) \/ \E a : <<v, a>> \in A /\ a.of = <<"hwloc", o>>
  OBVIOUS
<1>1. At(g, o, v) => At(h, o, v) BY DEF At, Added
<1>2. ASSUME NEW a, <<v, a>> \in A, a.of = <<"hwloc", o>> PROVE At(h, o, v)
  BY <1>2 DEF At, Added
<1>3. At(h, o, v) => At(g, o, v) \/ \E a : <<v, a>> \in A /\ a.of = <<"hwloc", o>>
  BY DEF At, Added
<1> QED BY <1>1, <1>2, <1>3

(* Adapters of other modules place no object.                              *)
LEMMA ForeignAdded ==
  ASSUME NEW g, NEW h, NEW A, Added(g, h, A), \A v, a : <<v, a>> \in A => a.of[1] # "hwloc"
  PROVE  \A o, v : At(h, o, v) <=> At(g, o, v)
<1>1. \A o, v : At(h, o, v) <=> At(g, o, v) \/ \E a : <<v, a>> \in A /\ a.of = <<"hwloc", o>>
  BY AtAdded
<1> TAKE o, v
<1>2. ~\E a : <<v, a>> \in A /\ a.of = <<"hwloc", o>>
  <2>1. <<"hwloc", o>>[1] = "hwloc" OBVIOUS
  <2> QED BY <2>1
<1> QED BY <1>1, <1>2

(* An adapter of hwloc places its object where it is added.                *)
LEMMA ObjectAdded ==
  ASSUME NEW g, NEW h, NEW w, NEW c, Added(g, h, {<<w, HwlocAdapter(c)>>})
  PROVE  \A o, v : At(h, o, v) <=> At(g, o, v) \/ (v = w /\ o = c)
<1> DEFINE A == {<<w, HwlocAdapter(c)>>}
<1>1. HwlocAdapter(c).of = <<"hwloc", c>> BY AdapterFields DEF HwlocAdapter
<1>2. \A v, a : <<v, a>> \in A <=> v = w /\ a = HwlocAdapter(c) OBVIOUS
<1>3. Added(g, h, A) OBVIOUS
<1> HIDE DEF A
<1>4. \A o, v : At(h, o, v) <=> At(g, o, v) \/ \E a : <<v, a>> \in A /\ a.of = <<"hwloc", o>>
  BY <1>3, AtAdded
<1>5. ASSUME NEW o, NEW v
      PROVE  (\E a : <<v, a>> \in A /\ a.of = <<"hwloc", o>>) <=> v = w /\ o = c
  <2>1. <<"hwloc", o>> = <<"hwloc", c>> <=> o = c OBVIOUS
  <2> QED BY <1>1, <1>2, <2>1
<1> QED BY <1>4, <1>5

(* Only the vertices matter.                                               *)
LEMMA AtSame ==
  ASSUME NEW g, NEW h, h.vertices = g.vertices, NEW o, NEW v
  PROVE  At(h, o, v) <=> At(g, o, v)
  BY DEF At, HoldsAt

------------------------------------------------------------------------------
(* How a step carries the parts of the invariant over.                     *)
LEMMA HostVerticesKept ==
  ASSUME ToldExactly, GrowsY(graph, graph'), NEW i \in HostsTold, NEW e \in PathEdges(ProcName[i])
  PROVE  /\ graph'.ids[e[1]] = graph.ids[e[1]] /\ graph'.ids[e[2]] = graph.ids[e[2]]
         /\ e[1] \in Ids /\ e[2] \in Ids
         /\ graph.ids[e[1]] \in 1..Len(graph.vertices)
         /\ graph.ids[e[2]] \in 1..Len(graph.vertices)
<1>1. ProcName[i] \in Hosts BY ProcHosts DEF HostsTold
<1>2. e[1] \in PathIds(ProcName[i]) /\ e[2] \in PathIds(ProcName[i]) BY <1>1, PathEdgeIds
<1>3. GoodY(graph) BY DEF ToldExactly, Tells, Content
<1> QED BY <1>2, <1>3, HostKnown, IdentifierKept

(* The edges between names stay where they are.                            *)
LEMMA NameEdgesKept ==
  ASSUME ToldExactly, GrowsY(graph, graph'), HostsTold' = HostsTold, NEW u, NEW v
  PROVE  NameEdge(u, v)' <=> NameEdge(u, v)
  BY HostVerticesKept DEF NameEdge

(* So do those between objects.                                            *)
LEMMA TreeEdgesKept ==
  ASSUME \A o \in Objects : \A w : At(graph', o, w) <=> At(graph, o, w), NEW u, NEW v
  PROVE  TreeEdge(u, v)' <=> TreeEdge(u, v)
<1>1. \A o \in Objects : \A k \in DOMAIN Children[o] : Children[o][k] \in Objects
  BY TopologyConstants
<1> QED BY <1>1 DEF TreeEdge

(* A rank keeps its vertex, and the vertex of a new rank is a new one.     *)
RanksKept ==
  \A i \in Ranks :
    \/ RankVertex(i) # NoVertex /\ RankVertex(i)' = RankVertex(i)
    \/ RankVertex(i) = NoVertex /\ RankVertex(i)' \notin 1..Len(graph.vertices)

RanksNamed ==
  \A i \in Ranks : /\ i \in RanksTold => RankVertex(i) \in 1..Len(graph.vertices)
                   /\ i \notin RanksTold => RankVertex(i) = NoVertex

(* RanksNamed, of this state and of the next.                              *)
LEMMA RanksNamedNow == ToldExactly => RanksNamed
  BY RankKnown DEF RanksNamed

(* The same in the next state.                                             *)
LEMMA RanksNamedNext == ToldExactly' => RanksNamed'
  BY RanksNamedNow, PTL

(* A step that tells of no rank leaves all their vertices alone.           *)
LEMMA RanksKeptSame ==
  ASSUME ToldExactly, ToldExactly', GrowsY(graph, graph'), RanksTold' = RanksTold
  PROVE  RanksKept /\ \A i \in Ranks : RankVertex(i)' = RankVertex(i)
<1> SUFFICES ASSUME NEW i \in Ranks
             PROVE  /\ RankVertex(i)' = RankVertex(i)
                    /\ RankVertex(i) = NoVertex => RankVertex(i)' \notin 1..Len(graph.vertices)
  BY DEF RanksKept
<1>1. CASE i \in RanksTold
  <2>1. /\ <<"mpi_rank", i>> \in Ids /\ GoodY(graph)
        /\ graph.ids[<<"mpi_rank", i>>] \in 1..Len(graph.vertices)
    BY <1>1, RankKnown DEF RankVertex
  <2>2. RankVertex(i)' = RankVertex(i) BY <2>1, IdentifierKept DEF RankVertex
  <2> QED BY <2>1, <2>2 DEF NoVertex, RankVertex
<1>2. CASE i \notin RanksTold
  <2>1. RankVertex(i) = NoVertex BY <1>2, RankKnown
  <2>2. i \notin RanksTold' BY <1>2
  <2>3. RankVertex(i)' = NoVertex BY <2>2, RanksNamedNext DEF RanksNamed
  <2> QED BY <2>1, <2>3 DEF NoVertex
<1> QED BY <1>1, <1>2

(* The edges a step adds are told: in T those of the topology, in M those  *)
(* of the names, in R those of the ranks.                                  *)
LEMMA EdgesStep ==
  ASSUME EdgesTold, GoodY(graph), RanksKept, HangsOnce(graph'), NEW T, NEW M, NEW R,
         \A u, v : Hangs(graph', u, v) <=> Hangs(graph, u, v) \/ <<u, v>> \in T \cup M \cup R,
         \A u, v : TreeEdge(u, v)' <=> TreeEdge(u, v) \/ <<u, v>> \in T,
         \A u, v : NameEdge(u, v)' <=> NameEdge(u, v) \/ <<u, v>> \in M,
         \A u, v : <<u, v>> \in R => \E i \in Ranks : v = RankVertex(i)'
  PROVE  EdgesTold'
<1>1. \A u, v : TreeEdge(u, v)' \/ NameEdge(u, v)' => Hangs(graph', u, v) BY DEF EdgesTold
<1>2. ASSUME NEW u, NEW v, Hangs(graph, u, v), NEW i \in Ranks, v = RankVertex(i)
      PROVE  v = RankVertex(i)'
  <2>1. v \in 1..Len(graph.vertices) /\ Len(graph.vertices) \in Nat
    BY <1>2, EdgeWithin, VertexRange DEF Hangs
  <2>2. RankVertex(i) # NoVertex BY <1>2, <2>1 DEF NoVertex
  <2> QED BY <1>2, <2>2 DEF RanksKept
<1>3. ASSUME NEW u, NEW v, Hangs(graph', u, v)
      PROVE  TreeEdge(u, v)' \/ NameEdge(u, v)' \/ \E i \in Ranks : v = RankVertex(i)'
  BY <1>2, <1>3 DEF EdgesTold
<1> QED BY <1>1, <1>3 DEF EdgesTold

(* The ranks' part of the invariant; N are the edges the step adds.        *)
LEMMA RanksStep ==
  ASSUME RanksHang, GoodY(graph), RanksKept, NEW N,
         \A u, v : Hangs(graph', u, v) <=> Hangs(graph, u, v) \/ <<u, v>> \in N,
         \A u, v : <<u, v>> \in N => \A i \in Ranks :
           u # RankVertex(i)' /\ (v = RankVertex(i)' => ~Attached(i)),
         \A i \in Ranks : Attached(i)' <=> Attached(i) \/ \E u : <<u, RankVertex(i)'>> \in N,
         \A i \in Ranks : \A u, w :
           <<u, RankVertex(i)'>> \in N /\ <<w, RankVertex(i)'>> \in N => u = w,
         \A i \in Ranks : RankVertex(i)' # 1 /\ RankVertex(i)' # graph'.root
  PROVE  RanksHang'
<1>1. \A u, v : Hangs(graph, u, v) => /\ u \in 1..Len(graph.vertices)
                                      /\ v \in 1..Len(graph.vertices)
  BY EdgeWithin DEF Hangs
<1>2. NoVertex \notin 1..Len(graph.vertices) BY VertexRange DEF NoVertex
<1>3. \A i \in Ranks : \A u : Hangs(graph, u, RankVertex(i)') <=> Hangs(graph, u, RankVertex(i))
  BY <1>1, <1>2 DEF RanksKept
<1>4. \A i \in Ranks : \A u, v : Hangs(graph, u, v) => u # RankVertex(i)'
  BY <1>1, <1>2 DEF RanksKept, RanksHang
<1>5. \A i \in Ranks : \A u : Hangs(graph', u, RankVertex(i)')
                                <=> Hangs(graph, u, RankVertex(i)) \/ <<u, RankVertex(i)'>> \in N
  BY <1>3
<1>6. \A i \in Ranks : (\E u : Hangs(graph', u, RankVertex(i)')) <=> Attached(i)'
  <2> TAKE i \in Ranks
  <2>1. (\E u : Hangs(graph, u, RankVertex(i))) <=> Attached(i) BY DEF RanksHang
  <2> QED BY <1>5, <2>1
<1>7. ASSUME NEW i \in Ranks, NEW u, NEW v,
             Hangs(graph', u, RankVertex(i)'), Hangs(graph', v, RankVertex(i)')
      PROVE  u = v
  <2>1. CASE Attached(i)
    <3>1. <<u, RankVertex(i)'>> \notin N /\ <<v, RankVertex(i)'>> \notin N BY <2>1
    <3>2. Hangs(graph, u, RankVertex(i)) /\ Hangs(graph, v, RankVertex(i)) BY <1>5, <1>7, <3>1
    <3> QED BY <3>2 DEF RanksHang
  <2>2. CASE ~Attached(i)
    <3>1. ~Hangs(graph, u, RankVertex(i)) /\ ~Hangs(graph, v, RankVertex(i))
      BY <2>2 DEF RanksHang
    <3>2. <<u, RankVertex(i)'>> \in N /\ <<v, RankVertex(i)'>> \in N BY <1>5, <1>7, <3>1
    <3> QED BY <3>2
  <2> QED BY <2>1, <2>2
<1>8. \A i \in Ranks : \A u, v : Hangs(graph', u, v) => u # RankVertex(i)'
  <2> SUFFICES ASSUME NEW i \in Ranks, NEW u, NEW v, Hangs(graph', u, v)
               PROVE  u # RankVertex(i)'
    OBVIOUS
  <2>1. Hangs(graph, u, v) \/ <<u, v>> \in N OBVIOUS
  <2>2. CASE Hangs(graph, u, v) BY ONLY <1>4, <2>2
  <2>3. CASE <<u, v>> \in N BY <2>3
  <2> QED BY <2>1, <2>2, <2>3
<1> QED BY <1>6, <1>7, <1>8 DEF RanksHang

(* A step that changes neither the edges of the hierarchy nor the places   *)
(* of the objects.                                                         *)
LEMMA HierFrame ==
  ASSUME HierGraph, ToldExactly, ToldExactly', GrowsY(graph, graph'), HangsOnce(graph'),
         \A u, v : Hangs(graph', u, v) <=> Hangs(graph, u, v),
         \A o \in Objects : \A v : At(graph', o, v) <=> At(graph, o, v),
         graph'.root = graph.root, HostsTold' = HostsTold, RanksTold' = RanksTold,
         \A i \in Ranks : Attached(i)' <=> Attached(i)
  PROVE  HierGraph' /\ \A i \in Ranks : RankVertex(i)' = RankVertex(i)
<1>1. GoodY(graph) BY DEF ToldExactly, Tells, Content
<1>2. RanksKept /\ \A i \in Ranks : RankVertex(i)' = RankVertex(i) BY RanksKeptSame
<1>3. \A u, v : TreeEdge(u, v)' <=> TreeEdge(u, v) BY TreeEdgesKept
<1>4. \A u, v : NameEdge(u, v)' <=> NameEdge(u, v) BY NameEdgesKept
<1>5. EdgesTold'
  <2>1. \A u, v : <<u, v>> \notin {} \cup {} \cup {} /\ <<u, v>> \notin {} OBVIOUS
  <2> QED BY <1>1, <1>2, <1>3, <1>4, <2>1, EdgesStep DEF HierGraph
<1>6. RanksHang'
  <2>1. \A u, v : <<u, v>> \notin {} OBVIOUS
  <2>2. \A i \in Ranks : RankVertex(i)' # 1 /\ RankVertex(i)' # graph'.root
    BY <1>2 DEF HierGraph, RanksHang
  <2> DEFINE N == {}
  <2>3. /\ \A u, v : Hangs(graph', u, v) <=> Hangs(graph, u, v) \/ <<u, v>> \in N
        /\ \A u, v : <<u, v>> \in N => \A i \in Ranks :
             u # RankVertex(i)' /\ (v = RankVertex(i)' => ~Attached(i))
        /\ \A i \in Ranks : Attached(i)' <=> Attached(i) \/ \E u : <<u, RankVertex(i)'>> \in N
        /\ \A i \in Ranks : \A u, w :
             <<u, RankVertex(i)'>> \in N /\ <<w, RankVertex(i)'>> \in N => u = w
    BY <2>1
  <2> HIDE DEF N
  <2> QED BY <1>1, <1>2, <2>2, <2>3, RanksStep DEF HierGraph
<1>7. ObjectsOnce' BY DEF HierGraph, ObjectsOnce
<1> QED BY <1>2, <1>5, <1>6, <1>7 DEF HierGraph

(* The walk's part, while the objects stay and calls only return.          *)
LEMMA WalkKept ==
  ASSUME IInv, WalkFresh, \A o \in Objects : \A v : At(graph', o, v) <=> At(graph, o, v),
         \A i \in DOMAIN walk' : i \in DOMAIN walk /\ walk'[i] = walk[i]
  PROVE  WalkFresh'
<1>1. \A i \in DOMAIN walk : walk[i].obj \in Objects
  <2>1. walk \in Seq(Calls) BY Parts DEF WalkInv, HwlocTypeOK
  <2>2. \A i \in DOMAIN walk : walk[i] \in Calls BY <2>1
  <2> QED BY <2>2 DEF Calls
<1>2. \A o \in Objects : \A k \in DOMAIN Children[o] : Children[o][k] \in Objects
  BY TopologyConstants
<1>3. \A o \in Objects : (\E v : At(graph', o, v)) <=> (\E v : At(graph, o, v))
  OBVIOUS
<1>4. \A o \in Objects : \A k \in DOMAIN Children[o] :
        (\E v : At(graph', Children[o][k], v)) => \E v : At(graph', o, v)
  BY <1>2, <1>3 DEF WalkFresh, Found
<1>5. ASSUME NEW i \in DOMAIN walk'
      PROVE  /\ At(graph', walk'[i].obj, walk'[i].vd)
             /\ \A k \in DOMAIN Children[walk'[i].obj] : k >= walk'[i].next =>
                  ~\E v : At(graph', Children[walk'[i].obj][k], v)
  <2>1. i \in DOMAIN walk /\ walk'[i] = walk[i] BY <1>5
  <2>2. PICK c : c = walk[i] OBVIOUS
  <2>3. /\ c.obj \in Objects /\ At(graph, c.obj, c.vd)
        /\ \A k \in DOMAIN Children[c.obj] : k >= c.next =>
             ~\E v : At(graph, Children[c.obj][k], v)
    BY <1>1, <2>1, <2>2 DEF WalkFresh, Found
  <2>4. /\ At(graph', c.obj, c.vd)
        /\ \A k \in DOMAIN Children[c.obj] : k >= c.next =>
             ~\E v : At(graph', Children[c.obj][k], v)
    BY <1>2, <1>3, <2>3
  <2> QED BY <2>1, <2>2, <2>4
<1>6. \A i, j \in DOMAIN walk' : walk'[i].obj = walk'[j].obj => i = j BY DEF WalkFresh
<1> QED BY <1>4, <1>5, <1>6 DEF WalkFresh, Found

(* The descent's part, while mpi stands still.                             *)
LEMMA PlaceKept ==
  ASSUME DescendsPlain, \A i \in Ranks : RankVertex(i)' = RankVertex(i), UNCHANGED mpi
  PROVE  DescendsPlain'
  BY DEF DescendsPlain

(* A module other than mpi attaches no rank, one other than supermuc tells *)
(* of no host.                                                             *)
LEMMA Bystander ==
  ASSUME IInv, LoopOnce, phase = "running", current \in Modules, UNCHANGED <<todo, inits>>,
         Stay \/ \E s \in Statuses : Return(current, s)
  PROVE  /\ current # "supermuc" => HostsTold' = HostsTold
         /\ current # "mpi" => /\ RanksTold' = RanksTold
                               /\ \A i \in Ranks : Attached(i)' <=> Attached(i)
<1>1. todo \in Seq(Modules) /\ status \in [Modules -> Statuses \cup {"none"}]
  BY Parts DEF LoopInv, ControlInv
<1>2. \A m \in Modules : m # current => (Ran(m)' <=> Ran(m)) BY <1>1, LoopWaits
<1>3. current' \in {current, "none"} BY DEF Stay, Return
<1>4. "mpi" \in Modules BY DEF Modules
<1>5. current # "mpi" => \A i \in Ranks : Attached(i)' <=> Attached(i)
  BY <1>2, <1>3, <1>4 DEF Attached
<1> QED BY <1>2, <1>3, <1>5, OthersTold

(* Vertices and adapters of other modules than hwloc.                      *)
LEMMA AddedStep ==
  ASSUME IInv, HierGraph, WalkFresh, ToldExactly, ToldExactly', NEW A, Added(graph, graph', A),
         \A v, a : <<v, a>> \in A => a.of[1] # "hwloc",
         graph'.root = graph.root, HostsTold' = HostsTold, RanksTold' = RanksTold,
         \A i \in Ranks : Attached(i)' <=> Attached(i), UNCHANGED walk
  PROVE  HierGraph' /\ WalkFresh' /\ \A i \in Ranks : RankVertex(i)' = RankVertex(i)
<1>1. GrowsY(graph, graph') /\ graph'.edges = graph.edges BY DEF Added
<1>2. HangsOnce(graph') /\ \A u, v : Hangs(graph', u, v) <=> Hangs(graph, u, v)
  BY <1>1, SameEdgesHang DEF HierGraph, EdgesTold
<1>3. \A o, v : At(graph', o, v) <=> At(graph, o, v)
  <2>1. \A o, v : At(graph', o, v) <=>
                    At(graph, o, v) \/ \E a : <<v, a>> \in A /\ a.of = <<"hwloc", o>>
    BY AtAdded
  <2> TAKE o, v
  <2>2. ~\E a : <<v, a>> \in A /\ a.of = <<"hwloc", o>>
    <3>1. <<"hwloc", o>>[1] = "hwloc" OBVIOUS
    <3> QED BY <3>1
  <2> QED BY <2>1, <2>2
<1>4. HierGraph' /\ \A i \in Ranks : RankVertex(i)' = RankVertex(i)
  BY <1>1, <1>2, <1>3, HierFrame
<1>5. WalkFresh' BY <1>3, WalkKept
<1> QED BY <1>4, <1>5

(* The GPU modules leave the hierarchy alone: they add no CHILD edge.      *)
LEMMA GpuHier ==
  ASSUME IInv, Told, Told', LoopOnce, HierGraph, WalkFresh, DescendsPlain, First', GpuNext,
         UNCHANGED <<walk, smRank, mpi, todo, inits>>
  PROVE  HierGraph' /\ WalkFresh' /\ DescendsPlain'
<1>1. GoodY(graph) /\ GraphInv /\ GpuInv BY Parts DEF GraphInv
<1>2. ~NvmlAssertFails /\ ~NvmlThrows /\ \A m : ~GpuCountThrows(m)
  BY DEF First, NvmlAssertFails, NvmlThrows, GpuCountThrows, Leave
<1>3. ASSUME NEW m \in {"nvml", "rocm"}, Running(m), Stay \/ Return(m, "SUCCESS"),
             NEW A, Added(graph, graph', A), \A v, a : <<v, a>> \in A => a.of[1] # "hwloc",
             graph'.root = graph.root
      PROVE  HierGraph' /\ WalkFresh' /\ DescendsPlain'
  <2>1. m \in Modules /\ "SUCCESS" \in Statuses /\ m # "mpi" /\ m # "supermuc"
    BY DEF Modules, Statuses
  <2>2. current = m /\ phase = "running" BY <1>3 DEF Running
  <2>3. /\ HostsTold' = HostsTold /\ RanksTold' = RanksTold
        /\ \A i \in Ranks : Attached(i)' <=> Attached(i)
    BY <1>3, <2>1, <2>2, Bystander
  <2>4. HierGraph' /\ WalkFresh' /\ \A i \in Ranks : RankVertex(i)' = RankVertex(i)
    BY <1>3, <2>3, AddedStep DEF Told
  <2> QED BY <2>4, PlaceKept
<1>4. CASE NvmlDevice
  <2>1. PICK h \in NvmlHandles \cap DOMAIN NvmlDevs :
          graph' = SetType(NvmlAttach(h), NvmlVertex(h), "GPU")
    BY <1>4 DEF NvmlDevice
  <2>2. Running("nvml") /\ Stay BY <1>4 DEF NvmlDevice, AtDevice
  <2> DEFINE A == {<<NvmlVertex(h), Adapter("nvml", h, {})>>}
  <2>3. Added(graph, graph', A) BY <1>1, <2>1, NvmlAdds
  <2>4. graph'.root = graph.root BY <1>1, <2>1, NvmlGrows
  <2>5. \A v, a : <<v, a>> \in A => a.of[1] # "hwloc" BY DEF Adapter
  <2> HIDE DEF A
  <2> QED BY <1>3, <2>2, <2>3, <2>4, <2>5
<1>5. CASE RocmDevice
  <2>1. PICK b \in RocmBdfids :
          LET id == <<"bdfid", b>>
              g == AddVertexId(graph, id)
              vd == g.ids[id]
              described == SetDescription(AddAdapter(g, vd, Adapter("rocm", gpu.next, {})),
                                          vd, <<"rocm", gpu.next>>)
          IN graph' = SetType(described, vd, "GPU")
    BY <1>5 DEF RocmDevice
  <2>2. Running("rocm") /\ Stay /\ gpu.next <= gpu.count BY <1>5 DEF RocmDevice, AtDevice
  <2>3. gpu.next \in Devs /\ b \in Bdfs
    BY <1>1, <2>2, GpuFacts, PlatformConstants DEF Devs, RocmBdfids
  <2> DEFINE vd == AddVertexId(graph, <<"bdfid", b>>).ids[<<"bdfid", b>>]
             A == {<<vd, Adapter("rocm", gpu.next, {})>>}
  <2>4. Added(graph, graph', A) /\ graph'.root = graph.root
    BY <1>1, <2>1, <2>3, RocmAdds, RocmGrows
  <2>5. \A v, a : <<v, a>> \in A => a.of[1] # "hwloc" BY DEF Adapter
  <2> HIDE DEF A
  <2> QED BY <1>3, <2>2, <2>4, <2>5
<1>6. ASSUME NEW m \in {"nvml", "rocm"}, GpuCount(m) \/ GpuDevicesDone(m) \/ GpuReturn(m)
      PROVE  HierGraph' /\ WalkFresh' /\ DescendsPlain'
  <2>1. Running(m) /\ UNCHANGED graph /\ (Stay \/ Return(m, "SUCCESS"))
    BY <1>6 DEF GpuCount, GpuDevicesDone, GpuReturn
  <2>2. Added(graph, graph', {}) BY <1>1, <2>1, AddedReflexive
  <2> QED BY <1>3, <2>1, <2>2
<1>7. ASSUME NEW m \in {"nvml", "rocm"}, GpuPair(m)
      PROVE  HierGraph' /\ WalkFresh' /\ DescendsPlain'
  <2> DEFINE u == gpu.vertices[gpu.src]
             v == gpu.vertices[gpu.dst]
  <2>1. Running(m) /\ Stay /\ gpu.stage = "links" /\ gpu.src < gpu.count
    BY <1>7 DEF GpuPair, AtPair
  <2>2. graph' = Interconnect(graph, u, v) \/ graph' = graph BY <1>7 DEF GpuPair
  <2>3. u \in 1..Len(graph.vertices) /\ v \in 1..Len(graph.vertices)
    <3>1. /\ gpu.next = gpu.count + 1 /\ gpu.src < gpu.dst /\ gpu.dst <= gpu.count
          /\ \A i \in 1..gpu.count : i < gpu.next => gpu.vertices[i] \in 1..Len(graph.vertices)
      BY <1>1, <2>1, VertexRange DEF GpuInv, GpuSound
    <3>2. /\ gpu.src \in 1..gpu.count /\ gpu.src < gpu.next
          /\ gpu.dst \in 1..gpu.count /\ gpu.dst < gpu.next
      BY <1>1, <3>1, <2>1, GpuFacts
    <3> QED BY <3>1, <3>2
  <2> HIDE DEF u, v
  <2>4. CASE graph' = graph
    <3>1. Added(graph, graph', {}) BY <1>1, <2>4, AddedReflexive
    <3> QED BY <1>3, <2>1, <2>4, <3>1
  <2>5. CASE graph' = Interconnect(graph, u, v)
    <3>1. /\ HangsOnce(graph') /\ \A a, b : Hangs(graph', a, b) <=> Hangs(graph, a, b)
      BY <1>1, <2>3, <2>5, InterconnectHangs DEF HierGraph, EdgesTold
    <3>2. GrowsY(graph, graph') /\ graph'.root = graph.root
      BY <1>1, <2>3, <2>5, InterconnectGrows
    <3>3. graph'.vertices = graph.vertices
      BY <1>1, <2>5 DEF Interconnect, AddEdge, GoodY, Good, GraphType
    <3>4. \A o, w : At(graph', o, w) <=> At(graph, o, w) BY <3>3, AtSame
    <3>5. m \in Modules /\ m # "mpi" /\ m # "supermuc" /\ current = m /\ phase = "running"
      BY <2>1 DEF Modules, Running
    <3>6. /\ HostsTold' = HostsTold /\ RanksTold' = RanksTold
          /\ \A i \in Ranks : Attached(i)' <=> Attached(i)
      BY <2>1, <3>5, Bystander
    <3>7. HierGraph' /\ \A i \in Ranks : RankVertex(i)' = RankVertex(i)
      BY <3>1, <3>2, <3>4, <3>6, HierFrame DEF Told
    <3>8. WalkFresh' BY <3>4, WalkKept
    <3> QED BY <3>7, <3>8, PlaceKept
  <2> QED BY <2>2, <2>4, <2>5
<1> QED BY <1>2, <1>4, <1>5, <1>6, <1>7 DEF GpuNext

(* No object of the topology is at the vertex of a rank, of a host's       *)
(* prefix, or of another PCI address.                                      *)
LEMMA NotAtRank ==
  ASSUME NEW g, Content(g), NEW o, NEW i \in Ranks, At(g, o, g.ids[<<"mpi_rank", i>>])
  PROVE  FALSE
<1>1. <<"mpi_rank", i>> \in Ids BY IdsOf
<1>2. Belongs(<<"mpi_rank", i>>, <<"hwloc", o>>) BY <1>1, NativeAt
<1> QED BY <1>2, HwlocBelongs DEF HwlocId

(* The graph does not change, and the walk only gives up calls.            *)
LEMMA HwlocQuietHier ==
  ASSUME IInv, Told, Told', LoopOnce, HierGraph, WalkFresh, DescendsPlain, Running("hwloc"),
         UNCHANGED <<graph, mpi, todo, inits>>,
         Stay \/ \E s \in Statuses : Return("hwloc", s),
         \A i \in DOMAIN walk' : i \in DOMAIN walk /\ walk'[i] = walk[i]
  PROVE  HierGraph' /\ WalkFresh' /\ DescendsPlain'
<1>1. /\ "hwloc" \in Modules /\ current = "hwloc" /\ phase = "running"
  BY DEF Modules, Running
<1>2. /\ HostsTold' = HostsTold /\ RanksTold' = RanksTold
      /\ \A i \in Ranks : Attached(i)' <=> Attached(i)
  BY <1>1, Bystander
<1>3. GrowsY(graph, graph') BY GrowsYReflexive, Parts DEF GraphInv
<1>4. graph' = graph OBVIOUS
<1>5. HangsOnce(graph') BY <1>4 DEF HierGraph, EdgesTold
<1>6. HierGraph' /\ \A i \in Ranks : RankVertex(i)' = RankVertex(i)
  BY <1>2, <1>3, <1>4, <1>5, HierFrame DEF Told
<1>7. WalkFresh' BY <1>4, WalkKept
<1> QED BY <1>6, <1>7, PlaceKept

(* Before hwloc no object is anywhere.                                     *)
LEMMA NothingFound ==
  ASSUME Told, walk = <<>>, ~Ran("hwloc"), NEW o \in Objects, NEW v
  PROVE  ~At(graph, o, v)
<1>1. Seen(graph) = {} BY DEF Told, Visited
<1>2. Content(graph) BY DEF Told, ToldExactly, Tells
<1> QED BY <1>1, <1>2, SeenAt

(* hwloc's first step places the machine object and hangs nothing.         *)
LEMMA MachineHier ==
  ASSUME IInv, Told, Told', LoopOnce, HierGraph, WalkFresh, DescendsPlain, HwlocAddMachine,
         UNCHANGED <<gpu, smRank, mpi, todo, inits>>
  PROVE  HierGraph' /\ WalkFresh' /\ DescendsPlain'
<1> DEFINE id == <<"machine", GetHostName>>
           vd == AddVertexId(graph, id).ids[id]
<1>1. /\ Running("hwloc") /\ walk = <<>> /\ Stay
      /\ walk' = <<[obj |-> MachineObj, vd |-> vd, next |-> 1]>>
  BY DEF HwlocAddMachine
<1>2. GoodY(graph) /\ GoodY(graph') /\ id \in Ids
  BY TopologyConstants, IdsOf DEF Told, ToldExactly, Tells, Content
<1>3. /\ Added(graph, graph', {<<vd, HwlocAdapter(MachineObj)>>})
      /\ graph'.ids[id] = vd /\ graph'.root = vd
  BY <1>2, MachineAdds DEF HwlocAddMachine
<1>4. "hwloc" \in Modules /\ current = "hwloc" /\ phase = "running" /\ ~Ran("hwloc")
  BY <1>1 DEF Modules, Running, LoopOnce, Ran
<1>5. /\ HostsTold' = HostsTold /\ RanksTold' = RanksTold
      /\ \A i \in Ranks : Attached(i)' <=> Attached(i)
  BY <1>1, <1>4, Bystander
<1>6. \A o \in Objects : \A v : ~At(graph, o, v) BY <1>1, <1>4, NothingFound
<1> HIDE DEF vd
<1>7. \A o \in Objects : \A v : At(graph', o, v) <=> v = vd /\ o = MachineObj
  <2>1. \A o, v : At(graph', o, v) <=> At(graph, o, v) \/ (v = vd /\ o = MachineObj)
    <3>1. Added(graph, graph', {<<vd, HwlocAdapter(MachineObj)>>}) BY <1>3
    <3> QED BY <3>1, ObjectAdded
  <2> QED BY <1>6, <2>1, TopologyConstants
<1>8. \A o \in Objects : \A k \in DOMAIN Children[o] :
        Children[o][k] \in Objects /\ Children[o][k] # MachineObj
  BY TopologyConstants, TopologyTree
<1>9. \A o \in Objects : \A k \in DOMAIN Children[o] : \A v : ~At(graph', Children[o][k], v)
  BY <1>7, <1>8
<1>10. \A u, v : TreeEdge(u, v)' <=> TreeEdge(u, v)
  BY <1>6, <1>8, <1>9 DEF TreeEdge
<1>11. /\ GrowsY(graph, graph') /\ graph'.edges = graph.edges
       /\ HangsOnce(graph') /\ \A u, v : Hangs(graph', u, v) <=> Hangs(graph, u, v)
  BY <1>3, SameEdgesHang DEF HierGraph, EdgesTold, Added
<1>12. RanksKept /\ \A i \in Ranks : RankVertex(i)' = RankVertex(i)
  BY <1>5, <1>11, RanksKeptSame DEF Told
<1>13. \A u, v : NameEdge(u, v)' <=> NameEdge(u, v) BY <1>5, <1>11, NameEdgesKept DEF Told
<1>14. EdgesTold'
  <2>1. \A u, v : <<u, v>> \notin {} \cup {} \cup {} /\ <<u, v>> \notin {} OBVIOUS
  <2> QED BY <1>2, <1>10, <1>11, <1>12, <1>13, <2>1, EdgesStep DEF HierGraph
<1>15. RanksHang'
  <2>1. \A u, v : <<u, v>> \notin {} OBVIOUS
  <2>2. \A i \in Ranks : RankVertex(i)' # 1 /\ RankVertex(i)' # graph'.root
    <3>1. At(graph', MachineObj, vd) /\ Content(graph')
      BY <1>7, TopologyConstants DEF Told, ToldExactly, Tells
    <3>2. \A i \in Ranks : graph'.ids[<<"mpi_rank", i>>] # vd BY <3>1, NotAtRank
    <3>3. \A i \in Ranks : RankVertex(i)' # vd BY <3>2 DEF RankVertex
    <3> QED BY <1>3, <1>12, <3>3 DEF HierGraph, RanksHang
  <2> DEFINE N == {}
  <2>3. /\ \A u, v : Hangs(graph', u, v) <=> Hangs(graph, u, v) \/ <<u, v>> \in N
        /\ \A u, v : <<u, v>> \in N => \A i \in Ranks :
             u # RankVertex(i)' /\ (v = RankVertex(i)' => ~Attached(i))
        /\ \A i \in Ranks : Attached(i)' <=> Attached(i) \/ \E u : <<u, RankVertex(i)'>> \in N
        /\ \A i \in Ranks : \A u, w :
             <<u, RankVertex(i)'>> \in N /\ <<w, RankVertex(i)'>> \in N => u = w
    BY <1>5, <1>11, <2>1
  <2> HIDE DEF N
  <2> QED BY <1>2, <1>12, <2>2, <2>3, RanksStep DEF HierGraph
<1>16. ObjectsOnce' BY <1>7 DEF ObjectsOnce
<1>17. WalkFresh'
  <2>1. DOMAIN walk' = {1} /\ walk'[1].obj = MachineObj /\ walk'[1].vd = vd BY <1>1
  <2>2. At(graph', MachineObj, vd) /\ MachineObj \in Objects BY <1>7, TopologyConstants
  <2> QED BY <1>9, <2>1, <2>2 DEF WalkFresh, Found
<1> QED BY <1>12, <1>14, <1>15, <1>16, <1>17, PlaceKept DEF HierGraph

(* An identifier that is not known yet gets the next vertex.               *)
LEMMA NamedOrNew ==
  ASSUME NEW g, GoodY(g), NEW id \in Ids
  PROVE  AddVertexId(g, id).ids[id] = IF g.ids[id] # NoVertex THEN g.ids[id]
                                                              ELSE Len(g.vertices) + 1
<1>1. CASE g.ids[id] # NoVertex BY <1>1 DEF AddVertexId
<1>2. CASE g.ids[id] = NoVertex
  <2>1. AddVertexId(g, id) = [AddVertex(g) EXCEPT !.ids[id] = Len(g.vertices) + 1]
    BY <1>2 DEF AddVertexId
  <2>2. AddVertex(g).ids = g.ids /\ id \in DOMAIN g.ids
    BY DEF AddVertex, GoodY, Good, GraphType
  <2>3. "ids" \in DOMAIN AddVertex(g) BY DEF AddVertex, GoodY, Good, GraphType
  <2> QED BY <1>2, <2>1, <2>2, <2>3
<1> QED BY <1>1, <1>2

(* Two identifiers name two vertices.                                      *)
LEMMA NamesDiffer ==
  ASSUME NEW g, GoodY(g), NEW id1 \in Ids, NEW id2 \in Ids, id1 # id2,
         g.ids[id1] \in 1..Len(g.vertices)
  PROVE  g.ids[id1] # g.ids[id2]
<1>1. DOMAIN g.ids = Ids /\ IdsSound(g) BY DEF GoodY, Good, GraphType
<1>2. g.ids[id1] # NoVertex BY DEF NoVertex
<1> QED BY <1>1, <1>2 DEF IdsSound

(* Nothing hangs above the vertex of an object hwloc has not come to.      *)
LEMMA ChildHangsFree ==
  ASSUME Told, EdgesTold, NEW c \in Objects, \A w : ~At(graph, c, w), NEW u
  PROVE  ~Hangs(graph, u, ChildVertex(graph, c))
<1> DEFINE cv == ChildVertex(graph, c)
<1>1. GoodY(graph) /\ Content(graph) /\ ToldExactly
  BY DEF Told, ToldExactly, Tells, Content
<1>2. Len(graph.vertices) \in Nat BY <1>1, VertexRange
<1>3. ASSUME cv \notin 1..Len(graph.vertices) PROVE ~Hangs(graph, u, cv)
  BY <1>1, <1>3, EdgeWithin DEF Hangs
<1>4. CASE c \notin PciObjects
  <2>1. cv = Len(graph.vertices) + 1 BY <1>4, ChildFacts DEF ChildVertex
  <2> QED BY <1>2, <1>3, <2>1
<1>5. CASE c \in PciObjects
  <2>1. HwlocId(c) \in Ids BY <1>5, DeviceIds
  <2>2. cv = AddVertexId(graph, HwlocId(c)).ids[HwlocId(c)]
    BY <1>5, ChildFacts DEF ChildVertex, ChildGraph, HwlocId
  <2>3. CASE graph.ids[HwlocId(c)] = NoVertex
    <3>1. cv = Len(graph.vertices) + 1 BY <1>1, <2>1, <2>2, <2>3, NamedOrNew
    <3> QED BY <1>2, <1>3, <3>1
  <2>4. CASE graph.ids[HwlocId(c)] # NoVertex
    <3>1. cv = graph.ids[HwlocId(c)] BY <1>1, <2>1, <2>2, <2>4, NamedOrNew
    <3> SUFFICES ASSUME Hangs(graph, u, cv) PROVE FALSE OBVIOUS
    <3> HIDE DEF cv
    <3>2. cv \in 1..Len(graph.vertices) BY <1>1, EdgeWithin DEF Hangs
    <3>3. ~TreeEdge(u, cv)
      <4> SUFFICES ASSUME NEW q \in Objects, At(graph, q, cv) PROVE FALSE
        BY TopologyConstants DEF TreeEdge
      <4>1. Belongs(HwlocId(c), <<"hwloc", q>>) BY <1>1, <2>1, <3>1, NativeAt
      <4>2. q \in PciObjects /\ HwlocId(q) = HwlocId(c) BY <4>1, HwlocBelongs DEF HwlocId
      <4>3. BdfOf[q] = BdfOf[c] BY <4>2 DEF HwlocId
      <4>4. q = c BY <1>5, <4>2, <4>3, TopologyTree DEF PciObjects
      <4> QED BY <4>4
    <3>4. ~NameEdge(u, cv)
      <4> SUFFICES ASSUME NEW i \in HostsTold, NEW e \in PathEdges(ProcName[i]),
                          cv = graph.ids[e[2]]
                   PROVE  FALSE
        BY DEF NameEdge
      <4>1. i \in Ranks /\ ProcName[i] \in Hosts BY ProcHosts DEF HostsTold
      <4>2. e[2] \in Ids /\ e[2][1] \in {"system", "machine"} BY <4>1, PathEdgeIds
      <4>3. e[2] # HwlocId(c) BY <4>2 DEF HwlocId
      <4> QED BY <1>1, <2>1, <3>1, <3>2, <4>2, <4>3, NamesDiffer
    <3>5. \A i \in Ranks : cv # RankVertex(i)
      <4> TAKE i \in Ranks
      <4>1. <<"mpi_rank", i>> \in Ids /\ <<"mpi_rank", i>> # HwlocId(c) BY IdsOf DEF HwlocId
      <4> QED BY <1>1, <2>1, <3>1, <3>2, <4>1, NamesDiffer DEF RankVertex
    <3> QED BY <3>3, <3>4, <3>5 DEF EdgesTold
  <2> QED BY <2>3, <2>4
<1> QED BY <1>4, <1>5

(* The walk calls itself on the next child.                                *)
LEMMA WalkGrown ==
  ASSUME IInv, walk # <<>>, HasNextChild, NEW vd \in Nat \ {0},
         walk' = Append([walk EXCEPT ![Len(walk)].next = @ + 1],
                        [obj |-> Children[Top.obj][Top.next], vd |-> vd, next |-> 1])
  PROVE  \E n \in Nat, p, c \in Objects, k \in Nat :
           /\ n >= 1 /\ DOMAIN walk = 1..n /\ DOMAIN walk' = 1..n + 1
           /\ Top = walk[n] /\ Top.obj = p /\ Top.next = k /\ k \in Nat
           /\ k \in DOMAIN Children[p] /\ c = Children[p][k]
           /\ walk'[n + 1].obj = c /\ walk'[n + 1].vd = vd /\ walk'[n + 1].next = 1
           /\ \A i \in 1..n : walk'[i].obj = walk[i].obj /\ walk'[i].vd = walk[i].vd
           /\ \A i \in 1..n : i # n => walk'[i].next = walk[i].next
           /\ walk'[n].next = k + 1
<1> DEFINE child == Children[Top.obj][Top.next]
           call == [obj |-> child, vd |-> vd, next |-> 1]
           n == Len(walk)
           w == [walk EXCEPT ![n].next = @ + 1]
<1>1. /\ walk \in Seq(Calls) /\ n \in DOMAIN walk /\ n \in Nat
      /\ DOMAIN walk = 1..n /\ Top \in Calls /\ Children[Top.obj] \in Seq(Objects)
  BY WalkFacts
<1>2. child \in Objects /\ Top.next \in DOMAIN Children[Top.obj] /\ Top.obj \in Objects
  BY <1>1 DEF HasNextChild, Calls
<1>3. /\ DOMAIN w = 1..n /\ \A i \in 1..n : w[i].obj = walk[i].obj /\ w[i].vd = walk[i].vd
      /\ \A i \in 1..n : i # n => w[i].next = walk[i].next
      /\ w[n].next = Top.next + 1 /\ walk[n] = Top /\ Top.next \in Nat
  BY <1>1 DEF Top, Calls
<1>4. w \in Seq(Calls) /\ Len(w) = n
  <2> DEFINE top == [Top EXCEPT !.next = @ + 1]
  <2>1. top \in Calls
    <3>1. Top \in Calls BY <1>1
    <3> QED BY <3>1 DEF Calls
  <2>2. w = [walk EXCEPT ![n] = top] BY DEF Top
  <2> HIDE DEF top, w
  <2> QED BY <1>1, <2>1, <2>2, ExceptSeq
<1>5. walk' = Append(w, call) OBVIOUS
<1>6. call.obj = child /\ call.next = 1 /\ call.vd = vd /\ call \in Calls
  BY <1>2 DEF Calls
<1> HIDE DEF call, w, child, n
<1>7. /\ DOMAIN walk' = 1..n + 1 /\ walk'[n + 1] = call /\ \A i \in 1..n : walk'[i] = w[i]
  <2> DEFINE s == Append(w, call)
  <2>1. /\ DOMAIN s = 1..Len(w) + 1
        /\ s[Len(w) + 1] = call /\ \A i \in 1..Len(w) : s[i] = w[i]
    <3>1. w \in Seq(Calls) /\ call \in Calls BY <1>4, <1>6
    <3> QED BY ONLY <3>1, AppendFacts
  <2> HIDE DEF s
  <2>2. walk' = s BY <1>5 DEF s
  <2> QED BY <1>4, <2>1, <2>2
<1>8. n >= 1 /\ \A i \in 1..n : i \in 1..n + 1 BY <1>1
<1> DEFINE p == Top.obj
           k == Top.next
<1>9. /\ n \in Nat /\ p \in Objects /\ child \in Objects
      /\ n >= 1 /\ DOMAIN walk = 1..n /\ DOMAIN walk' = 1..n + 1
      /\ Top = walk[n] /\ Top.obj = p /\ Top.next = k /\ k \in Nat
      /\ k \in DOMAIN Children[p] /\ child = Children[p][k]
      /\ walk'[n + 1].obj = child /\ walk'[n + 1].vd = vd /\ walk'[n + 1].next = 1
      /\ \A i \in 1..n : walk'[i].obj = walk[i].obj /\ walk'[i].vd = walk[i].vd
      /\ \A i \in 1..n : i # n => walk'[i].next = walk[i].next
      /\ walk'[n].next = k + 1
  <2>1. n \in 1..n BY <1>1
  <2> QED BY <1>1, <1>2, <1>3, <1>6, <1>7, <1>8, <2>1 DEF child
<1> HIDE DEF p, k
<1> QED BY ONLY <1>9

(* A child of the object the walk is at comes below its vertex.            *)
LEMMA ChildHier ==
  ASSUME IInv, Told, Told', LoopOnce, HierGraph, WalkFresh, DescendsPlain, HwlocVisitChild,
         UNCHANGED <<gpu, smRank, mpi, todo, inits>>
  PROVE  HierGraph' /\ WalkFresh' /\ DescendsPlain'
<1> DEFINE child == Children[Top.obj][Top.next]
           cvd == ChildVertex(graph, child)
<1>1. /\ current = "hwloc" /\ phase = "running" /\ Stay /\ walk # <<>> /\ HasNextChild
      /\ graph' = AddChild(graph, Top.vd, child)
      /\ walk' = Append([walk EXCEPT ![Len(walk)].next = @ + 1],
                        [obj |-> child, vd |-> cvd, next |-> 1])
  BY DEF HwlocVisitChild, Running
<1>2. /\ Top \in Calls /\ Top.vd \in 1..Len(graph.vertices) /\ GoodY(graph)
      /\ Children[Top.obj] \in Seq(Objects)
  BY <1>1, WalkFacts
<1>3. child \in Objects BY <1>1, <1>2 DEF HasNextChild, Calls
<1>4. cvd \in Nat \ {0}
  <2> DEFINE h == AddChild(graph, Top.vd, child)
  <2>1. GrowsY(graph, h) /\ cvd \in 1..Len(h.vertices) BY <1>2, <1>3, AddChildGrows
  <2>2. Len(h.vertices) \in Nat BY <2>1, GrowsYGood, VertexRange
  <2> HIDE DEF h, cvd
  <2> QED BY <2>1, <2>2
<1>5. /\ "hwloc" \in Modules /\ HostsTold' = HostsTold /\ RanksTold' = RanksTold
      /\ \A i \in Ranks : Attached(i)' <=> Attached(i)
  <2>1. "hwloc" \in Modules BY DEF Modules
  <2> QED BY <1>1, <2>1, Bystander
<1>6. Content(graph) /\ Content(graph') /\ ToldExactly /\ ToldExactly'
  BY DEF Told, ToldExactly, Tells
<1>7. PICK n \in Nat, p \in Objects, c \in Objects, k \in Nat :
        /\ n >= 1 /\ DOMAIN walk = 1..n /\ DOMAIN walk' = 1..n + 1
        /\ Top = walk[n] /\ Top.obj = p /\ Top.next = k /\ k \in Nat
        /\ k \in DOMAIN Children[p] /\ c = Children[p][k]
        /\ walk'[n + 1].obj = c /\ walk'[n + 1].vd = cvd /\ walk'[n + 1].next = 1
        /\ \A i \in 1..n : walk'[i].obj = walk[i].obj /\ walk'[i].vd = walk[i].vd
        /\ \A i \in 1..n : i # n => walk'[i].next = walk[i].next
        /\ walk'[n].next = k + 1
  <2> HIDE DEF cvd
  <2> QED BY <1>1, <1>4, WalkGrown
<1>8. PICK vd : vd = Top.vd OBVIOUS
<1>9. PICK cv : cv = ChildVertex(graph, c) OBVIOUS
<1>10. cvd = cv /\ child = c BY <1>7, <1>9
<1>11. graph' = AddChild(graph, vd, c) /\ vd \in 1..Len(graph.vertices)
       /\ walk'[n + 1].vd = cv
  BY <1>1, <1>2, <1>7, <1>8, <1>10
<1> HIDE DEF child, cvd
<1>12. /\ n \in 1..n /\ n \in DOMAIN walk /\ walk[n].vd = vd /\ walk[n].obj = p
       /\ walk[n].next = k /\ At(graph, p, vd)
       /\ \A w : ~At(graph, c, w)
  <2>1. n \in DOMAIN walk /\ n \in 1..n BY <1>7
  <2>2. walk[n].vd = vd /\ walk[n].obj = p /\ walk[n].next = k BY <1>7, <1>8
  <2>3. At(graph, p, vd) BY <2>1, <2>2 DEF WalkFresh
  <2>4. ~Found(c) BY <1>7, <2>1, <2>2 DEF WalkFresh
  <2> QED BY <2>1, <2>2, <2>3, <2>4 DEF Found
<1>13. PICK typed : /\ AddChild(graph, vd, c) = Link(typed, vd, cv)
                    /\ Added(graph, typed, {<<cv, HwlocAdapter(c)>>})
                    /\ GoodY(typed) /\ typed.root = graph.root
                    /\ cv \in 1..Len(typed.vertices)
                    /\ vd \in 1..Len(typed.vertices)
  BY <1>2, <1>9, <1>11, ChildAdds
<1>14. graph' = Link(typed, vd, cv) BY <1>11, <1>13
<1>15. graph'.vertices = typed.vertices /\ graph'.root = graph.root
  BY <1>13, <1>14, LinkGrows DEF GoodY
<1>16. \A o, v : At(graph', o, v) <=> At(graph, o, v) \/ (v = cv /\ o = c)
  <2>1. \A o, v : At(typed, o, v) <=> At(graph, o, v) \/ (v = cv /\ o = c)
    BY <1>13, ObjectAdded
  <2>2. \A o, v : At(graph', o, v) <=> At(typed, o, v) BY <1>15, AtSame
  <2> QED BY <2>1, <2>2
<1>17. \A u : ~Hangs(graph, u, cv) BY <1>9, <1>12, ChildHangsFree DEF HierGraph
<1>18. HangsOnce(graph') /\ \A u, v : Hangs(graph', u, v) <=>
                              Hangs(graph, u, v) \/ (u = vd /\ v = cv)
  <2>1. /\ HangsOnce(typed) /\ \A u, v : Hangs(typed, u, v) <=> Hangs(graph, u, v)
    <3>1. typed.edges = graph.edges BY <1>13 DEF Added
    <3> QED BY <3>1, SameEdgesHang DEF HierGraph, EdgesTold
  <2>2. ~Hangs(typed, vd, cv) BY <1>17, <2>1
  <2>3. HangsOnce(graph') /\ \A u, v : Hangs(graph', u, v) <=>
                               Hangs(typed, u, v) \/ (u = vd /\ v = cv)
    BY <1>13, <1>14, <2>1, <2>2, LinkHangs
  <2> QED BY <2>1, <2>3
<1>19. GrowsY(graph, graph') BY <1>2, <1>11, AddChildGrows
<1>20. RanksKept /\ \A i \in Ranks : RankVertex(i)' = RankVertex(i)
  BY <1>5, <1>6, <1>19, RanksKeptSame
<1>21. \A u, v : NameEdge(u, v)' <=> NameEdge(u, v) BY <1>5, <1>6, <1>19, NameEdgesKept
<1>22. \A o \in Objects : \A j \in DOMAIN Children[o] :
         /\ Children[o][j] \in Objects
         /\ Children[o][j] = c => o = p /\ j = k
  BY <1>7, TopologyConstants, TopologyTree
<1>23. p # c BY <1>12
<1>24. \A o \in Objects : \A j \in DOMAIN Children[o] : \A v :
         At(graph, Children[o][j], v) => Children[o][j] # c /\ o # c
  <2> SUFFICES ASSUME NEW o \in Objects, NEW j \in DOMAIN Children[o], NEW v,
                      At(graph, Children[o][j], v)
               PROVE  Children[o][j] # c /\ o # c
    OBVIOUS
  <2>1. Found(Children[o][j]) BY DEF Found
  <2>2. Found(o) BY <2>1 DEF WalkFresh
  <2>3. PICK w : At(graph, o, w) BY <2>2 DEF Found
  <2> QED BY <1>12, <2>3
<1>25. \A u, v : TreeEdge(u, v)' <=> TreeEdge(u, v) \/ (u = vd /\ v = cv)
  <2> TAKE u, v
  <2>1. TreeEdge(u, v)' <=> \E o \in Objects : \E j \in DOMAIN Children[o] :
                              At(graph', o, u) /\ At(graph', Children[o][j], v)
    BY DEF TreeEdge
  <2>2. ASSUME NEW o \in Objects, NEW j \in DOMAIN Children[o],
               At(graph', o, u), At(graph', Children[o][j], v)
        PROVE  TreeEdge(u, v) \/ (u = vd /\ v = cv)
    <3>1. CASE At(graph, Children[o][j], v)
      <4>1. At(graph, o, u) BY <1>16, <1>24, <2>2, <3>1
      <4> QED BY <3>1, <4>1 DEF TreeEdge
    <3>2. CASE v = cv /\ Children[o][j] = c
      <4>1. o = p BY <1>22, <3>2
      <4>2. At(graph, p, u) BY <1>16, <1>23, <2>2, <4>1
      <4>3. u = vd BY <1>12, <4>2 DEF HierGraph, ObjectsOnce
      <4> QED BY <3>2, <4>3
    <3> QED BY <1>16, <2>2, <3>1, <3>2
  <2>3. TreeEdge(u, v) => TreeEdge(u, v)' BY <1>16, <2>1 DEF TreeEdge
  <2>4. At(graph', p, vd) /\ At(graph', Children[p][k], cv) BY <1>7, <1>12, <1>16
  <2>5. u = vd /\ v = cv => TreeEdge(u, v)' BY <1>7, <2>1, <2>4
  <2> QED BY <2>1, <2>2, <2>3, <2>5
<1> DEFINE new == {<<vd, cv>>}
           none == {}
<1>26. \A u, v : <<u, v>> \in new <=> u = vd /\ v = cv OBVIOUS
<1>27. \A u, v : <<u, v>> \notin none /\ (<<u, v>> \in new \cup none \cup none <=> <<u, v>> \in new)
  OBVIOUS
<1> HIDE DEF new, none
<1>28. EdgesTold'
  <2>1. \A u, v : Hangs(graph', u, v) <=>
                    Hangs(graph, u, v) \/ <<u, v>> \in new \cup none \cup none
    BY <1>18, <1>26, <1>27
  <2>2. \A u, v : TreeEdge(u, v)' <=> TreeEdge(u, v) \/ <<u, v>> \in new
    BY <1>25, <1>26
  <2>3. \A u, v : NameEdge(u, v)' <=> NameEdge(u, v) \/ <<u, v>> \in none
    BY <1>21, <1>27
  <2>4. \A u, v : <<u, v>> \in none => \E i \in Ranks : v = RankVertex(i)' BY <1>27
  <2>5. EdgesTold /\ HangsOnce(graph') BY <1>18 DEF HierGraph
  <2> QED BY <1>2, <1>20, <2>1, <2>2, <2>3, <2>4, <2>5, EdgesStep
<1>29. \A i \in Ranks : vd # RankVertex(i)' /\ cv # RankVertex(i)'
  <2>1. At(graph', p, vd) /\ At(graph', c, cv) BY <1>12, <1>16
  <2>2. \A i \in Ranks : vd # graph'.ids[<<"mpi_rank", i>>] /\ cv # graph'.ids[<<"mpi_rank", i>>]
    BY <1>6, <2>1, NotAtRank
  <2> QED BY <2>2 DEF RankVertex
<1>30. RanksHang'
  <2>1. \A u, v : Hangs(graph', u, v) <=> Hangs(graph, u, v) \/ <<u, v>> \in new
    BY <1>18, <1>26
  <2>2. \A u, v : <<u, v>> \in new => \A i \in Ranks :
          u # RankVertex(i)' /\ (v = RankVertex(i)' => ~Attached(i))
    BY <1>26, <1>29
  <2>3. \A i \in Ranks : \A u : <<u, RankVertex(i)'>> \notin new BY <1>26, <1>29
  <2>4. \A i \in Ranks : Attached(i)' <=> Attached(i) \/ \E u : <<u, RankVertex(i)'>> \in new
    BY <1>5, <2>3
  <2>5. \A i \in Ranks : \A u, w :
          <<u, RankVertex(i)'>> \in new /\ <<w, RankVertex(i)'>> \in new => u = w
    BY <2>3
  <2>6. \A i \in Ranks : RankVertex(i)' # 1 /\ RankVertex(i)' # graph'.root
    BY <1>15, <1>20 DEF HierGraph, RanksHang
  <2>7. RanksHang BY DEF HierGraph
  <2> QED BY <1>2, <1>20, <2>1, <2>2, <2>4, <2>5, <2>6, <2>7, RanksStep
<1>31. ObjectsOnce'
  <2>1. \A o \in Objects : \A u, v : At(graph', o, u) /\ At(graph', o, v) => u = v
    BY <1>12, <1>16 DEF HierGraph, ObjectsOnce
  <2> QED BY <2>1 DEF ObjectsOnce
<1>32. WalkFresh'
  <2>1. \A o \in Objects : \A j \in DOMAIN Children[o] :
          (\E v : At(graph', Children[o][j], v)) => \E v : At(graph', o, v)
    <3> SUFFICES ASSUME NEW o \in Objects, NEW j \in DOMAIN Children[o], NEW v,
                        At(graph', Children[o][j], v)
                 PROVE  \E w : At(graph', o, w)
      OBVIOUS
    <3>1. CASE At(graph, Children[o][j], v)
      <4>1. Found(o) BY <3>1 DEF WalkFresh, Found
      <4> QED BY <1>16, <4>1 DEF Found
    <3>2. CASE Children[o][j] = c
      <4>1. o = p BY <1>22, <3>2
      <4> QED BY <1>12, <1>16, <4>1
    <3> QED BY <1>16, <3>1, <3>2
  <2>2. \A i \in DOMAIN walk' : i \in 1..n \/ i = n + 1 BY <1>7
  <2>3. \A i \in 1..n : walk'[i].obj = walk[i].obj /\ walk[i].obj # c /\ walk[i].obj \in Objects
                        /\ walk'[i].vd = walk[i].vd /\ At(graph, walk[i].obj, walk[i].vd)
    <3> TAKE i \in 1..n
    <3>1. At(graph, walk[i].obj, walk[i].vd) BY <1>7 DEF WalkFresh
    <3>2. walk[i] \in Calls BY <1>7, Parts DEF WalkInv, HwlocTypeOK
    <3> QED BY <1>7, <1>12, <3>1, <3>2 DEF Calls
  <2>4. \A i \in DOMAIN walk' : At(graph', walk'[i].obj, walk'[i].vd)
    <3> TAKE i \in DOMAIN walk'
    <3>1. CASE i \in 1..n BY <1>16, <2>3, <3>1
    <3>2. CASE i = n + 1 BY <1>7, <1>11, <1>16, <3>2
    <3> QED BY <2>2, <3>1, <3>2
  <2>5. \A i \in DOMAIN walk' : \A j \in DOMAIN Children[walk'[i].obj] :
          j >= walk'[i].next => ~\E v : At(graph', Children[walk'[i].obj][j], v)
    <3> SUFFICES ASSUME NEW i \in DOMAIN walk', NEW j \in DOMAIN Children[walk'[i].obj],
                        j >= walk'[i].next, NEW v, At(graph', Children[walk'[i].obj][j], v)
                 PROVE  FALSE
      OBVIOUS
    <3>1. CASE i \in 1..n /\ i # n
      <4>1. j \in DOMAIN Children[walk[i].obj] /\ j >= walk[i].next /\ i \in DOMAIN walk
        BY <1>7, <2>3, <3>1
      <4>2. ~Found(Children[walk[i].obj][j]) BY <4>1 DEF WalkFresh
      <4>3. ~At(graph, Children[walk[i].obj][j], v) BY <4>2 DEF Found
      <4>4. Children[walk[i].obj][j] = c BY <1>16, <2>3, <3>1, <4>3
      <4>5. walk[i].obj = p BY <1>22, <2>3, <3>1, <4>1, <4>4
      <4>6. i = n BY <1>12, <4>1, <4>5 DEF WalkFresh
      <4> QED BY <3>1, <4>6
    <3>2. CASE i = n
      <4>1. walk'[i].obj = p /\ walk'[i].next = k + 1 BY <1>7, <1>12, <3>2
      <4>2. j \in DOMAIN Children[p] /\ j >= k + 1 BY <4>1
      <4>3. j \in Nat
        <5>1. Children[p] \in Seq(Objects) BY TopologyConstants
        <5> QED BY <4>2, <5>1
      <4>4. j >= k /\ j # k BY <1>7, <4>2, <4>3
      <4>5. ~Found(Children[p][j]) BY <1>12, <4>2, <4>4 DEF WalkFresh
      <4>6. ~At(graph, Children[p][j], v) BY <4>5 DEF Found
      <4>7. Children[p][j] = c BY <1>16, <4>1, <4>6
      <4> QED BY <1>22, <4>2, <4>4, <4>7
    <3>3. CASE i = n + 1
      <4>1. walk'[i].obj = c BY <1>7, <3>3
      <4>2. j \in DOMAIN Children[c] /\ At(graph', Children[c][j], v) BY <4>1
      <4>3. Children[c][j] # c BY <1>22, <1>23, <4>2
      <4>4. At(graph, Children[c][j], v) BY <1>16, <4>2, <4>3
      <4> QED BY <1>24, <4>2, <4>4
    <3> QED BY <2>2, <3>1, <3>2, <3>3
  <2>6. \A i, j \in DOMAIN walk' : walk'[i].obj = walk'[j].obj => i = j
    <3> TAKE i, j \in DOMAIN walk'
    <3>1. CASE i \in 1..n /\ j \in 1..n BY <1>7, <2>3, <3>1 DEF WalkFresh
    <3>2. CASE i = n + 1 \/ j = n + 1 BY <1>7, <2>2, <2>3, <3>2
    <3> QED BY <2>2, <3>1, <3>2
  <2> QED BY <2>1, <2>4, <2>5, <2>6 DEF WalkFresh, Found
<1>33. DescendsPlain' BY <1>20, PlaceKept
<1> QED BY <1>28, <1>30, <1>31, <1>32, <1>33 DEF HierGraph

(* hwloc keeps the hierarchy.                                              *)
LEMMA HwlocHier ==
  ASSUME IInv, Told, Told', LoopOnce, HierGraph, WalkFresh, DescendsPlain, HwlocNext,
         UNCHANGED <<gpu, smRank, mpi, todo, inits>>
  PROVE  HierGraph' /\ WalkFresh' /\ DescendsPlain'
<1>1. CASE HwlocVersionMismatch
  <2>1. Return("hwloc", "INIT_ERROR") /\ UNCHANGED <<graph, walk>> /\ Running("hwloc")
    BY <1>1 DEF HwlocVersionMismatch
  <2>2. "INIT_ERROR" \in Statuses BY DEF Statuses
  <2> QED BY <2>1, <2>2, HwlocQuietHier
<1>2. CASE HwlocAddMachine BY <1>2, MachineHier
<1>3. CASE HwlocVisitChild BY <1>3, ChildHier
<1>4. CASE HwlocAscend
  <2>1. Stay /\ graph' = graph /\ Running("hwloc") /\ Len(walk) > 1
        /\ walk' = SubSeq(walk, 1, Len(walk) - 1)
    BY <1>4 DEF HwlocAscend
  <2>2. walk \in Seq(Calls) BY Parts DEF WalkInv, HwlocTypeOK
  <2>3. \A i \in DOMAIN walk' : i \in DOMAIN walk /\ walk'[i] = walk[i] BY <2>1, <2>2
  <2> QED BY <2>1, <2>3, HwlocQuietHier
<1>5. CASE HwlocReturn
  <2>1. Return("hwloc", "SUCCESS") /\ graph' = graph /\ Running("hwloc") /\ walk' = <<>>
    BY <1>5 DEF HwlocReturn
  <2>2. "SUCCESS" \in Statuses BY DEF Statuses
  <2>3. \A i \in DOMAIN walk' : FALSE BY <2>1
  <2> QED BY <2>1, <2>2, <2>3, HwlocQuietHier
<1> QED BY <1>1, <1>2, <1>3, <1>4, <1>5 DEF HwlocNext

(* No object is at the vertex of a prefix.                                 *)
LEMMA NotAtSystem ==
  ASSUME NEW g, Content(g), NEW o, NEW id \in Ids, id[1] = "system", At(g, o, g.ids[id])
  PROVE  FALSE
<1>1. Belongs(id, <<"hwloc", o>>) BY NativeAt
<1> QED BY <1>1, HwlocBelongs DEF HwlocId

(* Interconnect edges leave only the vertices of devices.                  *)
LEMMA LinksFromDevices ==
  ASSUME LinksTold, NEW k, NEW u, NEW v, EdgeIs(graph, "GPU_INTERCONNECT", k, u, v)
  PROVE  \E id \in Ids : id[1] = "bdfid" /\ u = graph.ids[id]
<1>1. LinkAt(graph, k, u, v) BY DEF LinkAt, EdgeIs
<1>2. Linked(u, v) BY <1>1 DEF LinksTold
<1>5. PICK m \in Vendors : \E i \in DOMAIN DevsOf(m) : u = DeviceOf(m, i) BY <1>2 DEF Linked
<1>3. PICK i \in DOMAIN DevsOf(m) : u = DeviceOf(m, i) BY <1>5
<1>4. DeviceId(m, i) \in Ids /\ DeviceId(m, i)[1] = "bdfid"
  BY DeviceIds DEF DeviceId, DevsOf, Vendors, NvmlId, RocmId
<1> QED BY <1>3, <1>4 DEF DeviceOf

(* Where an identifier that is not of a device, not of a machine with the  *)
(* topology below it, is the end of a CHILD edge: on the path of a host.   *)
LEMMA AboveSystem ==
  ASSUME Content(graph), Content(graph'), GrowsY(graph, graph'), EdgesTold, ToldExactly,
         \A o, w : At(graph', o, w) <=> At(graph, o, w),
         \A i \in Ranks : RankVertex(i)' = RankVertex(i),
         NEW id \in Ids, id[1] = "system", NEW u, Hangs(graph, u, graph'.ids[id])
  PROVE  \E i \in HostsTold : \E e \in PathEdges(ProcName[i]) :
           u = graph'.ids[e[1]] /\ id = e[2]
<1> DEFINE v == graph'.ids[id]
<1>1. GoodY(graph) /\ GoodY(graph') BY DEF Content
<1>2. v \in 1..Len(graph.vertices) /\ v \in 1..Len(graph'.vertices)
  BY <1>1, EdgeWithin, DescriptorsKept DEF Hangs
<1>3. ~TreeEdge(u, v)
  <2> SUFFICES ASSUME NEW q \in Objects, At(graph, q, v) PROVE FALSE
    BY TopologyConstants DEF TreeEdge
  <2>1. At(graph', q, graph'.ids[id]) OBVIOUS
  <2> QED BY <2>1, NotAtSystem
<1>4. \A i \in Ranks : v # RankVertex(i)
  <2> TAKE i \in Ranks
  <2>1. <<"mpi_rank", i>> \in Ids /\ <<"mpi_rank", i>> # id BY IdsOf
  <2>2. graph'.ids[<<"mpi_rank", i>>] # v BY <1>1, <1>2, <2>1, NamesDiffer
  <2> QED BY <2>2 DEF RankVertex
<1>5. NameEdge(u, v) BY <1>3, <1>4 DEF EdgesTold
<1>9. PICK i \in HostsTold : \E e \in PathEdges(ProcName[i]) :
                               u = graph.ids[e[1]] /\ v = graph.ids[e[2]]
  BY <1>5 DEF NameEdge
<1>6. PICK e \in PathEdges(ProcName[i]) : u = graph.ids[e[1]] /\ v = graph.ids[e[2]]
  BY <1>9
<1>7. /\ graph'.ids[e[1]] = graph.ids[e[1]] /\ graph'.ids[e[2]] = graph.ids[e[2]]
      /\ e[2] \in Ids
  BY <1>6, HostVerticesKept
<1>8. id = e[2] BY <1>1, <1>2, <1>6, <1>7, NamesDiffer
<1> QED BY <1>6, <1>7, <1>8

(* Nothing hangs the wrong way round on the path of a host.                *)
LEMMA PathUpright ==
  ASSUME NEW g \in Hosts, NEW h \in Hosts, NEW d \in PathEdges(g), NEW e \in PathEdges(h)
  PROVE  ~(d[1] = e[2] /\ d[2] = e[1])
<1> SUFFICES ASSUME d[1] = e[2], d[2] = e[1] PROVE FALSE OBVIOUS
<1>4. \/ d[1] = <<"system", Truncate(g, 1)>> /\ d[2] = <<"system", Truncate(g, 2)>>
      \/ d[1] = <<"system", Truncate(g, 2)>> /\ d[2] = <<"system", Truncate(g, 3)>>
      \/ d[1] = <<"system", Truncate(g, 3)>> /\ d[2] = <<"machine", g>>
  BY DEF PathEdges
<1>5. \/ e[1] = <<"system", Truncate(h, 1)>> /\ e[2] = <<"system", Truncate(h, 2)>>
      \/ e[1] = <<"system", Truncate(h, 2)>> /\ e[2] = <<"system", Truncate(h, 3)>>
      \/ e[1] = <<"system", Truncate(h, 3)>> /\ e[2] = <<"machine", h>>
  BY DEF PathEdges
<1>7. \A n, k : <<"system", n>> # <<"machine", k>> OBVIOUS
<1>8. \A a, b \in 1..3 : a # b => <<"system", Truncate(g, a)>> # <<"system", Truncate(h, b)>>
  <2> TAKE a, b \in 1..3
  <2>6. a <= a /\ b <= b OBVIOUS
  <2>7. Len(Truncate(g, a)) = a BY <2>6, TruncateTwice
  <2>8. Len(Truncate(h, b)) = b BY <2>6, TruncateTwice
  <2>1. Len(Truncate(g, a)) = a /\ Len(Truncate(h, b)) = b BY <2>7, <2>8
  <2>2. PICK x : x = Truncate(g, a) OBVIOUS
  <2>3. PICK y : y = Truncate(h, b) OBVIOUS
  <2>4. x = y => a = b BY <2>1, <2>2, <2>3
  <2>5. <<"system", x>> = <<"system", y>> => x = y OBVIOUS
  <2> QED BY <2>2, <2>3, <2>4, <2>5
<1>9. \A a \in 1..3 : /\ <<"system", Truncate(g, a)>> # <<"machine", h>>
                      /\ <<"machine", g>> # <<"system", Truncate(h, a)>>
  BY <1>7
<1> DEFINE G(a) == <<"system", Truncate(g, a)>>
           H(a) == <<"system", Truncate(h, a)>>
           mg == <<"machine", g>>
           mh == <<"machine", h>>
<1>10. /\ G(1) # H(2) /\ G(1) # H(3) /\ G(2) # H(1) /\ G(2) # H(3) /\ G(3) # H(1) /\ G(3) # H(2)
       /\ G(1) # mh /\ G(2) # mh /\ G(3) # mh /\ mg # H(1) /\ mg # H(2) /\ mg # H(3)
  BY <1>8, <1>9
<1>11. \/ d[1] = G(1) /\ d[2] = G(2)
       \/ d[1] = G(2) /\ d[2] = G(3)
       \/ d[1] = G(3) /\ d[2] = mg
  BY Zenon, <1>4
<1>12. \/ e[1] = H(1) /\ e[2] = H(2)
       \/ e[1] = H(2) /\ e[2] = H(3)
       \/ e[1] = H(3) /\ e[2] = mh
  BY Zenon, <1>5
<1> HIDE DEF G, H, mg, mh
<1> QED BY <1>10, <1>11, <1>12

(* supermuc's edges are no interconnects.                                  *)
LEMMA LinkOnceInterconnects ==
  ASSUME NEW g, GoodY(g), NEW u \in 1..Len(g.vertices), NEW v \in 1..Len(g.vertices),
         NEW k, NEW a, NEW b, EdgeIs(LinkOnce(g, u, v), "GPU_INTERCONNECT", k, a, b)
  PROVE  EdgeIs(g, "GPU_INTERCONNECT", k, a, b)
<1> DEFINE f == AddEdge(g, u, v, "CHILD")
           h == AddEdge(f, v, u, "PARENT")
<1>1. "CHILD" \in EdgeTypes BY DEF EdgeTypes
<1>2. GoodY(f) BY <1>1, AddEdgeGrows DEF GoodY, Grows
<1>3. LinkOnce(g, u, v) = g \/ LinkOnce(g, u, v) = h BY DEF LinkOnce, Link
<1>4. EdgeIs(f, "GPU_INTERCONNECT", k, a, b) => EdgeIs(g, "GPU_INTERCONNECT", k, a, b)
  BY EdgeAppended
<1> HIDE DEF f
<1>5. EdgeIs(h, "GPU_INTERCONNECT", k, a, b) => EdgeIs(f, "GPU_INTERCONNECT", k, a, b)
  BY <1>2, EdgeAppended
<1> QED BY <1>3, <1>4, <1>5

(* A path of three edges that nothing is joined to the wrong way round.    *)
LEMMA PathHangs ==
  ASSUME NEW f, GoodY(f), HangsOnce(f),
         NEW s1 \in 1..Len(f.vertices), NEW s2 \in 1..Len(f.vertices),
         NEW s3 \in 1..Len(f.vertices), NEW s4 \in 1..Len(f.vertices),
         s1 # s3, s1 # s4, s2 # s4,
         ~Hangs(f, s2, s1), ~Hangs(f, s3, s2), ~Hangs(f, s4, s3),
         \A k, b : ~EdgeIs(f, "GPU_INTERCONNECT", k, s1, b),
         \A k, b : ~EdgeIs(f, "GPU_INTERCONNECT", k, s2, b),
         \A k, b : ~EdgeIs(f, "GPU_INTERCONNECT", k, s3, b)
  PROVE  LET h == LinkOnce(LinkOnce(LinkOnce(f, s1, s2), s2, s3), s3, s4)
         IN /\ HangsOnce(h) /\ h.vertices = f.vertices /\ h.ids = f.ids /\ h.root = f.root
            /\ \A a, b : Hangs(h, a, b) <=> \/ Hangs(f, a, b) \/ (a = s1 /\ b = s2)
                                            \/ (a = s2 /\ b = s3) \/ (a = s3 /\ b = s4)
<1> DEFINE h1 == LinkOnce(f, s1, s2)
           h2 == LinkOnce(h1, s2, s3)
           h3 == LinkOnce(h2, s3, s4)
<1>1. GoodY(h1) /\ h1.vertices = f.vertices /\ h1.ids = f.ids /\ h1.root = f.root
  BY LinkOnceGrows DEF GoodY, Grows
<1>2. HangsOnce(h1) /\ \A a, b : Hangs(h1, a, b) <=> Hangs(f, a, b) \/ (a = s1 /\ b = s2)
  BY LinkOnceHangs
<1>3. \A k, a, b : EdgeIs(h1, "GPU_INTERCONNECT", k, a, b) => EdgeIs(f, "GPU_INTERCONNECT", k, a, b)
  BY LinkOnceInterconnects
<1> HIDE DEF h1
<1>4. ~Hangs(h1, s3, s2) /\ ~\E k : EdgeIs(h1, "GPU_INTERCONNECT", k, s2, s3)
  BY <1>2, <1>3
<1>5. GoodY(h2) /\ h2.vertices = h1.vertices /\ h2.ids = h1.ids /\ h2.root = h1.root
  BY <1>1, LinkOnceGrows DEF GoodY, Grows
<1>6. HangsOnce(h2) /\ \A a, b : Hangs(h2, a, b) <=> Hangs(h1, a, b) \/ (a = s2 /\ b = s3)
  BY <1>1, <1>2, <1>4, LinkOnceHangs
<1>7. \A k, a, b : EdgeIs(h2, "GPU_INTERCONNECT", k, a, b)
                     => EdgeIs(h1, "GPU_INTERCONNECT", k, a, b)
  BY <1>1, LinkOnceInterconnects
<1> HIDE DEF h2
<1>8. ~Hangs(h2, s4, s3) /\ ~\E k : EdgeIs(h2, "GPU_INTERCONNECT", k, s3, s4)
  BY <1>2, <1>3, <1>6, <1>7
<1>9. h3.vertices = h2.vertices /\ h3.ids = h2.ids /\ h3.root = h2.root
  BY <1>1, <1>5, LinkOnceGrows DEF GoodY
<1>10. HangsOnce(h3) /\ \A a, b : Hangs(h3, a, b) <=> Hangs(h2, a, b) \/ (a = s3 /\ b = s4)
  BY <1>1, <1>5, <1>6, <1>8, LinkOnceHangs
<1> HIDE DEF h3
<1>11. \A a, b : Hangs(h3, a, b) <=> \/ Hangs(f, a, b) \/ (a = s1 /\ b = s2)
                                     \/ (a = s2 /\ b = s3) \/ (a = s3 /\ b = s4)
  BY <1>2, <1>6, <1>10
<1> QED BY <1>1, <1>5, <1>9, <1>10, <1>11 DEF h3, h2, h1

(* The three calls of a host's path change edges only.                     *)
LEMMA ThreeLinks ==
  ASSUME NEW f, GoodY(f),
         NEW s1 \in 1..Len(f.vertices), NEW s2 \in 1..Len(f.vertices),
         NEW s3 \in 1..Len(f.vertices), NEW s4 \in 1..Len(f.vertices)
  PROVE  LET h == LinkOnce(LinkOnce(LinkOnce(f, s1, s2), s2, s3), s3, s4)
         IN h.vertices = f.vertices /\ h.ids = f.ids /\ h.root = f.root
<1> DEFINE h1 == LinkOnce(f, s1, s2)
           h2 == LinkOnce(h1, s2, s3)
           h3 == LinkOnce(h2, s3, s4)
<1>1. GoodY(h1) /\ h1.vertices = f.vertices /\ h1.ids = f.ids /\ h1.root = f.root
  BY LinkOnceGrows DEF GoodY, Grows
<1> HIDE DEF h1
<1>2. GoodY(h2) /\ h2.vertices = h1.vertices /\ h2.ids = h1.ids /\ h2.root = h1.root
  BY <1>1, LinkOnceGrows DEF GoodY, Grows
<1> HIDE DEF h2
<1>3. h3.vertices = h2.vertices /\ h3.ids = h2.ids /\ h3.root = h2.root
  BY <1>1, <1>2, LinkOnceGrows DEF GoodY
<1> HIDE DEF h3
<1> QED BY <1>1, <1>2, <1>3 DEF h3, h2, h1

(* supermuc adds the path of a host.                                       *)
LEMMA HostHier ==
  ASSUME IInv, Told, Told', LoopOnce, LinksTold, HierGraph, WalkFresh, DescendsPlain,
         SupermucAddHost, UNCHANGED <<walk, gpu, mpi, todo, inits>>
  PROVE  HierGraph' /\ WalkFresh' /\ DescendsPlain'
<1>1. /\ current = "supermuc" /\ phase = "running" /\ Stay /\ smRank < NRanks
      /\ graph' = HostPath(graph, ProcName[smRank]) /\ smRank' = smRank + 1
  BY DEF SupermucAddHost, Running
<1>2. /\ smRank \in Nat /\ smRank \in Ranks /\ current \in Modules /\ GoodY(graph)
  BY <1>1, Parts, PlatformConstants DEF Modules, SupermucTypeOK, Ranks, GraphInv
<1>3. Content(graph) /\ Content(graph') /\ ToldExactly /\ ToldExactly' /\ GoodY(graph')
  BY DEF Told, ToldExactly, Tells, Content
<1>4. /\ RanksTold' = RanksTold
      /\ \A i \in Ranks : Attached(i)' <=> Attached(i)
  <2>1. current # "mpi" BY <1>1
  <2> QED BY <1>1, <1>2, <2>1, Bystander
<1>5. HostsTold' = HostsTold \cup {smRank}
  <2>1. current' = "supermuc" /\ status' = status BY <1>1 DEF Stay
  <2>2. \A i \in Ranks : i < smRank + 1 <=> i < smRank \/ i = smRank
    BY <1>2 DEF Ranks
  <2>3. ~Ran("supermuc") /\ ~Ran("supermuc")' BY <1>1, <2>1 DEF LoopOnce, Ran
  <2>4. HostsTold = {i \in Ranks : i < smRank} BY <1>1, <2>3 DEF HostsTold
  <2>5. HostsTold' = {i \in Ranks : i < smRank + 1} BY <1>1, <2>1, <2>3 DEF HostsTold
  <2> QED BY <1>2, <2>2, <2>4, <2>5
<1>6. PICK host : host = ProcName[smRank] OBVIOUS
<1>7. PICK r : r = smRank OBVIOUS
<1>8. /\ host \in Hosts /\ host = ProcName[r] /\ r \in Ranks /\ HostsTold' = HostsTold \cup {r}
      /\ graph' = HostPath(graph, host)
  BY <1>1, <1>2, <1>5, <1>6, <1>7, ProcHosts
<1>9. PICK nodes :
        \E A :
          /\ Added(graph, nodes, A) /\ GoodY(nodes) /\ nodes.root = graph.root
          /\ \A v, a : <<v, a>> \in A => \E n : a = Adapter("supermuc", n, {})
          /\ nodes.ids[<<"machine", host>>] \in 1..Len(nodes.vertices)
          /\ \A n \in 1..3 : nodes.ids[<<"system", Truncate(host, n)>>] \in 1..Len(nodes.vertices)
          /\ HostPath(graph, host) =
               LinkOnce(LinkOnce(LinkOnce(nodes, nodes.ids[<<"system", Truncate(host, 1)>>],
                                                 nodes.ids[<<"system", Truncate(host, 2)>>]),
                                 nodes.ids[<<"system", Truncate(host, 2)>>],
                                 nodes.ids[<<"system", Truncate(host, 3)>>]),
                        nodes.ids[<<"system", Truncate(host, 3)>>], nodes.ids[<<"machine", host>>])
  BY <1>2, <1>8, HostPathAdds
<1>10. PICK t1 : t1 = <<"system", Truncate(host, 1)>> OBVIOUS
<1>11. PICK t2 : t2 = <<"system", Truncate(host, 2)>> OBVIOUS
<1>12. PICK t3 : t3 = <<"system", Truncate(host, 3)>> OBVIOUS
<1>13. PICK t4 : t4 = <<"machine", host>> OBVIOUS
<1> DEFINE s1 == nodes.ids[t1]
           s2 == nodes.ids[t2]
           s3 == nodes.ids[t3]
           s4 == nodes.ids[t4]
<1>14. PICK A : /\ Added(graph, nodes, A)
                /\ \A v, a : <<v, a>> \in A => \E n : a = Adapter("supermuc", n, {})
  BY <1>9
<1>15. /\ GoodY(nodes) /\ nodes.root = graph.root
       /\ s1 \in 1..Len(nodes.vertices) /\ s2 \in 1..Len(nodes.vertices)
       /\ s3 \in 1..Len(nodes.vertices) /\ s4 \in 1..Len(nodes.vertices)
       /\ graph' = LinkOnce(LinkOnce(LinkOnce(nodes, s1, s2), s2, s3), s3, s4)
  BY <1>8, <1>9, <1>10, <1>11, <1>12, <1>13
<1>16. PathEdges(host) = {<<t1, t2>>, <<t2, t3>>, <<t3, t4>>}
  BY <1>10, <1>11, <1>12, <1>13 DEF PathEdges
<1>17. /\ t1 \in Ids /\ t2 \in Ids /\ t3 \in Ids /\ t4 \in Ids
       /\ t1[1] = "system" /\ t2[1] = "system" /\ t3[1] = "system"
       /\ t1 # t3 /\ t1 # t4 /\ t2 # t4
  <2>1. \A n \in 1..3 : Truncate(host, n) \in Prefixes /\ Len(Truncate(host, n)) = n
    BY <1>8, PrefixOfHost, HostNames, PlatformConstants DEF Truncate
  <2>2. Truncate(host, 1) # Truncate(host, 3) BY <2>1
  <2> QED BY <1>8, <1>10, <1>11, <1>12, <1>13, <2>1, <2>2, IdsOf
<1>18. s1 # s3 /\ s1 # s4 /\ s2 # s4 BY <1>15, <1>17, NamesDiffer
<1>19. graph'.vertices = nodes.vertices /\ graph'.ids = nodes.ids /\ graph'.root = graph.root
  <2> HIDE DEF s1, s2, s3, s4
  <2>1. graph'.vertices = nodes.vertices /\ graph'.ids = nodes.ids /\ graph'.root = nodes.root
    BY <1>15, ThreeLinks
  <2> QED BY <1>15, <2>1
<1>20. \A o, w : At(graph', o, w) <=> At(graph, o, w)
  <2>1. \A o, w : At(nodes, o, w) <=>
                    At(graph, o, w) \/ \E a : <<w, a>> \in A /\ a.of = <<"hwloc", o>>
    BY <1>14, AtAdded
  <2>2. \A w, a : <<w, a>> \in A => a.of[1] # "hwloc" BY <1>14 DEF Adapter
  <2>3. \A o, w : ~\E a : <<w, a>> \in A /\ a.of = <<"hwloc", o>>
    <3>1. \A o : <<"hwloc", o>>[1] = "hwloc" OBVIOUS
    <3> QED BY <2>2, <3>1
  <2>4. \A o, w : At(graph', o, w) <=> At(nodes, o, w) BY <1>19, AtSame
  <2> QED BY <2>1, <2>3, <2>4
<1>21. GrowsY(graph, graph') BY <1>2, <1>8, HostPathGrows
<1>22. RanksKept /\ \A i \in Ranks : RankVertex(i)' = RankVertex(i)
  BY <1>3, <1>4, <1>21, RanksKeptSame
<1>23. EdgesTold /\ RanksHang /\ ObjectsOnce BY DEF HierGraph
<1>24. ASSUME NEW e \in PathEdges(host)
       PROVE  ~Hangs(graph, graph'.ids[e[2]], graph'.ids[e[1]])
  <2> SUFFICES ASSUME Hangs(graph, graph'.ids[e[2]], graph'.ids[e[1]]) PROVE FALSE OBVIOUS
  <2>1. e[1] \in Ids /\ e[1][1] = "system" /\ e[2] \in Ids BY <1>8, PathEdgeIds
  <2>2. graph'.ids[e[2]] \in 1..Len(graph'.vertices)
    <3>1. graph'.ids[e[2]] \in 1..Len(graph.vertices) BY <1>2, EdgeWithin DEF Hangs
    <3> QED BY <1>2, <1>21, <3>1, DescriptorsKept
  <2>3. PICK u : u = graph'.ids[e[2]] OBVIOUS
  <2>4. Hangs(graph, u, graph'.ids[e[1]]) BY <2>3
  <2>5. \E i \in HostsTold : \E d \in PathEdges(ProcName[i]) : u = graph'.ids[d[1]] /\ e[1] = d[2]
    BY <1>3, <1>20, <1>21, <1>22, <1>23, <2>1, <2>4, AboveSystem
  <2>6. PICK i \in HostsTold : \E d \in PathEdges(ProcName[i]) :
                                  u = graph'.ids[d[1]] /\ e[1] = d[2]
    BY <2>5
  <2>7. PICK d \in PathEdges(ProcName[i]) : u = graph'.ids[d[1]] /\ e[1] = d[2] BY <2>6
  <2>8. ProcName[i] \in Hosts BY ProcHosts DEF HostsTold
  <2>9. d[1] \in Ids BY <2>7, <2>8, PathEdgeIds
  <2>10. e[2] = d[1] BY <1>3, <2>1, <2>2, <2>3, <2>7, <2>9, NamesDiffer
  <2> QED BY <1>8, <2>7, <2>8, <2>10, PathUpright
<1>25. ASSUME NEW id \in Ids, id[1] = "system", NEW k, NEW b
       PROVE  ~EdgeIs(graph, "GPU_INTERCONNECT", k, graph'.ids[id], b)
  <2> SUFFICES ASSUME EdgeIs(graph, "GPU_INTERCONNECT", k, graph'.ids[id], b) PROVE FALSE
    OBVIOUS
  <2>1. PICK u : u = graph'.ids[id] OBVIOUS
  <2>2. EdgeIs(graph, "GPU_INTERCONNECT", k, u, b) BY <2>1
  <2>3. PICK dev \in Ids : dev[1] = "bdfid" /\ u = graph.ids[dev] BY <2>2, LinksFromDevices
  <2>4. u \in 1..Len(graph.vertices) BY <1>2, <2>2, EdgeWithin
  <2>5. graph'.ids[dev] = u /\ u \in 1..Len(graph'.vertices)
    BY <1>2, <1>21, <2>3, <2>4, IdentifierKept
  <2>6. dev # id BY <1>25, <2>3
  <2> QED BY <1>3, <2>1, <2>3, <2>5, <2>6, NamesDiffer
<1>26. \A u, v : Hangs(nodes, u, v) <=> Hangs(graph, u, v)
  <2>1. nodes.edges = graph.edges BY <1>14 DEF Added
  <2> QED BY <2>1, SameEdgesHang
<1>27. HangsOnce(nodes) /\ \A t, k, u, v : EdgeIs(nodes, t, k, u, v) <=> EdgeIs(graph, t, k, u, v)
  <2>1. nodes.edges = graph.edges BY <1>14 DEF Added
  <2> QED BY <1>23, <2>1, SameEdgesHang DEF EdgesTold
<1>28. ~Hangs(nodes, s2, s1) /\ ~Hangs(nodes, s3, s2) /\ ~Hangs(nodes, s4, s3)
  <2>1. <<t1, t2>> \in PathEdges(host) /\ <<t2, t3>> \in PathEdges(host)
        /\ <<t3, t4>> \in PathEdges(host)
    BY <1>16
  <2>2. \A a, b : <<a, b>> \in PathEdges(host) =>
                    ~Hangs(graph, graph'.ids[b], graph'.ids[a])
    <3> TAKE a, b
    <3>1. <<a, b>>[1] = a /\ <<a, b>>[2] = b OBVIOUS
    <3> QED BY <1>24, <3>1
  <2> QED BY <1>19, <1>26, <2>1, <2>2
<1>29. /\ \A k, b : ~EdgeIs(nodes, "GPU_INTERCONNECT", k, s1, b)
       /\ \A k, b : ~EdgeIs(nodes, "GPU_INTERCONNECT", k, s2, b)
       /\ \A k, b : ~EdgeIs(nodes, "GPU_INTERCONNECT", k, s3, b)
  <2>1. \A id \in Ids : id[1] = "system" =>
          \A k, b : ~EdgeIs(nodes, "GPU_INTERCONNECT", k, nodes.ids[id], b)
    <3>1. \A id \in Ids : id[1] = "system" =>
            \A k, b : ~EdgeIs(graph, "GPU_INTERCONNECT", k, graph'.ids[id], b)
      BY <1>25
    <3>2. graph'.ids = nodes.ids BY <1>19
    <3> QED BY <1>27, <3>1, <3>2
  <2> QED BY <1>17, <2>1
<1>30. HangsOnce(graph') /\ \A a, b : Hangs(graph', a, b) <=>
         \/ Hangs(nodes, a, b) \/ (a = s1 /\ b = s2) \/ (a = s2 /\ b = s3) \/ (a = s3 /\ b = s4)
  <2> HIDE DEF s1, s2, s3, s4
  <2> QED BY <1>15, <1>18, <1>27, <1>28, <1>29, PathHangs
<1> DEFINE M == {<<s1, s2>>, <<s2, s3>>, <<s3, s4>>}
           none == {}
<1>31. \A u, v : <<u, v>> \in M <=> (u = s1 /\ v = s2) \/ (u = s2 /\ v = s3) \/ (u = s3 /\ v = s4)
  OBVIOUS
<1>32. \A u, v : <<u, v>> \in M <=>
         \E e \in PathEdges(host) : u = graph'.ids[e[1]] /\ v = graph'.ids[e[2]]
  BY <1>16, <1>19, <1>31
<1>33. \A u, v : <<u, v>> \notin none /\ (<<u, v>> \in none \cup M \cup none <=> <<u, v>> \in M)
  OBVIOUS
<1> HIDE DEF M, none
<1>34. \A u, v : Hangs(graph', u, v) <=> Hangs(graph, u, v) \/ <<u, v>> \in M
  BY <1>26, <1>30, <1>31
<1>35. \A u, v : NameEdge(u, v)' <=> NameEdge(u, v) \/ <<u, v>> \in M
  <2> TAKE u, v
  <2>1. NameEdge(u, v)' <=> \E i \in HostsTold' : \E e \in PathEdges(ProcName[i]) :
                              u = graph'.ids[e[1]] /\ v = graph'.ids[e[2]]
    BY DEF NameEdge
  <2>2. NameEdge(u, v) <=> \E i \in HostsTold : \E e \in PathEdges(ProcName[i]) :
                             u = graph'.ids[e[1]] /\ v = graph'.ids[e[2]]
    BY <1>3, <1>21, HostVerticesKept DEF NameEdge
  <2>3. <<u, v>> \in M <=> \E e \in PathEdges(ProcName[r]) :
                             u = graph'.ids[e[1]] /\ v = graph'.ids[e[2]]
    BY <1>8, <1>32
  <2> QED BY <1>8, <2>1, <2>2, <2>3
<1>36. \A u, v : TreeEdge(u, v)' <=> TreeEdge(u, v) BY <1>20, TreeEdgesKept
<1>37. EdgesTold'
  <2>1. \A u, v : Hangs(graph', u, v) <=>
                    Hangs(graph, u, v) \/ <<u, v>> \in none \cup M \cup none
    BY <1>33, <1>34
  <2>2. \A u, v : TreeEdge(u, v)' <=> TreeEdge(u, v) \/ <<u, v>> \in none
    BY <1>33, <1>36
  <2>3. \A u, v : <<u, v>> \in none => \E i \in Ranks : v = RankVertex(i)' BY <1>33
  <2> QED BY <1>2, <1>22, <1>23, <1>30, <1>35, <2>1, <2>2, <2>3, EdgesStep
<1>38. \A u, v : <<u, v>> \in M => \A i \in Ranks : u # RankVertex(i)' /\ v # RankVertex(i)'
  <2> SUFFICES ASSUME NEW e \in PathEdges(host), NEW i \in Ranks
               PROVE  graph'.ids[e[1]] # RankVertex(i)' /\ graph'.ids[e[2]] # RankVertex(i)'
    BY <1>32
  <2>1. e[1] \in Ids /\ e[2] \in Ids /\ e[1][1] # "mpi_rank" /\ e[2][1] # "mpi_rank"
    BY <1>8, PathEdgeIds
  <2>2. e[1] \in {t1, t2, t3, t4} /\ e[2] \in {t1, t2, t3, t4} BY <1>16
  <2>3. /\ graph'.ids[e[1]] \in 1..Len(graph'.vertices)
        /\ graph'.ids[e[2]] \in 1..Len(graph'.vertices)
    BY <1>15, <1>19, <2>2
  <2>4. <<"mpi_rank", i>> \in Ids /\ <<"mpi_rank", i>> # e[1] /\ <<"mpi_rank", i>> # e[2]
    BY <2>1, IdsOf
  <2>5. /\ graph'.ids[e[1]] # graph'.ids[<<"mpi_rank", i>>]
        /\ graph'.ids[e[2]] # graph'.ids[<<"mpi_rank", i>>]
    BY <1>3, <2>1, <2>3, <2>4, NamesDiffer
  <2> QED BY <2>5 DEF RankVertex
<1>39. RanksHang'
  <2>1. \A u, v : <<u, v>> \in M => \A i \in Ranks :
          u # RankVertex(i)' /\ (v = RankVertex(i)' => ~Attached(i))
    BY <1>38
  <2>2. \A i \in Ranks : \A u : <<u, RankVertex(i)'>> \notin M BY <1>38
  <2>3. \A i \in Ranks : Attached(i)' <=> Attached(i) \/ \E u : <<u, RankVertex(i)'>> \in M
    BY <1>4, <2>2
  <2>4. \A i \in Ranks : \A u, w :
          <<u, RankVertex(i)'>> \in M /\ <<w, RankVertex(i)'>> \in M => u = w
    BY <2>2
  <2>5. \A i \in Ranks : RankVertex(i)' # 1 /\ RankVertex(i)' # graph'.root
    BY <1>19, <1>22, <1>23 DEF RanksHang
  <2> QED BY <1>2, <1>22, <1>23, <1>34, <2>1, <2>3, <2>4, <2>5, RanksStep
<1>40. ObjectsOnce'
  <2>1. \A o \in Objects : \A u, v : At(graph', o, u) /\ At(graph', o, v) => u = v
    BY <1>20, <1>23 DEF ObjectsOnce
  <2> QED BY <2>1 DEF ObjectsOnce
<1>41. WalkFresh' BY <1>20, WalkKept
<1>42. DescendsPlain' BY <1>22, PlaceKept
<1> QED BY <1>37, <1>39, <1>40, <1>41, <1>42 DEF HierGraph

(* Nothing changes in the hierarchy.                                       *)
LEMMA IdleHier ==
  ASSUME IInv, Told, Told', HierGraph, WalkFresh, UNCHANGED <<graph, walk>>,
         HostsTold' = HostsTold, RanksTold' = RanksTold,
         \A i \in Ranks : Attached(i)' <=> Attached(i)
  PROVE  HierGraph' /\ WalkFresh' /\ \A i \in Ranks : RankVertex(i)' = RankVertex(i)
<1> DEFINE none == {}
<1>1. \A v, a : <<v, a>> \in none => a.of[1] # "hwloc" OBVIOUS
<1>2. GoodY(graph) BY Parts DEF GraphInv
<1>3. Added(graph, graph', none) BY <1>2, AddedReflexive
<1> HIDE DEF none
<1> QED BY <1>1, <1>3, AddedStep DEF Told

(* Every step of supermuc keeps the invariant.                             *)
LEMMA SupermucHier ==
  ASSUME IInv, Told, Told', LoopOnce, LocalsIdle, LinksTold, HierGraph, WalkFresh, DescendsPlain,
         SupermucNext, UNCHANGED <<walk, gpu, mpi, todo, inits>>
  PROVE  HierGraph' /\ WalkFresh' /\ DescendsPlain'
<1>1. /\ ControlInv /\ todo \in Seq(Modules) /\ "supermuc" \in Modules
      /\ Statuses = {"SUCCESS", "INIT_ERROR"} /\ NRanks \in Nat /\ smRank \in Nat
      /\ status \in [Modules -> Statuses \cup {"none"}]
  BY Parts, PlatformConstants DEF LoopInv, Modules, ControlInv, Statuses, SupermucTypeOK
<1>2. CASE SupermucAddHost BY <1>2, HostHier
<1>3. ASSUME NEW s \in Statuses, Return(current, s), current = "supermuc", phase = "running",
             UNCHANGED graph, HostsTold' = HostsTold
      PROVE  HierGraph' /\ WalkFresh' /\ DescendsPlain'
  <2>1. RanksTold' = RanksTold /\ \A i \in Ranks : Attached(i)' <=> Attached(i)
    <3>1. current # "mpi" /\ current \in Modules BY <1>1, <1>3
    <3> QED BY <1>3, <3>1, Bystander
  <2>2. HierGraph' /\ WalkFresh' /\ \A i \in Ranks : RankVertex(i)' = RankVertex(i)
    BY <1>3, <2>1, IdleHier
  <2> QED BY <2>2, PlaceKept
<1>4. CASE SupermucRefuses
  <2>1. /\ current = "supermuc" /\ phase = "running" /\ Return(current, "INIT_ERROR")
        /\ UNCHANGED graph /\ smRank' = smRank /\ smRank = 0
    BY <1>1, <1>4, Parts DEF SupermucRefuses, Running, LocalsIdle, Conforms
  <2>2. HostsTold' = HostsTold
    <3>1. ~Ran("supermuc") BY <1>1, <2>1 DEF LoopOnce, Ran
    <3>2. current' = "none" /\ status'["supermuc"] = "INIT_ERROR" BY <1>1, <2>1 DEF Return
    <3>3. \A i \in Ranks : ~(i < smRank) BY <1>1, <2>1 DEF Ranks
    <3> QED BY <2>1, <3>1, <3>2, <3>3 DEF HostsTold, Ran
  <2> QED BY <1>1, <1>3, <2>1, <2>2
<1>5. CASE SupermucReturn
  <2>1. /\ current = "supermuc" /\ phase = "running" /\ Return(current, "SUCCESS")
        /\ UNCHANGED graph /\ smRank = NRanks
    BY <1>5 DEF SupermucReturn, Running
  <2>2. HostsTold' = HostsTold
    <3>1. status'["supermuc"] = "SUCCESS" BY <1>1, <2>1 DEF Return
    <3>2. \A i \in Ranks : i < smRank BY <1>1, <2>1 DEF Ranks
    <3> QED BY <2>1, <3>1, <3>2 DEF HostsTold, Ran
  <2> QED BY <1>1, <1>3, <2>1, <2>2
<1> QED BY <1>2, <1>4, <1>5 DEF SupermucNext

------------------------------------------------------------------------------
(* The vertex of a rank that is added is new, and not the first.           *)
LEMMA NewRank ==
  ASSUME ToldExactly, mpi.rank \in Ranks, mpi.rank \notin RanksTold, env \in Envs
  PROVE  LET v == AddRank(graph).ids[RankId]
         IN v \notin 1..Len(graph.vertices) /\ v # 1 /\ v # NoVertex
<1> DEFINE f == AddVertexId(graph, MachineId)
           added == AddVertexId(f, RankId)
           v == added.ids[RankId]
<1>1. /\ RankId \in Ids /\ MachineId \in Ids /\ RankId # MachineId /\ GoodY(graph)
      /\ graph.ids[RankId] = NoVertex
  BY RankKnown, AddRankGrows DEF RankVertex, RankId, MachineId
<1>2. Len(graph.vertices) \in Nat BY <1>1, VertexRange
<1>3. /\ GoodY(f) /\ GrowsY(graph, f) /\ f.ids[MachineId] \in 1..Len(f.vertices)
  BY <1>1, AddVertexIdY
<1>4. f.ids[RankId] = NoVertex
  <2>1. CASE graph.ids[MachineId] # NoVertex BY <1>1, <2>1 DEF AddVertexId
  <2>2. CASE graph.ids[MachineId] = NoVertex
    <3>1. f = [AddVertex(graph) EXCEPT !.ids[MachineId] = Len(graph.vertices) + 1]
      BY <2>2 DEF AddVertexId
    <3>2. AddVertex(graph).ids = graph.ids /\ "ids" \in DOMAIN AddVertex(graph)
          /\ DOMAIN graph.ids = Ids
      BY <1>1 DEF AddVertex, GoodY, Good, GraphType
    <3> QED BY <1>1, <3>1, <3>2
  <2> QED BY <2>1, <2>2
<1>5. Len(f.vertices) \in Nat /\ Len(f.vertices) >= 1 /\ Len(f.vertices) >= Len(graph.vertices)
  <2>1. Len(f.vertices) \in Nat BY <1>3, VertexRange
  <2>2. \A u \in 1..Len(graph.vertices) : u \in 1..Len(f.vertices)
    BY <1>1, <1>3, DescriptorsKept
  <2>3. Len(graph.vertices) = 0 \/ Len(graph.vertices) \in 1..Len(graph.vertices) BY <1>2
  <2> QED BY <1>2, <1>3, <2>1, <2>2, <2>3
<1>6. v = Len(f.vertices) + 1 BY <1>1, <1>3, <1>4, NamedOrNew
<1>7. AddRank(graph).ids = added.ids
  <2> DEFINE typed == SetType(added, v, "MPIProcess")
  <2>1. GoodY(added) BY <1>1, <1>3, AddVertexIdY
  <2>2. typed.ids = added.ids /\ "ids" \in DOMAIN typed
    <3> HIDE DEF added, v
    <3> QED BY <2>1 DEF SetType, GoodY, Good, GraphType
  <2>3. AddRank(graph)
          = AddAdapter(typed, v, Adapter("mpi", mpi.rank, IF Pinned THEN {Mask} ELSE {}))
    BY DEF AddRank
  <2> HIDE DEF typed
  <2> QED BY <2>2, <2>3 DEF AddAdapter
<1> HIDE DEF f
<1> QED BY <1>2, <1>5, <1>6, <1>7 DEF NoVertex

(* Ranks keep their vertices while another one may get its own.            *)
LEMMA RanksKeptNew ==
  ASSUME ToldExactly, GrowsY(graph, graph'), NEW r \in Ranks, r \notin RanksTold,
         ToldExactly', RanksTold' = RanksTold \cup {r},
         RankVertex(r)' \notin 1..Len(graph.vertices)
  PROVE  /\ RanksKept /\ \A i \in Ranks : i # r => RankVertex(i)' = RankVertex(i)
         /\ \A i \in Ranks : i # r => RankVertex(i)' # RankVertex(r)'
         /\ RankVertex(r)' \in 1..Len(graph'.vertices)
<1>1. GoodY(graph) /\ GoodY(graph') BY DEF ToldExactly, Tells, Content
<1>2. RanksNamed /\ RanksNamed' BY RanksNamedNow, RanksNamedNext
<1>3. \A i \in Ranks : i \in RanksTold' => RankVertex(i)' \in 1..Len(graph'.vertices)
  BY <1>2 DEF RanksNamed
<1>4. \A i \in Ranks : i \notin RanksTold' => RankVertex(i)' = NoVertex
  BY <1>2 DEF RanksNamed
<1>5. \A i \in Ranks : <<"mpi_rank", i>> \in Ids BY IdsOf
<1>6. ASSUME NEW i \in Ranks, i # r PROVE RankVertex(i)' = RankVertex(i)
  <2>1. CASE i \in RanksTold
    <3>1. graph.ids[<<"mpi_rank", i>>] \in 1..Len(graph.vertices)
      BY <1>2, <2>1 DEF RanksNamed, RankVertex
    <3>2. graph'.ids[<<"mpi_rank", i>>] = graph.ids[<<"mpi_rank", i>>]
      BY <1>1, <1>5, <3>1, IdentifierKept
    <3> QED BY <3>2 DEF RankVertex
  <2>2. CASE i \notin RanksTold
    <3>1. i \notin RanksTold' BY <1>6, <2>2
    <3> QED BY <1>2, <1>4, <2>2, <3>1 DEF RanksNamed
  <2> QED BY <2>1, <2>2
<1>7. RankVertex(r) = NoVertex BY <1>2 DEF RanksNamed
<1>8. RanksKept
  <2> SUFFICES ASSUME NEW i \in Ranks
               PROVE  \/ RankVertex(i) # NoVertex /\ RankVertex(i)' = RankVertex(i)
                      \/ RankVertex(i) = NoVertex /\ RankVertex(i)' \notin 1..Len(graph.vertices)
    BY DEF RanksKept
  <2>1. NoVertex \notin 1..Len(graph.vertices) BY DEF NoVertex
  <2> QED BY <1>6, <1>7, <2>1
<1>9. RankVertex(r)' \in 1..Len(graph'.vertices) BY <1>3
<1>10. ASSUME NEW i \in Ranks, i # r PROVE RankVertex(i)' # RankVertex(r)'
  <2>1. graph'.ids[<<"mpi_rank", r>>] \in 1..Len(graph'.vertices) BY <1>9 DEF RankVertex
  <2>2. <<"mpi_rank", r>> # <<"mpi_rank", i>> BY <1>10
  <2>3. graph'.ids[<<"mpi_rank", r>>] # graph'.ids[<<"mpi_rank", i>>]
    BY <1>1, <1>5, <2>1, <2>2, NamesDiffer
  <2> QED BY <2>3 DEF RankVertex
<1> QED BY <1>6, <1>8, <1>9, <1>10

(* mpi adds a rank's vertex and, if it hangs it up at once, the edges N.   *)
LEMMA RankHier ==
  ASSUME IInv, Told, Told', LoopOnce, HierGraph, WalkFresh, UNCHANGED <<walk, todo, inits>>,
         Running("mpi"), Stay, mpi.stage = "ranks", mpi.rank < NRanks,
         \A i \in Ranks : i < mpi'.rank \/ (i = mpi'.rank /\ mpi'.stage = "descend")
                            <=> i < mpi.rank \/ i = mpi.rank,
         NEW g, g = AddRank(graph), GrowsY(g, graph'), graph'.vertices = g.vertices,
         graph'.ids = g.ids, graph'.root = g.root,
         NEW N, N \subseteq {<<g.ids[MachineId], g.ids[RankId]>>}, HangsOnce(graph'),
         \A a, b : Hangs(graph', a, b) <=> Hangs(g, a, b) \/ <<a, b>> \in N,
         \A i \in Ranks : Attached(i)' <=> Attached(i) \/ (i = mpi.rank /\ N # {})
  PROVE  HierGraph' /\ WalkFresh' /\ \A i \in Ranks : RankVertex(i)' # graph.root
<1>1. /\ ControlInv /\ todo \in Seq(Modules) /\ "mpi" \in Modules /\ env \in Envs
      /\ NRanks \in Nat /\ status \in [Modules -> Statuses \cup {"none"}]
      /\ mpi \in [stage : {"start", "ranks", "descend"}, cpusets : [Ranks -> SUBSET Nat],
                  rank : 0..NRanks, at : Nat]
      /\ mpi.rank \in Nat /\ mpi.rank <= NRanks /\ GoodY(graph) /\ RootSound
  BY Parts, PlatformConstants
     DEF LoopInv, Modules, ControlInv, MpiInv, MpiTypeOK, GraphInv
<1>2. current = "mpi" /\ phase = "running" /\ ~Ran("mpi") /\ current' = "mpi" /\ ~Ran("mpi")'
  BY <1>1 DEF Running, LoopOnce, Ran, Stay
<1>3. PICK r \in Ranks : r = mpi.rank BY <1>1 DEF Ranks
<1>4. r \notin RanksTold /\ RanksTold' = RanksTold \cup {r}
  <2>1. /\ \A i \in Ranks : i \in RanksTold <=> i < r
        /\ \A i \in Ranks : i \in RanksTold' <=> i < r \/ i = r
    BY <1>1, <1>2, <1>3, RanksToldSo
  <2>2. RanksTold \subseteq Ranks /\ RanksTold' \subseteq Ranks BY DEF RanksTold
  <2>3. ~(r < r) BY <1>1, <1>3
  <2> QED BY <2>1, <2>2, <2>3
<1>5. HostsTold' = HostsTold BY <1>1, <1>2, Bystander
<1>6. ToldExactly /\ ToldExactly' BY DEF Told
<1>7. /\ GrowsY(graph, g) /\ GoodY(g) /\ g.root = graph.root
      /\ g.ids[RankId] \in 1..Len(g.vertices) /\ g.ids[MachineId] \in 1..Len(g.vertices)
      /\ RankId \in Ids /\ MachineId \in Ids
  BY <1>1, <1>3, AddRankGrows
<1>8. GrowsY(graph, graph') /\ GoodY(graph')
  BY <1>1, <1>6, <1>7, GrowsYTransitive DEF ToldExactly, Tells, Content
<1>9. RankId = <<"mpi_rank", r>> /\ RankVertex(r)' = g.ids[RankId]
  BY <1>3 DEF RankId, RankVertex
<1>10. RankVertex(r)' \notin 1..Len(graph.vertices) /\ RankVertex(r)' # 1
  BY <1>1, <1>3, <1>4, <1>6, <1>9, NewRank
<1>11. /\ RanksKept /\ \A i \in Ranks : i # r => RankVertex(i)' = RankVertex(i)
       /\ \A i \in Ranks : i # r => RankVertex(i)' # RankVertex(r)'
  BY <1>4, <1>6, <1>8, <1>10, RanksKeptNew
<1>12. /\ \A o, w : At(graph', o, w) <=> At(graph, o, w)
       /\ \A a, b : Hangs(g, a, b) <=> Hangs(graph, a, b)
  <2> DEFINE x == Adapter("mpi", mpi.rank, IF Pinned THEN {Mask} ELSE {})
  <2>1. Added(graph, g, {<<g.ids[RankId], x>>})
    <3>1. GoodY(graph) /\ mpi.rank \in Ranks /\ env \in Envs BY <1>1, <1>3
    <3> DEFINE f == AddRank(graph)
    <3>2. Added(graph, f, {<<f.ids[RankId], x>>}) BY <3>1, AddRankAdds
    <3>3. g = f OBVIOUS
    <3> HIDE DEF f, x
    <3> QED BY <3>2, <3>3
  <2>2. x.of[1] = "mpi" BY DEF Adapter
  <2> HIDE DEF x
  <2> DEFINE B == {<<g.ids[RankId], x>>}
  <2>3. \A v, a : <<v, a>> \in B => a.of[1] # "hwloc" BY <2>2
  <2>4. Added(graph, g, B) BY <2>1
  <2> HIDE DEF B
  <2>7. \A o, w : At(g, o, w) <=> At(graph, o, w) BY ONLY <2>3, <2>4, ForeignAdded
  <2>8. \A o, w : At(graph', o, w) <=> At(g, o, w) BY AtSame
  <2>9. g.edges = graph.edges BY <2>4 DEF Added
  <2> QED BY <2>7, <2>8, <2>9, SameEdgesHang
<1>13. \A i \in Ranks : RankVertex(i)' # 1 /\ RankVertex(i)' # graph.root
  <2>1. \A i \in Ranks : i # r => RankVertex(i)' # 1 /\ RankVertex(i)' # graph.root
    BY <1>11 DEF HierGraph, RanksHang
  <2>2. DOMAIN graph.vertices = 1..Len(graph.vertices) BY <1>1, VertexRange
  <2>3. graph.root = 1 \/ graph.root \in 1..Len(graph.vertices) BY <1>1, <2>2 DEF RootSound
  <2> QED BY <1>10, <2>1, <2>3
<1>14. \A a, b : <<a, b>> \in N => a = graph'.ids[MachineId] /\ b = RankVertex(r)'
  BY <1>9
<1>15. \A i \in Ranks : graph'.ids[MachineId] # RankVertex(i)'
  <2> TAKE i \in Ranks
  <2>1. <<"mpi_rank", i>> \in Ids /\ MachineId # <<"mpi_rank", i>> BY IdsOf DEF MachineId
  <2>2. graph'.ids[MachineId] \in 1..Len(graph'.vertices) BY <1>7
  <2> QED BY <1>7, <1>8, <2>1, <2>2, NamesDiffer DEF RankVertex
<1>16. \A a, b : Hangs(graph', a, b) <=> Hangs(graph, a, b) \/ <<a, b>> \in N BY <1>12
<1>17. \A a, b : TreeEdge(a, b)' <=> TreeEdge(a, b) BY <1>12, TreeEdgesKept
<1>18. \A a, b : NameEdge(a, b)' <=> NameEdge(a, b) BY <1>5, <1>6, <1>8, NameEdgesKept
<1>19. EdgesTold'
  <2> DEFINE none == {}
  <2>1. /\ \A a, b : Hangs(graph', a, b) <=> Hangs(graph, a, b) \/ <<a, b>> \in none \cup none \cup N
        /\ \A a, b : TreeEdge(a, b)' <=> TreeEdge(a, b) \/ <<a, b>> \in none
        /\ \A a, b : NameEdge(a, b)' <=> NameEdge(a, b) \/ <<a, b>> \in none
    BY <1>16, <1>17, <1>18
  <2>2. \A a, b : <<a, b>> \in N => \E i \in Ranks : b = RankVertex(i)' BY <1>14
  <2> HIDE DEF none
  <2> QED BY <1>1, <1>11, <2>1, <2>2, EdgesStep DEF HierGraph
<1>20. RanksHang'
  <2>1. ~Attached(r)
    <3>1. ~(r < mpi.rank) BY <1>1, <1>3
    <3> QED BY <1>2, <3>1 DEF Attached
  <2>2. \A a, b : <<a, b>> \in N => \A i \in Ranks :
          a # RankVertex(i)' /\ (b = RankVertex(i)' => ~Attached(i))
    BY <1>11, <1>14, <1>15, <2>1
  <2>3. \A i \in Ranks : Attached(i)' <=> Attached(i) \/ \E a : <<a, RankVertex(i)'>> \in N
    <3>1. \A i \in Ranks : i # r => \A a : <<a, RankVertex(i)'>> \notin N BY <1>11, <1>14
    <3>2. N # {} <=> \E a : <<a, RankVertex(r)'>> \in N BY <1>9
    <3> QED BY <1>3, <3>1, <3>2
  <2>4. \A i \in Ranks : \A a, w :
          <<a, RankVertex(i)'>> \in N /\ <<w, RankVertex(i)'>> \in N => a = w
    BY <1>14
  <2>5. \A i \in Ranks : RankVertex(i)' # 1 /\ RankVertex(i)' # graph'.root BY <1>7, <1>13
  <2> QED BY <1>1, <1>11, <1>16, <2>2, <2>3, <2>4, <2>5, RanksStep DEF HierGraph
<1>21. ObjectsOnce' BY <1>12 DEF HierGraph, ObjectsOnce
<1>22. WalkFresh' BY <1>12, WalkKept
<1> QED BY <1>13, <1>19, <1>20, <1>21, <1>22 DEF HierGraph

(* A rank's vertex is an MPIProcess.                                       *)
LEMMA RankTyped ==
  ASSUME NEW g, Content(g), NEW i \in Ranks, g.ids[<<"mpi_rank", i>>] \in DOMAIN g.vertices
  PROVE  IsA(g.vertices[g.ids[<<"mpi_rank", i>>]].type, "MPIProcess")
<1> DEFINE id == <<"mpi_rank", i>>
<1>1. id \in Ids /\ id[1] = "mpi_rank" BY IdsOf
<1>2. g.ids[id] # NoVertex
  <2>1. DOMAIN g.vertices = 1..Len(g.vertices) BY VertexRange DEF Content
  <2> QED BY <2>1 DEF NoVertex
<1>3. Of(Elem(g, id)) # {} BY <1>1, <1>2 DEF Content
<1>4. Elem(g, id).type = "MPIProcess"
  <2>1. Elem(g, id).type = TypeFor(id, Of(Elem(g, id))) BY <1>1, FitsNow
  <2> QED BY <1>1, <1>3, <2>1 DEF TypeFor, Latest
<1>5. Elem(g, id) = g.vertices[g.ids[id]] BY <1>2 DEF Elem
<1>6. IsA("MPIProcess", "MPIProcess") BY IsAReflexive, AssignedTypes
<1> QED BY <1>4, <1>5, <1>6

(* The descent passes over ranks.                                          *)
LEMMA DescentPassesRanks ==
  ASSUME ToldExactly, NEW v \in LowerVertices, NEW i \in Ranks
  PROVE  RankVertex(i) # v
<1>1. GoodY(graph) /\ Content(graph) BY DEF ToldExactly, Tells, Content
<1>2. PICK k \in Candidates(graph, mpi.at, Mask) : v = graph.edges[k].target
  <2> DEFINE cs == Candidates(graph, mpi.at, Mask)
             least == {k \in cs : \A j \in cs : Count(graph, graph.edges[k].target)
                                                  <= Count(graph, graph.edges[j].target)}
  <2>1. \E k \in IF StableSort /\ least # {} THEN {Min(least)} ELSE least :
          v = graph.edges[k].target
    BY DEF LowerVertices, Lower
  <2>2. least \subseteq cs OBVIOUS
  <2>3. cs \subseteq DOMAIN graph.edges BY DEF Candidates
  <2>4. least # {} => Min(least) \in least
    <3>1. graph.edges \in Seq(EdgeType) BY <1>1 DEF GoodY, Good, GraphType
    <3>2. least \subseteq Nat BY <3>1, <2>2, <2>3
    <3> HIDE DEF least
    <3> QED BY <3>2, MinOfNaturals
  <2> HIDE DEF least, cs
  <2> QED BY <2>1, <2>2, <2>4 DEF cs
<1>3. /\ v \in DOMAIN graph.vertices /\ ~IsA(graph.vertices[v].type, "MPIProcess")
  BY <1>1, <1>2 DEF Candidates, GoodY, Good, EdgesSound
<1> QED BY <1>1, <1>3, RankTyped DEF RankVertex

(* Every step of mpi keeps the invariant.                                  *)
LEMMA MpiHier ==
  ASSUME IInv, Told, Told', LoopOnce, LocalsIdle, HierGraph, WalkFresh, DescendsPlain, First',
         MpiNext, UNCHANGED <<walk, gpu, smRank, todo, inits>>
  PROVE  HierGraph' /\ WalkFresh' /\ DescendsPlain'
<1>1. /\ ControlInv /\ todo \in Seq(Modules) /\ "mpi" \in Modules /\ env \in Envs
      /\ Statuses = {"SUCCESS", "INIT_ERROR"} /\ NRanks \in Nat
      /\ status \in [Modules -> Statuses \cup {"none"}]
      /\ mpi \in [stage : {"start", "ranks", "descend"}, cpusets : [Ranks -> SUBSET Nat],
                  rank : 0..NRanks, at : Nat]
      /\ mpi.rank \in Nat /\ mpi.rank <= NRanks /\ GoodY(graph)
  BY Parts, PlatformConstants
     DEF LoopInv, Modules, ControlInv, Statuses, MpiInv, MpiTypeOK, GraphInv
<1>2. ~MpiAssertFails BY DEF First, MpiAssertFails, Leave
<1>3. current = "mpi" /\ phase = "running" /\ ~Ran("mpi")
  <2>1. current = "mpi" /\ phase = "running"
    BY <1>2 DEF MpiNext, MpiRefuses, MpiGather, MpiAddRemote, MpiAddLocal, MpiDescend,
                MpiAttach, MpiReturn, Running
  <2> QED BY <1>1, <2>1 DEF LoopOnce, Ran
<1>4. ASSUME Stay PROVE current' = "mpi" /\ ~Ran("mpi")' BY <1>3, <1>4 DEF Stay, Ran
<1>5. ASSUME Stay \/ \E s \in Statuses : Return(current, s), RanksTold' = RanksTold,
             UNCHANGED graph, \A i \in Ranks : Attached(i)' <=> Attached(i)
      PROVE  HierGraph' /\ WalkFresh' /\ \A i \in Ranks : RankVertex(i)' = RankVertex(i)
  <2>1. HostsTold' = HostsTold BY <1>1, <1>3, <1>5, Bystander
  <2> QED BY <1>5, <2>1, IdleHier
<1>6. CASE MpiRefuses
  <2>1. /\ Return("mpi", "INIT_ERROR") /\ UNCHANGED <<graph, mpi>> /\ ~env.mpi
        /\ mpi.stage = "start" /\ mpi.rank = 0
    BY <1>3, <1>6 DEF MpiRefuses, LocalsIdle, MpiIdle
  <2>2. ~Ran("mpi")' /\ current' = "none" BY <1>1, <2>1 DEF Return, Ran
  <2>3. \A i \in Ranks : ~(i < mpi.rank) BY <1>1, <2>1 DEF Ranks
  <2>4. RanksTold = {} /\ RanksTold' = {} BY <1>3, <2>1, <2>2, <2>3 DEF RanksTold
  <2>5. \A i \in Ranks : Attached(i)' <=> Attached(i) BY <1>3, <2>2, <2>3 DEF Attached
  <2>6. HierGraph' /\ WalkFresh' BY <1>1, <1>3, <1>5, <2>1, <2>4, <2>5
  <2> QED BY <2>1, <2>6 DEF DescendsPlain
<1>7. CASE MpiGather
  <2>1. Stay /\ UNCHANGED graph /\ mpi.stage = "start" BY <1>7 DEF MpiGather
  <2>2. mpi'.stage = "ranks" /\ mpi'.rank = mpi.rank BY <1>1, <1>7 DEF MpiGather
  <2>3. RanksTold' = RanksTold
    BY <1>1, <1>3, <1>4, <2>1, <2>2, RanksToldSo DEF RanksTold
  <2>4. \A i \in Ranks : Attached(i)' <=> Attached(i) BY <1>3, <1>4, <2>1, <2>2 DEF Attached
  <2>5. HierGraph' /\ WalkFresh' BY <1>5, <2>1, <2>3, <2>4
  <2> QED BY <2>2, <2>5 DEF DescendsPlain
<1>8. CASE MpiDescend
  <2>1. Stay /\ UNCHANGED graph /\ mpi.stage = "descend" BY <1>8 DEF MpiDescend
  <2>2. PICK v \in LowerVertices : mpi' = [mpi EXCEPT !.at = v] BY <1>8 DEF MpiDescend
  <2>3. mpi'.stage = mpi.stage /\ mpi'.rank = mpi.rank /\ mpi'.at = v BY <1>1, <2>2
  <2>4. RanksTold' = RanksTold
    BY <1>1, <1>3, <1>4, <2>1, <2>3, RanksToldSo DEF RanksTold
  <2>5. \A i \in Ranks : Attached(i)' <=> Attached(i) BY <1>3, <1>4, <2>1, <2>3 DEF Attached
  <2>6. HierGraph' /\ WalkFresh' /\ \A i \in Ranks : RankVertex(i)' = RankVertex(i)
    BY <1>5, <2>1, <2>4, <2>5
  <2>7. \A i \in Ranks : RankVertex(i) # v BY DescentPassesRanks DEF Told
  <2> QED BY <2>3, <2>6, <2>7 DEF DescendsPlain
<1>9. CASE MpiReturn
  <2>1. /\ Return("mpi", "SUCCESS") /\ UNCHANGED graph /\ mpi' = MpiIdle
        /\ mpi.stage = "ranks" /\ mpi.rank = NRanks
    BY <1>9 DEF MpiReturn
  <2>2. Ran("mpi")' BY <1>1, <2>1 DEF Return, Ran
  <2>3. \A i \in Ranks : i < mpi.rank BY <1>1, <2>1 DEF Ranks
  <2>4. RanksTold' = Ranks /\ RanksTold = Ranks BY <1>3, <2>2, <2>3 DEF RanksTold
  <2>5. \A i \in Ranks : Attached(i)' <=> Attached(i) BY <1>3, <2>2, <2>3 DEF Attached
  <2>6. HierGraph' /\ WalkFresh' BY <1>1, <1>3, <1>5, <2>1, <2>4, <2>5
  <2> QED BY <2>1, <2>6 DEF DescendsPlain, MpiIdle
<1>10. CASE MpiAddLocal
  <2>1. /\ graph' = AddRank(graph) /\ mpi.stage = "ranks" /\ mpi.rank < NRanks /\ Stay
        /\ Running("mpi") /\ mpi'.rank = mpi.rank /\ mpi'.stage = "descend"
        /\ mpi'.at = graph.root
    BY <1>1, <1>10 DEF MpiAddLocal
  <2>2. mpi.rank \in Ranks BY <1>1, <2>1 DEF Ranks
  <2>3. GoodY(graph') BY <1>1, <2>1, <2>2, AddRankGrows
  <2> DEFINE g == AddRank(graph)
             none == {}
  <2>4. GrowsY(g, graph') BY <2>1, <2>3, GrowsYReflexive
  <2>5. HangsOnce(graph')
    <3> DEFINE x == Adapter("mpi", mpi.rank, IF Pinned THEN {Mask} ELSE {})
    <3>1. Added(graph, g, {<<g.ids[RankId], x>>}) BY <1>1, <2>2, AddRankAdds
    <3>2. graph'.edges = graph.edges BY <2>1, <3>1 DEF Added
    <3> QED BY <3>2, SameEdgesHang DEF HierGraph, EdgesTold
  <2>6. /\ \A a, b : Hangs(graph', a, b) <=> Hangs(g, a, b) \/ <<a, b>> \in none
        /\ none \subseteq {<<g.ids[MachineId], g.ids[RankId]>>}
        /\ \A i \in Ranks : Attached(i)' <=> Attached(i) \/ (i = mpi.rank /\ none # {})
    BY <1>3, <1>4, <2>1 DEF Attached
  <2>7. \A i \in Ranks : i < mpi'.rank \/ (i = mpi'.rank /\ mpi'.stage = "descend")
                           <=> i < mpi.rank \/ i = mpi.rank
    BY <2>1
  <2>8. /\ graph'.vertices = g.vertices /\ graph'.ids = g.ids /\ graph'.root = g.root
        /\ g = AddRank(graph)
    BY <2>1
  <2> HIDE DEF g, none
  <2>9. HierGraph' /\ WalkFresh' /\ \A i \in Ranks : RankVertex(i)' # graph.root
    BY <2>1, <2>4, <2>5, <2>6, <2>7, <2>8, RankHier
  <2> QED BY <2>1, <2>9 DEF DescendsPlain
<1>11. CASE MpiAddRemote
  <2> DEFINE g == AddRank(graph)
             u == g.ids[MachineId]
             v == g.ids[RankId]
  <2>1. /\ graph' = Link(g, u, v) /\ mpi.stage = "ranks" /\ mpi.rank < NRanks /\ Stay
        /\ Running("mpi") /\ mpi'.rank = mpi.rank + 1 /\ mpi'.stage = "ranks"
    BY <1>1, <1>11 DEF MpiAddRemote
  <2>2. mpi.rank \in Ranks BY <1>1, <2>1 DEF Ranks
  <2>3. GoodY(g) /\ u \in 1..Len(g.vertices) /\ v \in 1..Len(g.vertices)
    BY <1>1, <2>2, AddRankGrows
  <2>4. g.edges = graph.edges
    <3> DEFINE x == Adapter("mpi", mpi.rank, IF Pinned THEN {Mask} ELSE {})
    <3>1. Added(graph, g, {<<g.ids[RankId], x>>}) BY <1>1, <2>2, AddRankAdds
    <3> QED BY <3>1 DEF Added
  <2>5. mpi.rank \notin RanksTold
    <3>1. ~(mpi.rank < mpi.rank) BY <1>1
    <3> QED BY <1>3, <2>1, <3>1 DEF RanksTold
  <2>6. v \notin 1..Len(graph.vertices)
    BY <1>1, <2>2, <2>5, NewRank DEF Told
  <2>7. g = AddRank(graph) /\ u = g.ids[MachineId] /\ v = g.ids[RankId] OBVIOUS
  <2> HIDE DEF u, v, g
  <2>8. HangsOnce(g) /\ ~Hangs(g, u, v)
    <3>1. ~Hangs(graph, u, v) BY <1>1, <2>6, EdgeWithin DEF Hangs
    <3> QED BY <2>4, <3>1, SameEdgesHang DEF HierGraph, EdgesTold
  <2>9. /\ HangsOnce(graph')
        /\ \A a, b : Hangs(graph', a, b) <=> Hangs(g, a, b) \/ (a = u /\ b = v)
    BY <2>1, <2>3, <2>8, LinkHangs
  <2>10. GrowsY(g, graph') /\ graph'.vertices = g.vertices /\ graph'.ids = g.ids
         /\ graph'.root = g.root
    BY <2>1, <2>3, LinkY
  <2> DEFINE N == {<<u, v>>}
  <2>11. /\ \A a, b : Hangs(graph', a, b) <=> Hangs(g, a, b) \/ <<a, b>> \in N
         /\ N \subseteq {<<g.ids[MachineId], g.ids[RankId]>>} /\ N # {}
    BY <2>7, <2>9
  <2>12. \A i \in Ranks : i < mpi.rank + 1 <=> i < mpi.rank \/ i = mpi.rank BY <1>1 DEF Ranks
  <2> HIDE DEF N
  <2>13. \A i \in Ranks : Attached(i)' <=> Attached(i) \/ (i = mpi.rank /\ N # {})
    BY <1>3, <1>4, <2>1, <2>11, <2>12 DEF Attached
  <2>14. \A i \in Ranks : i < mpi'.rank \/ (i = mpi'.rank /\ mpi'.stage = "descend")
                            <=> i < mpi.rank \/ i = mpi.rank
    BY <2>1, <2>12
  <2>15. HierGraph' /\ WalkFresh'
    BY <2>1, <2>7, <2>9, <2>10, <2>11, <2>13, <2>14, RankHier
  <2> QED BY <2>1, <2>15 DEF DescendsPlain
<1>12. CASE MpiAttach
  <2>1. PICK r, u, v : r \in Ranks /\ r = mpi.rank /\ u = mpi.at /\ v = RankVertex(r)
    <3>1. mpi.rank < NRanks BY <1>12, Parts DEF MpiAttach, MpiInv, MpiSound
    <3> QED BY <1>1, <3>1 DEF Ranks
  <2>2. /\ Stay /\ mpi.stage = "descend" /\ graph' = Link(graph, u, v)
        /\ mpi'.stage = "ranks" /\ mpi'.rank = mpi.rank + 1
    BY <1>1, <1>12, <2>1 DEF MpiAttach, RankId, RankVertex
  <2>3. DOMAIN graph.vertices = 1..Len(graph.vertices) BY <1>1, VertexRange
  <2>4. u \in 1..Len(graph.vertices) /\ v \in 1..Len(graph.vertices)
    BY <2>1, <2>2, <2>3, Parts DEF MpiInv, MpiSound, RankId, RankVertex
  <2>5. ~Attached(r)
    <3>1. ~(r < mpi.rank) BY <1>1, <2>1
    <3> QED BY <1>3, <3>1 DEF Attached
  <2>6. ~Hangs(graph, u, v) BY <2>1, <2>5 DEF HierGraph, RanksHang
  <2>7. HangsOnce(graph) BY DEF HierGraph, EdgesTold
  <2>8. /\ HangsOnce(graph')
        /\ \A a, b : Hangs(graph', a, b) <=> Hangs(graph, a, b) \/ (a = u /\ b = v)
    BY <1>1, <2>2, <2>4, <2>6, <2>7, LinkHangs
  <2>9. GrowsY(graph, graph') /\ graph'.vertices = graph.vertices /\ graph'.ids = graph.ids
        /\ graph'.root = graph.root
    BY <1>1, <2>2, <2>4, LinkY
  <2>10. \A i \in Ranks : i < mpi.rank + 1 <=> i < mpi.rank \/ i = mpi.rank BY <1>1 DEF Ranks
  <2>11. RanksTold' = RanksTold
    <3>1. \A i \in Ranks : i \in RanksTold' <=> i \in RanksTold
      BY <1>1, <1>3, <1>4, <2>2, <2>10, RanksToldSo
    <3> QED BY <3>1 DEF RanksTold
  <2>12. HostsTold' = HostsTold BY <1>1, <1>3, <2>2, Bystander
  <2>13. RanksKept /\ \A i \in Ranks : RankVertex(i)' = RankVertex(i)
    BY <2>9, <2>11, RanksKeptSame DEF Told
  <2>14. \A o, w : At(graph', o, w) <=> At(graph, o, w) BY <2>9, AtSame
  <2> DEFINE N == {<<u, v>>}
             none == {}
  <2>15. \A a, b : <<a, b>> \in N <=> a = u /\ b = v OBVIOUS
  <2>16. /\ \A a, b : Hangs(graph', a, b) <=> Hangs(graph, a, b) \/ <<a, b>> \in N
         /\ \A a, b : Hangs(graph', a, b) <=> Hangs(graph, a, b) \/ <<a, b>> \in none \cup none \cup N
    BY <2>8, <2>15
  <2>17. /\ \A a, b : TreeEdge(a, b)' <=> TreeEdge(a, b) \/ <<a, b>> \in none
         /\ \A a, b : NameEdge(a, b)' <=> NameEdge(a, b) \/ <<a, b>> \in none
    <3>1. \A a, b : TreeEdge(a, b)' <=> TreeEdge(a, b) BY <2>14, TreeEdgesKept
    <3>2. \A a, b : NameEdge(a, b)' <=> NameEdge(a, b) BY <2>9, <2>12, NameEdgesKept DEF Told
    <3> QED BY <3>1, <3>2
  <2> HIDE DEF N, none
  <2>18. EdgesTold'
    <3>1. \A a, b : <<a, b>> \in N => \E i \in Ranks : b = RankVertex(i)'
      BY <2>1, <2>13, <2>15
    <3> QED BY <1>1, <2>8, <2>13, <2>16, <2>17, <3>1, EdgesStep DEF HierGraph
  <2>19. \A i \in Ranks : RankVertex(i)' = v <=> i = r
    <3>1. <<"mpi_rank", r>> \in Ids /\ \A i \in Ranks : <<"mpi_rank", i>> \in Ids BY <2>1, IdsOf
    <3>2. \A i \in Ranks : i # r => <<"mpi_rank", r>> # <<"mpi_rank", i>> OBVIOUS
    <3>3. GoodY(graph) /\ graph.ids[<<"mpi_rank", r>>] \in 1..Len(graph.vertices)
      BY <1>1, <2>1, <2>4 DEF RankVertex
    <3>4. \A i \in Ranks : i # r => graph.ids[<<"mpi_rank", r>>] # graph.ids[<<"mpi_rank", i>>]
      BY <3>1, <3>2, <3>3, NamesDiffer
    <3> QED BY <2>1, <2>13, <3>4 DEF RankVertex
  <2>20. \A i \in Ranks : u # RankVertex(i)' BY <2>1, <2>2, <2>13 DEF DescendsPlain
  <2>21. \A i \in Ranks : Attached(i)' <=> Attached(i) \/ i = r
    BY <1>3, <1>4, <2>1, <2>2, <2>10 DEF Attached
  <2>22. RanksHang'
    <3>1. \A a, b : <<a, b>> \in N => \A i \in Ranks :
            a # RankVertex(i)' /\ (b = RankVertex(i)' => ~Attached(i))
      BY <2>5, <2>15, <2>19, <2>20
    <3>2. \A i \in Ranks : Attached(i)' <=> Attached(i) \/ \E a : <<a, RankVertex(i)'>> \in N
      <4>1. \A i \in Ranks : (\E a : <<a, RankVertex(i)'>> \in N) <=> i = r
        <5>1. <<u, v>> \in N BY <2>15
        <5>2. ASSUME NEW w PROVE (\E a : <<a, w>> \in N) <=> w = v
          <6>1. \A a : <<a, w>> \in N => w = v BY <2>15
          <6> QED BY <5>1, <6>1
        <5> QED BY <2>19, <5>2
      <4> QED BY <2>21, <4>1
    <3>3. \A i \in Ranks : \A a, w :
            <<a, RankVertex(i)'>> \in N /\ <<w, RankVertex(i)'>> \in N => a = w
      BY <2>15
    <3>4. \A i \in Ranks : RankVertex(i)' # 1 /\ RankVertex(i)' # graph'.root
      BY <2>9, <2>13 DEF HierGraph, RanksHang
    <3> QED BY <1>1, <2>13, <2>16, <3>1, <3>2, <3>3, <3>4, RanksStep DEF HierGraph
  <2>23. ObjectsOnce' BY <2>14 DEF HierGraph, ObjectsOnce
  <2>24. WalkFresh' BY <2>14, WalkKept
  <2> QED BY <2>2, <2>18, <2>22, <2>23, <2>24 DEF HierGraph, DescendsPlain
<1> QED BY <1>2, <1>6, <1>7, <1>8, <1>9, <1>10, <1>11, <1>12 DEF MpiNext

(* A step of the loop of init() itself.                                    *)
LEMMA LoopHier ==
  ASSUME LibrariesAnswer, IInv, Told, Told', LoopOnce, LocalsIdle, HierGraph, WalkFresh,
         DescendsPlain, InitCall \/ CallModule \/ InitReturn
  PROVE  HierGraph' /\ WalkFresh' /\ DescendsPlain'
<1>1. /\ current = "none" /\ UNCHANGED <<graph, status, walk, gpu, smRank, mpi>>
      /\ NRanks \in Nat
  BY PlatformConstants DEF LoopOnce, InitCall, CallModule, InitReturn, Running, locals
<1>2. mpi = MpiIdle /\ smRank = 0 BY <1>1 DEF LocalsIdle
<1>3. \A i \in Ranks : ~(i < 0) BY <1>1 DEF Ranks
<1>4. \A m : Ran(m)' <=> Ran(m) BY <1>1 DEF Ran
<1>5. mpi.rank = 0 /\ mpi.stage = "start" BY <1>2 DEF MpiIdle
<1>6. HostsTold' = HostsTold BY <1>1, <1>2, <1>3, <1>4 DEF HostsTold
<1>7. RanksTold' = RanksTold BY <1>1, <1>3, <1>4, <1>5 DEF RanksTold
<1>8. \A i \in Ranks : Attached(i)' <=> Attached(i) BY <1>1, <1>3, <1>4, <1>5 DEF Attached
<1>9. HierGraph' /\ WalkFresh' BY <1>1, <1>6, <1>7, <1>8, IdleHier
<1>10. DescendsPlain' BY <1>1, <1>5 DEF DescendsPlain
<1> QED BY <1>9, <1>10

(* The empty graph satisfies it.                                           *)
LEMMA InitHier ==
  ASSUME Init
  PROVE  HierGraph /\ WalkFresh /\ DescendsPlain
<1>1. /\ graph = EmptyGraph(Ids) /\ current = "none" /\ walk = <<>> /\ mpi = MpiIdle
      /\ status = [m \in Modules |-> "none"]
  BY DEF Init, InterfaceInit, HwlocInit, MpiInit
<1>2. graph.edges = <<>> /\ graph.vertices = <<>> /\ graph.root = 1
      /\ \A id \in Ids : graph.ids[id] = NoVertex
  BY <1>1 DEF EmptyGraph
<1>3. DOMAIN graph.edges = {} /\ DOMAIN graph.vertices = {} /\ DOMAIN walk = {} BY <1>1, <1>2
<1>4. \A t, k, u, v : ~EdgeIs(graph, t, k, u, v) BY <1>3 DEF EdgeIs
<1>5. \A u, v : ~Hangs(graph, u, v) BY <1>4 DEF Hangs
<1>6. \A o, v : ~At(graph, o, v) BY <1>3 DEF At, HoldsAt
<1>7. \A m \in Modules : ~Ran(m) BY <1>1 DEF Ran
<1>8. HostsTold = {} /\ \A i : ~Attached(i)
  BY <1>1, <1>7 DEF HostsTold, Attached, Modules
<1>9. HangsOnce(graph) BY <1>4, <1>5 DEF HangsOnce
<1>10. EdgesTold BY <1>5, <1>6, <1>8, <1>9 DEF EdgesTold, TreeEdge, NameEdge
<1>11. RanksHang
  <2>1. \A i \in Ranks : RankVertex(i) = 0 BY <1>2, IdsOf DEF RankVertex, NoVertex
  <2> QED BY <1>2, <1>5, <1>8, <2>1 DEF RanksHang
<1>12. ObjectsOnce BY <1>6 DEF ObjectsOnce
<1>13. WalkFresh BY <1>3, <1>6 DEF WalkFresh, Found
<1>14. DescendsPlain BY <1>1 DEF DescendsPlain, MpiIdle
<1> QED BY <1>10, <1>11, <1>12, <1>13, <1>14 DEF HierGraph

(* The fourth inductive invariant.                                         *)
LEMMA HierStep ==
  ASSUME LibrariesAnswer, IInv, FirstInv, LinkInv, HierInv, FirstInv', [Next]_vars
  PROVE  HierInv'
<1> SUFFICES ASSUME First' PROVE HierGraph' /\ WalkFresh' /\ DescendsPlain'
  BY DEF HierInv
<1>1. First BY FirstBefore
<1>2. /\ Told /\ LoopOnce /\ LocalsIdle /\ LinksTold /\ Told'
      /\ HierGraph /\ WalkFresh /\ DescendsPlain
  BY <1>1 DEF FirstInv, LinkInv, HierInv
<1>3. CASE InitCall \/ CallModule \/ InitReturn BY <1>2, <1>3, LoopHier
<1>4. CASE HwlocNext /\ UNCHANGED <<gpu, smRank, mpi, todo, inits>> BY <1>2, <1>4, HwlocHier
<1>5. CASE GpuNext /\ UNCHANGED <<walk, smRank, mpi, todo, inits>> BY <1>2, <1>5, GpuHier
<1>6. CASE SupermucNext /\ UNCHANGED <<walk, gpu, mpi, todo, inits>>
  BY <1>2, <1>6, SupermucHier
<1>7. CASE MpiNext /\ UNCHANGED <<walk, gpu, smRank, todo, inits>> BY <1>2, <1>7, MpiHier
<1>8. CASE UNCHANGED vars
  <2>1. UNCHANGED <<graph, current, status, walk, smRank, mpi>>
    BY <1>8 DEF vars, interface
  <2>2. \A m : Ran(m)' <=> Ran(m) BY <2>1 DEF Ran
  <2>3. /\ HostsTold' = HostsTold /\ RanksTold' = RanksTold
        /\ \A i \in Ranks : Attached(i)' <=> Attached(i)
    BY <2>1, <2>2 DEF HostsTold, RanksTold, Attached
  <2>4. HierGraph' /\ WalkFresh' BY <1>2, <2>1, <2>3, IdleHier
  <2>5. DescendsPlain' BY <1>2, <2>1 DEF DescendsPlain, RankVertex
  <2> QED BY <2>4, <2>5
<1> QED BY <1>3, <1>4, <1>5, <1>6, <1>7, <1>8 DEF Next, InitStep, ModuleStep

(* It holds in every state of the first init().                            *)
LEMMA HierInvariance ==
  ASSUME LibrariesAnswer
  PROVE  Spec => []HierInv
<1>1. Init => HierInv BY InitHier DEF HierInv
<1>2. IInv /\ FirstInv /\ LinkInv /\ HierInv /\ FirstInv' /\ [Next]_vars => HierInv'
  BY HierStep
<1> QED BY <1>1, <1>2, Invariance, FirstInvariance, LinkInvariance, PTL DEF Spec

------------------------------------------------------------------------------
(* The forest.  Sys(n) are the vertices of the prefixes of n fields, Mach  *)
(* those of the hosts, of the names supermuc has told.                     *)
Sys(n) == {graph.ids[<<"system", Truncate(ProcName[i], n)>>] : i \in HostsTold}
Mach == {graph.ids[<<"machine", ProcName[i]>>] : i \in HostsTold}

(* An edge between names goes one field further, or to a machine.          *)
LEMMA NameEdgeEnds ==
  ASSUME NEW u, NEW v, NameEdge(u, v)
  PROVE  \/ u \in Sys(1) /\ v \in Sys(2)
         \/ u \in Sys(2) /\ v \in Sys(3)
         \/ u \in Sys(3) /\ v \in Mach
<1>1. PICK i \in HostsTold : \E e \in PathEdges(ProcName[i]) :
        u = graph.ids[e[1]] /\ v = graph.ids[e[2]]
  BY DEF NameEdge
<1> QED BY <1>1 DEF PathEdges, Sys, Mach

(* The vertices of names of different lengths, of machines and of ranks    *)
(* are different ones.                                                     *)
LEMMA NamesApart ==
  ASSUME Told, NEW v
  PROVE  /\ \A m, n \in 1..3 : v \in Sys(m) /\ v \in Sys(n) => m = n
         /\ \A n \in 1..3 : ~(v \in Sys(n) /\ v \in Mach)
         /\ \A i \in Ranks : v \in Mach \/ (\E n \in 1..3 : v \in Sys(n)) => v # RankVertex(i)
<1>1. GoodY(graph) /\ ToldExactly BY DEF Told, ToldExactly, Tells, Content
<1>2. \A i \in HostsTold : i \in Ranks /\ ProcName[i] \in Hosts BY ProcHosts DEF HostsTold
<1>3. ASSUME NEW i \in HostsTold
      PROVE  /\ <<"machine", ProcName[i]>> \in PathIds(ProcName[i])
             /\ \A n \in 1..3 : <<"system", Truncate(ProcName[i], n)>> \in PathIds(ProcName[i])
  BY DEF PathIds
<1>4. ASSUME NEW i \in HostsTold, NEW id \in PathIds(ProcName[i]), v = graph.ids[id]
      PROVE  v \in 1..Len(graph.vertices) /\ id \in Ids
  BY <1>1, <1>4, HostKnown
<1>5. ASSUME NEW id1 \in Ids, NEW id2 \in Ids, v = graph.ids[id1], v = graph.ids[id2],
             v \in 1..Len(graph.vertices)
      PROVE  id1 = id2
  BY <1>1, <1>5, NamesDiffer
<1>6. ASSUME NEW m \in 1..3, NEW n \in 1..3, v \in Sys(m), v \in Sys(n) PROVE m = n
  <2>1. PICK i \in HostsTold : v = graph.ids[<<"system", Truncate(ProcName[i], m)>>]
    BY <1>6 DEF Sys
  <2>2. PICK j \in HostsTold : v = graph.ids[<<"system", Truncate(ProcName[j], n)>>]
    BY <1>6 DEF Sys
  <2>3. <<"system", Truncate(ProcName[i], m)>> = <<"system", Truncate(ProcName[j], n)>>
    BY <1>3, <1>4, <1>5, <2>1, <2>2
  <2>4. Truncate(ProcName[i], m) = Truncate(ProcName[j], n) BY <2>3
  <2>5. m <= m /\ n <= n OBVIOUS
  <2>6. Len(Truncate(ProcName[i], m)) = m /\ Len(Truncate(ProcName[j], n)) = n
    BY <1>2, <2>5, TruncateTwice
  <2> QED BY <2>4, <2>6
<1>7. ASSUME NEW n \in 1..3, v \in Sys(n), v \in Mach PROVE FALSE
  <2>1. PICK i \in HostsTold : v = graph.ids[<<"system", Truncate(ProcName[i], n)>>]
    BY <1>7 DEF Sys
  <2>2. PICK j \in HostsTold : v = graph.ids[<<"machine", ProcName[j]>>]
    BY <1>7 DEF Mach
  <2>3. <<"system", Truncate(ProcName[i], n)>> = <<"machine", ProcName[j]>>
    BY <1>3, <1>4, <1>5, <2>1, <2>2
  <2> QED BY <2>3
<1>8. ASSUME NEW i \in Ranks, v \in Mach \/ (\E n \in 1..3 : v \in Sys(n)), v = RankVertex(i)
      PROVE  FALSE
  <2>1. PICK j \in HostsTold : \E id \in PathIds(ProcName[j]) : v = graph.ids[id]
    BY <1>3, <1>8 DEF Sys, Mach
  <2>4. PICK id \in PathIds(ProcName[j]) : v = graph.ids[id] BY <2>1
  <2>2. <<"mpi_rank", i>> \in Ids BY IdsOf
  <2>3. id = <<"mpi_rank", i>> BY <1>4, <1>5, <1>8, <2>2, <2>4 DEF RankVertex
  <2> QED BY <2>3 DEF PathIds
<1> QED BY <1>6, <1>7, <1>8

(* What hangs below an object of the topology has no name but a device's.  *)
LEMMA NotInTree ==
  ASSUME Told, NEW u, NEW v, TreeEdge(u, v)
  PROVE  v \notin Mach /\ \A n \in 1..3 : v \notin Sys(n)
<1>1. Content(graph) BY DEF Told, ToldExactly, Tells
<1>2. PICK o \in Objects : \E k \in DOMAIN Children[o] :
        At(graph, o, u) /\ At(graph, Children[o][k], v)
  BY DEF TreeEdge
<1>3. PICK k \in DOMAIN Children[o] : At(graph, Children[o][k], v) BY <1>2
<1>4. PICK c \in Objects : c = Children[o][k] /\ c # MachineObj
  BY TopologyConstants, TopologyTree
<1>5. \A i \in HostsTold : ProcName[i] \in Hosts BY ProcHosts DEF HostsTold
<1>6. ASSUME v \in Mach PROVE FALSE
  <2>1. PICK i \in HostsTold : v = graph.ids[<<"machine", ProcName[i]>>] BY <1>6 DEF Mach
  <2>2. <<"machine", ProcName[i]>> \in Ids BY <1>5, IdsOf
  <2>3. Belongs(<<"machine", ProcName[i]>>, <<"hwloc", c>>)
    BY <1>1, <1>3, <1>4, <2>1, <2>2, NativeAt
  <2> QED BY <1>4, <2>3, HwlocBelongs DEF HwlocId
<1>7. ASSUME NEW n \in 1..3, v \in Sys(n) PROVE FALSE
  <2>1. PICK i \in HostsTold : v = graph.ids[<<"system", Truncate(ProcName[i], n)>>]
    BY <1>7 DEF Sys
  <2>2. <<"system", Truncate(ProcName[i], n)>> \in Ids BY <1>5, PrefixOfHost, IdsOf
  <2>3. \A x : <<"system", x>>[1] = "system" OBVIOUS
  <2> QED BY <1>1, <1>3, <1>4, <2>1, <2>2, <2>3, NotAtSystem
<1> QED BY <1>6, <1>7

(* What a named vertex hangs below is the next shorter name; any other     *)
(* vertex hangs below an object or is a rank.                              *)
LEMMA AboveNames ==
  ASSUME Told, HierGraph, NEW u, NEW v, Hangs(graph, u, v)
  PROVE  /\ v \notin Sys(1)
         /\ v \in Sys(2) => u \in Sys(1)
         /\ v \in Sys(3) => u \in Sys(2)
         /\ v \in Mach => u \in Sys(3)
         /\ v \notin Mach /\ (\A n \in 1..3 : v \notin Sys(n)) =>
              TreeEdge(u, v) \/ \E i \in Ranks : v = RankVertex(i)
<1>1. TreeEdge(u, v) \/ NameEdge(u, v) \/ \E i \in Ranks : v = RankVertex(i)
  BY DEF HierGraph, EdgesTold
<1>2. /\ \A m, n \in 1..3 : v \in Sys(m) /\ v \in Sys(n) => m = n
      /\ \A n \in 1..3 : ~(v \in Sys(n) /\ v \in Mach)
      /\ \A i \in Ranks : v \in Mach \/ (\E n \in 1..3 : v \in Sys(n)) => v # RankVertex(i)
  BY NamesApart
<1>3. {1, 2, 3} \subseteq 1..3 OBVIOUS
<1>4. CASE TreeEdge(u, v) BY <1>3, <1>4, NotInTree
<1>5. CASE NameEdge(u, v)
  <2>1. \/ u \in Sys(1) /\ v \in Sys(2)
        \/ u \in Sys(2) /\ v \in Sys(3)
        \/ u \in Sys(3) /\ v \in Mach
    BY <1>5, NameEdgeEnds
  <2> QED BY <1>2, <1>3, <2>1
<1>6. CASE \E i \in Ranks : v = RankVertex(i) BY <1>2, <1>3, <1>6
<1> QED BY <1>1, <1>4, <1>5, <1>6

(* No vertex hangs below two.                                              *)
LEMMA OneParent ==
  ASSUME Told, HierGraph, NEW u, NEW w, NEW v, Hangs(graph, u, v), Hangs(graph, w, v)
  PROVE  u = w
<1>1. Content(graph) /\ GoodY(graph) /\ ToldExactly BY DEF Told, ToldExactly, Tells, Content
<1>2. CASE \E i \in Ranks : v = RankVertex(i) BY <1>2 DEF HierGraph, RanksHang
<1>3. CASE TreeEdge(u, v) /\ TreeEdge(w, v)
  <2>1. PICK o \in Objects : \E k \in DOMAIN Children[o] :
          At(graph, o, u) /\ At(graph, Children[o][k], v)
    BY <1>3 DEF TreeEdge
  <2>2. PICK k \in DOMAIN Children[o] : At(graph, o, u) /\ At(graph, Children[o][k], v) BY <2>1
  <2>3. PICK p \in Objects : \E l \in DOMAIN Children[p] :
          At(graph, p, w) /\ At(graph, Children[p][l], v)
    BY <1>3 DEF TreeEdge
  <2>4. PICK l \in DOMAIN Children[p] : At(graph, p, w) /\ At(graph, Children[p][l], v) BY <2>3
  <2>5. Children[o][k] \in Objects /\ Children[p][l] \in Objects BY TopologyConstants
  <2>6. Children[o][k] = Children[p][l] BY <1>1, <2>2, <2>4, <2>5, OneObject
  <2>7. o = p BY <2>6, TopologyTree
  <2> QED BY <2>2, <2>4, <2>7 DEF HierGraph, ObjectsOnce
<1>4. CASE NameEdge(u, v) /\ NameEdge(w, v)
  <2>1. PICK i \in HostsTold : \E d \in PathEdges(ProcName[i]) :
          u = graph.ids[d[1]] /\ v = graph.ids[d[2]]
    BY <1>4 DEF NameEdge
  <2>2. PICK d \in PathEdges(ProcName[i]) : u = graph.ids[d[1]] /\ v = graph.ids[d[2]] BY <2>1
  <2>3. PICK j \in HostsTold : \E e \in PathEdges(ProcName[j]) :
          w = graph.ids[e[1]] /\ v = graph.ids[e[2]]
    BY <1>4 DEF NameEdge
  <2>4. PICK e \in PathEdges(ProcName[j]) : w = graph.ids[e[1]] /\ v = graph.ids[e[2]] BY <2>3
  <2>5. ProcName[i] \in Hosts /\ ProcName[j] \in Hosts BY ProcHosts DEF HostsTold
  <2>6. d[2] \in PathIds(ProcName[i]) /\ e[2] \in PathIds(ProcName[j])
    BY <2>5, PathEdgeIds
  <2>7. d[2] \in Ids /\ e[2] \in Ids /\ v \in 1..Len(graph.vertices)
    BY <1>1, <2>2, <2>6, HostKnown
  <2>8. d[2] \in Ids /\ e[2] \in Ids BY <1>1, <2>6, HostKnown
  <2>9. d[2] = e[2] BY <1>1, <2>2, <2>4, <2>7, <2>8, NamesDiffer
  <2>10. d[1] = e[1] BY <2>5, <2>9, PathEdgesAgree
  <2> QED BY <2>2, <2>4, <2>10
<1>5. ASSUME NEW x, NEW y, TreeEdge(x, v), NameEdge(y, v) PROVE FALSE
  <2>1. v \in Sys(2) \/ v \in Sys(3) \/ v \in Mach BY <1>5, NameEdgeEnds
  <2>2. {1, 2, 3} \subseteq 1..3 OBVIOUS
  <2> QED BY <1>5, <2>1, <2>2, NotInTree
<1> QED BY <1>2, <1>3, <1>4, <1>5 DEF HierGraph, EdgesTold

(* No loop: of any vertices, one hangs below none of them.  The names are  *)
(* above the machines, these and the objects above what is inside them,    *)
(* and nothing is below a rank.                                            *)
LEMMA SomeTop ==
  ASSUME Told, HierGraph, NEW S, S # {}
  PROVE  \E v \in S : \A u \in S : ~Hangs(graph, u, v)
<1>1. Content(graph) BY DEF Told, ToldExactly, Tells
<1>2. {1, 2, 3} = 1..3 OBVIOUS
<1>3. CASE \E v \in S : v \in Sys(1) BY <1>3, AboveNames
<1>4. CASE (\A v \in S : v \notin Sys(1)) /\ \E v \in S : v \in Sys(2)
  BY <1>4, AboveNames
<1>5. CASE (\A v \in S : v \notin Sys(2)) /\ \E v \in S : v \in Sys(3)
  BY <1>5, AboveNames
<1>6. CASE (\A v \in S : v \notin Sys(3)) /\ \E v \in S : v \in Mach
  BY <1>6, AboveNames
<1>7. CASE \A v \in S : v \notin Mach /\ \A n \in 1..3 : v \notin Sys(n)
  <2> SUFFICES ASSUME \A v \in S : \E u \in S : Hangs(graph, u, v) PROVE FALSE
    OBVIOUS
  <2> DEFINE IsRank(v) == \E i \in Ranks : v = RankVertex(i)
             T == {v \in S : ~IsRank(v)}
             O == {o \in Objects : \E v \in T : At(graph, o, v)}
  <2>1. ASSUME NEW v \in T PROVE \E u \in T : TreeEdge(u, v)
    <3>1. PICK u \in S : Hangs(graph, u, v) OBVIOUS
    <3>2. ~IsRank(u) BY <3>1 DEF HierGraph, RanksHang
    <3>3. TreeEdge(u, v) BY <1>7, <3>1, AboveNames
    <3> QED BY <3>2, <3>3
  <2>2. T # {}
    <3>1. PICK v \in S : TRUE OBVIOUS
    <3>2. PICK u \in S : Hangs(graph, u, v) OBVIOUS
    <3>3. ~IsRank(u) BY <3>2 DEF HierGraph, RanksHang
    <3> QED BY <3>3
  <2> HIDE DEF T
  <2>3. \A o \in O : \E p \in O : \E k \in DOMAIN Children[p] : o = Children[p][k]
    <3> SUFFICES ASSUME NEW o \in O
                 PROVE  \E p \in O : \E k \in DOMAIN Children[p] : o = Children[p][k]
      OBVIOUS
    <3>1. PICK v \in T : At(graph, o, v) OBVIOUS
    <3>2. PICK u \in T : TreeEdge(u, v) BY <2>1
    <3>3. PICK p \in Objects : \E k \in DOMAIN Children[p] :
            At(graph, p, u) /\ At(graph, Children[p][k], v)
      BY <3>2 DEF TreeEdge
    <3>4. PICK k \in DOMAIN Children[p] : At(graph, p, u) /\ At(graph, Children[p][k], v)
      BY <3>3
    <3>5. Children[p][k] \in Objects BY TopologyConstants
    <3>6. o = Children[p][k] BY <1>1, <3>1, <3>4, <3>5, OneObject
    <3> QED BY <3>4, <3>6
  <2>4. O # {}
    <3>1. PICK v \in T : TRUE BY <2>2
    <3>2. PICK u \in T : TreeEdge(u, v) BY <2>1
    <3> QED BY <3>2 DEF TreeEdge
  <2>5. O \subseteq Objects OBVIOUS
  <2> HIDE DEF O
  <2>6. MachineObj \notin O BY <2>3, <2>5, TopologyTree
  <2>7. \A q \in Objects \ O : \A k \in DOMAIN Children[q] : Children[q][k] \in Objects \ O
    <3> SUFFICES ASSUME NEW q \in Objects \ O, NEW k \in DOMAIN Children[q], Children[q][k] \in O
                 PROVE  FALSE
      BY TopologyConstants
    <3>1. PICK p \in O : \E l \in DOMAIN Children[p] : Children[q][k] = Children[p][l] BY <2>3
    <3> QED BY <2>5, <3>1, TopologyTree
  <2>8. Objects \ O = Objects
    <3>1. Objects \ O \in SUBSET Objects /\ MachineObj \in Objects \ O
      BY <2>6, TopologyConstants
    <3> QED BY <2>7, <3>1, TopologyShape
  <2> QED BY <2>4, <2>5, <2>8
<1> QED BY <1>2, <1>3, <1>4, <1>5, <1>6, <1>7

(* Induction, from the library's theorem that < is well-founded.           *)
LEMMA InductionOnNat ==
  ASSUME NEW S, 0 \in S, \A n \in Nat : n \in S => n + 1 \in S
  PROVE  Nat \subseteq S
<1> DEFINE Less == OpToRel(<, Nat)
           Left == Nat \ S
<1> SUFFICES ASSUME Left # {} PROVE FALSE
  OBVIOUS
<1>1. IsWellFoundedOn(Less, Nat) BY NatLessThanWellFounded
<1>2. \A x, y \in Nat : x < y => <<x, y>> \in Less BY DEF OpToRel
<1>3. Left \subseteq Nat /\ \A m \in Nat : m \in Left <=> m \notin S OBVIOUS
<1> HIDE DEF Less, Left
<1>4. PICK n \in Left : \A m \in Left : ~(<<m, n>> \in Less) BY <1>1, <1>3, WFMin
<1>5. n \in Nat /\ n # 0 BY <1>3, <1>4
<1>6. n - 1 \in Nat /\ n - 1 < n /\ (n - 1) + 1 = n BY <1>5
<1>7. n - 1 \notin Left BY <1>2, <1>4, <1>5, <1>6
<1> QED BY <1>3, <1>4, <1>6, <1>7

(* Reached is the last of the sets its recursion goes through.             *)
LEMMA ReachedSteps ==
  ASSUME Len(graph.vertices) \in Nat
  PROVE  \E f : /\ f[Len(graph.vertices)] = Reached
                /\ f[0] = {v \in Vertices : Parents(v) = {}}
                /\ \A k \in 1..Len(graph.vertices) :
                     f[k] = f[k - 1] \cup {v \in Vertices : Parents(v) \cap f[k - 1] # {}}
<1> DEFINE N == Len(graph.vertices)
           Tops == {v \in Vertices : Parents(v) = {}}
           Further(S) == S \cup {v \in Vertices : Parents(v) \cap S # {}}
           Upto(f, n) == f = [k \in 0..n |-> IF k = 0 THEN Tops ELSE Further(f[k - 1])]
           Built == {n \in Nat : \E f : Upto(f, n)}
           reach == CHOOSE f : Upto(f, N)
<1>1. Reached = reach[N] BY DEF Reached
<1> HIDE DEF Further, Tops
<1>2. 0 \in Built
  <2>1. Upto([k \in 0..0 |-> Tops], 0) OBVIOUS
  <2> QED BY <2>1
<1>3. ASSUME NEW n \in Nat, n \in Built PROVE n + 1 \in Built
  <2>1. PICK f : Upto(f, n) BY <1>3
  <2> DEFINE g == [k \in 0 .. n + 1 |-> IF k = n + 1 THEN Further(f[n]) ELSE f[k]]
             h == [k \in 0 .. n + 1 |-> IF k = 0 THEN Tops ELSE Further(g[k - 1])]
  <2>2. ASSUME NEW k \in 0 .. n + 1 PROVE g[k] = IF k = 0 THEN Tops ELSE Further(g[k - 1])
    <3>1. CASE k = n + 1
      <4>1. g[k - 1] = f[n] /\ k # 0 BY <3>1
      <4> QED BY <3>1, <4>1
    <3>2. CASE k # n + 1
      <4>1. k \in 0..n /\ g[k] = f[k] BY <3>2
      <4>2. k # 0 => k - 1 \in 0..n /\ g[k - 1] = f[k - 1] BY <4>1
      <4> QED BY <2>1, <4>1, <4>2
    <3> QED BY <3>1, <3>2
  <2>3. \A k \in 0 .. n + 1 : g[k] = h[k] BY <2>2
  <2>4. g = h
    <3>1. DOMAIN g = 0 .. n + 1 /\ DOMAIN h = 0 .. n + 1 OBVIOUS
    <3> QED BY <2>3, <3>1
  <2>5. Upto(g, n + 1) BY <2>4
  <2> HIDE DEF Upto, g
  <2> QED BY <2>5
<1>4. N \in Built
  <2> HIDE DEF Built
  <2> QED BY <1>2, <1>3, InductionOnNat
<1>5. \E f : Upto(f, N) BY <1>4
<1>6. Upto(reach, N)
  <2> HIDE DEF Upto
  <2> QED BY <1>5
<1> HIDE DEF reach
<1>7. reach[0] = Tops BY <1>6
<1>8. ASSUME NEW k \in 1..N PROVE reach[k] = Further(reach[k - 1])
  <2>1. k \in 0..N /\ k # 0 OBVIOUS
  <2> QED BY <1>6, <2>1
<1>9. reach[N] = Reached /\ reach[0] = Tops /\ \A k \in 1..N : reach[k] = Further(reach[k - 1])
  BY <1>1, <1>7, <1>8
<1> QED BY <1>9 DEF Tops, Further

(* Every vertex is reached from those without parents: each round reaches  *)
(* another one as long as any are left.                                    *)
LEMMA AllReached ==
  ASSUME Told, HierGraph
  PROVE  Reached = Vertices
<1> DEFINE N == Len(graph.vertices)
<1>1. N \in Nat /\ Vertices = 1..N
  <2>1. GoodY(graph) BY DEF Told, ToldExactly, Tells, Content
  <2> QED BY <2>1, VertexRange DEF Vertices
<1>2. PICK f : /\ f[N] = Reached /\ f[0] = {v \in Vertices : Parents(v) = {}}
               /\ \A k \in 1..N :
                    f[k] = f[k - 1] \cup {v \in Vertices : Parents(v) \cap f[k - 1] # {}}
  BY <1>1, ReachedSteps
<1>3. \A v : Parents(v) = {u \in Vertices : Hangs(graph, u, v)}
  <2>1. \A u, v : ChildEdges(u, v) # {} <=> Hangs(graph, u, v) BY DEF ChildEdges, Hangs, EdgeIs
  <2> QED BY <2>1 DEF Parents
<1> HIDE DEF N
<1> DEFINE P == {k \in Nat : k <= N => /\ f[0] \subseteq f[k] /\ f[k] \subseteq Vertices
                                       /\ f[k] = Vertices \/ Cardinality(f[k]) >= k}
<1>4. IsFiniteSet(Vertices) /\ Cardinality(Vertices) = N
  BY <1>1, FS_Interval
<1>5. 0 \in P
  <2>1. f[0] \subseteq Vertices BY <1>2
  <2>2. Cardinality(f[0]) \in Nat BY <1>4, <2>1, FS_Subset, FS_CardinalityType
  <2> QED BY <2>1, <2>2
<1>6. ASSUME NEW k \in Nat, k \in P PROVE k + 1 \in P
  <2> SUFFICES ASSUME k + 1 <= N
               PROVE  /\ f[0] \subseteq f[k + 1] /\ f[k + 1] \subseteq Vertices
                      /\ f[k + 1] = Vertices \/ Cardinality(f[k + 1]) >= k + 1
    OBVIOUS
  <2>1. /\ f[0] \subseteq f[k] /\ f[k] \subseteq Vertices
        /\ f[k] = Vertices \/ Cardinality(f[k]) >= k
    BY <1>1, <1>6
  <2>2. f[k + 1] = f[k] \cup {v \in Vertices : Parents(v) \cap f[k] # {}}
    <3>1. k + 1 \in 1..N /\ (k + 1) - 1 = k BY <1>1
    <3> QED BY <1>2, <3>1
  <2>3. f[0] \subseteq f[k + 1] /\ f[k] \subseteq f[k + 1] /\ f[k + 1] \subseteq Vertices
    BY <2>1, <2>2
  <2>4. CASE f[k] = Vertices BY <2>3, <2>4
  <2>5. CASE f[k] # Vertices
    <3> DEFINE S == Vertices \ f[k]
    <3>1. S # {} BY <2>1, <2>5
    <3>2. PICK v \in S : \A u \in S : ~Hangs(graph, u, v)
      <4> HIDE DEF S
      <4> QED BY <3>1, SomeTop
    <3>3. v \notin f[0] BY <2>1, <3>2
    <3>4. Parents(v) # {} BY <1>2, <3>3
    <3>5. PICK u \in Vertices : Hangs(graph, u, v) BY <1>3, <3>4
    <3>6. u \in f[k] BY <3>2, <3>5
    <3>7. v \in f[k + 1]
      <4>1. u \in Parents(v) \cap f[k] BY <1>3, <3>5, <3>6
      <4> QED BY <2>2, <4>1
    <3>8. f[k] \cup {v} \subseteq f[k + 1] BY <2>3, <3>7
    <3>9. IsFiniteSet(f[k]) /\ IsFiniteSet(f[k + 1]) BY <1>4, <2>1, <2>3, FS_Subset
    <3>10. Cardinality(f[k] \cup {v}) = Cardinality(f[k]) + 1 BY <3>9, FS_AddElement
    <3>11. Cardinality(f[k] \cup {v}) <= Cardinality(f[k + 1]) BY <3>8, <3>9, FS_Subset
    <3>12. Cardinality(f[k]) >= k BY <2>1, <2>5
    <3>13. Cardinality(f[k]) \in Nat /\ Cardinality(f[k + 1]) \in Nat
      BY <3>9, FS_CardinalityType
    <3> QED BY <2>3, <3>10, <3>11, <3>12, <3>13
  <2> QED BY <2>4, <2>5
<1>7. N \in P
  <2> HIDE DEF P
  <2> QED BY <1>1, <1>5, <1>6, InductionOnNat
<1>8. f[N] \subseteq Vertices /\ (f[N] = Vertices \/ Cardinality(f[N]) >= N)
  BY <1>1, <1>7
<1>9. CASE Cardinality(f[N]) >= N
  <2>1. Cardinality(f[N]) <= N /\ (Cardinality(f[N]) = N => f[N] = Vertices)
    BY <1>4, <1>8, FS_Subset
  <2>2. Cardinality(f[N]) \in Nat BY <1>4, <1>8, FS_Subset, FS_CardinalityType
  <2> QED BY <1>1, <1>2, <1>9, <2>1, <2>2
<1> QED BY <1>2, <1>8, <1>9

(* After the first init() the CHILD edges of all modules together form a   *)
(* forest, and every CHILD edge has its PARENT edge: make_hwloc_graph,     *)
(* make_mpi_graph and make_supermuc_graph add them in pairs, each below    *)
(* vertices the others find by their identifiers.                          *)
THEOREM InitHierarchyIsForest ==
  ASSUME LibrariesAnswer
  PROVE  Spec => []HierarchyIsForest
<1>1. ASSUME IInv, FirstInv, HierInv PROVE HierarchyIsForest
  <2> SUFFICES ASSUME InitDone
               PROVE  /\ \A u, v \in Vertices :
                           /\ Cardinality(ChildEdges(u, v)) <= 1
                           /\ Cardinality(ChildEdges(u, v)) = Cardinality(ParentEdges(v, u))
                      /\ \A v \in Vertices : Cardinality(Parents(v)) <= 1
                      /\ Reached = Vertices
    BY DEF HierarchyIsForest
  <2>1. First BY DEF InitDone, First
  <2>2. Told /\ HierGraph BY <1>1, <2>1 DEF FirstInv, HierInv
  <2>3. HangsOnce(graph) BY <2>2 DEF HierGraph, EdgesTold
  <2>4. \A k, u, v : k \in ChildEdges(u, v) <=> EdgeIs(graph, "CHILD", k, u, v)
    BY DEF ChildEdges, EdgeIs
  <2>5. \A k, u, v : k \in ParentEdges(u, v) <=> EdgeIs(graph, "PARENT", k, u, v)
    BY DEF ParentEdges, EdgeIs
  <2>6. ASSUME NEW u \in Vertices, NEW v \in Vertices
        PROVE  /\ Cardinality(ChildEdges(u, v)) <= 1
               /\ Cardinality(ChildEdges(u, v)) = Cardinality(ParentEdges(v, u))
    <3>1. CASE Hangs(graph, u, v)
      <4>1. PICK k : EdgeIs(graph, "CHILD", k, u, v) BY <3>1 DEF Hangs
      <4>2. PICK l : EdgeIs(graph, "PARENT", l, v, u) BY <2>3, <3>1 DEF HangsOnce
      <4>3. ChildEdges(u, v) = {k} BY <2>3, <2>4, <4>1 DEF HangsOnce
      <4>4. ParentEdges(v, u) = {l} BY <2>3, <2>5, <4>2 DEF HangsOnce
      <4>5. Cardinality({k}) = 1 /\ Cardinality({l}) = 1 BY FS_Singleton
      <4> QED BY <4>3, <4>4, <4>5
    <3>2. CASE ~Hangs(graph, u, v)
      <4>1. ChildEdges(u, v) = {} BY <2>4, <3>2 DEF Hangs
      <4>2. ParentEdges(v, u) = {} BY <2>3, <2>5, <3>2 DEF HangsOnce
      <4>3. Cardinality({}) = 0 BY FS_EmptySet
      <4> QED BY <4>1, <4>2, <4>3
    <3> QED BY <3>1, <3>2
  <2>7. ASSUME NEW v \in Vertices PROVE Cardinality(Parents(v)) <= 1
    <3>1. \A u : u \in Parents(v) => Hangs(graph, u, v)
      BY DEF Parents, ChildEdges, Hangs, EdgeIs
    <3>2. \A u, w : u \in Parents(v) /\ w \in Parents(v) => u = w BY <2>2, <3>1, OneParent
    <3>3. CASE Parents(v) = {} BY <3>3, FS_EmptySet
    <3>4. CASE Parents(v) # {}
      <4>1. PICK u : u \in Parents(v) BY <3>4
      <4>2. Parents(v) = {u} BY <3>2, <4>1
      <4>3. Cardinality({u}) = 1 BY FS_Singleton
      <4> QED BY <4>2, <4>3
    <3> QED BY <3>3, <3>4
  <2> QED BY <2>2, <2>6, <2>7, AllReached
<1> QED BY <1>1, Invariance, FirstInvariance, HierInvariance, PTL
==============================================================================

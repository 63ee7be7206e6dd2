-------------------------- MODULE PlacementProofs --------------------------
(***************************************************************************)
(* Every rank hangs where its masks say: PlacementsBacked, for an init()   *)
(* that has not begun or that threw, and ProcsPlacedLowest, for a first    *)
(* init() that hwloc and mpi both took part in.                            *)
(*                                                                         *)
(* The k-th adapter of a rank and the k-th PARENT edge from its vertex     *)
(* come from the same call of add_mpi_procs, but from two steps of it,     *)
(* between which lowest_containing_vertex searches.  BackedInv says what   *)
(* holds at every moment: a rank has one adapter for each PARENT edge, and *)
(* one more while the search for its place goes on (AllBacked); all CPUs   *)
(* of the mask lie in that of the vertex the search is at (DescentFits);   *)
(* and the masks of vertices other than ranks are those of hwloc objects   *)
(* (MasksFit), so that a mask found once is not taken back by an adapter   *)
(* added later.                                                            *)
(*                                                                         *)
(* The search only looks down, so what it finds is the lowest of all only  *)
(* because of two things that PlacedInv adds: the search is at an object   *)
(* that has the CPUs, and an object with fewer is below it (Descending);   *)
(* and the CHILD edges stand in the order of hwloc's children, of which a  *)
(* sort that is stable takes the first of the smallest (EdgesOrdered).     *)
(*                                                                         *)
(* Part one: what the modules other than mpi do to a graph (Furnished).    *)
(* Part two: the search and the attachment, and BackedInv.                 *)
(* Part three: the tree of hwloc, the order of its edges, and PlacedInv.   *)
(***************************************************************************)
EXTENDS HierarchyProofs

(* The masks of CPUs the kernel gives to ranks are of CPUs this machine    *)
(* has, as hwloc knows it.                                                 *)
MasksKnown ==
  \A c \in CpuChoices : \A e \in Envs : \A m \in CpusetOf[MachineObj] :
    c \cap (0 .. e.nprocs - 1) \subseteq m

(* Where a machine, a device or a part of the system is; where a rank is.  *)
Site(g, v) == v # NoVertex /\ \E id \in Ids : id[1] # "mpi_rank" /\ g.ids[id] = v
AtRank(g, v) == \E i \in Ranks : v = g.ids[<<"mpi_rank", i>>]

(* What a module other than mpi adds to a vertex, the new ones of hwloc    *)
(* aside: no mask but that of the machine.                                 *)
SiteGift(h, v, a) == Site(h, v) /\ (a.mask = {} \/ a = HwlocAdapter(MachineObj))

(* What the vertices and adapters of a graph have become in the assignments*)
(* to one or more sites.                                                   *)
Sited(g, h) ==
  /\ GrowsY(g, h) /\ h.edges = g.edges
  /\ \A v, k, a : HoldsAt(g, v, k, a) => HoldsAt(h, v, k, a)
  /\ \A v, k, a : HoldsAt(h, v, k, a) => HoldsAt(g, v, k, a) \/ SiteGift(h, v, a)
  /\ \A i \in Ranks : h.ids[<<"mpi_rank", i>>] = g.ids[<<"mpi_rank", i>>]
  /\ \A v : Unnamed(h, v) <=> Unnamed(g, v)

(* What a step of a module other than mpi does: it adds adapters to sites  *)
(* and to new vertices that nothing names, and hangs no rank anywhere.     *)
Gift(g, h, v, a) ==
  \/ SiteGift(h, v, a)
  \/ v \notin 1..Len(g.vertices) /\ Unnamed(h, v) /\ \E o \in Objects : a = HwlocAdapter(o)
Furnished(g, h) ==
  /\ GrowsY(g, h)
  /\ \A v, k, a : HoldsAt(g, v, k, a) => HoldsAt(h, v, k, a)
  /\ \A v, k, a : HoldsAt(h, v, k, a) => HoldsAt(g, v, k, a) \/ Gift(g, h, v, a)
  /\ \A i \in Ranks : h.ids[<<"mpi_rank", i>>] = g.ids[<<"mpi_rank", i>>]
  /\ \A v : Unnamed(g, v) => Unnamed(h, v)
  /\ \A v : Unnamed(h, v) =>
       Unnamed(g, v) \/ (v \notin 1..Len(g.vertices) /\ 1 \in 1..Len(g.vertices))
  /\ h.root = g.root \/ Site(h, h.root)
  /\ \A k, u, v : EdgeIs(h, "PARENT", k, u, v) => EdgeIs(g, "PARENT", k, u, v) \/ ~AtRank(h, u)

------------------------------------------------------------------------------
(* A site stays one.                                                       *)
LEMMA SiteKept ==
  ASSUME NEW g, NEW h, GoodY(g), GrowsY(g, h), NEW v, Site(g, v)
  PROVE  Site(h, v)
<1>1. PICK id \in Ids : id[1] # "mpi_rank" /\ g.ids[id] = v BY DEF Site
<1>2. g.ids[id] \in 1..Len(g.vertices) BY <1>1, NamedVertex DEF Site
<1>3. h.ids[id] = v BY <1>1, <1>2, IdentifierKept
<1> QED BY <1>1, <1>3 DEF Site

(* No identifier names the vertex of another, so a site is no rank's.      *)
LEMMA SiteNotRank ==
  ASSUME NEW g, GoodY(g), NEW v, Site(g, v)
  PROVE  ~AtRank(g, v)
<1>1. PICK id \in Ids : id[1] # "mpi_rank" /\ g.ids[id] = v BY DEF Site
<1>2. SUFFICES ASSUME NEW i \in Ranks, v = g.ids[<<"mpi_rank", i>>] PROVE FALSE
  BY DEF AtRank
<1>3. <<"mpi_rank", i>> \in Ids /\ <<"mpi_rank", i>>[1] = "mpi_rank" BY IdsOf
<1>4. \A d, e \in Ids : g.ids[d] = g.ids[e] => d = e \/ g.ids[d] = NoVertex
  BY DEF GoodY, Good, IdsSound, GraphType
<1> QED BY <1>1, <1>2, <1>3, <1>4 DEF Site

(* What two assignments do to sites, they do together.                     *)
LEMMA SitedTransitive ==
  ASSUME NEW f, NEW g, NEW h, GoodY(f), Sited(f, g), Sited(g, h)
  PROVE  Sited(f, h)
<1>1. GrowsY(f, h) /\ GoodY(g) BY GrowsYTransitive, GrowsYGood DEF Sited
<1>2. \A v, a : SiteGift(g, v, a) => SiteGift(h, v, a)
  BY <1>1, SiteKept DEF Sited, SiteGift
<1> QED BY <1>1, <1>2 DEF Sited

(* A sequence of assignments to the vertex v of f.                         *)
Worked(f, g, v) == GoodY(g) /\ Touches(f, g) /\ v \in 1..Len(g.vertices)

(* Worked(f, g, v): the graph g was made from f by assignments to vertex   *)
(* v. The assignments of the modules continue such work.                   *)
LEMMA WorkedOn ==
  ASSUME NEW f, NEW g, NEW v, GoodY(f), Worked(f, g, v)
  PROVE  /\ \A a \in Adapters : Worked(f, AddAdapter(g, v, a), v)
         /\ \A t \in Types : Worked(f, SetType(g, v, t), v) /\ Worked(f, TypeIfUnknown(g, v, t), v)
         /\ \A d \in Descriptions : /\ Worked(f, SetDescription(g, v, d), v)
                                    /\ Worked(f, DescribeIfEmpty(g, v, d), v)
<1>1. GoodY(g) /\ Touches(f, g) /\ v \in 1..Len(g.vertices) BY DEF Worked
<1>2. ASSUME NEW h, Touches(g, h) PROVE Worked(f, h, v)
  BY <1>1, <1>2, TouchesTransitive, TouchesKeepsRange DEF Worked
<1> QED BY <1>1, <1>2, AssignmentsTouch

(* Before the first assignment nothing was done.                           *)
LEMMA WorkStarts ==
  ASSUME NEW f, GoodY(f), NEW v \in 1..Len(f.vertices)
  PROVE  Worked(f, f, v)
  BY GrowsYReflexive, SameShapeReflexive DEF Worked, Touches

(* Naming a vertex names no other, and leaves none without a name.         *)
LEMMA NamesOne ==
  ASSUME NEW g, GoodY(g), NEW id \in Ids
  PROVE  LET h == AddVertexId(g, id)
         IN /\ \A i \in Ids : i # id => h.ids[i] = g.ids[i]
            /\ \A v : Unnamed(h, v) <=> Unnamed(g, v)
<1> DEFINE h == AddVertexId(g, id)
<1>1. Revised(g, h, id) /\ GrowsY(g, h) BY AddVertexIdRevises, AddVertexIdY
<1> HIDE DEF h
<1>2. ASSUME NEW i \in Ids, i # id PROVE h.ids[i] = g.ids[i]
  <2>1. CASE g.ids[i] = NoVertex BY <1>1, <1>2, <2>1 DEF Revised
  <2>2. CASE g.ids[i] # NoVertex BY <1>1, <2>2, NamedVertex, IdentifierKept
  <2> QED BY <2>1, <2>2
<1> QED BY <1>1, <1>2 DEF Revised, h

(* The loop bodies of nvml, rocm and supermuc, and hwloc's first step: a   *)
(* vertex is named, and one adapter is given to it.                        *)
LEMMA BodySites ==
  ASSUME NEW g, GoodY(g), NEW id \in Ids, id[1] # "mpi_rank", NEW f, f = AddVertexId(g, id),
         NEW h, h.ids = f.ids, Len(h.vertices) = Len(f.vertices), NEW a,
         Added(g, h, {<<f.ids[id], a>>}), a.mask = {} \/ a = HwlocAdapter(MachineObj)
  PROVE  Sited(g, h) /\ Site(h, h.ids[id])
<1>1. GoodY(f) /\ f.ids[id] \in 1..Len(f.vertices) BY AddVertexIdY
<1>2. GrowsY(g, h) /\ GoodY(h) /\ h.edges = g.edges BY GrowsYGood DEF Added
<1>3. DOMAIN h.vertices = DOMAIN f.vertices BY <1>1, <1>2, Shape
<1>4. f.ids[id] # NoVertex BY <1>1, Shape DEF NoVertex
<1>5. Site(h, f.ids[id]) BY <1>4 DEF Site
<1>6. \A i \in Ranks : h.ids[<<"mpi_rank", i>>] = g.ids[<<"mpi_rank", i>>]
  <2> SUFFICES ASSUME NEW i \in Ranks
               PROVE  h.ids[<<"mpi_rank", i>>] = g.ids[<<"mpi_rank", i>>]
    OBVIOUS
  <2>1. <<"mpi_rank", i>> \in Ids /\ <<"mpi_rank", i>> # id BY IdsOf
  <2> QED BY <2>1, NamesOne
<1>7. \A v : Unnamed(h, v) <=> Unnamed(g, v)
  <2>1. \A v : Unnamed(h, v) <=> Unnamed(f, v) BY <1>3 DEF Unnamed
  <2> QED BY <2>1, NamesOne
<1>8. \A v, k, b : HoldsAt(h, v, k, b) => HoldsAt(g, v, k, b) \/ SiteGift(h, v, b)
  BY <1>5 DEF Added, SiteGift
<1> QED BY <1>2, <1>5, <1>6, <1>7, <1>8 DEF Sited, Added

(* An nvml device is a site, and its adapter has no mask.                  *)
LEMMA NvmlSites ==
  ASSUME GoodY(graph), NEW i \in DOMAIN NvmlDevs
  PROVE  /\ Sited(graph, NvmlAttach(i))
         /\ Sited(graph, SetType(NvmlAttach(i), NvmlVertex(i), "GPU"))
<1> DEFINE id == NvmlId(i)
           f == AddVertexId(graph, id)
           v == f.ids[id]
           a == Adapter("nvml", i, {})
           g == AddAdapter(f, v, a)
           h == SetType(g, v, "GPU")
<1>1. /\ id \in Ids /\ a \in Adapters /\ "GPU" \in Types
      /\ id[1] # "mpi_rank" /\ a.mask = {}
  BY DeviceIds, AdaptersOf, AssignedTypes, AdapterFields DEF NvmlId
<1>2. NvmlAttach(i) = g BY DEF NvmlAttach, NvmlId
<1>3. GoodY(f) /\ v \in 1..Len(f.vertices) BY <1>1, AddVertexIdY
<1>4. f = AddVertexId(graph, id) /\ v = f.ids[id] OBVIOUS
<1> HIDE DEF f, v, id, a
<1>5. Worked(f, g, v) BY <1>1, <1>3, WorkStarts, WorkedOn
<1>6. g.ids = f.ids /\ Len(g.vertices) = Len(f.vertices)
  BY <1>5 DEF Worked, Touches, SameShape
<1> HIDE DEF g
<1>7. Worked(f, h, v) BY <1>1, <1>3, <1>5, WorkedOn
<1>8. h.ids = f.ids /\ Len(h.vertices) = Len(f.vertices)
  BY <1>7 DEF Worked, Touches, SameShape
<1>9. NvmlVertex(i) = v BY <1>2, <1>4, <1>6 DEF NvmlVertex, id, NvmlId
<1>10. Added(graph, g, {<<v, a>>}) /\ Added(graph, h, {<<v, a>>})
  BY <1>2, <1>9, NvmlAdds DEF a
<1> HIDE DEF h
<1>11. Sited(graph, g) /\ Sited(graph, h)
  BY <1>1, <1>4, <1>6, <1>8, <1>10, BodySites
<1> QED BY <1>2, <1>9, <1>11 DEF h

(* So is a rocm device.                                                    *)
LEMMA RocmSites ==
  ASSUME NEW g, GoodY(g), NEW b \in Bdfs, NEW i \in Devs
  PROVE  LET id == <<"bdfid", b>>
             added == AddVertexId(g, id)
             vd == added.ids[id]
             described == SetDescription(AddAdapter(added, vd, Adapter("rocm", i, {})),
                                         vd, <<"rocm", i>>)
         IN Sited(g, SetType(described, vd, "GPU"))
<1> DEFINE id == <<"bdfid", b>>
           f == AddVertexId(g, id)
           v == f.ids[id]
           a == Adapter("rocm", i, {})
           adapted == AddAdapter(f, v, a)
           described == SetDescription(adapted, v, <<"rocm", i>>)
           h == SetType(described, v, "GPU")
<1>1. /\ id \in Ids /\ a \in Adapters /\ "GPU" \in Types /\ <<"rocm", i>> \in Descriptions
      /\ id[1] # "mpi_rank" /\ a.mask = {}
  BY IdsOf, AdaptersOf, AssignedTypes, DescriptionsOf, AdapterFields
<1>2. Added(g, h, {<<v, a>>}) BY RocmAdds
<1>3. GoodY(f) /\ v \in 1..Len(f.vertices) BY <1>1, AddVertexIdY
<1>4. f = AddVertexId(g, id) /\ v = f.ids[id] OBVIOUS
<1> HIDE DEF f, v, id, a
<1>5. Worked(f, adapted, v) BY <1>1, <1>3, WorkStarts, WorkedOn
<1> HIDE DEF adapted
<1>6. Worked(f, described, v) BY <1>1, <1>3, <1>5, WorkedOn
<1> HIDE DEF described
<1>7. Worked(f, h, v) BY <1>1, <1>3, <1>6, WorkedOn
<1>8. h.ids = f.ids /\ Len(h.vertices) = Len(f.vertices)
  BY <1>7 DEF Worked, Touches, SameShape
<1> HIDE DEF h
<1>9. Sited(g, h) BY <1>1, <1>2, <1>4, <1>8, BodySites
<1> QED BY <1>9 DEF h, described, adapted, a, v, f, id

(* make_supermuc_node, and the node of the host itself.                    *)
LEMMA NodeSites ==
  ASSUME NEW g, GoodY(g), NEW id \in Ids, id[1] # "mpi_rank", NEW n \in Hosts \cup Prefixes,
         NEW t \in Types
  PROVE  LET added == AddVertexId(g, id)
             vd == added.ids[id]
             h == AddAdapter(SetDescription(SetType(added, vd, t), vd, <<"name", n>>),
                             vd, Adapter("supermuc", n, {}))
         IN Sited(g, h) /\ Site(h, h.ids[id])
<1> DEFINE f == AddVertexId(g, id)
           v == f.ids[id]
           a == Adapter("supermuc", n, {})
           typed == SetType(f, v, t)
           described == SetDescription(typed, v, <<"name", n>>)
           h == AddAdapter(described, v, a)
<1>1. a \in Adapters /\ <<"name", n>> \in Descriptions /\ a.mask = {}
  BY AdaptersOf, DescriptionsOf, AdapterFields
<1>2. Added(g, h, {<<v, a>>}) BY SupermucNodeAdds
<1>3. GoodY(f) /\ v \in 1..Len(f.vertices) BY AddVertexIdY
<1>4. f = AddVertexId(g, id) /\ v = f.ids[id] OBVIOUS
<1> HIDE DEF f, v, a
<1>5. Worked(f, typed, v) BY <1>3, WorkStarts, WorkedOn
<1> HIDE DEF typed
<1>6. Worked(f, described, v) BY <1>1, <1>3, <1>5, WorkedOn
<1> HIDE DEF described
<1>7. Worked(f, h, v) BY <1>1, <1>3, <1>6, WorkedOn
<1>8. h.ids = f.ids /\ Len(h.vertices) = Len(f.vertices)
  BY <1>7 DEF Worked, Touches, SameShape
<1> HIDE DEF h
<1>9. Sited(g, h) /\ Site(h, h.ids[id]) BY <1>1, <1>2, <1>4, <1>8, BodySites
<1> QED BY <1>9 DEF h, described, typed, a, v, f

(* The four vertices of a host, before they are linked.                    *)
LEMMA HostPathSites ==
  ASSUME NEW g, GoodY(g), NEW host \in Hosts
  PROVE  \E nodes, s1, s2, s3, s4 :
           /\ Sited(g, nodes) /\ GoodY(nodes) /\ nodes.root = g.root
           /\ Site(nodes, s1) /\ Site(nodes, s2) /\ Site(nodes, s3) /\ Site(nodes, s4)
           /\ HostPath(g, host) = LinkOnce(LinkOnce(LinkOnce(nodes, s1, s2), s2, s3), s3, s4)
<1> DEFINE column == Truncate(host, 3)
           rack == Truncate(host, 2)
           island == Truncate(host, 1)
           g1 == SlotNode(g, host)
           g2 == SystemNode(g1, column)
           g3 == SystemNode(g2, rack)
           nodes == SystemNode(g3, island)
           slotId == <<"machine", host>>
           systemId(n) == <<"system", n>>
<1>1. /\ column \in Prefixes /\ rack \in Prefixes /\ island \in Prefixes
      /\ slotId \in Ids /\ systemId(column) \in Ids /\ systemId(rack) \in Ids
      /\ systemId(island) \in Ids /\ "Misc" \in Types /\ "Node" \in Types
      /\ slotId[1] # "mpi_rank" /\ \A n : systemId(n)[1] # "mpi_rank"
  BY PrefixOfHost, IdsOf, AssignedTypes
<1>2. HostPath(g, host) =
        LinkOnce(LinkOnce(LinkOnce(nodes, nodes.ids[systemId(island)], nodes.ids[systemId(rack)]),
                          nodes.ids[systemId(rack)], nodes.ids[systemId(column)]),
                 nodes.ids[systemId(column)], nodes.ids[slotId])
  BY DEF HostPath
<1>3. ASSUME NEW f, GoodY(f), NEW p \in Prefixes, systemId(p) \in Ids
      PROVE  LET h == SystemNode(f, p)
             IN GoodY(h) /\ h.root = f.root /\ Sited(f, h) /\ Site(h, h.ids[systemId(p)])
  <2>1. "Misc" \in Types /\ p \in Hosts \cup Prefixes /\ systemId(p)[1] # "mpi_rank" BY <1>1
  <2>2. GoodY(SystemNode(f, p)) /\ SystemNode(f, p).root = f.root
    BY <1>3, <2>1, SupermucNodeGrows DEF SystemNode
  <2>3. Sited(f, SystemNode(f, p)) /\ Site(SystemNode(f, p), SystemNode(f, p).ids[systemId(p)])
    BY <1>3, <2>1, NodeSites DEF SystemNode
  <2> QED BY <2>2, <2>3
<1>4. GoodY(g1) /\ g1.root = g.root /\ Sited(g, g1) /\ Site(g1, g1.ids[slotId])
  <2>1. "Node" \in Types /\ host \in Hosts \cup Prefixes /\ slotId \in Ids
          /\ slotId[1] # "mpi_rank"
    BY <1>1
  <2>2. GoodY(g1) /\ g1.root = g.root BY <2>1, SupermucNodeGrows DEF SlotNode
  <2>3. Sited(g, g1) /\ Site(g1, g1.ids[slotId]) BY <2>1, NodeSites DEF SlotNode
  <2> QED BY <2>2, <2>3
<1> HIDE DEF column, rack, island, g1
<1>5. GoodY(g2) /\ g2.root = g1.root /\ Sited(g1, g2) /\ Site(g2, g2.ids[systemId(column)])
  BY <1>1, <1>3, <1>4
<1> HIDE DEF g2
<1>6. GoodY(g3) /\ g3.root = g2.root /\ Sited(g2, g3) /\ Site(g3, g3.ids[systemId(rack)])
  BY <1>1, <1>3, <1>5
<1> HIDE DEF g3
<1>7. /\ GoodY(nodes) /\ nodes.root = g3.root /\ Sited(g3, nodes)
      /\ Site(nodes, nodes.ids[systemId(island)])
  BY <1>1, <1>3, <1>6
<1> HIDE DEF nodes
<1>8. Sited(g2, nodes) /\ Sited(g1, nodes) /\ Sited(g, nodes)
  BY <1>4, <1>5, <1>6, <1>7, SitedTransitive
<1>9. ASSUME NEW f, GoodY(f), Sited(f, nodes), NEW id \in Ids, Site(f, f.ids[id])
      PROVE  Site(nodes, nodes.ids[id])
  <2>1. f.ids[id] # NoVertex BY <1>9 DEF Site
  <2>2. nodes.ids[id] = f.ids[id] BY <1>9, <2>1, NamedVertex, IdentifierKept DEF Sited
  <2> QED BY <1>9, <2>2, SiteKept DEF Sited
<1>10. /\ Site(nodes, nodes.ids[slotId]) /\ Site(nodes, nodes.ids[systemId(column)])
       /\ Site(nodes, nodes.ids[systemId(rack)])
  BY <1>1, <1>4, <1>5, <1>6, <1>7, <1>8, <1>9
<1>11. nodes.root = g.root BY <1>4, <1>5, <1>6, <1>7
<1> QED BY <1>2, <1>7, <1>8, <1>10, <1>11

(* hwloc's first step.                                                     *)
LEMMA MachineSites ==
  ASSUME NEW g, GoodY(g)
  PROVE  LET id == <<"machine", GetHostName>>
             added == AddVertexId(g, id)
             vd == added.ids[id]
             described == SetRootVertex(SetDescription(added, vd, <<"name", GetHostName>>), vd)
             h == TypeIfUnknown(AddAdapter(described, vd, HwlocAdapter(MachineObj)),
                                vd, HwlocType(MachineObj))
         IN Sited(g, h) /\ Site(h, h.root)
<1> DEFINE id == <<"machine", GetHostName>>
           f == AddVertexId(g, id)
           v == f.ids[id]
           named == SetDescription(f, v, <<"name", GetHostName>>)
           rooted == SetRootVertex(named, v)
           a == HwlocAdapter(MachineObj)
           adapted == AddAdapter(rooted, v, a)
           h == TypeIfUnknown(adapted, v, HwlocType(MachineObj))
<1>1. /\ id \in Ids /\ <<"name", GetHostName>> \in Descriptions
      /\ a \in Adapters /\ HwlocType(MachineObj) \in Types /\ id[1] # "mpi_rank"
  BY TopologyConstants, IdsOf, DescriptionsOf, AdaptersOf, HwlocTypeInTypes
     DEF HwlocAdapter
<1>2. Added(g, h, {<<v, a>>}) /\ h.ids[id] = v /\ h.root = v BY MachineAdds
<1>3. GoodY(f) /\ v \in 1..Len(f.vertices) BY <1>1, AddVertexIdY
<1>4. f = AddVertexId(g, id) /\ v = f.ids[id] /\ a = HwlocAdapter(MachineObj) OBVIOUS
<1> HIDE DEF f, v, id, a
<1>5. Worked(f, named, v) BY <1>1, <1>3, WorkStarts, WorkedOn
<1> HIDE DEF named
<1>6. GoodY(rooted) /\ rooted.vertices = named.vertices /\ rooted.ids = named.ids
  <2>1. GoodY(named) /\ v \in 1..Len(named.vertices) BY <1>5 DEF Worked
  <2>2. GrowsY(named, rooted) /\ rooted.vertices = named.vertices /\ rooted.ids = named.ids
    BY <2>1, SetRootGrows DEF GoodY, GrowsY
  <2> QED BY <2>2, GrowsYGood
<1>7. rooted.ids = f.ids /\ Len(rooted.vertices) = Len(f.vertices)
        /\ v \in 1..Len(rooted.vertices)
  BY <1>3, <1>5, <1>6 DEF Worked, Touches, SameShape
<1> HIDE DEF rooted
<1>8. Worked(rooted, adapted, v) BY <1>1, <1>6, <1>7, WorkStarts, WorkedOn
<1> HIDE DEF adapted
<1>9. Worked(rooted, h, v) BY <1>1, <1>6, <1>8, WorkedOn
<1>10. h.ids = f.ids /\ Len(h.vertices) = Len(f.vertices)
  BY <1>7, <1>9 DEF Worked, Touches, SameShape
<1> HIDE DEF h
<1>11. Sited(g, h) /\ Site(h, h.ids[id]) BY <1>1, <1>2, <1>4, <1>10, BodySites
<1>12. Site(h, h.root) BY <1>2, <1>11
<1> QED BY <1>11, <1>12 DEF h, adapted, rooted, named, a, v, f, id

------------------------------------------------------------------------------
(* The PARENT edges that linking adds.                                     *)
LEMMA LinkUp ==
  ASSUME NEW g, GoodY(g), NEW u \in 1..Len(g.vertices), NEW v \in 1..Len(g.vertices)
  PROVE  \A k, a, b : EdgeIs(Link(g, u, v), "PARENT", k, a, b) <=>
           EdgeIs(g, "PARENT", k, a, b) \/ (k = Len(g.edges) + 2 /\ a = v /\ b = u)
<1> DEFINE f == AddEdge(g, u, v, "CHILD")
<1>1. GoodY(f) /\ Len(f.edges) = Len(g.edges) + 1
  <2>1. GrowsY(g, f) BY AddEdgeGrows DEF EdgeTypes, GoodY, GrowsY
  <2>2. f.edges = Append(g.edges, [source |-> u, target |-> v, type |-> "CHILD"])
    BY DEF AddEdge, GoodY, Good, GraphType
  <2>3. g.edges \in Seq(EdgeType) BY DEF GoodY, Good, GraphType
  <2>4. [source |-> u, target |-> v, type |-> "CHILD"] \in EdgeType
    <3>1. u \in Nat /\ v \in Nat BY Shape
    <3> QED BY <3>1 DEF EdgeType, EdgeTypes
  <2> QED BY <2>1, <2>2, <2>3, <2>4, GrowsYGood
<1>2. Link(g, u, v) = AddEdge(f, v, u, "PARENT") BY DEF Link
<1>3. Len(g.edges) + 1 + 1 = Len(g.edges) + 2
  <2>1. Len(g.edges) \in Nat BY DEF GoodY, Good, GraphType
  <2> QED BY <2>1
<1>4. \A k, a, b : EdgeIs(f, "PARENT", k, a, b) <=> EdgeIs(g, "PARENT", k, a, b)
  <2> SUFFICES ASSUME NEW k, NEW a, NEW b
               PROVE  EdgeIs(f, "PARENT", k, a, b) <=> EdgeIs(g, "PARENT", k, a, b)
    OBVIOUS
  <2> HIDE DEF f
  <2>1. EdgeIs(AddEdge(g, u, v, "CHILD"), "PARENT", k, a, b) <=>
          EdgeIs(g, "PARENT", k, a, b) \/ (k = Len(g.edges) + 1 /\ a = u /\ b = v
                                             /\ "PARENT" = "CHILD")
    BY ONLY EdgeAppended, GoodY(g)
  <2> QED BY <2>1 DEF f
<1>5. ASSUME NEW k, NEW a, NEW b
      PROVE  EdgeIs(AddEdge(f, v, u, "PARENT"), "PARENT", k, a, b) <=>
               EdgeIs(f, "PARENT", k, a, b) \/ (k = Len(g.edges) + 2 /\ a = v /\ b = u)
  <2> HIDE DEF f
  <2>1. EdgeIs(AddEdge(f, v, u, "PARENT"), "PARENT", k, a, b) <=>
          EdgeIs(f, "PARENT", k, a, b) \/ (k = Len(f.edges) + 1 /\ a = v /\ b = u
                                             /\ "PARENT" = "PARENT")
    BY ONLY EdgeAppended, <1>1
  <2> QED BY <2>1, <1>1, <1>3
<1> QED BY <1>2, <1>4, <1>5

(* LinkOnce adds no PARENT edge but that of the lower vertex.              *)
LEMMA LinkOnceUp ==
  ASSUME NEW g, GoodY(g), NEW u \in 1..Len(g.vertices), NEW v \in 1..Len(g.vertices)
  PROVE  \A k, a, b : EdgeIs(LinkOnce(g, u, v), "PARENT", k, a, b) =>
           EdgeIs(g, "PARENT", k, a, b) \/ a = v
  BY LinkUp DEF LinkOnce

(* The edges between two devices are no PARENT edges.                      *)
LEMMA InterconnectUp ==
  ASSUME NEW g, GoodY(g), NEW u \in 1..Len(g.vertices), NEW v \in 1..Len(g.vertices)
  PROVE  \A k, a, b : EdgeIs(Interconnect(g, u, v), "PARENT", k, a, b) =>
           EdgeIs(g, "PARENT", k, a, b)
<1> DEFINE f == AddEdge(g, u, v, "GPU_INTERCONNECT")
<1>1. GoodY(f)
  <2>1. GrowsY(g, f) BY AddEdgeGrows DEF EdgeTypes, GoodY, GrowsY
  <2> QED BY <2>1, GrowsYGood
<1> SUFFICES ASSUME NEW k, NEW a, NEW b, EdgeIs(Interconnect(g, u, v), "PARENT", k, a, b)
             PROVE  EdgeIs(g, "PARENT", k, a, b)
  OBVIOUS
<1>2. Interconnect(g, u, v) = AddEdge(f, v, u, "GPU_INTERCONNECT") BY DEF Interconnect
<1> HIDE DEF f
<1>3. EdgeIs(AddEdge(f, v, u, "GPU_INTERCONNECT"), "PARENT", k, a, b) <=>
        EdgeIs(f, "PARENT", k, a, b) \/ (k = Len(f.edges) + 1 /\ a = v /\ b = u
                                           /\ "PARENT" = "GPU_INTERCONNECT")
  BY ONLY EdgeAppended, <1>1
<1>4. EdgeIs(AddEdge(g, u, v, "GPU_INTERCONNECT"), "PARENT", k, a, b) <=>
        EdgeIs(g, "PARENT", k, a, b) \/ (k = Len(g.edges) + 1 /\ a = u /\ b = v
                                           /\ "PARENT" = "GPU_INTERCONNECT")
  BY ONLY EdgeAppended, GoodY(g)
<1> QED BY <1>2, <1>3, <1>4 DEF f

(* Assignments to sites, and then edges, furnish.                          *)
LEMMA SitedFurnishes ==
  ASSUME NEW g, NEW f, NEW h, GoodY(g), Sited(g, f), GrowsY(f, h), h.vertices = f.vertices,
         h.ids = f.ids, h.root = g.root \/ Site(f, h.root),
         \A k, a, b : EdgeIs(h, "PARENT", k, a, b) => EdgeIs(f, "PARENT", k, a, b) \/ Site(f, a)
  PROVE  Furnished(g, h)
<1>1. GrowsY(g, h) /\ GoodY(f) BY GrowsYTransitive, GrowsYGood DEF Sited
<1>2. \A v, k, a : HoldsAt(h, v, k, a) <=> HoldsAt(f, v, k, a) BY DEF HoldsAt
<1>3. \A v : Unnamed(h, v) <=> Unnamed(f, v) BY DEF Unnamed
<1>4. \A v : (Site(h, v) <=> Site(f, v)) /\ (AtRank(h, v) <=> AtRank(f, v))
  BY DEF Site, AtRank
<1>5. \A k, a, b : EdgeIs(f, "PARENT", k, a, b) <=> EdgeIs(g, "PARENT", k, a, b)
  BY DEF EdgeIs, Sited
<1>6. \A v : Site(f, v) => ~AtRank(f, v) BY <1>1, SiteNotRank
<1>7. \A v, a : SiteGift(f, v, a) => SiteGift(h, v, a) BY <1>4 DEF SiteGift
<1>8. \A v, k, a : HoldsAt(h, v, k, a) => HoldsAt(g, v, k, a) \/ Gift(g, h, v, a)
  BY <1>2, <1>7 DEF Sited, Gift
<1>9. \A k, a, b : EdgeIs(h, "PARENT", k, a, b) => EdgeIs(g, "PARENT", k, a, b) \/ ~AtRank(h, a)
  BY <1>4, <1>5, <1>6
<1>10. \A v : Unnamed(h, v) <=> Unnamed(g, v) BY <1>3 DEF Sited
<1>11. \A v, k, a : HoldsAt(g, v, k, a) => HoldsAt(h, v, k, a) BY <1>2 DEF Sited
<1>12. \A i \in Ranks : h.ids[<<"mpi_rank", i>>] = g.ids[<<"mpi_rank", i>>] BY DEF Sited
<1>13. h.root = g.root \/ Site(h, h.root) BY <1>4
<1> QED BY <1>1, <1>8, <1>9, <1>10, <1>11, <1>12, <1>13 DEF Furnished

(* A graph nothing is done to.                                             *)
LEMMA SitedReflexive ==
  ASSUME NEW g, GoodY(g)
  PROVE  Sited(g, g)
  BY GrowsYReflexive DEF Sited

(* The assignments hwloc makes to the vertex of a child.                   *)
LEMMA ChildWorked ==
  ASSUME NEW f, GoodY(f), NEW v \in 1..Len(f.vertices), NEW o \in Objects
  PROVE  LET described == DescribeIfEmpty(f, v, <<"hwloc", HwlocToString(o)>>)
         IN Worked(f, TypeIfUnknown(AddAdapter(described, v, HwlocAdapter(o)), v, HwlocType(o)), v)
<1> DEFINE described == DescribeIfEmpty(f, v, <<"hwloc", HwlocToString(o)>>)
           adapted == AddAdapter(described, v, HwlocAdapter(o))
<1>1. /\ <<"hwloc", HwlocToString(o)>> \in Descriptions
      /\ HwlocAdapter(o) \in Adapters /\ HwlocType(o) \in Types
  BY ChildFacts
<1>2. Worked(f, described, v) BY <1>1, WorkStarts, WorkedOn
<1> HIDE DEF described
<1>3. Worked(f, adapted, v) BY <1>1, <1>2, WorkedOn
<1> HIDE DEF adapted
<1>4. Worked(f, TypeIfUnknown(adapted, v, HwlocType(o)), v) BY <1>1, <1>3, WorkedOn
<1> QED BY <1>4 DEF adapted, described

(* The vertex of a PCI object is a site.                                   *)
LEMMA PciChildFurnishes ==
  ASSUME NEW g, GoodY(g), NEW vd \in 1..Len(g.vertices), NEW o \in PciObjects
  PROVE  Furnished(g, AddChild(g, vd, o))
<1> DEFINE id == HwlocId(o)
           f == AddVertexId(g, id)
           v == f.ids[id]
           described == DescribeIfEmpty(f, v, <<"hwloc", HwlocToString(o)>>)
           typed == TypeIfUnknown(AddAdapter(described, v, HwlocAdapter(o)), v, HwlocType(o))
<1>1. o \in Objects /\ id \in Ids /\ id[1] # "mpi_rank" /\ HwlocAdapter(o).mask = {}
  BY DeviceIds, AdapterFields, TopologyShape DEF PciObjects, HwlocId, HwlocAdapter
<1>2. GoodY(f) /\ v \in 1..Len(f.vertices) BY <1>1, AddVertexIdY
<1>3. Worked(f, typed, v) BY <1>1, <1>2, ChildWorked
<1>4. ChildVertex(g, o) = v /\ AddChild(g, vd, o) = Link(typed, vd, v)
  BY <1>1, ChildFacts DEF AddChild, ChildVertex, ChildGraph, HwlocId
<1>5. Added(g, typed, {<<v, HwlocAdapter(o)>>})
  <2>1. Assigned(g, f, {}, v) BY <1>1, NamedFirst
  <2>2. /\ <<"hwloc", HwlocToString(o)>> \in Descriptions
        /\ HwlocAdapter(o) \in Adapters /\ HwlocType(o) \in Types
    BY <1>1, ChildFacts
  <2> HIDE DEF f, v, id
  <2>3. Assigned(g, described, {}, v) BY <2>1, <2>2, AssignmentsAdd
  <2> HIDE DEF described
  <2>4. Assigned(g, AddAdapter(described, v, HwlocAdapter(o)), {} \cup {<<v, HwlocAdapter(o)>>}, v)
    BY <2>2, <2>3, AssignmentsAdd
  <2>5. Assigned(g, typed, {} \cup {<<v, HwlocAdapter(o)>>}, v) BY <2>2, <2>4, AssignmentsAdd
  <2>6. {} \cup {<<v, HwlocAdapter(o)>>} = {<<v, HwlocAdapter(o)>>} OBVIOUS
  <2> QED BY <2>5, <2>6 DEF Assigned
<1>6. f = AddVertexId(g, id) /\ v = f.ids[id] OBVIOUS
<1> HIDE DEF f, v, id
<1>7. /\ typed.ids = f.ids /\ Len(typed.vertices) = Len(f.vertices) /\ GoodY(typed)
      /\ v \in 1..Len(typed.vertices) /\ typed.root = f.root
  BY <1>3 DEF Worked, Touches, SameShape
<1> HIDE DEF typed
<1>8. Sited(g, typed) /\ Site(typed, v)
  <2>1. typed.ids[id] = v BY <1>6, <1>7
  <2>2. Added(g, typed, {<<f.ids[id], HwlocAdapter(o)>>}) BY <1>5, <1>6
  <2>3. Sited(g, typed) /\ Site(typed, typed.ids[id]) BY <1>1, <1>6, <1>7, <2>2, BodySites
  <2> QED BY <2>1, <2>3
<1>9. vd \in 1..Len(typed.vertices) BY <1>8, DescriptorsKept DEF Sited
<1> DEFINE h == Link(typed, vd, v)
<1>10. /\ GrowsY(typed, h) /\ h.vertices = typed.vertices /\ h.ids = typed.ids
       /\ h.root = typed.root
  BY <1>7, <1>9, LinkY
<1>11. \A k, a, b : EdgeIs(h, "PARENT", k, a, b) => EdgeIs(typed, "PARENT", k, a, b) \/ Site(typed, a)
  BY <1>7, <1>8, <1>9, LinkUp
<1>12. f.root = g.root BY <1>1, <1>6, AddVertexIdY
<1> HIDE DEF h
<1>13. Furnished(g, h) BY <1>7, <1>8, <1>10, <1>11, <1>12, SitedFurnishes
<1> QED BY <1>4, <1>13 DEF h

(* Any other object gets a new vertex, which nothing names.                *)
LEMMA PlainChildFurnishes ==
  ASSUME NEW g, GoodY(g), NEW vd \in 1..Len(g.vertices), NEW o \in Objects \ PciObjects
  PROVE  Furnished(g, AddChild(g, vd, o))
<1> DEFINE f == AddVertex(g)
           v == Len(g.vertices) + 1
           described == DescribeIfEmpty(f, v, <<"hwloc", HwlocToString(o)>>)
           typed == TypeIfUnknown(AddAdapter(described, v, HwlocAdapter(o)), v, HwlocType(o))
<1>1. /\ GoodY(f) /\ v \in 1..Len(f.vertices) /\ f.root = g.root /\ GrowsY(g, f)
  BY AddVertexY
<1>2. f.ids = g.ids /\ Len(f.vertices) = v
  BY DEF AddVertex, GoodY, Good, GraphType
<1>3. Worked(f, typed, v) BY <1>1, ChildWorked
<1>4. ChildVertex(g, o) = v /\ AddChild(g, vd, o) = Link(typed, vd, v)
  BY ChildFacts DEF AddChild, ChildVertex, ChildGraph
<1>5. Added(g, typed, {<<v, HwlocAdapter(o)>>})
  <2>1. Assigned(g, f, {}, v) BY <1>1, AddVertexAdds DEF Assigned
  <2>2. /\ <<"hwloc", HwlocToString(o)>> \in Descriptions
        /\ HwlocAdapter(o) \in Adapters /\ HwlocType(o) \in Types
    BY ChildFacts
  <2> HIDE DEF f, v
  <2>3. Assigned(g, described, {}, v) BY <2>1, <2>2, AssignmentsAdd
  <2> HIDE DEF described
  <2>4. Assigned(g, AddAdapter(described, v, HwlocAdapter(o)), {} \cup {<<v, HwlocAdapter(o)>>}, v)
    BY <2>2, <2>3, AssignmentsAdd
  <2>5. Assigned(g, typed, {} \cup {<<v, HwlocAdapter(o)>>}, v) BY <2>2, <2>4, AssignmentsAdd
  <2>6. {} \cup {<<v, HwlocAdapter(o)>>} = {<<v, HwlocAdapter(o)>>} OBVIOUS
  <2> QED BY <2>5, <2>6 DEF Assigned
<1>6. /\ Len(g.vertices) \in Nat /\ v \notin 1..Len(g.vertices) /\ 1 \in 1..Len(g.vertices)
      /\ \A d \in Ids : g.ids[d] # v
      /\ \A w \in 1..v : w # v => w \in 1..Len(g.vertices)
  BY Shape
<1> HIDE DEF f, v
<1>7. /\ typed.ids = f.ids /\ Len(typed.vertices) = Len(f.vertices) /\ GoodY(typed)
      /\ v \in 1..Len(typed.vertices) /\ typed.root = f.root
  BY <1>3 DEF Worked, Touches, SameShape
<1> HIDE DEF typed
<1>8. vd \in 1..Len(typed.vertices) BY <1>5, DescriptorsKept DEF Added
<1> DEFINE h == Link(typed, vd, v)
<1>9. /\ GrowsY(typed, h) /\ GoodY(h) /\ h.vertices = typed.vertices /\ h.ids = g.ids
      /\ h.root = g.root
  BY <1>1, <1>2, <1>7, <1>8, LinkY
<1>10. GrowsY(g, h) BY <1>5, <1>9, GrowsYTransitive DEF Added
<1>11. \A k, a, b : EdgeIs(h, "PARENT", k, a, b) => EdgeIs(g, "PARENT", k, a, b) \/ a = v
  <2>1. \A k, a, b : EdgeIs(h, "PARENT", k, a, b) => EdgeIs(typed, "PARENT", k, a, b) \/ a = v
    BY <1>7, <1>8, LinkUp
  <2>2. typed.edges = g.edges BY <1>5 DEF Added
  <2> QED BY <2>1, <2>2 DEF EdgeIs
<1> HIDE DEF h
<1>12. DOMAIN h.vertices = 1..v /\ DOMAIN g.vertices = 1..Len(g.vertices)
  BY <1>2, <1>7, <1>9, Shape
<1>13. Unnamed(h, v) /\ v \in 1..v BY <1>6, <1>7, <1>9, <1>2, <1>12 DEF Unnamed
<1>14. \A w, k, a : HoldsAt(g, w, k, a) => HoldsAt(h, w, k, a)
  BY <1>5, <1>9 DEF Added, HoldsAt
<1>15. \A w, k, a : HoldsAt(h, w, k, a) => HoldsAt(g, w, k, a) \/ Gift(g, h, w, a)
  <2>1. \A w, k, a : HoldsAt(h, w, k, a) => HoldsAt(g, w, k, a) \/ (w = v /\ a = HwlocAdapter(o))
    BY <1>5, <1>9 DEF Added, HoldsAt
  <2> QED BY <2>1, <1>6, <1>13 DEF Gift
<1>16. /\ \A w : Unnamed(h, w) => Unnamed(g, w) \/ w = v
       /\ \A w : Unnamed(g, w) => Unnamed(h, w)
  <2>1. 1..Len(g.vertices) \subseteq 1..v
    <3>1. v = Len(g.vertices) + 1 BY DEF v
    <3> QED BY <1>6, <3>1
  <2> QED BY <1>6, <1>9, <1>12, <2>1 DEF Unnamed
<1>17. ~AtRank(h, v)
  <2>1. \A i \in Ranks : <<"mpi_rank", i>> \in Ids BY IdsOf
  <2> QED BY <2>1, <1>6, <1>9 DEF AtRank
<1>18. Furnished(g, h)
  BY <1>6, <1>9, <1>10, <1>11, <1>14, <1>15, <1>16, <1>17 DEF Furnished
<1> QED BY <1>4, <1>18 DEF h

(* A graph whose vertices and edges stay furnishes itself.                 *)
LEMMA FurnishedReflexive ==
  ASSUME NEW g, GoodY(g)
  PROVE  Furnished(g, g)
  BY GrowsYReflexive DEF Furnished

(* hwloc's steps.                                                          *)
LEMMA HwlocFurnishes ==
  ASSUME IInv, HwlocNext
  PROVE  Furnished(graph, graph')
<1>1. GoodY(graph) /\ WalkInv BY Parts DEF GraphInv
<1>2. CASE UNCHANGED graph BY <1>1, <1>2, FurnishedReflexive
<1>3. CASE HwlocAddMachine
  <2>1. Sited(graph, graph') /\ Site(graph', graph'.root)
    BY <1>1, <1>3, MachineSites DEF HwlocAddMachine
  <2>2. GrowsY(graph', graph') BY <1>1, <2>1, GrowsYGood, GrowsYReflexive DEF Sited
  <2> QED BY <1>1, <2>1, <2>2, SitedFurnishes
<1>4. CASE HwlocVisitChild
  <2>1. walk # <<>> /\ HasNextChild /\ graph' = AddChild(graph, Top.vd, Children[Top.obj][Top.next])
    BY <1>4 DEF HwlocVisitChild
  <2>2. walk \in Seq(Calls) /\ Len(walk) \in DOMAIN walk /\ Top \in Calls
    BY <1>1, <2>1 DEF WalkInv, HwlocTypeOK, Top
  <2>3. Top.vd \in 1..Len(graph.vertices) /\ Top.obj \in Objects /\ Top.next \in Nat \ {0}
    BY <1>1, <2>2, VertexRange DEF WalkInv, WalkSound, Calls, Top
  <2>4. Children[Top.obj][Top.next] \in Objects
    <3>1. Children[Top.obj] \in Seq(Objects) BY <2>3, TopologyConstants
    <3>2. Top.next \in DOMAIN Children[Top.obj] BY <2>1, <2>3, <3>1 DEF HasNextChild
    <3> QED BY <3>1, <3>2
  <2> QED BY <1>1, <2>1, <2>3, <2>4, PciChildFurnishes, PlainChildFurnishes
<1> QED
  BY <1>2, <1>3, <1>4 DEF HwlocNext, HwlocVersionMismatch, HwlocAscend, HwlocReturn

(* The steps of the GPU modules, the failing assertion among them.         *)
LEMMA GpuFurnishes ==
  ASSUME IInv, GpuNext
  PROVE  Furnished(graph, graph')
<1>1. GoodY(graph) /\ GpuInv BY Parts DEF GraphInv
<1>2. ASSUME Sited(graph, graph'), graph'.root = graph.root PROVE Furnished(graph, graph')
  <2>1. GrowsY(graph', graph') BY <1>1, <1>2, GrowsYGood, GrowsYReflexive DEF Sited
  <2> QED BY <1>1, <1>2, <2>1, SitedFurnishes
<1>3. CASE UNCHANGED graph BY <1>1, <1>3, FurnishedReflexive
<1>4. CASE NvmlDevice \/ NvmlAssertFails
  <2>1. PICK h \in NvmlHandles \cap DOMAIN NvmlDevs :
          graph' = SetType(NvmlAttach(h), NvmlVertex(h), "GPU") \/ graph' = NvmlAttach(h)
    BY <1>4 DEF NvmlDevice, NvmlAssertFails
  <2>2. Sited(graph, graph') /\ graph'.root = graph.root BY <1>1, <2>1, NvmlSites, NvmlGrows
  <2> QED BY <1>2, <2>2
<1>5. CASE RocmDevice
  <2>1. PICK b \in RocmBdfids :
          LET id == <<"bdfid", b>>
              g == AddVertexId(graph, id)
              vd == g.ids[id]
              described == SetDescription(AddAdapter(g, vd, Adapter("rocm", gpu.next, {})),
                                          vd, <<"rocm", gpu.next>>)
          IN graph' = SetType(described, vd, "GPU")
    BY <1>5 DEF RocmDevice
  <2>2. gpu.next <= gpu.count BY <1>5 DEF RocmDevice, AtDevice
  <2>3. gpu.next \in Devs /\ b \in Bdfs
    BY <1>1, <2>2, GpuFacts, PlatformConstants DEF Devs, RocmBdfids
  <2>4. Sited(graph, graph') /\ graph'.root = graph.root
    BY <1>1, <2>1, <2>3, RocmSites, RocmGrows
  <2> QED BY <1>2, <2>4
<1>6. ASSUME NEW m \in {"nvml", "rocm"}, GpuPair(m) PROVE Furnished(graph, graph')
  <2> DEFINE u == gpu.vertices[gpu.src]
             v == gpu.vertices[gpu.dst]
  <2>1. gpu.stage = "links" /\ gpu.src < gpu.count BY <1>6 DEF GpuPair, AtPair
  <2>2. graph' = Interconnect(graph, u, v) \/ graph' = graph BY <1>6 DEF GpuPair
  <2>3. u \in 1..Len(graph.vertices) /\ v \in 1..Len(graph.vertices)
    <3>1. /\ gpu.next = gpu.count + 1 /\ gpu.src < gpu.dst /\ gpu.dst <= gpu.count
          /\ \A i \in 1..gpu.count : i < gpu.next => gpu.vertices[i] \in 1..Len(graph.vertices)
      BY <1>1, <2>1, VertexRange DEF GpuInv, GpuSound
    <3>2. /\ gpu.src \in 1..gpu.count /\ gpu.src < gpu.next
          /\ gpu.dst \in 1..gpu.count /\ gpu.dst < gpu.next
      BY <1>1, <3>1, <2>1, GpuFacts
    <3> QED BY <3>1, <3>2
  <2> HIDE DEF u, v
  <2>4. CASE graph' = Interconnect(graph, u, v)
    <3>1. GrowsY(graph, graph') /\ graph'.root = graph.root
      BY <1>1, <2>3, <2>4, InterconnectGrows
    <3>2. graph'.vertices = graph.vertices /\ graph'.ids = graph.ids
      BY <1>1, <2>4 DEF Interconnect, AddEdge, GoodY, Good, GraphType
    <3>3. \A k, a, b : EdgeIs(graph', "PARENT", k, a, b) => EdgeIs(graph, "PARENT", k, a, b)
      BY <1>1, <2>3, <2>4, InterconnectUp
    <3>4. Sited(graph, graph) BY <1>1, SitedReflexive
    <3> QED BY <1>1, <3>1, <3>2, <3>3, <3>4, SitedFurnishes
  <2> QED BY <1>3, <2>2, <2>4
<1> QED
  BY <1>3, <1>4, <1>5, <1>6
     DEF GpuNext, NvmlThrows, GpuCount, GpuCountThrows, GpuDevicesDone, GpuReturn

(* The steps of supermuc.                                                  *)
LEMMA SupermucFurnishes ==
  ASSUME IInv, SupermucNext
  PROVE  Furnished(graph, graph')
<1>1. GoodY(graph) BY Parts DEF GraphInv
<1>2. CASE UNCHANGED graph BY <1>1, <1>2, FurnishedReflexive
<1>3. CASE SupermucAddHost
  <2>1. smRank \in Ranks /\ graph' = HostPath(graph, ProcName[smRank])
    BY <1>3, Parts, PlatformConstants DEF SupermucAddHost, SupermucTypeOK, Ranks
  <2>2. PICK host : host = ProcName[smRank] OBVIOUS
  <2>3. host \in Hosts /\ graph' = HostPath(graph, host) BY <2>1, <2>2, ProcHosts
  <2>4. PICK nodes, s1, s2, s3, s4 :
          /\ Sited(graph, nodes) /\ GoodY(nodes) /\ nodes.root = graph.root
          /\ Site(nodes, s1) /\ Site(nodes, s2) /\ Site(nodes, s3) /\ Site(nodes, s4)
          /\ HostPath(graph, host) = LinkOnce(LinkOnce(LinkOnce(nodes, s1, s2), s2, s3), s3, s4)
    BY <1>1, <2>3, HostPathSites
  <2> DEFINE g1 == LinkOnce(nodes, s1, s2)
             g2 == LinkOnce(g1, s2, s3)
             g3 == LinkOnce(g2, s3, s4)
  <2>5. ASSUME NEW v, Site(nodes, v) PROVE v \in 1..Len(nodes.vertices)
    BY <2>4, <2>5, NamedVertex DEF Site
  <2>6. /\ s1 \in 1..Len(nodes.vertices) /\ s2 \in 1..Len(nodes.vertices)
        /\ s3 \in 1..Len(nodes.vertices) /\ s4 \in 1..Len(nodes.vertices)
    BY <2>4, <2>5
  <2>7. /\ GrowsY(nodes, g1) /\ GoodY(g1) /\ g1.vertices = nodes.vertices /\ g1.ids = nodes.ids
        /\ g1.root = nodes.root
        /\ \A k, a, b : EdgeIs(g1, "PARENT", k, a, b) => EdgeIs(nodes, "PARENT", k, a, b) \/ a = s2
    BY <2>4, <2>6, LinkY, LinkOnceUp
  <2> HIDE DEF g1
  <2>8. /\ GrowsY(g1, g2) /\ GoodY(g2) /\ g2.vertices = g1.vertices /\ g2.ids = g1.ids
        /\ g2.root = g1.root
        /\ \A k, a, b : EdgeIs(g2, "PARENT", k, a, b) => EdgeIs(g1, "PARENT", k, a, b) \/ a = s3
    BY <2>6, <2>7, LinkY, LinkOnceUp
  <2> HIDE DEF g2
  <2>9. /\ GrowsY(g2, g3) /\ GoodY(g3) /\ g3.vertices = g2.vertices /\ g3.ids = g2.ids
        /\ g3.root = g2.root
        /\ \A k, a, b : EdgeIs(g3, "PARENT", k, a, b) => EdgeIs(g2, "PARENT", k, a, b) \/ a = s4
    BY <2>6, <2>7, <2>8, LinkY, LinkOnceUp
  <2>10. graph' = g3 BY <2>3, <2>4 DEF g3, g2, g1
  <2> HIDE DEF g3
  <2>11. GrowsY(nodes, g3) BY <2>4, <2>7, <2>8, <2>9, GrowsYTransitive
  <2>12. \A k, a, b : EdgeIs(g3, "PARENT", k, a, b) => EdgeIs(nodes, "PARENT", k, a, b) \/ Site(nodes, a)
    BY <2>4, <2>7, <2>8, <2>9
  <2>13. g3.vertices = nodes.vertices /\ g3.ids = nodes.ids /\ g3.root = graph.root
    BY <2>4, <2>7, <2>8, <2>9
  <2> QED BY <1>1, <2>4, <2>10, <2>11, <2>12, <2>13, SitedFurnishes
<1> QED BY <1>2, <1>3 DEF SupermucNext, SupermucRefuses, SupermucReturn

(* Every step that is not a step of the mpi module.                        *)
OthersNext ==
  /\ UNCHANGED mpi
  /\ \/ HwlocNext \/ GpuNext \/ SupermucNext
     \/ UNCHANGED graph

(* What init() and the modules other than mpi do to the graph.             *)
LEMMA OthersFurnish ==
  ASSUME IInv, OthersNext
  PROVE  Furnished(graph, graph')
<1>1. GoodY(graph) BY Parts DEF GraphInv
<1> QED
  BY <1>1, HwlocFurnishes, GpuFurnishes, SupermucFurnishes, FurnishedReflexive DEF OthersNext

------------------------------------------------------------------------------
(* What the loop body of the mpi module does to the graph.                 *)
RankAdapter == Adapter("mpi", mpi.rank, IF Pinned THEN {Mask} ELSE {})
RankAdded(g, h) ==
  /\ GrowsY(g, h) /\ GoodY(h) /\ h.edges = g.edges /\ h.root = g.root
  /\ h.ids[RankId] \in 1..Len(h.vertices) /\ h.ids[MachineId] \in 1..Len(h.vertices)
  /\ h.ids[RankId] = g.ids[RankId] \/ h.ids[RankId] \notin 1..Len(g.vertices)
  /\ \A v, k, a : HoldsAt(g, v, k, a) => HoldsAt(h, v, k, a)
  /\ \A v, k, a : HoldsAt(h, v, k, a) =>
       HoldsAt(g, v, k, a) \/ (v = h.ids[RankId] /\ a = RankAdapter)
  /\ h.vertices[h.ids[RankId]].adapters = Append(Elem(g, RankId).adapters, RankAdapter)
  /\ h.vertices[h.ids[RankId]].type = "MPIProcess" /\ RankAdapter \in Adapters
  /\ \A i \in Ranks : i # mpi.rank => h.ids[<<"mpi_rank", i>>] = g.ids[<<"mpi_rank", i>>]
  /\ \A v : Unnamed(h, v) <=> Unnamed(g, v)
  /\ 1 \in 1..Len(g.vertices) \/ Site(h, 1)
  /\ Site(h, h.ids[MachineId])

(* add_mpi_procs names the rank and its host and gives the rank one        *)
(* adapter more, with its mask, before it attaches the rank.               *)
LEMMA RankWorked ==
  ASSUME NEW g, GoodY(g), mpi.rank \in Ranks, env \in Envs
  PROVE  RankAdded(g, AddRank(g))
<1> DEFINE id == RankId
           a == RankAdapter
           f == AddVertexId(g, MachineId)
           added == AddVertexId(f, id)
           vd == added.ids[id]
           typed == SetType(added, vd, "MPIProcess")
           h == AddAdapter(typed, vd, a)
<1>1. /\ id \in Ids /\ id = <<"mpi_rank", mpi.rank>>
      /\ MachineId \in Ids /\ MachineId[1] = "machine" /\ id # MachineId
      /\ "MPIProcess" \in Types
  BY ProcHosts, IdsOf, AssignedTypes DEF RankId, MachineId, Host
<1>2. a \in Adapters
  <2>1. env.nprocs \in Nat /\ Bits \subseteq CPU
    BY PlatformConstants, MpiConstants DEF EnvType, Bits
  <2>2. (IF Pinned THEN {Mask} ELSE {}) \in SUBSET SUBSET CPU BY <2>1 DEF Mask, MaskOf
  <2> QED BY <2>2, AdaptersOf DEF RankAdapter
<1>3. AddRank(g) = h BY DEF AddRank, RankAdapter
<1>4. /\ GrowsY(g, h) /\ GoodY(h) /\ h.root = g.root
      /\ h.ids[id] \in 1..Len(h.vertices) /\ h.ids[MachineId] \in 1..Len(h.vertices)
  BY <1>3, AddRankGrows
<1>5. Added(g, h, {<<h.ids[id], a>>})
  <2> DEFINE p == AddRank(g)
  <2>1. Added(g, p, {<<p.ids[RankId], RankAdapter>>}) BY AddRankAdds DEF RankAdapter
  <2>2. h = p BY <1>3
  <2> HIDE DEF h, p
  <2> QED BY <2>1, <2>2
<1> HIDE DEF a, id
<1>6. /\ Revised(g, f, MachineId) /\ Elem(f, MachineId) = Elem(g, MachineId) /\ GoodY(f)
      /\ f.ids[MachineId] \in 1..Len(f.vertices)
  BY <1>1, AddVertexIdRevises, AddVertexIdY
<1>7. Elem(f, id) = Elem(g, id) /\ (f.ids[id] = NoVertex <=> g.ids[id] = NoVertex)
  BY <1>1, <1>6 DEF Revised
<1>8. /\ \A i \in Ids : i # MachineId => f.ids[i] = g.ids[i]
      /\ \A v : Unnamed(f, v) <=> Unnamed(g, v)
  BY <1>1, NamesOne
<1>9. f.ids[MachineId] = IF g.ids[MachineId] # NoVertex THEN g.ids[MachineId]
                                                        ELSE Len(g.vertices) + 1
  BY <1>1, NamedOrNew
<1>10. Len(f.vertices) \in Nat /\ Len(g.vertices) \in Nat /\ Len(g.vertices) <= Len(f.vertices)
  <2>1. GrowsY(g, f) BY <1>1, AddVertexIdY
  <2> QED BY <1>6, <2>1, Shape DEF GrowsY, Grows, Keeps
<1> HIDE DEF f
<1>11. /\ Revised(f, added, id) /\ Elem(added, id) = Elem(f, id) /\ GoodY(added)
       /\ added.ids[id] # NoVertex /\ added.ids[id] = vd
  BY <1>1, <1>6, AddVertexIdRevises DEF Revised
<1>12. /\ \A i \in Ids : i # id => added.ids[i] = f.ids[i]
       /\ \A v : Unnamed(added, v) <=> Unnamed(f, v)
  BY <1>1, <1>6, NamesOne
<1>13. added.ids[id] = IF f.ids[id] # NoVertex THEN f.ids[id] ELSE Len(f.vertices) + 1
  BY <1>1, <1>6, NamedOrNew
<1> HIDE DEF added, vd
<1>14. /\ Revised(added, typed, id) /\ typed.ids = added.ids
       /\ SameAdapters(Elem(typed, id), Elem(added, id)) /\ Elem(typed, id).type = "MPIProcess"
  BY <1>1, <1>11, SetTypeRevises
<1> HIDE DEF typed
<1>15. GoodY(typed) /\ typed.ids[id] # NoVertex /\ typed.ids[id] = vd
  BY <1>11, <1>14 DEF Revised
<1>16. /\ Revised(typed, h, id) /\ h.ids = typed.ids
       /\ Elem(h, id).adapters = Append(Elem(typed, id).adapters, a)
       /\ SameType(Elem(h, id), Elem(typed, id))
  BY <1>1, <1>2, <1>15, AddAdapterRevises
<1> HIDE DEF h
<1>17. h.ids = added.ids BY <1>14, <1>16
<1>18. /\ h.vertices[h.ids[id]].adapters = Append(Elem(g, id).adapters, a)
       /\ h.vertices[h.ids[id]].type = "MPIProcess"
  BY <1>7, <1>11, <1>14, <1>16, <1>17 DEF SameAdapters, SameType, Elem
<1>19. h.ids[id] = g.ids[id] \/ h.ids[id] \notin 1..Len(g.vertices)
  BY <1>1, <1>8, <1>10, <1>13, <1>17
<1>20. \A i \in Ranks : i # mpi.rank => h.ids[<<"mpi_rank", i>>] = g.ids[<<"mpi_rank", i>>]
  <2> SUFFICES ASSUME NEW i \in Ranks, i # mpi.rank
               PROVE  h.ids[<<"mpi_rank", i>>] = g.ids[<<"mpi_rank", i>>]
    OBVIOUS
  <2>1. /\ <<"mpi_rank", i>> \in Ids /\ <<"mpi_rank", i>> # id
        /\ <<"mpi_rank", i>>[1] = "mpi_rank"
    BY <1>1, IdsOf
  <2> QED BY <1>1, <1>8, <1>12, <1>17, <2>1
<1>21. \A v : Unnamed(h, v) <=> Unnamed(g, v)
  BY <1>8, <1>12, <1>14, <1>16 DEF Revised
<1>22. Site(h, h.ids[MachineId]) /\ h.ids[MachineId] = f.ids[MachineId]
  <2>1. h.ids[MachineId] # NoVertex BY <1>4 DEF NoVertex
  <2> QED BY <1>1, <1>12, <1>17, <2>1 DEF Site
<1>23. 1 \in 1..Len(g.vertices) \/ Site(h, 1)
  <2>1. CASE Len(g.vertices) = 0
    <3>1. g.ids[MachineId] = NoVertex BY <1>1, <2>1, NamedVertex
    <3> QED BY <1>9, <1>22, <2>1, <3>1
  <2>2. CASE Len(g.vertices) # 0 BY <1>10, <2>2
  <2> QED BY <2>1, <2>2
<1>24. \A v, k, b : HoldsAt(h, v, k, b) => HoldsAt(g, v, k, b) \/ (v = h.ids[id] /\ b = a)
  BY <1>5 DEF Added
<1> QED
  BY <1>2, <1>3, <1>4, <1>5, <1>18, <1>19, <1>20, <1>21, <1>22, <1>23, <1>24
     DEF RankAdded, Added, id, a

------------------------------------------------------------------------------
(* The mask of a vertex is that of its first adapter that has one.         *)
LEMMA LeastOfNaturals ==
  ASSUME NEW S \in SUBSET Nat, NEW x \in S
  PROVE  Min(S) \in S /\ Min(S) <= x
<1> DEFINE Less == OpToRel(<, Nat)
<1>1. \A a, b \in Nat : a < b => <<a, b>> \in Less BY DEF OpToRel
<1>2. \E a \in S : \A b \in S : ~(<<b, a>> \in Less)
  <2>1. IsWellFoundedOn(Less, Nat) BY NatLessThanWellFounded
  <2>2. S # {} OBVIOUS
  <2> HIDE DEF Less
  <2> QED BY <2>1, <2>2, WFMin
<1> HIDE DEF Less
<1>3. PICK a \in S : \A b \in S : ~(<<b, a>> \in Less) BY <1>2
<1>4. ASSUME NEW b \in S PROVE a <= b
  <2>1. a \in Nat /\ b \in Nat OBVIOUS
  <2>2. ~(b < a) BY <1>1, <1>3, <2>1
  <2> QED BY <2>1, <2>2
<1>5. \E m \in S : \A b \in S : m <= b BY <1>4
<1> QED BY <1>5 DEF Min

(* The adapters of a vertex are a sequence of adapters.                    *)
LEMMA AdaptersOfVertex ==
  ASSUME NEW g, GoodY(g), NEW v \in DOMAIN g.vertices
  PROVE  g.vertices[v] \in VertexType(Adapters, Descriptions)
           /\ g.vertices[v].adapters \in Seq(Adapters)
<1>1. g.vertices \in Seq(VertexType(Adapters, Descriptions)) BY Shape
<1>2. g.vertices[v] \in VertexType(Adapters, Descriptions) BY <1>1
<1> QED BY <1>2 DEF VertexType

FirstMask(g, v, k, a) ==
  /\ HoldsAt(g, v, k, a) /\ a.mask # {}
  /\ \A j, b : HoldsAt(g, v, j, b) /\ j < k => b.mask = {}

(* AffinityMask::get is the mask of the first adapter that has one.        *)
LEMMA MaskOfFirst ==
  ASSUME NEW g, GoodY(g), NEW v \in 1..Len(g.vertices)
  PROVE  \/ GetMask(g, v) = {} /\ \A k, a : HoldsAt(g, v, k, a) => a.mask = {}
         \/ \E k, a : FirstMask(g, v, k, a) /\ GetMask(g, v) = a.mask
<1> DEFINE as == g.vertices[v].adapters
           having == {i \in DOMAIN as : as[i].mask # {}}
<1>1. v \in DOMAIN g.vertices /\ as \in Seq(Adapters)
  <2>1. v \in DOMAIN g.vertices BY Shape
  <2> QED BY <2>1, AdaptersOfVertex
<1>2. DOMAIN as \subseteq Nat BY <1>1
<1>3. \A k, a : HoldsAt(g, v, k, a) <=> k \in DOMAIN as /\ a = as[k] BY <1>1 DEF HoldsAt
<1>4. GetMask(g, v) = IF having = {} THEN {} ELSE as[Min(having)].mask BY DEF GetMask
<1>5. CASE having = {} BY <1>3, <1>4, <1>5
<1>6. CASE having # {}
  <2> DEFINE k == Min(having)
  <2>1. k \in having /\ \A j \in having : k <= j
    <3>1. having \in SUBSET Nat BY <1>2
    <3> HIDE DEF having
    <3> QED BY <1>6, <3>1, LeastOfNaturals
  <2>2. k \in DOMAIN as /\ as[k].mask # {} BY <2>1
  <2>3. \A j \in DOMAIN as : j < k => as[j].mask = {}
    <3> SUFFICES ASSUME NEW j \in DOMAIN as, j < k, as[j].mask # {} PROVE FALSE
      OBVIOUS
    <3>1. j \in having OBVIOUS
    <3>2. k <= j BY <2>1, <3>1
    <3>3. j \in Nat /\ k \in Nat BY <1>2, <2>2
    <3> HIDE DEF k
    <3> QED BY <3>2, <3>3
  <2>4. GetMask(g, v) = as[k].mask BY <1>4, <1>6
  <2> HIDE DEF k
  <2>5. FirstMask(g, v, k, as[k]) BY <1>3, <2>2, <2>3 DEF FirstMask
  <2> QED BY <2>4, <2>5
<1> QED BY <1>5, <1>6

(* A value of the mask of a vertex of g is still one in h, or it is new.   *)

(* A mask the vertex did not have before is that of a new adapter.         *)
LEMMA MaskGrows ==
  ASSUME NEW g, NEW h, GoodY(g), GoodY(h), NEW v \in 1..Len(g.vertices), v \in 1..Len(h.vertices),
         \A k, a : HoldsAt(g, v, k, a) => HoldsAt(h, v, k, a), NEW c \in GetMask(h, v)
  PROVE  \/ c \in GetMask(g, v)
         \/ \E k, a : HoldsAt(h, v, k, a) /\ ~HoldsAt(g, v, k, a) /\ c \in a.mask
<1>1. PICK k, a : FirstMask(h, v, k, a) /\ GetMask(h, v) = a.mask BY MaskOfFirst
<1>2. c \in a.mask /\ HoldsAt(h, v, k, a) BY <1>1 DEF FirstMask
<1>3. CASE ~HoldsAt(g, v, k, a) BY <1>2, <1>3
<1>4. CASE HoldsAt(g, v, k, a)
  <2>1. PICK l, b : FirstMask(g, v, l, b) /\ GetMask(g, v) = b.mask
    BY <1>2, <1>4, MaskOfFirst
  <2>2. k \in Nat /\ l \in Nat
    <3>1. \A w \in DOMAIN g.vertices : g.vertices[w].adapters \in Seq(Adapters)
      BY AdaptersOfVertex
    <3> QED BY <1>4, <2>1, <3>1 DEF FirstMask, HoldsAt
  <2>3. ~(l < k)
    <3>1. HoldsAt(h, v, l, b) /\ b.mask # {} BY <2>1 DEF FirstMask
    <3> QED BY <1>1, <3>1 DEF FirstMask
  <2>4. ~(k < l) BY <1>2, <1>4, <2>1 DEF FirstMask
  <2>5. k = l BY <2>2, <2>3, <2>4
  <2>6. a = b BY <1>4, <2>1, <2>5 DEF FirstMask, HoldsAt
  <2> QED BY <1>2, <2>1, <2>6
<1> QED BY <1>3, <1>4

------------------------------------------------------------------------------
(* The PARENT edges of a vertex, and how many there are up to one of them. *)
Ups(g, v) == {k \in DOMAIN g.edges : g.edges[k].source = v /\ g.edges[k].type = "PARENT"}
UpTo(S, e) == {d \in S : d <= e}

(* Ups(g, v): the PARENT edges from v. Their ranks by insertion run over   *)
(* 1..Cardinality(Ups(g, v)).                                              *)
LEMMA UpsAre ==
  ASSUME NEW g, GoodY(g), NEW v
  PROVE  /\ IsFiniteSet(Ups(g, v)) /\ Ups(g, v) \subseteq 1..Len(g.edges) /\ Len(g.edges) \in Nat
         /\ Cardinality(Ups(g, v)) \in Nat
         /\ \A e \in Ups(g, v) : /\ EdgeIs(g, "PARENT", e, v, g.edges[e].target)
                                 /\ Cardinality(UpTo(Ups(g, v), e)) \in 1..Cardinality(Ups(g, v))
                                 /\ g.edges[e].target \in 1..Len(g.vertices)
         /\ \A e, t : EdgeIs(g, "PARENT", e, v, t) => e \in Ups(g, v) /\ t = g.edges[e].target
<1>1. g.edges \in Seq(EdgeType) BY DEF GoodY, Good, GraphType
<1>2. Len(g.edges) \in Nat /\ DOMAIN g.edges = 1..Len(g.edges) BY <1>1
<1>3. Ups(g, v) \subseteq 1..Len(g.edges) BY <1>2 DEF Ups
<1>4. IsFiniteSet(Ups(g, v)) /\ Cardinality(Ups(g, v)) \in Nat
  <2>1. IsFiniteSet(1..Len(g.edges))
    <3>1. Len(g.edges) \in Int /\ 1 \in Int BY <1>2
    <3> QED BY <3>1, FS_Interval
  <2>2. IsFiniteSet(Ups(g, v)) BY <1>3, <2>1, FS_Subset
  <2> QED BY <2>2, FS_CardinalityType
<1>5. \A e \in Ups(g, v) : EdgeIs(g, "PARENT", e, v, g.edges[e].target) BY DEF Ups, EdgeIs
<1>6. ASSUME NEW e \in Ups(g, v)
      PROVE  Cardinality(UpTo(Ups(g, v), e)) \in 1..Cardinality(Ups(g, v))
  <2> DEFINE S == UpTo(Ups(g, v), e)
  <2>1. S \subseteq Ups(g, v) /\ e \in S BY <1>2, <1>3 DEF UpTo
  <2> HIDE DEF S
  <2>2. IsFiniteSet(S) /\ Cardinality(S) <= Cardinality(Ups(g, v)) BY <1>4, <2>1, FS_Subset
  <2>3. Cardinality(S) \in Nat BY <2>2, FS_CardinalityType
  <2>4. Cardinality(S) # 0 BY <2>1, <2>2, FS_EmptySet
  <2> QED BY <1>4, <2>2, <2>3, <2>4 DEF S
<1>7. \A e \in Ups(g, v) : g.edges[e].target \in 1..Len(g.vertices) BY <1>5, EdgeWithin
<1>8. \A e, t : EdgeIs(g, "PARENT", e, v, t) => e \in Ups(g, v) /\ t = g.edges[e].target
  BY DEF EdgeIs, Ups
<1> QED BY <1>2, <1>3, <1>4, <1>5, <1>6, <1>7, <1>8

(* An edge added last ranks last, and leaves the ranks of the others.      *)
LEMMA UpsAdded ==
  ASSUME NEW S \in SUBSET Nat, IsFiniteSet(S), NEW n \in Nat, \A s \in S : s < n
  PROVE  /\ Cardinality(S \cup {n}) = Cardinality(S) + 1
         /\ UpTo(S \cup {n}, n) = S \cup {n}
         /\ \A e \in S : UpTo(S \cup {n}, e) = UpTo(S, e)
<1>1. n \notin S OBVIOUS
<1>2. Cardinality(S \cup {n}) = Cardinality(S) + 1 BY <1>1, FS_AddElement
<1>3. UpTo(S \cup {n}, n) = S \cup {n}
  <2>1. \A d \in S \cup {n} : d <= n OBVIOUS
  <2> QED BY <2>1 DEF UpTo
<1>4. \A e \in S : UpTo(S \cup {n}, e) = UpTo(S, e) BY DEF UpTo
<1> QED BY <1>2, <1>3, <1>4

(* A rank's vertex v has a parent for each adapter but the last d, and each*)
(* parent has the CPUs of the adapter's mask, or none.                     *)
BackedUp(g, v, e) ==
  /\ ~AtRank(g, g.edges[e].target)
  /\ \A mask \in g.vertices[v].adapters[Cardinality(UpTo(Ups(g, v), e))].mask :
       \A c \in GetMask(g, g.edges[e].target) : mask \subseteq c
BackedAt(g, v, d) ==
  /\ Len(g.vertices[v].adapters) = Cardinality(Ups(g, v)) + d
  /\ \A e \in Ups(g, v) : BackedUp(g, v, e)

(* Whose mask a vertex may have.                                           *)
MasksFit(g) ==
  \A v, k, a : HoldsAt(g, v, k, a) =>
    /\ Site(g, v) => a.mask = {} \/ a = HwlocAdapter(MachineObj)
    /\ Unnamed(g, v) => \E o \in Objects : a = HwlocAdapter(o)
    /\ AtRank(g, v) => \A m \in a.mask :
         a.mask = {m} /\ \A c \in CpusetOf[MachineObj] : m \subseteq c

(* More vertices and adapters, and no edge from v: what backs it stays.    *)
LEMMA BackedFrame ==
  ASSUME NEW g, NEW h, GoodY(g), GoodY(h), GrowsY(g, h), NEW v \in 1..Len(g.vertices),
         AtRank(g, v), MasksFit(g), NEW d \in Nat, NEW x \in Nat, BackedAt(g, v, d),
         Len(h.vertices[v].adapters) = Len(g.vertices[v].adapters) + x,
         \A u, k, a : HoldsAt(g, u, k, a) => HoldsAt(h, u, k, a),
         \A u, k, a : HoldsAt(h, u, k, a) => \/ HoldsAt(g, u, k, a)
                                             \/ u \notin 1..Len(g.vertices) \/ AtRank(h, u)
                                             \/ a.mask = {} \/ a = HwlocAdapter(MachineObj),
         \A u \in 1..Len(g.vertices) : AtRank(h, u) => AtRank(g, u),
         \A k, b : EdgeIs(h, "PARENT", k, v, b) => EdgeIs(g, "PARENT", k, v, b)
  PROVE  BackedAt(h, v, d + x)
<1>1. DOMAIN g.vertices = 1..Len(g.vertices) /\ v \in 1..Len(h.vertices)
  BY Shape, DescriptorsKept
<1>2. \A k, b : EdgeIs(g, "PARENT", k, v, b) => EdgeIs(h, "PARENT", k, v, b)
  BY DEF GrowsY, Grows, Keeps, EdgeIs, GoodY, Good, GraphType
<1>3. Ups(h, v) = Ups(g, v) /\ \A e \in Ups(g, v) : h.edges[e].target = g.edges[e].target
  <2>1. \A e : e \in Ups(g, v) => EdgeIs(h, "PARENT", e, v, g.edges[e].target) BY <1>2, UpsAre
  <2>2. \A e : e \in Ups(h, v) => EdgeIs(g, "PARENT", e, v, h.edges[e].target) BY UpsAre
  <2>3. \A e, t : EdgeIs(h, "PARENT", e, v, t) => e \in Ups(h, v) /\ t = h.edges[e].target
    BY UpsAre
  <2>4. \A e : e \in Ups(g, v) => e \in Ups(h, v) /\ h.edges[e].target = g.edges[e].target
    BY ONLY <2>1, <2>3
  <2>5. \A e : e \in Ups(h, v) => e \in Ups(g, v) BY <2>2, UpsAre
  <2> QED BY <2>4, <2>5
<1>4. Len(g.vertices[v].adapters) \in Nat /\ Cardinality(Ups(g, v)) \in Nat
        /\ g.vertices[v].adapters \in Seq(Adapters)
  BY <1>1, AdaptersOfVertex, UpsAre
<1>5. Len(h.vertices[v].adapters) = Cardinality(Ups(h, v)) + (d + x)
  BY <1>3, <1>4 DEF BackedAt
<1>6. ASSUME NEW e \in Ups(g, v) PROVE BackedUp(h, v, e)
  <2> DEFINE t == g.edges[e].target
             n == Cardinality(UpTo(Ups(g, v), e))
             a == g.vertices[v].adapters[n]
  <2>1. /\ t \in 1..Len(g.vertices) /\ t \in 1..Len(h.vertices) /\ ~AtRank(g, t)
        /\ n \in 1..Cardinality(Ups(g, v)) /\ h.edges[e].target = t
    BY <1>3, UpsAre, DescriptorsKept DEF BackedAt, BackedUp
  <2>2. HoldsAt(g, v, n, a)
    <3>1. n \in DOMAIN g.vertices[v].adapters
      <4>1. DOMAIN g.vertices[v].adapters = 1..Len(g.vertices[v].adapters)
        BY <1>4, LenProperties, Zenon
      <4>2. Len(g.vertices[v].adapters) = Cardinality(Ups(g, v)) + d BY DEF BackedAt
      <4>3. n \in 1..Cardinality(Ups(g, v)) BY <2>1
      <4> HIDE DEF n
      <4>4. n \in 1..Len(g.vertices[v].adapters) BY <1>4, <4>2, <4>3
      <4> QED BY <4>1, <4>4, Zenon
    <3> HIDE DEF n
    <3> QED BY <1>1, <3>1 DEF HoldsAt
  <2> HIDE DEF t, n, a
  <2>3. h.vertices[v].adapters[n] = a BY <2>2 DEF HoldsAt
  <2>4. ASSUME NEW mask \in a.mask, NEW c \in GetMask(h, t) PROVE mask \subseteq c
    <3>1. CASE c \in GetMask(g, t) BY <3>1 DEF BackedAt, BackedUp, t, a, n
    <3>2. ASSUME NEW k, NEW b, HoldsAt(h, t, k, b), ~HoldsAt(g, t, k, b), c \in b.mask
          PROVE  mask \subseteq c
      <4>1. b = HwlocAdapter(MachineObj) BY <2>1, <3>2
      <4>2. c \in CpusetOf[MachineObj] BY <3>2, <4>1, AdapterFields DEF HwlocAdapter
      <4> QED BY <2>2, <4>2 DEF MasksFit
    <3> QED BY <2>1, <3>1, <3>2, MaskGrows
  <2>5. ~AtRank(h, t) BY <2>1
  <2> QED BY <1>3, <2>1, <2>3, <2>4, <2>5 DEF BackedUp, n
<1> QED BY <1>3, <1>5, <1>6 DEF BackedAt

(* Hanging v below u backs its last adapter, if u has the CPUs it says; it *)
(* changes nothing for other vertices.                                     *)
LEMMA LinkKeepsVertices ==
  ASSUME NEW g, GoodY(g), NEW u \in 1..Len(g.vertices), NEW v \in 1..Len(g.vertices)
  PROVE  LET h == Link(g, u, v)
         IN /\ GoodY(h) /\ \A w : GetMask(h, w) = GetMask(g, w)
            /\ \A w : AtRank(h, w) <=> AtRank(g, w)
            /\ \A w, k, a : HoldsAt(h, w, k, a) <=> HoldsAt(g, w, k, a)
            /\ \A w : (Site(h, w) <=> Site(g, w)) /\ (Unnamed(h, w) <=> Unnamed(g, w))
            /\ h.vertices = g.vertices /\ h.ids = g.ids /\ h.root = g.root
            /\ \A w : w # v => Ups(h, w) = Ups(g, w)
            /\ Ups(h, v) = Ups(g, v) \cup {Len(g.edges) + 2}
            /\ h.edges[Len(g.edges) + 2].target = u
            /\ \A e \in DOMAIN g.edges : h.edges[e] = g.edges[e]
<1> DEFINE h == Link(g, u, v)
<1>1. /\ GoodY(h) /\ GrowsY(g, h) /\ h.vertices = g.vertices /\ h.ids = g.ids /\ h.root = g.root
  BY LinkY
<1>2. \A k, a, b : EdgeIs(h, "PARENT", k, a, b) <=>
        EdgeIs(g, "PARENT", k, a, b) \/ (k = Len(g.edges) + 2 /\ a = v /\ b = u)
  BY LinkUp
<1> HIDE DEF h
<1>3. \A w, k : k \in Ups(h, w) <=> \E b : EdgeIs(h, "PARENT", k, w, b) BY DEF Ups, EdgeIs
<1>4. \A w, k : k \in Ups(g, w) <=> \E b : EdgeIs(g, "PARENT", k, w, b) BY DEF Ups, EdgeIs
<1>5. ASSUME NEW w, w # v PROVE Ups(h, w) = Ups(g, w)
  <2>1. \A k : k \in Ups(h, w) <=> k \in Ups(g, w) BY <1>2, <1>3, <1>4, <1>5
  <2> QED BY <2>1
<1>6. Ups(h, v) = Ups(g, v) \cup {Len(g.edges) + 2}
  <2>1. \A k : k \in Ups(h, v) <=> k \in Ups(g, v) \/ k = Len(g.edges) + 2
    BY <1>2, <1>3, <1>4
  <2> QED BY <2>1
<1>7. h.edges[Len(g.edges) + 2].target = u
  <2>1. EdgeIs(h, "PARENT", Len(g.edges) + 2, v, u) BY <1>2
  <2> QED BY <2>1 DEF EdgeIs
<1>8. \A e \in DOMAIN g.edges : h.edges[e] = g.edges[e] BY <1>1 DEF GrowsY, Grows, Keeps
<1>9. \A w : GetMask(h, w) = GetMask(g, w) BY <1>1 DEF GetMask
<1>10. /\ \A w : AtRank(h, w) <=> AtRank(g, w)
       /\ \A w, k, a : HoldsAt(h, w, k, a) <=> HoldsAt(g, w, k, a)
       /\ \A w : (Site(h, w) <=> Site(g, w)) /\ (Unnamed(h, w) <=> Unnamed(g, w))
  BY <1>1 DEF AtRank, HoldsAt, Site, Unnamed
<1> QED BY <1>1, <1>5, <1>6, <1>7, <1>8, <1>9, <1>10 DEF h

(* Hanging one vertex changes nothing for the adapters of another.         *)
LEMMA BackedBeside ==
  ASSUME NEW g, GoodY(g), NEW u \in 1..Len(g.vertices), NEW v \in 1..Len(g.vertices),
         NEW w, w # v, NEW d, BackedAt(g, w, d)
  PROVE  BackedAt(Link(g, u, v), w, d)
<1> DEFINE h == Link(g, u, v)
<1>1. /\ \A x : GetMask(h, x) = GetMask(g, x) /\ (AtRank(h, x) <=> AtRank(g, x))
      /\ h.vertices = g.vertices /\ Ups(h, w) = Ups(g, w)
      /\ \A e \in DOMAIN g.edges : h.edges[e] = g.edges[e]
  BY LinkKeepsVertices
<1> HIDE DEF h
<1>2. \A e \in Ups(g, w) : h.edges[e] = g.edges[e] BY <1>1 DEF Ups
<1> QED BY <1>1, <1>2 DEF BackedAt, BackedUp, h

(* Hanging v below u uses up the adapter that was left over.               *)
LEMMA BackedLinked ==
  ASSUME NEW g, GoodY(g), NEW u \in 1..Len(g.vertices), NEW v \in 1..Len(g.vertices),
         BackedAt(g, v, 1), ~AtRank(g, u),
         LET as == g.vertices[v].adapters
         IN \A mask \in as[Len(as)].mask : \A c \in GetMask(g, u) : mask \subseteq c
  PROVE  BackedAt(Link(g, u, v), v, 0)
<1> DEFINE h == Link(g, u, v)
           as == g.vertices[v].adapters
           up == Ups(g, v)
           n == Len(g.edges) + 2
<1>1. /\ \A x : GetMask(h, x) = GetMask(g, x) /\ (AtRank(h, x) <=> AtRank(g, x))
      /\ h.vertices = g.vertices /\ Ups(h, v) = up \cup {n} /\ h.edges[n].target = u
      /\ \A e \in DOMAIN g.edges : h.edges[e] = g.edges[e]
  BY LinkKeepsVertices
<1>2. /\ IsFiniteSet(up) /\ up \subseteq 1..Len(g.edges) /\ Len(g.edges) \in Nat
      /\ Cardinality(up) \in Nat
  BY UpsAre
<1>3. up \in SUBSET Nat /\ n \in Nat /\ \A s \in up : s < n
  <2> HIDE DEF up
  <2> QED BY <1>2
<1> HIDE DEF h, n
<1>4. /\ Cardinality(up \cup {n}) = Cardinality(up) + 1 /\ UpTo(up \cup {n}, n) = up \cup {n}
      /\ \A e \in up : UpTo(up \cup {n}, e) = UpTo(up, e)
  <2> HIDE DEF up
  <2> QED BY <1>2, <1>3, UpsAdded
<1>5. Len(as) = Cardinality(up) + 1 /\ \A e \in up : BackedUp(g, v, e) BY DEF BackedAt
<1>6. \A e \in up : BackedUp(h, v, e)
  <2> SUFFICES ASSUME NEW e \in up PROVE BackedUp(h, v, e)
    OBVIOUS
  <2>1. h.edges[e] = g.edges[e] BY <1>1 DEF Ups
  <2>2. UpTo(Ups(h, v), e) = UpTo(Ups(g, v), e) BY <1>1, <1>4
  <2> QED BY <1>1, <1>5, <2>1, <2>2 DEF BackedUp
<1>7. BackedUp(h, v, n)
  <2>1. Cardinality(UpTo(Ups(h, v), n)) = Len(as) BY <1>1, <1>4, <1>5
  <2> QED BY <1>1, <2>1 DEF BackedUp
<1>8. Len(h.vertices[v].adapters) = Cardinality(Ups(h, v)) + 0
  <2> HIDE DEF up, as
  <2> QED BY <1>1, <1>2, <1>4, <1>5 DEF as
<1> QED BY <1>1, <1>6, <1>7, <1>8 DEF BackedAt, h

------------------------------------------------------------------------------
(* The invariant behind PlacementsBacked.                                  *)
FirstSited(g) ==
  /\ 1 \in 1..Len(g.vertices) => Site(g, 1)
  /\ g.root = 1 \/ Site(g, g.root)
RanksTyped ==
  \A i \in Ranks : RankVertex(i) # NoVertex =>
    graph.vertices[RankVertex(i)].type = "MPIProcess"
MpiAlone ==
  /\ phase = "idle" => current = "none"
  /\ phase = "threw" => mpi.stage = "start"
  /\ mpi.stage # "start" => /\ current = "mpi" /\ env.mpi
                            /\ \A i \in Ranks : mpi.cpusets[i] \in CpuChoices
DescentFits ==
  mpi.stage = "descend" =>
    /\ ~AtRank(graph, mpi.at)
    /\ \A c \in GetMask(graph, mpi.at) : Mask \subseteq c
    /\ LET as == graph.vertices[graph.ids[RankId]].adapters IN as[Len(as)].mask = {Mask}
Unplaced(i) == IF mpi.stage = "descend" /\ mpi.rank = i THEN 1 ELSE 0
AllBacked ==
  \A i \in Ranks : RankVertex(i) # NoVertex => BackedAt(graph, RankVertex(i), Unplaced(i))
BackedInv ==
  MasksFit(graph) /\ FirstSited(graph) /\ RanksTyped /\ MpiAlone /\ DescentFits /\ AllBacked

(* A vertex is a site, a rank's, or without a name.                        *)
LEMMA VertexKinds ==
  ASSUME NEW g, GoodY(g), NEW v \in 1..Len(g.vertices)
  PROVE  /\ Site(g, v) \/ AtRank(g, v) \/ Unnamed(g, v)
         /\ ~(Unnamed(g, v) /\ (Site(g, v) \/ AtRank(g, v)))
<1>1. DOMAIN g.vertices = 1..Len(g.vertices) /\ v # NoVertex BY Shape DEF NoVertex
<1>2. ASSUME NEW id \in Ids, g.ids[id] = v PROVE Site(g, v) \/ AtRank(g, v)
  <2>1. CASE id[1] # "mpi_rank" BY <1>1, <1>2, <2>1 DEF Site
  <2>2. CASE id[1] = "mpi_rank"
    <3>1. \E i \in Ranks : id = <<"mpi_rank", i>> BY <2>2 DEF Ids
    <3> QED BY <1>2, <3>1 DEF AtRank
  <2> QED BY <2>1, <2>2
<1>3. \A i \in Ranks : <<"mpi_rank", i>> \in Ids BY IdsOf
<1> QED BY <1>1, <1>2, <1>3 DEF Unnamed, Site, AtRank

(* What other modules do leaves the masks fit and ranks backed.            *)
LEMMA FurnishedFits ==
  ASSUME NEW g, NEW h, GoodY(g), Furnished(g, h), MasksFit(g), FirstSited(g)
  PROVE  MasksFit(h) /\ FirstSited(h)
<1>1. GrowsY(g, h) /\ GoodY(h) BY GrowsYGood DEF Furnished
<1>2. DOMAIN g.vertices = 1..Len(g.vertices) /\ DOMAIN h.vertices = 1..Len(h.vertices)
  BY <1>1, Shape
<1>3. \A v : AtRank(h, v) <=> AtRank(g, v) BY DEF Furnished, AtRank
<1>4. \A v \in 1..Len(g.vertices) : Site(h, v) => Site(g, v)
  <2> SUFFICES ASSUME NEW v \in 1..Len(g.vertices), Site(h, v), ~Site(g, v) PROVE FALSE
    OBVIOUS
  <2>1. ~AtRank(g, v) BY <1>1, <1>3, SiteNotRank
  <2>2. ~Unnamed(h, v) BY DEF Site, Unnamed
  <2>3. \A id \in Ids : g.ids[id] # v
    <3> SUFFICES ASSUME NEW id \in Ids, g.ids[id] = v PROVE FALSE
      OBVIOUS
    <3>1. v # NoVertex BY DEF NoVertex
    <3>2. id[1] = "mpi_rank" BY <3>1 DEF Site
    <3>3. \E i \in Ranks : id = <<"mpi_rank", i>> BY <3>2 DEF Ids
    <3> QED BY <2>1, <3>3 DEF AtRank
  <2>4. Unnamed(g, v) BY <1>2, <2>3 DEF Unnamed
  <2> QED BY <2>2, <2>4 DEF Furnished
<1>5. Len(g.vertices) \in Nat /\ 1..Len(g.vertices) \subseteq 1..Len(h.vertices)
  BY <1>1, Shape, DescriptorsKept
<1>6. ASSUME NEW v, NEW k, NEW a, HoldsAt(h, v, k, a)
      PROVE  /\ Site(h, v) => a.mask = {} \/ a = HwlocAdapter(MachineObj)
             /\ Unnamed(h, v) => \E o \in Objects : a = HwlocAdapter(o)
             /\ AtRank(h, v) => \A m \in a.mask :
                  a.mask = {m} /\ \A c \in CpusetOf[MachineObj] : m \subseteq c
  <2>1. CASE HoldsAt(g, v, k, a)
    <3>1. v \in 1..Len(g.vertices) BY <1>2, <2>1 DEF HoldsAt
    <3>2. Unnamed(h, v) => Unnamed(g, v) BY <3>1 DEF Furnished
    <3> QED BY <1>3, <1>4, <2>1, <3>1, <3>2 DEF MasksFit
  <2>2. CASE Gift(g, h, v, a)
    <3>1. v \in 1..Len(h.vertices) BY <1>2, <1>6 DEF HoldsAt
    <3>2. Site(h, v) => ~AtRank(h, v) BY <1>1, SiteNotRank
    <3>3. Unnamed(h, v) => ~Site(h, v) /\ ~AtRank(h, v) BY <1>1, <3>1, VertexKinds
    <3> QED BY <2>2, <3>2, <3>3 DEF Gift, SiteGift
  <2> QED BY <1>6, <2>1, <2>2 DEF Furnished
<1>7. 1 \in 1..Len(h.vertices) => Site(h, 1)
  <2> SUFFICES ASSUME 1 \in 1..Len(h.vertices), ~Site(h, 1) PROVE FALSE
    OBVIOUS
  <2>1. 1 \notin 1..Len(g.vertices) BY <1>1, SiteKept DEF FirstSited
  <2>2. ~Unnamed(h, 1) BY <1>2, <2>1 DEF Furnished, Unnamed
  <2>3. ~AtRank(h, 1)
    <3> SUFFICES ASSUME AtRank(g, 1) PROVE FALSE
      BY <1>3
    <3>1. PICK i \in Ranks : g.ids[<<"mpi_rank", i>>] = 1 BY DEF AtRank
    <3>2. <<"mpi_rank", i>> \in Ids /\ 1 # NoVertex BY IdsOf DEF NoVertex
    <3> QED BY <2>1, <3>1, <3>2, NamedVertex
  <2> QED BY <1>1, <2>2, <2>3, VertexKinds
<1>8. h.root = 1 \/ Site(h, h.root) BY <1>1, SiteKept DEF FirstSited, Furnished
<1> QED BY <1>6, <1>7, <1>8 DEF MasksFit, FirstSited

(* Equal intervals from 1 end alike.                                       *)
LEMMA IntervalEnd ==
  ASSUME NEW m \in Nat, NEW n \in Nat, 1..m = 1..n
  PROVE  m = n
<1>1. m # 0 => m \in 1..m OBVIOUS
<1>2. m # 0 => m <= n BY <1>1
<1>3. n # 0 => n \in 1..n OBVIOUS
<1>4. n # 0 => n <= m BY <1>3
<1> QED BY <1>2, <1>4

(* Sequences on the same positions are equally long.                       *)
LEMMA DomainGivesLength ==
  ASSUME NEW S, NEW p \in Seq(S), NEW q \in Seq(S), DOMAIN p = DOMAIN q
  PROVE  Len(p) = Len(q)
<1>1. Len(p) \in Nat /\ Len(q) \in Nat OBVIOUS
<1>2. DOMAIN p = 1..Len(p) /\ DOMAIN q = 1..Len(q) OBVIOUS
<1>3. 1..Len(p) = 1..Len(q) BY <1>2
<1> QED BY <1>1, <1>3, IntervalEnd

(* A vertex that holds the same adapters holds as many.                    *)
LEMMA NoMoreAdapters ==
  ASSUME NEW g, NEW h, GoodY(g), GoodY(h), NEW v \in 1..Len(g.vertices), v \in 1..Len(h.vertices),
         \A k, a : HoldsAt(h, v, k, a) <=> HoldsAt(g, v, k, a)
  PROVE  Len(h.vertices[v].adapters) = Len(g.vertices[v].adapters)
<1> DEFINE as == g.vertices[v].adapters
           bs == h.vertices[v].adapters
<1>1. v \in DOMAIN g.vertices /\ v \in DOMAIN h.vertices BY Shape
<1>2. as \in Seq(Adapters) /\ bs \in Seq(Adapters) BY <1>1, AdaptersOfVertex
<1>3. \A k \in DOMAIN bs : k \in DOMAIN as
  <2>1. \A k \in DOMAIN bs : HoldsAt(h, v, k, bs[k]) BY <1>1 DEF HoldsAt
  <2> QED BY <2>1 DEF HoldsAt
<1>4. \A k \in DOMAIN as : k \in DOMAIN bs
  <2>1. \A k \in DOMAIN as : HoldsAt(g, v, k, as[k]) BY <1>1 DEF HoldsAt
  <2> QED BY <2>1 DEF HoldsAt
<1> HIDE DEF as, bs
<1>5. DOMAIN as = DOMAIN bs BY <1>3, <1>4
<1>6. Len(as) = Len(bs) BY <1>2, <1>5, DomainGivesLength
<1> QED BY <1>6 DEF as, bs

(* The same of the body of the loop over the ranks, up to the placement.   *)

(* What was a rank or a site before add_mpi_procs names a rank is one      *)
(* after.                                                                  *)
LEMMA RankAddedKinds ==
  ASSUME NEW g, NEW h, GoodY(g), RankAdded(g, h), mpi.rank \in Ranks
  PROVE  \A v \in 1..Len(g.vertices) :
           /\ AtRank(h, v) <=> AtRank(g, v)
           /\ Site(h, v) <=> Site(g, v)
<1> SUFFICES ASSUME NEW v \in 1..Len(g.vertices)
             PROVE  (AtRank(h, v) <=> AtRank(g, v)) /\ (Site(h, v) <=> Site(g, v))
  OBVIOUS
<1>1. GrowsY(g, h) /\ GoodY(h) /\ v \in 1..Len(h.vertices) BY DescriptorsKept DEF RankAdded
<1>2. ASSUME AtRank(h, v) PROVE AtRank(g, v)
  <2>1. PICK i \in Ranks : v = h.ids[<<"mpi_rank", i>>] BY <1>2 DEF AtRank
  <2>2. v = g.ids[<<"mpi_rank", i>>]
    <3>1. CASE i # mpi.rank BY <2>1, <3>1 DEF RankAdded
    <3>2. CASE i = mpi.rank BY <2>1, <3>2 DEF RankAdded, RankId
    <3> QED BY <3>1, <3>2
  <2> QED BY <2>2 DEF AtRank
<1>3. ASSUME AtRank(g, v) PROVE AtRank(h, v)
  <2>1. PICK i \in Ranks : v = g.ids[<<"mpi_rank", i>>] BY <1>3 DEF AtRank
  <2>2. <<"mpi_rank", i>> \in Ids BY IdsOf
  <2>3. v = h.ids[<<"mpi_rank", i>>] BY <1>1, <2>1, <2>2, IdentifierKept
  <2> QED BY <2>3 DEF AtRank
<1>4. Site(g, v) => Site(h, v) BY <1>1, SiteKept
<1>5. Unnamed(h, v) <=> Unnamed(g, v) BY DEF RankAdded
<1>6. ASSUME Site(h, v) PROVE Site(g, v)
  <2>1. ~AtRank(h, v) BY <1>1, <1>6, SiteNotRank
  <2>2. ~Unnamed(h, v) BY <1>1, <1>6, VertexKinds
  <2> QED BY <1>3, <1>5, <2>1, <2>2, VertexKinds
<1> QED BY <1>2, <1>3, <1>4, <1>6

(* The new adapter of the rank has a mask this machine knows.              *)
LEMMA RankAddedFits ==
  ASSUME MasksKnown, env \in Envs, mpi.rank \in Ranks, mpi.cpusets[mpi.rank] \in CpuChoices,
         NEW g, NEW h, GoodY(g), RankAdded(g, h), MasksFit(g), FirstSited(g)
  PROVE  MasksFit(h) /\ FirstSited(h)
<1>1. GrowsY(g, h) /\ GoodY(h) BY DEF RankAdded
<1>2. DOMAIN g.vertices = 1..Len(g.vertices) /\ DOMAIN h.vertices = 1..Len(h.vertices)
  BY <1>1, Shape
<1>3. \A v \in 1..Len(g.vertices) :
        /\ AtRank(h, v) <=> AtRank(g, v)
        /\ Site(h, v) <=> Site(g, v)
  BY RankAddedKinds
<1>4. \A c \in CpusetOf[MachineObj] : Mask \subseteq c BY DEF MasksKnown, Mask, MaskOf, Bits
<1>5. RankAdapter.mask = {} \/ RankAdapter.mask = {Mask} BY AdapterFields DEF RankAdapter
<1>6. AtRank(h, h.ids[RankId]) BY DEF AtRank, RankId
<1>7. ASSUME NEW v, NEW k, NEW a, HoldsAt(h, v, k, a)
      PROVE  /\ Site(h, v) => a.mask = {} \/ a = HwlocAdapter(MachineObj)
             /\ Unnamed(h, v) => \E o \in Objects : a = HwlocAdapter(o)
             /\ AtRank(h, v) => \A m \in a.mask :
                  a.mask = {m} /\ \A c \in CpusetOf[MachineObj] : m \subseteq c
  <2>1. CASE HoldsAt(g, v, k, a)
    <3>1. v \in 1..Len(g.vertices) BY <1>2, <2>1 DEF HoldsAt
    <3>2. Unnamed(h, v) => Unnamed(g, v) BY DEF RankAdded
    <3> QED BY <1>3, <2>1, <3>1, <3>2 DEF MasksFit
  <2>2. CASE v = h.ids[RankId] /\ a = RankAdapter
    <3>1. v \in 1..Len(h.vertices) BY <1>2, <1>7 DEF HoldsAt
    <3>2. ~Site(h, v) BY <1>1, <1>6, <2>2, SiteNotRank
    <3>3. ~Unnamed(h, v) BY <1>1, <1>6, <2>2, <3>1, VertexKinds
    <3> QED BY <1>4, <1>5, <2>2, <3>2, <3>3
  <2> QED BY <1>7, <2>1, <2>2 DEF RankAdded
<1>8. 1 \in 1..Len(h.vertices) => Site(h, 1) BY <1>1, SiteKept DEF FirstSited, RankAdded
<1>9. h.root = 1 \/ Site(h, h.root) BY <1>1, SiteKept DEF FirstSited, RankAdded
<1> QED BY <1>7, <1>8, <1>9 DEF MasksFit, FirstSited

(* An appended adapter is one more.                                        *)
LEMMA OneLonger ==
  ASSUME NEW S, NEW s \in Seq(S), NEW e \in S
  PROVE  Len(s) \in Nat /\ Len(Append(s, e)) = Len(s) + 1
  BY AppendProperties, LenProperties

(* The rank named last has one adapter more than PARENT edges; the others  *)
(* keep theirs backed.                                                     *)
LEMMA RankAddedBacks ==
  ASSUME NEW g, NEW h, GoodY(g), RankAdded(g, h), MasksFit(g), mpi.rank \in Ranks,
         NEW i \in Ranks, NEW v, v = h.ids[<<"mpi_rank", i>>], v # NoVertex,
         g.ids[<<"mpi_rank", i>>] # NoVertex => BackedAt(g, g.ids[<<"mpi_rank", i>>], 0)
  PROVE  BackedAt(h, v, IF mpi.rank = i THEN 1 ELSE 0)
<1> DEFINE id == <<"mpi_rank", i>>
           x == IF mpi.rank = i THEN 1 ELSE 0
<1>1. GrowsY(g, h) /\ GoodY(h) /\ h.edges = g.edges BY DEF RankAdded
<1>2. id \in Ids /\ x \in Nat /\ RankId \in Ids BY IdsOf DEF RankId
<1>3. DOMAIN g.vertices = 1..Len(g.vertices) /\ DOMAIN h.vertices = 1..Len(h.vertices)
  BY <1>1, Shape
<1>4. v \in 1..Len(h.vertices) BY <1>1, <1>2, NamedVertex
<1>5. AtRank(h, v) BY DEF AtRank
<1>6. g.ids[id] = v \/ (i = mpi.rank /\ v \notin 1..Len(g.vertices))
  BY DEF RankAdded, RankId
<1>7. CASE g.ids[id] = v
  <2>1. v \in 1..Len(g.vertices) /\ BackedAt(g, v, 0) BY <1>2, <1>7, NamedVertex
  <2>0. g.vertices[v].adapters \in Seq(Adapters)
    <3>1. v \in DOMAIN g.vertices BY <1>3, <2>1
    <3> QED BY <3>1, AdaptersOfVertex
  <2>2. AtRank(g, v) BY <1>7 DEF AtRank
  <2>3. \A u \in 1..Len(g.vertices) : AtRank(h, u) => AtRank(g, u) BY RankAddedKinds
  <2>4. \A u, k, a : HoldsAt(g, u, k, a) => HoldsAt(h, u, k, a) BY DEF RankAdded
  <2>5. \A u, k, a : HoldsAt(h, u, k, a) => HoldsAt(g, u, k, a) \/ AtRank(h, u)
    <3>1. AtRank(h, h.ids[RankId]) BY DEF AtRank, RankId
    <3> QED BY <3>1 DEF RankAdded
  <2>6. Len(h.vertices[v].adapters) = Len(g.vertices[v].adapters) + x
    <3>1. CASE i = mpi.rank
      <4>1. v = h.ids[RankId] /\ Elem(g, RankId) = g.vertices[v] BY <1>7, <3>1 DEF RankId, Elem
      <4>2. h.vertices[v].adapters = Append(g.vertices[v].adapters, RankAdapter)
        BY <4>1 DEF RankAdded
      <4>3. RankAdapter \in Adapters BY DEF RankAdded
      <4>4. Len(Append(g.vertices[v].adapters, RankAdapter)) = Len(g.vertices[v].adapters) + 1
        BY <2>0, <4>3, OneLonger, Zenon
      <4>5. x = 1 BY <3>1
      <4> HIDE DEF x
      <4> QED BY <4>2, <4>4, <4>5, Zenon
    <3>2. CASE i # mpi.rank
      <4>1. v # h.ids[RankId]
        <5>1. <<"mpi_rank", i>> # RankId BY <3>2 DEF RankId
        <5>2. \A d, e \in Ids : h.ids[d] = h.ids[e] => d = e \/ h.ids[d] = NoVertex
          BY <1>1 DEF GoodY, Good, IdsSound, GraphType
        <5> QED BY <1>2, <5>1, <5>2
      <4>2. \A k, a : HoldsAt(h, v, k, a) <=> HoldsAt(g, v, k, a) BY <2>4, <4>1 DEF RankAdded
      <4>3. Len(h.vertices[v].adapters) = Len(g.vertices[v].adapters)
        BY <1>1, <1>4, <2>1, <4>2, NoMoreAdapters
      <4>4. Len(g.vertices[v].adapters) \in Nat BY <2>0, LenProperties, Zenon
      <4>5. x = 0 BY <3>2
      <4> HIDE DEF x
      <4> QED BY <4>3, <4>4, <4>5
    <3> QED BY <3>1, <3>2
  <2>7. \A k, b : EdgeIs(h, "PARENT", k, v, b) => EdgeIs(g, "PARENT", k, v, b)
    BY <1>1 DEF EdgeIs
  <2> HIDE DEF x
  <2>8. BackedAt(h, v, 0 + x)
    BY <1>1, <1>2, <2>1, <2>2, <2>3, <2>4, <2>5, <2>6, <2>7, BackedFrame
  <2> QED BY <1>2, <2>8 DEF x
<1>8. CASE g.ids[id] # v /\ i = mpi.rank /\ v \notin 1..Len(g.vertices)
  <2>1. g.ids[id] = NoVertex BY <1>1, <1>2, <1>8, NamedVertex, IdentifierKept
  <2>2. v = h.ids[RankId] /\ Elem(g, RankId) = NewVertex BY <1>8, <2>1 DEF RankId, Elem
  <2>3. h.vertices[v].adapters = Append(<<>>, RankAdapter)
    BY <2>2 DEF RankAdded, NewVertex
  <2>4. Len(h.vertices[v].adapters) = 1 BY <2>3
  <2>5. Ups(h, v) = {}
    <3> SUFFICES ASSUME NEW k \in Ups(h, v) PROVE FALSE
      OBVIOUS
    <3>1. EdgeIs(h, "PARENT", k, v, h.edges[k].target) BY DEF Ups, EdgeIs
    <3>2. EdgeIs(g, "PARENT", k, v, h.edges[k].target) BY <1>1, <3>1 DEF EdgeIs
    <3> QED BY <1>8, <3>2, EdgeWithin
  <2>6. Cardinality(Ups(h, v)) = 0 BY <2>5, FS_EmptySet
  <2>7. x = 1 BY <1>8
  <2> HIDE DEF x
  <2>8. BackedAt(h, v, x) BY <2>4, <2>5, <2>6, <2>7 DEF BackedAt
  <2> QED BY <2>8 DEF x
<1> QED BY <1>6, <1>7, <1>8

(* Edges change no adapter and no name.                                    *)
LEMMA LinkFits ==
  ASSUME NEW g, GoodY(g), NEW u \in 1..Len(g.vertices), NEW v \in 1..Len(g.vertices),
         MasksFit(g), FirstSited(g)
  PROVE  MasksFit(Link(g, u, v)) /\ FirstSited(Link(g, u, v))
<1> DEFINE h == Link(g, u, v)
<1>1. /\ \A w : AtRank(h, w) <=> AtRank(g, w)
      /\ \A w, k, a : HoldsAt(h, w, k, a) <=> HoldsAt(g, w, k, a)
      /\ \A w : (Site(h, w) <=> Site(g, w)) /\ (Unnamed(h, w) <=> Unnamed(g, w))
      /\ h.vertices = g.vertices /\ h.root = g.root
  BY LinkKeepsVertices
<1> HIDE DEF h
<1>2. MasksFit(h) BY <1>1 DEF MasksFit
<1>3. FirstSited(h) BY <1>1 DEF FirstSited
<1> QED BY <1>2, <1>3 DEF h

(* A process stays one.                                                    *)
LEMMA StillTyped ==
  ASSUME RanksTyped, Moves(graph, graph'), GoodY(graph), NEW i \in Ranks,
         RankVertex(i)' = RankVertex(i), RankVertex(i)' # NoVertex
  PROVE  graph'.vertices[RankVertex(i)'].type = "MPIProcess"
<1>1. RankVertex(i) \in 1..Len(graph.vertices) BY IdsOf, NamedVertex DEF RankVertex
<1>2. graph.vertices[RankVertex(i)].type = "MPIProcess" BY DEF RanksTyped
<1>3. Becomes("MPIProcess", graph'.vertices[RankVertex(i)].type) BY <1>1, <1>2 DEF Moves
<1> QED BY <1>3 DEF Becomes, Unknown

(* The steps of init() and of the modules other than mpi.                  *)
LEMMA OthersKeepBacked ==
  ASSUME IInv, KindsFit(graph), Moves(graph, graph'), BackedInv, OthersNext,
         mpi.stage = "start", MpiAlone'
  PROVE  BackedInv'
<1>1. GoodY(graph) /\ Furnished(graph, graph') BY OthersFurnish, Parts DEF GraphInv
<1>2. GrowsY(graph, graph') /\ GoodY(graph') BY <1>1, GrowsYGood DEF Furnished
<1>3. MasksFit(graph') /\ FirstSited(graph') BY <1>1, FurnishedFits DEF BackedInv
<1>4. \A i \in Ranks : RankVertex(i)' = RankVertex(i) BY <1>1 DEF Furnished, RankVertex
<1>5. RanksTyped' BY <1>1, <1>4, StillTyped DEF RanksTyped, BackedInv
<1>6. mpi' = mpi BY DEF OthersNext
<1>7. DescentFits' BY <1>6 DEF DescentFits
<1>8. \A v : AtRank(graph', v) <=> AtRank(graph, v) BY <1>1 DEF Furnished, AtRank
<1>9. ASSUME NEW i \in Ranks, RankVertex(i)' # NoVertex
      PROVE  BackedAt(graph', RankVertex(i)', Unplaced(i)')
  <2> DEFINE v == RankVertex(i)
  <2>1. v \in 1..Len(graph.vertices) /\ v = RankVertex(i)' /\ v \in 1..Len(graph'.vertices)
    BY <1>1, <1>2, <1>4, <1>9, IdsOf, NamedVertex, DescriptorsKept DEF RankVertex
  <2>2. AtRank(graph, v) BY DEF AtRank, RankVertex
  <2>3. Unplaced(i)' = 0 /\ Unplaced(i) = 0 BY <1>6 DEF Unplaced
  <2>4. BackedAt(graph, v, 0) BY <1>4, <1>9, <2>3 DEF BackedInv, AllBacked
  <2>5. \A u, k, a : HoldsAt(graph, u, k, a) => HoldsAt(graph', u, k, a) BY <1>1 DEF Furnished
  <2>6. \A u, k, a : HoldsAt(graph', u, k, a) =>
          \/ HoldsAt(graph, u, k, a) \/ u \notin 1..Len(graph.vertices)
          \/ a.mask = {} \/ a = HwlocAdapter(MachineObj)
    BY <1>1 DEF Furnished, Gift, SiteGift
  <2>7. \A k, a : HoldsAt(graph', v, k, a) <=> HoldsAt(graph, v, k, a)
    <3>1. ~Site(graph', v) BY <1>2, <1>8, <2>2, SiteNotRank
    <3> HIDE DEF v
    <3> QED BY <1>1, <2>1, <2>5, <3>1 DEF Furnished, Gift, SiteGift
  <2>8. Len(graph'.vertices[v].adapters) = Len(graph.vertices[v].adapters)
          /\ Len(graph.vertices[v].adapters) \in Nat
    <3> HIDE DEF v
    <3>1. Len(graph'.vertices[v].adapters) = Len(graph.vertices[v].adapters)
      BY <1>1, <1>2, <2>1, <2>7, NoMoreAdapters
    <3>2. v \in DOMAIN graph.vertices BY <1>1, <2>1, Shape
    <3>3. graph.vertices[v].adapters \in Seq(Adapters) BY <1>1, <3>2, AdaptersOfVertex
    <3> QED BY <3>1, <3>3
  <2>9. \A k, b : EdgeIs(graph', "PARENT", k, v, b) => EdgeIs(graph, "PARENT", k, v, b)
    BY <1>1, <1>8, <2>2 DEF Furnished
  <2> HIDE DEF v
  <2>10. Len(graph'.vertices[v].adapters) = Len(graph.vertices[v].adapters) + 0 BY <2>8
  <2>11. MasksFit(graph) /\ 0 \in Nat BY DEF BackedInv
  <2>12. BackedAt(graph', v, 0 + 0)
    BY <1>1, <1>2, <1>8, <2>1, <2>2, <2>4, <2>5, <2>6, <2>9, <2>10, <2>11, BackedFrame
  <2> QED BY <2>1, <2>3, <2>12
<1>10. AllBacked' BY <1>9 DEF AllBacked
<1> QED BY <1>3, <1>5, <1>7, <1>10 DEF BackedInv

(* The vertex the descent goes to.                                         *)
LEMMA LowerIsCandidate ==
  ASSUME GoodY(graph), NEW v \in LowerVertices
  PROVE  /\ v \in 1..Len(graph.vertices) /\ ~IsA(graph.vertices[v].type, "MPIProcess")
         /\ \E m \in GetMask(graph, v) : Mask \subseteq m
<1> DEFINE cs == Candidates(graph, mpi.at, Mask)
           least == {k \in cs : \A j \in cs : Count(graph, graph.edges[k].target)
                                                <= Count(graph, graph.edges[j].target)}
<1>1. \E k \in IF StableSort /\ least # {} THEN {Min(least)} ELSE least :
        v = graph.edges[k].target
  BY DEF LowerVertices, Lower
<1>2. least \subseteq cs OBVIOUS
<1>3. cs \subseteq DOMAIN graph.edges BY DEF Candidates
<1>4. least # {} => Min(least) \in least
  <2>1. graph.edges \in Seq(EdgeType) BY DEF GoodY, Good, GraphType
  <2>2. least \subseteq Nat BY <1>2, <1>3, <2>1
  <2> HIDE DEF least
  <2> QED BY <2>2, MinOfNaturals
<1> HIDE DEF least
<1>5. PICK k \in cs : v = graph.edges[k].target BY <1>1, <1>2, <1>4
<1>6. DOMAIN graph.vertices = 1..Len(graph.vertices) BY Shape
<1> QED BY <1>5, <1>6 DEF cs, Candidates, GoodY, Good, EdgesSound

(* No vertex but a rank's has two masks.                                   *)
LEMMA OneMask ==
  ASSUME NEW g, GoodY(g), MasksFit(g), NEW v \in 1..Len(g.vertices), ~AtRank(g, v),
         NEW m \in GetMask(g, v), NEW n \in GetMask(g, v)
  PROVE  m = n
<1>1. PICK k, a : FirstMask(g, v, k, a) /\ GetMask(g, v) = a.mask BY MaskOfFirst
<1>2. HoldsAt(g, v, k, a) /\ a.mask # {} BY <1>1 DEF FirstMask
<1>3. PICK o \in Objects : a = HwlocAdapter(o)
  <2>1. Site(g, v) \/ Unnamed(g, v) BY VertexKinds
  <2>2. MachineObj \in Objects BY TopologyConstants
  <2> QED BY <1>2, <2>1, <2>2 DEF MasksFit
<1>4. a.mask = CpusetOf[o] BY <1>3, AdapterFields DEF HwlocAdapter
<1> QED BY <1>1, <1>4, TopologyShape

(* The rank of this process is known when the loop over the ranks runs.    *)
LEMMA RankRunning ==
  ASSUME IInv, BackedInv, mpi.stage # "start", mpi.rank < NRanks
  PROVE  /\ mpi.rank \in Ranks /\ env \in Envs /\ mpi.cpusets[mpi.rank] \in CpuChoices
         /\ GoodY(graph) /\ \A i \in Ranks : i # mpi.rank => <<"mpi_rank", i>> # RankId
         /\ RankId \in Ids
<1>1. mpi.rank \in Ranks BY Parts, PlatformConstants DEF MpiInv, MpiTypeOK, Ranks
<1>2. \A i \in Ranks : i # mpi.rank => <<"mpi_rank", i>> # RankId BY DEF RankId
<1> QED BY <1>1, <1>2, Parts, IdsOf DEF ControlInv, GraphInv, BackedInv, MpiAlone, RankId

(* The two steps that add a rank.                                          *)
LEMMA AddedRankBacked ==
  ASSUME MasksKnown, IInv, BackedInv, mpi.stage = "ranks", mpi.rank < NRanks,
         NEW g, g = AddRank(graph)
  PROVE  /\ GoodY(g) /\ GrowsY(graph, g) /\ RankAdded(graph, g) /\ MasksFit(g) /\ FirstSited(g)
         /\ \A i \in Ranks : g.ids[<<"mpi_rank", i>>] # NoVertex =>
              BackedAt(g, g.ids[<<"mpi_rank", i>>], IF mpi.rank = i THEN 1 ELSE 0)
<1>1. /\ mpi.rank \in Ranks /\ env \in Envs /\ mpi.cpusets[mpi.rank] \in CpuChoices
      /\ GoodY(graph)
  BY RankRunning
<1>2. RankAdded(graph, g) BY <1>1, RankWorked
<1>3. MasksFit(graph) /\ FirstSited(graph) BY DEF BackedInv
<1>4. MasksFit(g) /\ FirstSited(g) BY <1>1, <1>2, <1>3, RankAddedFits
<1>5. \A i \in Ranks : RankVertex(i) # NoVertex => BackedAt(graph, RankVertex(i), 0)
  BY DEF BackedInv, AllBacked, Unplaced
<1>6. \A i \in Ranks : g.ids[<<"mpi_rank", i>>] # NoVertex =>
        BackedAt(g, g.ids[<<"mpi_rank", i>>], IF mpi.rank = i THEN 1 ELSE 0)
  <2> SUFFICES ASSUME NEW i \in Ranks, g.ids[<<"mpi_rank", i>>] # NoVertex
               PROVE  BackedAt(g, g.ids[<<"mpi_rank", i>>], IF mpi.rank = i THEN 1 ELSE 0)
    OBVIOUS
  <2>1. graph.ids[<<"mpi_rank", i>>] # NoVertex => BackedAt(graph, graph.ids[<<"mpi_rank", i>>], 0)
    BY <1>5 DEF RankVertex
  <2> QED BY <1>1, <1>2, <1>3, <2>1, RankAddedBacks
<1> QED BY <1>2, <1>4, <1>6 DEF RankAdded

(* Ranks stay of type MPIProcess when one more is named.                   *)
LEMMA RanksStayTyped ==
  ASSUME IInv, BackedInv, Moves(graph, graph'), mpi.stage = "ranks", mpi.rank < NRanks,
         NEW g, RankAdded(graph, g), graph'.vertices = g.vertices, graph'.ids = g.ids
  PROVE  RanksTyped'
<1>1. GoodY(graph) /\ \A i \in Ranks : i # mpi.rank => <<"mpi_rank", i>> # RankId
  BY RankRunning
<1> SUFFICES ASSUME NEW i \in Ranks, RankVertex(i)' # NoVertex
             PROVE  graph'.vertices[RankVertex(i)'].type = "MPIProcess"
  BY DEF RanksTyped
<1>2. CASE i = mpi.rank
  <2>1. RankVertex(i)' = g.ids[RankId] BY <1>2 DEF RankVertex, RankId
  <2> QED BY <2>1 DEF RankAdded
<1>3. CASE i # mpi.rank
  <2>1. RankVertex(i)' = RankVertex(i) BY <1>3 DEF RankVertex, RankAdded
  <2> QED BY <1>1, <2>1, StillTyped DEF BackedInv
<1> QED BY <1>2, <1>3

(* A rank of another host: attached to its machine, with no mask.          *)
LEMMA RemoteBacked ==
  ASSUME MasksKnown, IInv, BackedInv, Moves(graph, graph'), MpiAddRemote
  PROVE  BackedInv'
<1> DEFINE g == AddRank(graph)
           u == g.ids[MachineId]
           v == g.ids[RankId]
<1>1. /\ Running("mpi") /\ Stay /\ mpi.stage = "ranks" /\ mpi.rank < NRanks /\ ~Pinned
      /\ graph' = Link(g, u, v) /\ mpi'.stage = "ranks" /\ mpi'.cpusets = mpi.cpusets
  BY Parts DEF MpiAddRemote, MpiInv, MpiTypeOK
<1>2. /\ mpi.rank \in Ranks /\ env \in Envs /\ \A i \in Ranks : i # mpi.rank => <<"mpi_rank", i>> # RankId
      /\ RankId \in Ids
  BY <1>1, RankRunning
<1>3. g = AddRank(graph) /\ u = g.ids[MachineId] /\ v = g.ids[RankId] OBVIOUS
<1> HIDE DEF g, u, v
<1>4. /\ GoodY(g) /\ RankAdded(graph, g) /\ MasksFit(g) /\ FirstSited(g)
      /\ \A i \in Ranks : g.ids[<<"mpi_rank", i>>] # NoVertex =>
           BackedAt(g, g.ids[<<"mpi_rank", i>>], IF mpi.rank = i THEN 1 ELSE 0)
  BY <1>1, <1>3, AddedRankBacked
<1>5. u \in 1..Len(g.vertices) /\ v \in 1..Len(g.vertices) /\ Site(g, u)
  BY <1>3, <1>4 DEF RankAdded
<1>6. /\ graph'.vertices = g.vertices /\ graph'.ids = g.ids /\ graph'.root = g.root
      /\ MasksFit(graph') /\ FirstSited(graph')
  BY <1>1, <1>4, <1>5, LinkFits, LinkKeepsVertices
<1>7. RanksTyped' BY <1>1, <1>4, <1>6, RanksStayTyped
<1>8. DescentFits' BY <1>1 DEF DescentFits
<1>9. MpiAlone' BY <1>1 DEF BackedInv, MpiAlone, Stay, Running
<1>10. ~AtRank(g, u) BY <1>4, <1>5, SiteNotRank
<1>11. ASSUME NEW i \in Ranks, RankVertex(i)' # NoVertex
       PROVE  BackedAt(graph', RankVertex(i)', 0)
  <2>1. RankVertex(i)' = g.ids[<<"mpi_rank", i>>] BY <1>6 DEF RankVertex
  <2>2. CASE i = mpi.rank
    <3>1. RankVertex(i)' = v /\ BackedAt(g, v, 1) BY <1>3, <1>4, <1>11, <2>1, <2>2 DEF RankId
    <3>2. g.vertices[v].adapters = Append(Elem(graph, RankId).adapters, RankAdapter)
            /\ RankAdapter \in Adapters
      BY <1>3, <1>4 DEF RankAdded
    <3>3. Elem(graph, RankId).adapters \in Seq(Adapters)
      BY <1>1, <1>2, RankRunning, ElemType DEF VertexType
    <3>4. LET as == g.vertices[v].adapters IN as[Len(as)] = RankAdapter
      BY <3>2, <3>3
    <3>5. RankAdapter.mask = {} BY <1>1, AdapterFields DEF RankAdapter
    <3>6. BackedAt(Link(g, u, v), v, 0) BY <1>4, <1>5, <1>10, <3>1, <3>4, <3>5, BackedLinked
    <3> QED BY <1>1, <3>1, <3>6
  <2>3. CASE i # mpi.rank
    <3>1. RankVertex(i)' # v
      <4>1. <<"mpi_rank", i>> \in Ids /\ <<"mpi_rank", i>> # RankId BY <1>2, <2>3, IdsOf
      <4> QED BY <1>2, <1>3, <1>4, <1>5, <2>1, <4>1, NamesDiffer
    <3>2. BackedAt(g, RankVertex(i)', 0) BY <1>4, <1>11, <2>1, <2>3
    <3> HIDE DEF RankVertex
    <3>3. BackedAt(Link(g, u, v), RankVertex(i)', 0) BY <1>4, <1>5, <3>1, <3>2, BackedBeside
    <3> QED BY <1>1, <3>3
  <2> QED BY <2>2, <2>3
<1>12. \A i \in Ranks : Unplaced(i)' = 0 BY <1>1 DEF Unplaced
<1>13. AllBacked' BY <1>11, <1>12 DEF AllBacked
<1> QED BY <1>6, <1>7, <1>8, <1>9, <1>13 DEF BackedInv

(* A rank of this host: the search for its place begins at the root.       *)
LEMMA LocalBacked ==
  ASSUME MasksKnown, IInv, BackedInv, Moves(graph, graph'), MpiAddLocal
  PROVE  BackedInv'
<1>1. /\ Running("mpi") /\ Stay /\ mpi.stage = "ranks" /\ mpi.rank < NRanks /\ Pinned
      /\ graph' = AddRank(graph) /\ mpi'.stage = "descend" /\ mpi'.cpusets = mpi.cpusets
      /\ mpi'.rank = mpi.rank /\ mpi'.at = graph.root /\ env' = env
  BY Parts DEF MpiAddLocal, MpiInv, MpiTypeOK, Stay
<1>2. mpi.rank \in Ranks /\ env \in Envs /\ RankId \in Ids /\ GoodY(graph)
        /\ mpi.cpusets[mpi.rank] \in CpuChoices
  BY <1>1, RankRunning
<1>3. /\ GoodY(graph') /\ RankAdded(graph, graph') /\ MasksFit(graph') /\ FirstSited(graph')
      /\ \A i \in Ranks : graph'.ids[<<"mpi_rank", i>>] # NoVertex =>
           BackedAt(graph', graph'.ids[<<"mpi_rank", i>>], IF mpi.rank = i THEN 1 ELSE 0)
  BY <1>1, AddedRankBacked
<1>4. RanksTyped' BY <1>1, <1>3, RanksStayTyped
<1>5. MpiAlone' BY <1>1 DEF BackedInv, MpiAlone, Stay, Running
<1>6. AllBacked' BY <1>1, <1>3 DEF AllBacked, Unplaced, RankVertex
<1>7. Mask' = Mask /\ RankId' = RankId BY <1>1 DEF Mask, MaskOf, Bits, RankId
<1>8. graph'.root = graph.root /\ Site(graph', graph.root)
  <2>1. graph'.root = graph.root BY <1>3 DEF RankAdded
  <2>2. CASE graph.root # 1 BY <1>3, <2>1, <2>2 DEF FirstSited
  <2>3. CASE graph.root = 1 /\ 1 \in 1..Len(graph.vertices)
    <3>1. 1 \in 1..Len(graph'.vertices) BY <1>2, <1>3, <2>3, DescriptorsKept DEF RankAdded
    <3> QED BY <1>3, <2>1, <2>3, <3>1 DEF FirstSited
  <2>4. CASE graph.root = 1 /\ 1 \notin 1..Len(graph.vertices)
    BY <1>3, <2>1, <2>4 DEF RankAdded
  <2> QED BY <2>1, <2>2, <2>3, <2>4
<1>9. ~AtRank(graph', graph.root) BY <1>3, <1>8, SiteNotRank
<1>10. ASSUME NEW c \in GetMask(graph', graph.root) PROVE Mask \subseteq c
  <2>1. graph.root \in 1..Len(graph'.vertices) BY <1>3, <1>8, NamedVertex DEF Site
  <2>2. PICK k, a : FirstMask(graph', graph.root, k, a) /\ GetMask(graph', graph.root) = a.mask
    BY <1>3, <1>10, <2>1, MaskOfFirst
  <2>3. HoldsAt(graph', graph.root, k, a) /\ a.mask # {} BY <2>2 DEF FirstMask
  <2>4. a = HwlocAdapter(MachineObj) BY <1>3, <1>8, <2>3 DEF MasksFit
  <2>5. c \in CpusetOf[MachineObj] BY <1>10, <2>2, <2>4, AdapterFields DEF HwlocAdapter
  <2> QED BY <1>2, <2>5 DEF MasksKnown, Mask, MaskOf, Bits
<1>11. LET as == graph'.vertices[graph'.ids[RankId]].adapters IN as[Len(as)].mask = {Mask}
  <2>1. graph'.vertices[graph'.ids[RankId]].adapters = Append(Elem(graph, RankId).adapters, RankAdapter)
          /\ RankAdapter \in Adapters
    BY <1>3 DEF RankAdded
  <2>2. Elem(graph, RankId).adapters \in Seq(Adapters) BY <1>2, ElemType DEF VertexType
  <2>3. RankAdapter.mask = {Mask} BY <1>1, AdapterFields DEF RankAdapter
  <2> QED BY <2>1, <2>2, <2>3
<1>12. DescentFits' BY <1>1, <1>7, <1>9, <1>10, <1>11 DEF DescentFits
<1> QED BY <1>3, <1>4, <1>5, <1>6, <1>12 DEF BackedInv

(* One step down of lowest_containing_vertex.                              *)
LEMMA DescendBacked ==
  ASSUME IInv, BackedInv, MpiDescend
  PROVE  BackedInv'
<1>1. /\ Running("mpi") /\ Stay /\ mpi.stage = "descend" /\ UNCHANGED graph /\ env' = env
  BY DEF MpiDescend, Stay
<1>2. PICK v \in LowerVertices : mpi' = [mpi EXCEPT !.at = v] BY DEF MpiDescend
<1>3. /\ mpi'.at = v /\ mpi'.stage = "descend" /\ mpi'.rank = mpi.rank
      /\ mpi'.cpusets = mpi.cpusets
  BY <1>1, <1>2, Parts DEF MpiInv, MpiTypeOK
<1>4. GoodY(graph) BY Parts DEF GraphInv
<1>5. /\ v \in 1..Len(graph.vertices) /\ ~IsA(graph.vertices[v].type, "MPIProcess")
      /\ \E m \in GetMask(graph, v) : Mask \subseteq m
  BY <1>4, LowerIsCandidate
<1>6. ~AtRank(graph, v)
  <2> SUFFICES ASSUME NEW i \in Ranks, v = graph.ids[<<"mpi_rank", i>>] PROVE FALSE
    BY DEF AtRank
  <2>1. graph.vertices[v].type = "MPIProcess"
    <3>1. v # NoVertex BY <1>5 DEF NoVertex
    <3> QED BY <3>1 DEF BackedInv, RanksTyped, RankVertex
  <2> QED BY <1>5, <2>1, IsAReflexive, AssignedTypes
<1>7. \A c \in GetMask(graph, v) : Mask \subseteq c
  BY <1>4, <1>5, <1>6, OneMask DEF BackedInv
<1>8. Mask' = Mask /\ RankId' = RankId BY <1>1, <1>3 DEF Mask, MaskOf, Bits, RankId
<1>9. DescentFits' BY <1>1, <1>3, <1>6, <1>7, <1>8 DEF DescentFits, BackedInv
<1>10. MpiAlone' BY <1>1, <1>3 DEF BackedInv, MpiAlone, Stay, Running
<1>11. \A i \in Ranks : RankVertex(i)' = RankVertex(i) /\ Unplaced(i)' = Unplaced(i)
  BY <1>1, <1>3 DEF RankVertex, Unplaced
<1>12. AllBacked' BY <1>1, <1>11 DEF AllBacked, BackedInv
<1>13. RanksTyped' BY <1>1, <1>11 DEF RanksTyped, BackedInv
<1> QED BY <1>1, <1>9, <1>10, <1>12, <1>13 DEF BackedInv

(* The search ends and the rank is attached where it ended.                *)
LEMMA AttachBacked ==
  ASSUME IInv, BackedInv, Moves(graph, graph'), MpiAttach
  PROVE  BackedInv'
<1> DEFINE u == mpi.at
           v == graph.ids[RankId]
<1>1. /\ Running("mpi") /\ Stay /\ mpi.stage = "descend" /\ graph' = Link(graph, u, v)
      /\ mpi'.stage = "ranks" /\ mpi'.cpusets = mpi.cpusets
  BY Parts DEF MpiAttach, MpiInv, MpiTypeOK
<1>2. mpi.rank < NRanks /\ u \in 1..Len(graph.vertices) /\ v \in 1..Len(graph.vertices)
  BY <1>1, Parts, Shape DEF MpiInv, MpiSound, GraphInv
<1>3. /\ mpi.rank \in Ranks /\ RankId \in Ids /\ GoodY(graph)
      /\ \A i \in Ranks : i # mpi.rank => <<"mpi_rank", i>> # RankId
  BY <1>1, <1>2, RankRunning
<1>4. v = graph.ids[RankId] /\ v = RankVertex(mpi.rank) BY DEF RankId, RankVertex
<1>5. /\ ~AtRank(graph, u) /\ \A c \in GetMask(graph, u) : Mask \subseteq c
      /\ LET as == graph.vertices[v].adapters IN as[Len(as)].mask = {Mask}
  BY <1>1 DEF BackedInv, DescentFits
<1> HIDE DEF u, v
<1>6. /\ graph'.vertices = graph.vertices /\ graph'.ids = graph.ids
      /\ MasksFit(graph') /\ FirstSited(graph')
  BY <1>1, <1>2, <1>3, LinkFits, LinkKeepsVertices DEF BackedInv
<1>7. \A i \in Ranks : RankVertex(i)' = RankVertex(i) BY <1>6 DEF RankVertex
<1>8. RanksTyped' BY <1>6, <1>7 DEF RanksTyped, BackedInv
<1>9. DescentFits' BY <1>1 DEF DescentFits
<1>10. MpiAlone' BY <1>1 DEF BackedInv, MpiAlone, Stay, Running
<1>11. ASSUME NEW i \in Ranks, RankVertex(i) # NoVertex
       PROVE  BackedAt(graph', RankVertex(i), 0)
  <2>1. CASE i = mpi.rank
    <3>1. BackedAt(graph, v, 1) BY <1>1, <1>4, <1>11, <2>1 DEF BackedInv, AllBacked, Unplaced
    <3>2. BackedAt(Link(graph, u, v), v, 0) BY <1>2, <1>3, <1>5, <3>1, BackedLinked
    <3> QED BY <1>1, <1>4, <2>1, <3>2
  <2>2. CASE i # mpi.rank
    <3>1. BackedAt(graph, RankVertex(i), 0)
      BY <1>1, <1>11, <2>2 DEF BackedInv, AllBacked, Unplaced
    <3>2. RankVertex(i) # v
      <4>1. <<"mpi_rank", i>> \in Ids /\ <<"mpi_rank", i>> # RankId BY <1>3, <2>2, IdsOf
      <4> QED BY <1>2, <1>3, <1>4, <4>1, NamesDiffer DEF RankVertex
    <3>3. BackedAt(Link(graph, u, v), RankVertex(i), 0)
      BY <1>2, <1>3, <3>1, <3>2, BackedBeside
    <3> QED BY <1>1, <3>3
  <2> QED BY <2>1, <2>2
<1>12. \A i \in Ranks : Unplaced(i)' = 0 BY <1>1 DEF Unplaced
<1>13. AllBacked' BY <1>7, <1>11, <1>12 DEF AllBacked
<1> QED BY <1>6, <1>8, <1>9, <1>10, <1>13 DEF BackedInv

(* The steps of mpi that leave the graph as it is, and those that do not.  *)
LEMMA QuietBacked ==
  ASSUME BackedInv, UNCHANGED graph, MpiAlone', mpi'.stage # "descend", mpi.stage # "descend"
  PROVE  BackedInv'
<1>1. \A i \in Ranks : RankVertex(i)' = RankVertex(i) /\ Unplaced(i)' = 0 /\ Unplaced(i) = 0
  BY DEF RankVertex, Unplaced
<1>2. AllBacked' /\ RanksTyped' BY <1>1 DEF AllBacked, RanksTyped, BackedInv
<1>3. DescentFits' BY DEF DescentFits
<1> QED BY <1>2, <1>3 DEF BackedInv

(* Every step of the mpi module.                                           *)
LEMMA MpiBacked ==
  ASSUME MasksKnown, IInv, BackedInv, Moves(graph, graph'), MpiNext
  PROVE  BackedInv'
<1>1. /\ mpi \in [stage : {"start", "ranks", "descend"}, cpusets : [Ranks -> SUBSET Nat],
                  rank : 0..NRanks, at : Nat]
      /\ MpiAlone
  BY Parts DEF MpiInv, MpiTypeOK, BackedInv
<1>2. CASE MpiRefuses
  <2>1. mpi.stage = "start" /\ mpi' = mpi /\ UNCHANGED <<graph, phase>> /\ phase = "running"
    BY <1>1, <1>2 DEF MpiRefuses, MpiAlone, Return, Running
  <2>2. MpiAlone' BY <2>1 DEF MpiAlone
  <2> QED BY <2>1, <2>2, QuietBacked
<1>3. CASE MpiGather
  <2>1. PICK c \in [Ranks -> CpuChoices] : mpi' = [mpi EXCEPT !.stage = "ranks", !.cpusets = c]
    BY <1>3 DEF MpiGather
  <2>2. /\ mpi.stage = "start" /\ mpi'.stage = "ranks" /\ mpi'.cpusets = c /\ UNCHANGED graph
        /\ current' = "mpi" /\ env' = env /\ env.mpi /\ phase' = "running"
    BY <1>1, <1>3, <2>1 DEF MpiGather, Running, Stay
  <2>3. MpiAlone' BY <2>1, <2>2 DEF MpiAlone
  <2> QED BY <2>2, <2>3, QuietBacked
<1>4. CASE MpiReturn
  <2>1. /\ mpi.stage = "ranks" /\ mpi'.stage = "start" /\ UNCHANGED <<graph, phase>>
        /\ phase = "running"
    BY <1>4 DEF MpiReturn, MpiIdle, Return, Running
  <2>2. MpiAlone' BY <2>1 DEF MpiAlone
  <2> QED BY <2>1, <2>2, QuietBacked
<1>5. CASE MpiAssertFails
  <2>1. UNCHANGED <<graph, mpi, env, current>> /\ phase' = "aborted"
    BY <1>5 DEF MpiAssertFails, Leave
  <2>2. MpiAlone' BY <1>1, <2>1 DEF MpiAlone
  <2>3. DescentFits' BY <2>1 DEF DescentFits, BackedInv, RankId, Mask, MaskOf, Bits
  <2>4. \A i \in Ranks : RankVertex(i)' = RankVertex(i) /\ Unplaced(i)' = Unplaced(i)
    BY <2>1 DEF RankVertex, Unplaced
  <2>5. AllBacked' /\ RanksTyped' BY <2>1, <2>4 DEF AllBacked, RanksTyped, BackedInv
  <2> QED BY <2>1, <2>2, <2>3, <2>5 DEF BackedInv
<1> QED
  BY <1>2, <1>3, <1>4, <1>5, RemoteBacked, LocalBacked, DescendBacked, AttachBacked DEF MpiNext

(* What the step of another module says of the state of init().            *)
LEMMA ModuleRuns ==
  ASSUME HwlocNext \/ GpuNext \/ SupermucNext
  PROVE  current # "mpi" /\ phase = "running" /\ phase' # "idle"
<1>2. CASE HwlocNext
  BY <1>2 DEF HwlocNext, HwlocVersionMismatch, HwlocAddMachine, HwlocVisitChild, HwlocAscend,
              HwlocReturn, Running, Return, Stay
<1>3. CASE SupermucNext
  BY <1>3 DEF SupermucNext, SupermucRefuses, SupermucAddHost, SupermucReturn, Running, Return, Stay
<1>4. CASE GpuNext
  <2>1. CASE NvmlDevice \/ RocmDevice
    <3>1. AtDevice("nvml") \/ AtDevice("rocm") BY <2>1 DEF NvmlDevice, RocmDevice
    <3>2. Stay BY <2>1 DEF NvmlDevice, RocmDevice
    <3> QED BY <3>1, <3>2 DEF AtDevice, Running, Stay
  <2>2. CASE NvmlAssertFails \/ NvmlThrows
    <3>1. AtDevice("nvml") BY <2>2 DEF NvmlAssertFails, NvmlThrows
    <3>2. Leave("aborted") \/ Leave("threw") BY <2>2 DEF NvmlAssertFails, NvmlThrows
    <3> QED BY <3>1, <3>2 DEF AtDevice, Running, Leave
  <2>3. ASSUME NEW m \in {"nvml", "rocm"},
               GpuCount(m) \/ GpuCountThrows(m) \/ GpuDevicesDone(m) \/ GpuPair(m) \/ GpuReturn(m)
        PROVE  current # "mpi" /\ phase = "running" /\ phase' # "idle"
    <3>1. Running(m)
      BY <2>3 DEF GpuCount, GpuCountThrows, GpuDevicesDone, GpuPair, AtPair, GpuReturn
    <3>2. Stay \/ Leave("threw") \/ \E s : Return(m, s)
      BY <2>3 DEF GpuCount, GpuCountThrows, GpuDevicesDone, GpuPair, GpuReturn
    <3> QED BY <3>1, <3>2 DEF Running, Stay, Leave, Return
  <2> QED BY <1>4, <2>1, <2>2, <2>3 DEF GpuNext
<1> QED BY <1>2, <1>3, <1>4

(* Every step of Spec.                                                     *)
LEMMA BackedStep ==
  ASSUME MasksKnown, IInv, KindsFit(graph), BackedInv, [Next]_vars
  PROVE  BackedInv'
<1>1. Moves(graph, graph') BY StepMoves
<1>2. MpiAlone BY DEF BackedInv
<1>3. CASE MpiNext BY <1>1, <1>3, MpiBacked
<1>4. CASE UNCHANGED mpi /\ (HwlocNext \/ GpuNext \/ SupermucNext)
  <2>1. current # "mpi" /\ phase = "running" /\ phase' # "idle" BY <1>4, ModuleRuns
  <2>2. mpi.stage = "start" BY <1>2, <2>1 DEF MpiAlone
  <2>3. MpiAlone' BY <1>4, <2>1, <2>2 DEF MpiAlone
  <2> QED BY <1>1, <1>4, <2>2, <2>3, OthersKeepBacked DEF OthersNext
<1>5. CASE InitCall \/ CallModule \/ InitReturn
  <2>1. UNCHANGED <<graph, mpi>> /\ mpi.stage = "start" /\ MpiAlone'
    <3>1. CASE InitCall BY <1>2, <3>1 DEF InitCall, locals, MpiAlone
    <3>2. CASE CallModule BY <1>2, <3>2 DEF CallModule, locals, MpiAlone, Running
    <3>3. CASE InitReturn BY <1>2, <3>3 DEF InitReturn, locals, MpiAlone, Running
    <3> QED BY <1>5, <3>1, <3>2, <3>3
  <2> QED BY <1>1, <2>1, OthersKeepBacked DEF OthersNext
<1>6. CASE UNCHANGED vars
  <2>1. UNCHANGED <<graph, mpi, env, phase, current>> BY <1>6 DEF vars, interface
  <2>2. MpiAlone' BY <1>2, <2>1 DEF MpiAlone
  <2>3. DescentFits' BY <2>1 DEF DescentFits, BackedInv, RankId, Mask, MaskOf, Bits
  <2>4. \A i \in Ranks : RankVertex(i)' = RankVertex(i) /\ Unplaced(i)' = Unplaced(i)
    BY <2>1 DEF RankVertex, Unplaced
  <2>5. AllBacked' /\ RanksTyped' BY <2>1, <2>4 DEF AllBacked, RanksTyped, BackedInv
  <2> QED BY <2>1, <2>2, <2>3, <2>5 DEF BackedInv
<1> QED BY <1>3, <1>4, <1>5, <1>6 DEF Next, InitStep, ModuleStep

(* No vertex, no rank.                                                     *)
LEMMA InitBacked ==
  ASSUME Init
  PROVE  BackedInv
<1>1. /\ graph = EmptyGraph(Ids) /\ phase = "idle" /\ current = "none" /\ mpi = MpiIdle
  BY DEF Init, InterfaceInit, MpiInit
<1>2. graph.vertices = <<>> /\ graph.root = 1 /\ \A id \in Ids : graph.ids[id] = NoVertex
  BY <1>1 DEF EmptyGraph
<1>3. MasksFit(graph) BY <1>2 DEF MasksFit, HoldsAt
<1>4. FirstSited(graph) BY <1>2 DEF FirstSited
<1>5. \A i \in Ranks : RankVertex(i) = NoVertex BY <1>2, IdsOf DEF RankVertex
<1>6. mpi.stage = "start" BY <1>1 DEF MpiIdle
<1>7. RanksTyped /\ AllBacked BY <1>5 DEF RanksTyped, AllBacked
<1>8. MpiAlone /\ DescentFits BY <1>1, <1>6 DEF MpiAlone, DescentFits
<1> QED BY <1>3, <1>4, <1>7, <1>8 DEF BackedInv

(* BackedInv holds at every moment.                                        *)
LEMMA BackedInvariance ==
  ASSUME MasksKnown
  PROVE  Spec => []BackedInv
<1>1. Init => BackedInv BY InitBacked
<1>2. IInv /\ KindsFit(graph) /\ BackedInv /\ [Next]_vars => BackedInv' BY BackedStep
<1> QED BY <1>1, <1>2, Invariance, FitInvariance, PTL DEF Spec

(* However often init() ran, a rank has one parent for each of its         *)
(* adapters, and the parent that goes with a mask has the CPUs in it, or   *)
(* none.                                                                   *)
THEOREM InitPlacementsBacked ==
  ASSUME MasksKnown
  PROVE  Spec => []PlacementsBacked
<1>1. ASSUME IInv, BackedInv PROVE PlacementsBacked
  <2> SUFFICES ASSUME phase \in {"idle", "threw"}, NEW i \in Ranks, RankVertex(i) # NoVertex
               PROVE  LET adapters == graph.vertices[RankVertex(i)].adapters
                          up == EdgesUp(RankVertex(i))
                      IN /\ Len(adapters) = Cardinality(up)
                         /\ \A e \in up : \A mask \in adapters[Cardinality({d \in up : d <= e})].mask :
                              \A cpus \in GetMask(graph, graph.edges[e].target) : mask \subseteq cpus
    BY DEF PlacementsBacked
  <2> DEFINE v == RankVertex(i)
  <2>1. mpi.stage = "start" BY <1>1 DEF BackedInv, MpiAlone
  <2>2. BackedAt(graph, v, 0) BY <1>1, <2>1 DEF BackedInv, AllBacked, Unplaced
  <2>3. EdgesUp(v) = Ups(graph, v) BY DEF EdgesUp, Ups
  <2>4. Cardinality(Ups(graph, v)) \in Nat BY <1>1, UpsAre, Parts DEF GraphInv
  <2>5. Len(graph.vertices[v].adapters) = Cardinality(EdgesUp(v))
    <3> HIDE DEF v
    <3> QED BY <2>2, <2>3, <2>4 DEF BackedAt
  <2>6. \A e \in EdgesUp(v) : BackedUp(graph, v, e) BY <2>2, <2>3 DEF BackedAt
  <2> QED BY <2>3, <2>5, <2>6 DEF BackedUp, UpTo
<1> QED BY <1>1, Invariance, BackedInvariance, PTL

------------------------------------------------------------------------------
(* Object o has the CPUs in mask; how many CPUs o has; the objects below   *)
(* o, and o.                                                               *)
Fit(o, mask) == \E m \in CpusetOf[o] : mask \subseteq m
Size(o) == Cardinality(CHOOSE m \in CpusetOf[o] : TRUE)
Closed(S) == \A p \in S : \A k \in DOMAIN Children[p] : Children[p][k] \in S
Under(o) == {q \in Objects : \A S \in SUBSET Objects : o \in S /\ Closed(S) => q \in S}

(* No object with these CPUs has fewer; or none but what is below o.       *)
Tightest(o, mask) == Fit(o, mask) /\ \A q \in Objects : Fit(q, mask) => Size(o) <= Size(q)
TightestButBelow(o, mask) ==
  Fit(o, mask) /\ \A q \in Objects : Fit(q, mask) => Size(o) <= Size(q) \/ q \in Under(o)

(* An object has one cpuset at most, and its size is that of the cpuset.   *)
LEMMA SizeOf ==
  ASSUME NEW o \in Objects, NEW m \in CpusetOf[o]
  PROVE  Size(o) = Cardinality(m) /\ Size(o) \in Nat /\ IsFiniteSet(m)
<1>1. CpusetOf[o] \in SUBSET SUBSET CPU BY TopologyConstants
<1>2. IsFiniteSet(m) BY <1>1, FiniteMachine, FS_Subset
<1>3. (CHOOSE n \in CpusetOf[o] : TRUE) = m BY TopologyShape
<1> QED BY <1>2, <1>3, FS_CardinalityType DEF Size

(* What is below an object is closed under going down.                     *)
LEMMA UnderClosed ==
  ASSUME NEW o \in Objects
  PROVE  o \in Under(o) /\ Under(o) \subseteq Objects /\ Closed(Under(o))
<1>1. ASSUME NEW p \in Under(o), NEW k \in DOMAIN Children[p]
      PROVE  Children[p][k] \in Under(o)
  <2>1. p \in Objects BY DEF Under
  <2>2. Children[p][k] \in Objects BY <2>1, TopologyConstants
  <2> QED BY <2>2, <1>1 DEF Under, Closed
<1> QED BY <1>1 DEF Under, Closed

(* What is below an object is the object, or below one of its children.    *)
LEMMA UnderChild ==
  ASSUME NEW o \in Objects, NEW q \in Under(o)
  PROVE  q = o \/ \E k \in DOMAIN Children[o] : q \in Under(Children[o][k])
<1> DEFINE S == {o} \cup {p \in Objects : \E k \in DOMAIN Children[o] : p \in Under(Children[o][k])}
<1>1. \A k \in DOMAIN Children[o] : Children[o][k] \in Objects BY TopologyConstants
<1>2. ASSUME NEW p \in S, NEW k \in DOMAIN Children[p] PROVE Children[p][k] \in S
  <2>1. CASE p = o
    <3>1. Children[o][k] \in Under(Children[o][k]) BY <1>1, <1>2, <2>1, UnderClosed
    <3> QED BY <1>1, <1>2, <2>1, <3>1
  <2>2. ASSUME NEW l \in DOMAIN Children[o], p \in Under(Children[o][l])
        PROVE  Children[p][k] \in S
    <3>1. Children[p][k] \in Under(Children[o][l]) BY <1>1, <1>2, <2>2, UnderClosed DEF Closed
    <3>2. Children[p][k] \in Objects BY <3>1 DEF Under
    <3> QED BY <3>1, <3>2
  <2> QED BY <2>1, <2>2
<1>3. S \in SUBSET Objects /\ o \in S /\ Closed(S) BY <1>2 DEF Closed
<1>4. q \in S BY <1>3 DEF Under
<1> QED BY <1>4

(* Every object is below the machine.                                      *)
LEMMA AllUnderMachine == Under(MachineObj) = Objects
<1>1. MachineObj \in Objects BY TopologyConstants
<1>2. MachineObj \in Under(MachineObj) /\ Under(MachineObj) \in SUBSET Objects
        /\ Closed(Under(MachineObj))
  BY <1>1, UnderClosed
<1> HIDE DEF Under
<1> QED BY <1>2, TopologyShape DEF Closed

(* An object has the CPUs of what is below it.                             *)
LEMMA CpusNest ==
  ASSUME NEW o \in Objects, NEW q \in Under(o), NEW m \in CpusetOf[q]
  PROVE  \E n \in CpusetOf[o] : m \subseteq n
<1> DEFINE S == {p \in Objects : \A x \in CpusetOf[p] : \E n \in CpusetOf[o] : x \subseteq n}
<1>1. ASSUME NEW p \in S, NEW k \in DOMAIN Children[p] PROVE Children[p][k] \in S
  <2>1. Children[p][k] \in Objects BY TopologyConstants
  <2>2. ASSUME NEW x \in CpusetOf[Children[p][k]] PROVE \E n \in CpusetOf[o] : x \subseteq n
    <3>1. PICK y \in CpusetOf[p] : x \subseteq y BY <2>2, CpusetsNest
    <3>2. PICK n \in CpusetOf[o] : y \subseteq n BY <3>1
    <3> QED BY <3>1, <3>2
  <2> QED BY <2>1, <2>2
<1>2. S \in SUBSET Objects /\ o \in S /\ Closed(S) BY <1>1 DEF Closed
<1>3. q \in S BY <1>2 DEF Under
<1> QED BY <1>3

(* Below a memory object there is nothing with other CPUs.                 *)
LEMMA MemoryBelow ==
  ASSUME NEW o \in Objects, IsMemory(o), NEW q \in Under(o), NEW m \in CpusetOf[q], m # {}
  PROVE  m \in CpusetOf[o]
<1> DEFINE S == {p \in Objects : \A x \in CpusetOf[p] : x # {} => x \in CpusetOf[o] /\ IsMemory(p)}
<1>1. ASSUME NEW p \in S, NEW k \in DOMAIN Children[p] PROVE Children[p][k] \in S
  <2>1. Children[p][k] \in Objects BY TopologyConstants
  <2>2. ASSUME NEW x \in CpusetOf[Children[p][k]], x # {}
        PROVE  x \in CpusetOf[o] /\ IsMemory(Children[p][k])
    <3>1. PICK y \in CpusetOf[p] : x \subseteq y /\ (IsMemory(Children[p][k]) => x = y)
      BY <2>2, CpusetsNest
    <3>2. y \in CpusetOf[o] /\ IsMemory(p) BY <2>2, <3>1
    <3>3. IsMemory(Children[p][k]) BY <2>2, <3>2, CpusetsNest
    <3> QED BY <3>1, <3>2, <3>3
  <2> QED BY <2>1, <2>2
<1>2. S \in SUBSET Objects /\ o \in S /\ Closed(S) BY <1>1 DEF Closed
<1>3. q \in S BY <1>2 DEF Under
<1> QED BY <1>3

(* Leaving o for the first of its smallest children with these CPUs.       *)
LEMMA SmallestChild ==
  ASSUME NEW o \in Objects, NEW mask, mask # {}, TightestButBelow(o, mask),
         NEW k \in DOMAIN Children[o], Fit(Children[o][k], mask),
         \A l \in DOMAIN Children[o] : Fit(Children[o][l], mask) =>
           /\ Size(Children[o][k]) <= Size(Children[o][l])
           /\ Size(Children[o][k]) = Size(Children[o][l]) => k <= l
  PROVE  TightestButBelow(Children[o][k], mask)
<1> DEFINE c == Children[o][k]
<1>1. c \in Objects /\ \A l \in DOMAIN Children[o] : Children[o][l] \in Objects /\ l \in Nat
  <2>1. Children[o] \in Seq(Objects) BY TopologyConstants
  <2> QED BY <2>1
<1>2. PICK mc \in CpusetOf[c] : mask \subseteq mc BY DEF Fit
<1>3. ASSUME NEW l \in DOMAIN Children[o], NEW x \in CpusetOf[Children[o][l]]
      PROVE  Size(Children[o][l]) <= Size(o)
  <2>1. PICK n \in CpusetOf[o] : x \subseteq n BY <1>3, CpusetsNest
  <2>2. Size(o) = Cardinality(n) /\ IsFiniteSet(n) BY <2>1, SizeOf
  <2>3. Size(Children[o][l]) = Cardinality(x) BY <1>1, <1>3, SizeOf
  <2> QED BY <2>1, <2>2, <2>3, FS_Subset
<1>4. Size(c) \in Nat /\ Size(c) = Cardinality(mc) BY <1>1, <1>2, SizeOf
<1>5. ASSUME NEW q \in Objects, Fit(q, mask) PROVE Size(c) <= Size(q) \/ q \in Under(c)
  <2>1. PICK mq \in CpusetOf[q] : mask \subseteq mq BY <1>5 DEF Fit
  <2>2. Size(q) = Cardinality(mq) /\ Size(q) \in Nat BY <2>1, SizeOf
  <2>3. PICK mo \in CpusetOf[o] : mask \subseteq mo BY DEF TightestButBelow, Fit
  <2>4. Size(o) \in Nat BY <2>3, SizeOf
  <2>5. Size(c) <= Size(o) BY <1>2, <1>3
  <2>6. CASE Size(o) <= Size(q) BY <1>4, <2>2, <2>4, <2>5, <2>6
  <2>7. CASE q = o BY <2>5, <2>7
  <2>8. ASSUME NEW l \in DOMAIN Children[o], q \in Under(Children[o][l])
        PROVE  Size(c) <= Size(q) \/ q \in Under(c)
    <3> DEFINE d == Children[o][l]
    <3>1. PICK md \in CpusetOf[d] : mq \subseteq md BY <1>1, <2>1, <2>8, CpusNest
    <3>2. Fit(d, mask) BY <2>1, <3>1 DEF Fit
    <3>3. k \in Nat /\ l \in Nat BY <1>1
    <3>4. CASE l = k BY <2>8, <3>4
    <3>5. CASE k < l
      <4>1. mc \cap md # {} BY <1>2, <2>1, <3>1
      <4>2. IsMemory(d) BY <1>2, <3>1, <3>5, <4>1, CpusetsNest
      <4>3. mq # {} BY <2>1
      <4>4. mq \in CpusetOf[d] BY <1>1, <2>1, <2>8, <4>2, <4>3, MemoryBelow
      <4>5. Size(d) = Cardinality(mq) BY <1>1, <4>4, SizeOf
      <4> QED BY <2>2, <3>2, <4>5
    <3>6. CASE l < k
      <4>1. md \cap mc # {} BY <1>2, <2>1, <3>1
      <4>2. IsMemory(c) BY <1>2, <3>1, <3>6, <4>1, CpusetsNest
      <4>3. mc # {} BY <1>2
      <4>4. mc \in CpusetOf[o] BY <1>2, <4>2, <4>3, CpusetsNest
      <4>5. Size(o) = Size(c) BY <1>4, <4>4, SizeOf
      <4>6. Size(d) <= Size(o) /\ Size(d) \in Nat BY <1>1, <1>3, <3>1, SizeOf
      <4>7. Size(c) <= Size(d) /\ (Size(c) = Size(d) => k <= l) BY <3>2
      <4> HIDE DEF c, d
      <4> QED BY <1>4, <3>3, <3>6, <4>5, <4>6, <4>7
    <3> QED BY <3>3, <3>4, <3>5, <3>6
  <2> QED BY <1>5, <2>6, <2>7, <2>8, UnderChild DEF TightestButBelow
<1> QED BY <1>5 DEF TightestButBelow

(* And staying at o when no child has them.                                *)
LEMMA NoSmallerChild ==
  ASSUME NEW o \in Objects, NEW mask, TightestButBelow(o, mask),
         \A l \in DOMAIN Children[o] : ~Fit(Children[o][l], mask)
  PROVE  Tightest(o, mask)
<1>1. ASSUME NEW q \in Objects, Fit(q, mask) PROVE Size(o) <= Size(q)
  <2>1. PICK mq \in CpusetOf[q] : mask \subseteq mq BY <1>1 DEF Fit
  <2>2. Size(q) \in Nat BY <2>1, SizeOf
  <2>3. ASSUME NEW l \in DOMAIN Children[o], q \in Under(Children[o][l]) PROVE FALSE
    <3>1. Children[o][l] \in Objects BY TopologyConstants
    <3>2. \E md \in CpusetOf[Children[o][l]] : mq \subseteq md BY <2>1, <2>3, <3>1, CpusNest
    <3> QED BY <2>1, <3>2 DEF Fit
  <2> QED BY <1>1, <2>2, <2>3, UnderChild DEF TightestButBelow
<1> QED BY <1>1 DEF Tightest, TightestButBelow

------------------------------------------------------------------------------
(* The vertex of an object has its mask.                                   *)
LEMMA MaskAt ==
  ASSUME NEW g, Content(g), MasksFit(g), NEW o \in Objects, NEW v, At(g, o, v)
  PROVE  GetMask(g, v) = CpusetOf[o]
<1>1. GoodY(g) BY DEF Content
<1>2. PICK k, a : HoldsAt(g, v, k, a) /\ a.of = <<"hwloc", o>> BY DEF At
<1>3. v \in 1..Len(g.vertices) BY <1>1, <1>2, VertexRange DEF HoldsAt
<1>4. ~AtRank(g, v) BY NotAtRank DEF AtRank
<1>5. a.mask = CpusetOf[o] /\ \A j, b : HoldsAt(g, v, j, b) => b.mask \in {{}, CpusetOf[o]}
  <2>1. CASE Unnamed(g, v)
    <3>1. g.vertices[v].adapters = <<HwlocAdapter(o)>> BY <2>1, PlainAt
    <3>2. \A j, b : HoldsAt(g, v, j, b) => b = HwlocAdapter(o) BY <3>1 DEF HoldsAt
    <3>3. HwlocAdapter(o).mask = CpusetOf[o] BY AdapterFields DEF HwlocAdapter
    <3> QED BY <1>2, <3>2, <3>3
  <2>2. CASE Site(g, v)
    <3>1. PICK id \in Ids : g.ids[id] = v /\ v # NoVertex BY <2>2 DEF Site
    <3>2. Elem(g, id) = g.vertices[v] BY <3>1 DEF Elem
    <3>3. Genuine(a) BY <1>2, <3>2 DEF Content, Fits, HoldsAt
    <3>4. ASSUME NEW j, NEW b, HoldsAt(g, v, j, b), b.mask # {} PROVE b.mask = CpusetOf[o]
      <4>1. b = HwlocAdapter(MachineObj) BY <2>2, <3>4 DEF MasksFit
      <4>2. b.of = <<"hwloc", MachineObj>> /\ b.mask = CpusetOf[MachineObj]
        BY <4>1, AdapterFields DEF HwlocAdapter
      <4>3. At(g, MachineObj, v) BY <3>4, <4>2 DEF At
      <4>4. MachineObj = o BY <4>3, OneObject, TopologyConstants
      <4> QED BY <4>2, <4>4
    <3> QED BY <1>2, <3>3, <3>4 DEF Genuine
  <2> QED BY <1>1, <1>3, <1>4, <2>1, <2>2, VertexKinds
<1> QED BY <1>1, <1>2, <1>3, <1>5, MaskOfFirst DEF FirstMask

(* A vertex with a mask, unless it is a rank's, has that of an object.     *)
LEMMA MaskIsOfObject ==
  ASSUME NEW g, GoodY(g), MasksFit(g), NEW v \in 1..Len(g.vertices), ~AtRank(g, v),
         GetMask(g, v) # {}
  PROVE  \E o \in Objects : GetMask(g, v) = CpusetOf[o]
<1>1. PICK k, a : FirstMask(g, v, k, a) /\ GetMask(g, v) = a.mask BY MaskOfFirst
<1>2. Site(g, v) \/ Unnamed(g, v) BY VertexKinds
<1>3. \E o \in Objects : a = HwlocAdapter(o)
  BY <1>1, <1>2, TopologyConstants DEF MasksFit, FirstMask
<1> QED BY <1>1, <1>3, AdapterFields DEF HwlocAdapter

(* No step takes an adapter away; only hwloc moves the root.               *)
LEMMA HeldKept ==
  ASSUME IInv, [Next]_vars
  PROVE  GrowsY(graph, graph') /\ \A v, k, a : HoldsAt(graph, v, k, a) => HoldsAt(graph', v, k, a)
<1>1. GoodY(graph) BY Parts DEF GraphInv
<1>2. CASE OthersNext BY <1>2, OthersFurnish DEF Furnished
<1>3. CASE MpiNext
  <2>1. GrowsY(graph, graph') BY <1>3, Parts, MpiStep
  <2>2. ASSUME mpi.stage = "ranks", mpi.rank < NRanks, NEW g, g = AddRank(graph),
               graph'.vertices = g.vertices
        PROVE  \A v, k, a : HoldsAt(graph, v, k, a) => HoldsAt(graph', v, k, a)
    <3>1. mpi.rank \in Ranks BY <2>2, Parts, PlatformConstants DEF MpiInv, MpiTypeOK, Ranks
    <3>2. RankAdded(graph, g) BY <1>1, <2>2, <3>1, RankWorked, Parts DEF ControlInv
    <3> QED BY <2>2, <3>2 DEF RankAdded, HoldsAt
  <2>3. CASE MpiAddLocal BY <2>1, <2>2, <2>3 DEF MpiAddLocal
  <2>4. CASE MpiAddRemote
    <3> DEFINE g == AddRank(graph)
    <3>1. /\ mpi.stage = "ranks" /\ mpi.rank < NRanks
          /\ graph' = Link(g, g.ids[MachineId], g.ids[RankId])
      BY <2>4 DEF MpiAddRemote
    <3>2. mpi.rank \in Ranks BY <3>1, Parts, PlatformConstants DEF MpiInv, MpiTypeOK, Ranks
    <3>3. env \in Envs BY Parts DEF ControlInv
    <3>4. /\ GoodY(g) /\ g.ids[RankId] \in 1..Len(g.vertices)
          /\ g.ids[MachineId] \in 1..Len(g.vertices)
      BY <1>1, <3>2, <3>3, AddRankGrows
    <3> HIDE DEF g
    <3>5. graph'.vertices = g.vertices BY <3>1, <3>4, LinkY
    <3> QED BY <2>1, <2>2, <3>1, <3>5 DEF g
  <2>5. CASE MpiAttach
    <3>1. mpi.at \in 1..Len(graph.vertices) /\ graph.ids[RankId] \in 1..Len(graph.vertices)
      BY <1>1, <2>5, Parts, VertexRange DEF MpiAttach, MpiInv, MpiSound
    <3>2. graph'.vertices = graph.vertices BY <1>1, <2>5, <3>1, LinkY DEF MpiAttach
    <3> QED BY <2>1, <3>2 DEF HoldsAt
  <2>6. CASE UNCHANGED graph BY <2>1, <2>6
  <2> QED
    BY <1>3, <2>1, <2>3, <2>4, <2>5, <2>6
       DEF MpiNext, MpiRefuses, MpiGather, MpiDescend, MpiAssertFails, MpiReturn
<1> QED
  BY <1>2, <1>3
     DEF Next, InitStep, ModuleStep, OthersNext, InitCall, CallModule, InitReturn, locals, vars,
         interface

(* set_root_vertex is called by hwloc's first step only.                   *)
LEMMA RootKept ==
  ASSUME IInv, [Next]_vars, ~HwlocAddMachine
  PROVE  graph'.root = graph.root
<1>1. GoodY(graph) BY Parts DEF GraphInv
<1>2. CASE HwlocVisitChild
  <2>1. walk # <<>> /\ HasNextChild /\ graph' = AddChild(graph, Top.vd, Children[Top.obj][Top.next])
    BY <1>2 DEF HwlocVisitChild
  <2>2. WalkInv BY Parts
  <2>3. walk \in Seq(Calls) /\ Len(walk) \in DOMAIN walk /\ Top \in Calls
    BY <2>1, <2>2 DEF WalkInv, HwlocTypeOK, Top
  <2>4. Top.vd \in 1..Len(graph.vertices) /\ Top.obj \in Objects /\ Top.next \in Nat \ {0}
    BY <1>1, <2>2, <2>3, VertexRange DEF WalkInv, WalkSound, Calls, Top
  <2>5. Children[Top.obj][Top.next] \in Objects
    <3>1. Children[Top.obj] \in Seq(Objects) BY <2>4, TopologyConstants
    <3>2. Top.next \in DOMAIN Children[Top.obj] BY <2>1, <2>4, <3>1 DEF HasNextChild
    <3> QED BY <3>1, <3>2
  <2> QED BY <1>1, <2>1, <2>4, <2>5, AddChildGrows
<1>3. CASE HwlocNext
  BY <1>2, <1>3 DEF HwlocNext, HwlocVersionMismatch, HwlocAscend, HwlocReturn
<1>4. CASE NvmlDevice \/ NvmlAssertFails
  <2>1. PICK h \in NvmlHandles \cap DOMAIN NvmlDevs :
          graph' = SetType(NvmlAttach(h), NvmlVertex(h), "GPU") \/ graph' = NvmlAttach(h)
    BY <1>4 DEF NvmlDevice, NvmlAssertFails
  <2> QED BY <1>1, <2>1, NvmlGrows
<1>5. CASE RocmDevice
  <2>1. PICK b \in RocmBdfids :
          LET id == <<"bdfid", b>>
              g == AddVertexId(graph, id)
              vd == g.ids[id]
              described == SetDescription(AddAdapter(g, vd, Adapter("rocm", gpu.next, {})),
                                          vd, <<"rocm", gpu.next>>)
          IN graph' = SetType(described, vd, "GPU")
    BY <1>5 DEF RocmDevice
  <2>2. gpu.next <= gpu.count BY <1>5 DEF RocmDevice, AtDevice
  <2>3. GpuInv BY Parts
  <2>4. gpu.next \in Devs /\ b \in Bdfs
    BY <2>2, <2>3, GpuFacts, PlatformConstants DEF Devs, RocmBdfids
  <2> QED BY <1>1, <2>1, <2>4, RocmGrows
<1>6. ASSUME NEW m, GpuPair(m) PROVE graph'.root = graph.root
  <2>1. \E u, v : graph' = Interconnect(graph, u, v) \/ graph' = graph BY <1>6 DEF GpuPair
  <2> QED BY <1>1, <2>1 DEF Interconnect, AddEdge, GoodY, Good, GraphType
<1>7. CASE GpuNext
  BY <1>4, <1>5, <1>6, <1>7
     DEF GpuNext, NvmlThrows, GpuCount, GpuCountThrows, GpuDevicesDone, GpuReturn
<1>8. CASE SupermucNext
  <2>1. CASE SupermucAddHost
    <3>1. smRank \in Ranks /\ graph' = HostPath(graph, ProcName[smRank])
      BY <2>1, Parts, PlatformConstants DEF SupermucAddHost, SupermucTypeOK, Ranks
    <3> QED BY <1>1, <3>1, ProcHosts, HostPathGrows
  <2> QED BY <1>8, <2>1 DEF SupermucNext, SupermucRefuses, SupermucReturn
<1>9. CASE MpiNext
  <2>1. /\ mpi.rank \in 0..NRanks /\ env \in Envs
        /\ mpi.rank < NRanks => mpi.rank \in Ranks
    BY Parts, PlatformConstants DEF MpiInv, MpiTypeOK, Ranks, ControlInv
  <2>2. CASE MpiAddLocal BY <1>1, <2>1, <2>2, AddRankGrows DEF MpiAddLocal
  <2>3. CASE MpiAddRemote
    <3> DEFINE g == AddRank(graph)
    <3>1. mpi.rank < NRanks /\ graph' = Link(g, g.ids[MachineId], g.ids[RankId])
      BY <2>3 DEF MpiAddRemote
    <3>2. /\ GoodY(g) /\ g.ids[RankId] \in 1..Len(g.vertices)
          /\ g.ids[MachineId] \in 1..Len(g.vertices) /\ g.root = graph.root
      BY <1>1, <2>1, <3>1, AddRankGrows
    <3> HIDE DEF g
    <3> QED BY <3>1, <3>2, LinkY
  <2>4. CASE MpiAttach
    <3>1. mpi.at \in 1..Len(graph.vertices) /\ graph.ids[RankId] \in 1..Len(graph.vertices)
      BY <1>1, <2>4, Parts, VertexRange DEF MpiAttach, MpiInv, MpiSound
    <3> QED BY <1>1, <2>4, <3>1, LinkY DEF MpiAttach
  <2> QED
    BY <1>9, <2>2, <2>3, <2>4
       DEF MpiNext, MpiRefuses, MpiGather, MpiDescend, MpiAssertFails, MpiReturn
<1> QED
  BY <1>3, <1>7, <1>8, <1>9
     DEF Next, InitStep, ModuleStep, InitCall, CallModule, InitReturn, vars, interface

------------------------------------------------------------------------------
(* Every rank hangs where its mask says, in the first init().  The root is *)
(* the machine, once hwloc has begun.                                      *)
RootHeld == Ran("hwloc") \/ walk # <<>> => At(graph, MachineObj, graph.root)

(* The edges to the children of an object are in the order of the children.*)
InOrderAt(g, o, k, l) ==
  \A e, f, u, v, w :
    /\ At(g, o, u) /\ At(g, Children[o][k], v) /\ At(g, Children[o][l], w)
    /\ EdgeIs(g, "CHILD", e, u, v) /\ EdgeIs(g, "CHILD", f, u, w)
    => e < f
EdgesOrdered ==
  \A o \in Objects : \A k, l \in DOMAIN Children[o] : k < l => InOrderAt(graph, o, k, l)

(* hwloc does not run after mpi.                                           *)
MpiLast ==
  /\ current = "mpi" \/ Ran("mpi") => \A i \in DOMAIN todo : todo[i] # "hwloc"
  /\ Ran("mpi") => current # "hwloc"
  /\ \A i, j \in DOMAIN todo : i < j /\ todo[i] = "mpi" => todo[j] # "hwloc"

PlacedBy(i, a, p) ==
  /\ HoldsAt(graph, RankVertex(i), 1, a) /\ Hangs(graph, p, RankVertex(i))
  /\ a.mask = {} => p = graph.ids[<<"machine", ProcName[i]>>]
  /\ \A mask \in a.mask : \E o \in Objects : At(graph, o, p) /\ Tightest(o, mask)
Placed(i) == \E a, p : PlacedBy(i, a, p)
AllPlaced == Ran("hwloc") => \A i \in Ranks : Attached(i) => Placed(i)

Descending ==
  Ran("hwloc") /\ mpi.stage = "descend" =>
    /\ Mask # {}
    /\ \E o \in Objects : At(graph, o, mpi.at) /\ TightestButBelow(o, Mask)
    /\ \E a : HoldsAt(graph, graph.ids[RankId], 1, a) /\ a.mask = {Mask}

PlacedInv == First => RootHeld /\ EdgesOrdered /\ MpiLast /\ AllPlaced /\ Descending

(* An edge once made stays.                                                *)
LEMMA EdgeKept ==
  ASSUME NEW g, NEW h, GoodY(g), GrowsY(g, h)
  PROVE  /\ \A t, k, u, v : EdgeIs(g, t, k, u, v) => EdgeIs(h, t, k, u, v)
         /\ \A u, v : Hangs(g, u, v) => Hangs(h, u, v)
<1>1. \A t, k, u, v : EdgeIs(g, t, k, u, v) => EdgeIs(h, t, k, u, v)
  BY DEF GrowsY, Grows, Keeps, EdgeIs, GoodY, Good, GraphType
<1> QED BY <1>1 DEF Hangs

(* Unless hwloc runs, no object comes to a vertex.                         *)
LEMMA AtKept ==
  ASSUME Told, Told', ObjectsOnce',
         \A v, k, a : HoldsAt(graph, v, k, a) => HoldsAt(graph', v, k, a),
         Ran("hwloc") \/ (walk' = <<>> /\ ~Ran("hwloc")'),
         NEW o \in Objects, NEW v
  PROVE  At(graph', o, v) <=> At(graph, o, v)
<1>1. \A u : At(graph, o, u) => At(graph', o, u) BY DEF At
<1>2. Content(graph) /\ Content(graph') BY DEF Told, ToldExactly, Tells
<1>3. CASE Ran("hwloc")
  <2>1. Seen(graph) = Objects BY <1>3 DEF Told, Visited
  <2>2. PICK u : At(graph, o, u) BY <1>2, <2>1, SeenAt
  <2> QED BY <1>1, <2>2 DEF ObjectsOnce
<1>4. CASE walk' = <<>> /\ ~Ran("hwloc")'
  <2>1. Seen(graph') = {} BY <1>4 DEF Told, Visited
  <2>2. ~At(graph', o, v) BY <1>2, <2>1, SeenAt
  <2> QED BY <1>1, <2>2
<1> QED BY <1>3, <1>4

(* Children that hang keep their order.                                    *)
LEMMA OrderKept ==
  ASSUME EdgesTold, HangsOnce(graph'), GoodY(graph), GrowsY(graph, graph'),
         NEW o \in Objects, NEW k \in DOMAIN Children[o], NEW l \in DOMAIN Children[o],
         \A v : /\ At(graph', o, v) => At(graph, o, v)
                /\ At(graph', Children[o][k], v) => At(graph, Children[o][k], v)
                /\ At(graph', Children[o][l], v) => At(graph, Children[o][l], v),
         InOrderAt(graph, o, k, l)
  PROVE  InOrderAt(graph', o, k, l)
<1> SUFFICES ASSUME NEW e, NEW f, NEW u, NEW v, NEW w,
                    At(graph', o, u), At(graph', Children[o][k], v), At(graph', Children[o][l], w),
                    EdgeIs(graph', "CHILD", e, u, v), EdgeIs(graph', "CHILD", f, u, w)
             PROVE  e < f
  BY DEF InOrderAt
<1>1. At(graph, o, u) /\ At(graph, Children[o][k], v) /\ At(graph, Children[o][l], w) OBVIOUS
<1>2. TreeEdge(u, v) /\ TreeEdge(u, w) BY <1>1 DEF TreeEdge
<1>3. Hangs(graph, u, v) /\ Hangs(graph, u, w) BY <1>2 DEF EdgesTold
<1>4. PICK d : EdgeIs(graph, "CHILD", d, u, v) BY <1>3 DEF Hangs
<1>5. PICK c : EdgeIs(graph, "CHILD", c, u, w) BY <1>3 DEF Hangs
<1>6. EdgeIs(graph', "CHILD", d, u, v) /\ EdgeIs(graph', "CHILD", c, u, w)
  BY <1>4, <1>5, EdgeKept
<1>7. d = e /\ c = f BY <1>6 DEF HangsOnce
<1> QED BY <1>1, <1>4, <1>5, <1>7 DEF InOrderAt

(* A rank that is placed stays so, at the same vertex.                     *)
LEMMA PlacedKept ==
  ASSUME GoodY(graph), GrowsY(graph, graph'),
         \A v, k, a : HoldsAt(graph, v, k, a) => HoldsAt(graph', v, k, a),
         NEW i \in Ranks, Placed(i)
  PROVE  Placed(i)' /\ RankVertex(i)' = RankVertex(i)
<1>1. PICK a, p : PlacedBy(i, a, p) BY DEF Placed
<1>2. RankVertex(i) \in 1..Len(graph.vertices) /\ p \in 1..Len(graph.vertices)
  BY <1>1, VertexRange, EdgeWithin DEF PlacedBy, HoldsAt, Hangs
<1>3. RankVertex(i)' = RankVertex(i) BY <1>2, IdentifierKept, IdsOf DEF RankVertex
<1>4. HoldsAt(graph', RankVertex(i)', 1, a) /\ Hangs(graph', p, RankVertex(i)')
  BY <1>1, <1>3, EdgeKept DEF PlacedBy
<1>5. ASSUME a.mask = {} PROVE p = graph'.ids[<<"machine", ProcName[i]>>]
  <2>1. p = graph.ids[<<"machine", ProcName[i]>>] BY <1>1, <1>5 DEF PlacedBy
  <2>2. <<"machine", ProcName[i]>> \in Ids BY ProcHosts, IdsOf
  <2> QED BY <1>2, <2>1, <2>2, IdentifierKept
<1>6. \A o : At(graph, o, p) => At(graph', o, p) BY DEF At
<1>7. PlacedBy(i, a, p)' BY <1>1, <1>4, <1>5, <1>6 DEF PlacedBy, Tightest, Fit, Size
<1> QED BY <1>3, <1>7 DEF Placed

(* What the walk does to the objects and the edges of the graph when it    *)
(* comes to c, the k-th child of p, at vertex v.                           *)
Come(p, c, k, v) ==
  /\ c = Children[p][k] /\ ~Found(c)
  /\ \A l \in DOMAIN Children[p] : k < l => ~Found(Children[p][l])
  /\ \A o, w : At(graph', o, w) <=> At(graph, o, w) \/ (w = v /\ o = c)
  /\ \A u : ~Hangs(graph, u, v)
  /\ \A e, u, w : EdgeIs(graph', "CHILD", e, u, w) =>
       EdgeIs(graph, "CHILD", e, u, w) \/ (e = Len(graph.edges) + 1 /\ w = v)

(* A call of make_hwloc_graph hangs the next child, whose siblings to the  *)
(* right were not seen yet, by a new edge, the last of the graph.          *)
LEMMA ChildCome ==
  ASSUME IInv, Told, EdgesTold, WalkFresh, HwlocVisitChild
  PROVE  \E p, c \in Objects : \E k \in DOMAIN Children[p] : \E v : Come(p, c, k, v)
<1>1. walk # <<>> /\ HasNextChild /\ graph' = AddChild(graph, Top.vd, Children[Top.obj][Top.next])
  BY DEF HwlocVisitChild
<1>2. /\ Top \in Calls /\ Top.vd \in 1..Len(graph.vertices) /\ GoodY(graph)
      /\ Children[Top.obj] \in Seq(Objects)
  BY <1>1, WalkFacts
<1>3. PICK p, k, vd : p = Top.obj /\ k = Top.next /\ vd = Top.vd OBVIOUS
<1>4. p \in Objects /\ k \in DOMAIN Children[p] /\ vd \in 1..Len(graph.vertices)
  BY <1>1, <1>2, <1>3 DEF Calls, HasNextChild
<1>5. PICK c : c = Children[p][k] OBVIOUS
<1>6. c \in Objects BY <1>4, <1>5, TopologyConstants
<1>7. PICK v : v = ChildVertex(graph, c) OBVIOUS
<1>8. graph' = AddChild(graph, vd, c) BY <1>1, <1>3, <1>5
<1>9. /\ \A w : ~At(graph, c, w)
      /\ \A l \in DOMAIN Children[p] : k < l => ~Found(Children[p][l])
  <2>1. walk \in Seq(Calls) BY Parts DEF WalkInv, HwlocTypeOK
  <2>2. Len(walk) \in DOMAIN walk BY <1>1, <2>1
  <2>3. k \in Nat /\ \A l \in DOMAIN Children[p] : l \in Nat BY <1>2, <1>3, <1>4
  <2>4. \A l \in DOMAIN Children[p] : l >= k => ~Found(Children[p][l])
    BY <1>3, <2>2 DEF WalkFresh, Top
  <2> QED BY <1>4, <1>5, <2>3, <2>4 DEF Found
<1>10. PICK typed : /\ AddChild(graph, vd, c) = Link(typed, vd, v)
                    /\ Added(graph, typed, {<<v, HwlocAdapter(c)>>})
                    /\ GoodY(typed) /\ v \in 1..Len(typed.vertices)
                    /\ vd \in 1..Len(typed.vertices)
  BY <1>2, <1>4, <1>6, <1>7, ChildAdds
<1>11. graph' = Link(typed, vd, v) /\ graph'.vertices = typed.vertices
  BY <1>8, <1>10, LinkY
<1>12. \A o, w : At(graph', o, w) <=> At(graph, o, w) \/ (w = v /\ o = c)
  <2>1. \A o, w : At(typed, o, w) <=> At(graph, o, w) \/ (w = v /\ o = c)
    BY <1>10, ObjectAdded
  <2>2. \A o, w : At(graph', o, w) <=> At(typed, o, w) BY <1>11, AtSame
  <2> QED BY <2>1, <2>2
<1>13. \A u : ~Hangs(graph, u, v) BY <1>6, <1>7, <1>9, ChildHangsFree
<1>14. ASSUME NEW e, NEW u, NEW w, EdgeIs(graph', "CHILD", e, u, w)
       PROVE  EdgeIs(graph, "CHILD", e, u, w) \/ (e = Len(graph.edges) + 1 /\ w = v)
  <2>1. PICK half : half = AddEdge(typed, vd, v, "CHILD") OBVIOUS
  <2>2. graph' = AddEdge(half, v, vd, "PARENT") BY <1>11, <2>1 DEF Link
  <2>3. GoodY(half) BY <1>10, <2>1, AddEdgeGrows, GrowsYGood DEF GoodY, GrowsY, EdgeTypes
  <2>4. EdgeIs(half, "CHILD", e, u, w) BY <1>14, <2>2, <2>3, EdgeAppended
  <2>5. EdgeIs(typed, "CHILD", e, u, w) \/ (e = Len(typed.edges) + 1 /\ u = vd /\ w = v)
    BY <1>10, <2>1, <2>4, EdgeAppended
  <2>6. typed.edges = graph.edges BY <1>10 DEF Added
  <2> QED BY <2>5, <2>6 DEF EdgeIs
<1>15. ~Found(c) /\ \A l \in DOMAIN Children[p] : k < l => ~Found(Children[p][l])
  BY <1>9 DEF Found
<1>16. Come(p, c, k, v) BY <1>5, <1>12, <1>13, <1>14, <1>15 DEF Come
<1> QED BY <1>4, <1>6, <1>16

(* The edge to c comes after those to its siblings.                        *)
LEMMA OrderGrown ==
  ASSUME IInv, Told, Told', HierGraph, HierGraph', WalkFresh, GrowsY(graph, graph'),
         HwlocVisitChild, EdgesOrdered
  PROVE  EdgesOrdered'
<1>1. /\ EdgesTold /\ HangsOnce(graph') /\ GoodY(graph) /\ Content(graph')
  BY DEF HierGraph, EdgesTold, Told, ToldExactly, Tells, Content
<1>2. PICK p \in Objects, c \in Objects : \E k \in DOMAIN Children[p] : \E v : Come(p, c, k, v)
  BY <1>1, ChildCome
<1>3. PICK k \in DOMAIN Children[p] : \E v : Come(p, c, k, v) BY <1>2
<1>4. PICK v : Come(p, c, k, v) BY <1>3
<1>5. SUFFICES ASSUME NEW o \in Objects, NEW i \in DOMAIN Children[o],
                      NEW j \in DOMAIN Children[o], i < j
               PROVE  InOrderAt(graph', o, i, j)
  BY DEF EdgesOrdered
<1>6. /\ Children[o][i] \in Objects /\ Children[o][j] \in Objects /\ i # j
      /\ i \in Nat /\ j \in Nat
  <2>1. Children[o] \in Seq(Objects) BY TopologyConstants
  <2> QED BY <2>1, <1>5
<1>7. Children[o][i] # Children[o][j] BY <1>6, TopologyTree
<1>8. ASSUME Children[o][j] = c PROVE InOrderAt(graph', o, i, j)
  <2>1. SUFFICES ASSUME NEW e, NEW f, NEW u, NEW x, NEW w,
                        At(graph', Children[o][i], x), At(graph', c, w),
                        EdgeIs(graph', "CHILD", e, u, x), EdgeIs(graph', "CHILD", f, u, w)
                 PROVE  e < f
    BY <1>8 DEF InOrderAt
  <2>2. w = v BY <1>4, <2>1 DEF Come, Found
  <2>3. f = Len(graph.edges) + 1
    <3>1. ~EdgeIs(graph, "CHILD", f, u, v) BY <1>4 DEF Come, Hangs
    <3> QED BY <1>4, <2>1, <2>2, <3>1 DEF Come
  <2>4. x # v BY <1>1, <1>6, <1>7, <1>8, <2>1, <2>2, OneObject
  <2>5. EdgeIs(graph, "CHILD", e, u, x) BY <1>4, <2>1, <2>4 DEF Come
  <2>6. e \in 1..Len(graph.edges) BY <1>1, <2>5, EdgeWithin
  <2>7. graph.edges \in Seq(EdgeType) BY <1>1 DEF GoodY, Good, GraphType
  <2>8. Len(graph.edges) \in Nat BY <2>7
  <2> QED BY <2>3, <2>6, <2>8
<1>9. ASSUME Children[o][i] = c PROVE InOrderAt(graph', o, i, j)
  <2>1. o = p /\ i = k BY <1>4, <1>9, TopologyTree DEF Come
  <2>2. ~Found(Children[o][j]) BY <1>4, <1>5, <2>1 DEF Come
  <2>3. \A w : ~At(graph', Children[o][j], w) BY <1>4, <1>7, <1>9, <2>2 DEF Come, Found
  <2> QED BY <2>3 DEF InOrderAt
<1>10. ASSUME Children[o][i] # c, Children[o][j] # c PROVE InOrderAt(graph', o, i, j)
  <2>1. CASE o = c
    <3>1. ~Found(Children[o][i]) BY <1>4, <2>1 DEF Come, WalkFresh
    <3>2. \A w : ~At(graph', Children[o][i], w) BY <1>4, <1>10, <3>1 DEF Come, Found
    <3> QED BY <3>2 DEF InOrderAt
  <2>2. CASE o # c
    <3>1. \A w : /\ At(graph', o, w) => At(graph, o, w)
                 /\ At(graph', Children[o][i], w) => At(graph, Children[o][i], w)
                 /\ At(graph', Children[o][j], w) => At(graph, Children[o][j], w)
      BY <1>4, <1>10, <2>2 DEF Come
    <3>2. InOrderAt(graph, o, i, j) BY <1>5 DEF EdgesOrdered
    <3> QED BY <1>1, <3>1, <3>2, OrderKept
  <2> QED BY <2>1, <2>2
<1> QED BY <1>8, <1>9, <1>10

(* What the step of a module says of the state of init().                  *)
LEMMA RunsAs ==
  ASSUME First', HwlocNext \/ GpuNext \/ SupermucNext \/ MpiNext
  PROVE  /\ current \in Modules /\ phase = "running"
         /\ HwlocNext => current = "hwloc"
         /\ GpuNext => current \in {"nvml", "rocm"}
         /\ SupermucNext => current = "supermuc"
         /\ MpiNext => current = "mpi"
         /\ Stay \/ \E s \in Statuses : Return(current, s)
<1>1. ~Leave("threw") /\ ~Leave("aborted") BY DEF First, Leave
<1>2. ASSUME HwlocNext
      PROVE  Running("hwloc") /\ (Stay \/ \E s \in Statuses : Return("hwloc", s))
  BY <1>2 DEF HwlocNext, HwlocVersionMismatch, HwlocAddMachine, HwlocVisitChild, HwlocAscend,
              HwlocReturn, Statuses
<1>3. ASSUME SupermucNext
      PROVE  Running("supermuc") /\ (Stay \/ \E s \in Statuses : Return("supermuc", s))
  BY <1>3 DEF SupermucNext, SupermucRefuses, SupermucAddHost, SupermucReturn, Statuses
<1>4. ASSUME MpiNext
      PROVE  Running("mpi") /\ (Stay \/ \E s \in Statuses : Return("mpi", s))
  BY <1>1, <1>4 DEF MpiNext, MpiRefuses, MpiGather, MpiAddRemote, MpiAddLocal, MpiDescend,
                    MpiAssertFails, MpiAttach, MpiReturn, Statuses
<1>5. ASSUME GpuNext
      PROVE  \E m \in {"nvml", "rocm"} :
               Running(m) /\ (Stay \/ \E s \in Statuses : Return(m, s))
  <2>1. CASE NvmlDevice \/ RocmDevice
    <3>1. AtDevice("nvml") \/ AtDevice("rocm") BY <2>1 DEF NvmlDevice, RocmDevice
    <3>2. Stay BY <2>1 DEF NvmlDevice, RocmDevice
    <3> QED BY <3>1, <3>2 DEF AtDevice
  <2>2. CASE NvmlAssertFails \/ NvmlThrows
    BY <1>1, <2>2 DEF NvmlAssertFails, NvmlThrows
  <2>3. ASSUME NEW m \in {"nvml", "rocm"},
               GpuCount(m) \/ GpuCountThrows(m) \/ GpuDevicesDone(m) \/ GpuPair(m) \/ GpuReturn(m)
        PROVE  Running(m) /\ (Stay \/ \E s \in Statuses : Return(m, s))
    <3>1. Running(m)
      BY <2>3 DEF GpuCount, GpuCountThrows, GpuDevicesDone, GpuPair, AtPair, GpuReturn
    <3>2. Stay \/ Return(m, "SUCCESS")
      BY <1>1, <2>3 DEF GpuCount, GpuCountThrows, GpuDevicesDone, GpuPair, GpuReturn
    <3> QED BY <3>1, <3>2 DEF Statuses
  <2> QED BY <1>5, <2>1, <2>2, <2>3 DEF GpuNext
<1> QED BY <1>2, <1>3, <1>4, <1>5 DEF Running, Modules

(* What has run, has run before or runs now.                               *)
LEMMA RanBefore ==
  ASSUME IInv, LoopOnce, First', [Next]_vars, NEW m \in Modules
  PROVE  /\ Ran(m) => Ran(m)'
         /\ Ran(m)' => Ran(m) \/ (current = m /\ current' = "none" /\ UNCHANGED <<todo, inits>>)
<1>1. status \in [Modules -> Statuses \cup {"none"}] BY Parts DEF ControlInv
<1>2. CASE UNCHANGED status BY <1>2 DEF Ran
<1>3. ASSUME ModuleStep, UNCHANGED <<todo, inits>>
      PROVE  /\ Ran(m) => Ran(m)'
             /\ Ran(m)' => Ran(m) \/ (current = m /\ current' = "none" /\ UNCHANGED <<todo, inits>>)
  <2>1. current \in Modules /\ (Stay \/ \E s \in Statuses : Return(current, s))
    BY <1>3, RunsAs DEF ModuleStep
  <2>2. ASSUME NEW s \in Statuses, Return(current, s)
        PROVE  /\ current' = "none" /\ status' = [status EXCEPT ![current] = s]
    BY <2>2 DEF Return
  <2>3. current \in Modules => status[current] = "none"
    <3>1. "none" \notin Modules BY DEF Modules
    <3> QED BY <3>1 DEF LoopOnce
  <2> QED BY <1>1, <1>2, <1>3, <2>1, <2>2, <2>3 DEF Ran, Stay
<1> QED
  BY <1>2, <1>3 DEF Next, InitStep, InitCall, CallModule, InitReturn, vars, interface

(* Nothing puts mpi before hwloc.                                          *)
LEMMA LastKept ==
  ASSUME IInv, First', LoopOnce, MpiLast, [Next]_vars
  PROVE  MpiLast'
<1>1. todo \in Seq(Modules) /\ {"mpi", "hwloc"} \subseteq Modules
  BY Parts DEF LoopInv, Modules
<1>2. CASE InitCall
  <2>1. inits = 0
    <3>1. inits \in Nat BY Parts, InitConstants DEF LoopInv
    <3> QED BY <1>2, <3>1 DEF InitCall, First
  <2>2. ~Ran("mpi")' /\ current' = "none"
    BY <1>1, <1>2, <2>1 DEF InitCall, LoopOnce, Ran
  <2>3. todo' \in SortedLists BY <1>2 DEF InitCall
  <2>4. \A i, j \in DOMAIN todo' : i < j /\ todo'[i] = "mpi" => todo'[j] # "hwloc"
    BY <2>3 DEF SortedLists, InitOrder
  <2> QED BY <2>2, <2>4 DEF MpiLast
<1>3. CASE CallModule
  <2>1. todo # <<>> /\ todo' = Tail(todo) /\ current' \in {Head(todo), "none"} /\ UNCHANGED status
    BY <1>3 DEF CallModule
  <2>2. /\ \A i \in DOMAIN todo' :
             i + 1 \in DOMAIN todo /\ todo'[i] = todo[i + 1] /\ i \in Nat /\ i > 0
        /\ 1 \in DOMAIN todo /\ Head(todo) = todo[1]
    BY <1>1, <2>1
  <2>3. Ran("mpi")' <=> Ran("mpi") BY <2>1 DEF Ran
  <2>4. \A i, j \in DOMAIN todo' : i < j /\ todo'[i] = "mpi" => todo'[j] # "hwloc"
    BY <2>2 DEF MpiLast
  <2>5. current' = "mpi" => \A i \in DOMAIN todo' : todo'[i] # "hwloc"
    BY <2>1, <2>2 DEF MpiLast
  <2>6. Ran("mpi") => current' # "hwloc" /\ \A i \in DOMAIN todo' : todo'[i] # "hwloc"
    BY <2>1, <2>2 DEF MpiLast
  <2> QED BY <2>3, <2>4, <2>5, <2>6 DEF MpiLast
<1>4. ASSUME UNCHANGED todo, current' \in {current, "none"},
             Ran("mpi")' => Ran("mpi") \/ (current = "mpi" /\ current' = "none")
      PROVE  MpiLast'
  BY <1>4 DEF MpiLast
<1>5. CASE ModuleStep /\ UNCHANGED <<todo, inits>>
  <2>1. Stay \/ \E s \in Statuses : Return(current, s) BY <1>5, RunsAs DEF ModuleStep
  <2>2. current' \in {current, "none"} BY <2>1 DEF Stay, Return
  <2>3. Ran("mpi")' => Ran("mpi") \/ (current = "mpi" /\ current' = "none") BY <1>1, RanBefore
  <2> QED BY <1>4, <1>5, <2>2, <2>3
<1>6. CASE InitReturn \/ UNCHANGED vars
  <2>1. UNCHANGED <<todo, current, status>> BY <1>6 DEF InitReturn, vars, interface
  <2> QED BY <1>4, <2>1 DEF Ran
<1> QED BY <1>2, <1>3, <1>5, <1>6 DEF Next, InitStep

(* The machine is found, at the root.                                      *)
LEMMA MachineRooted ==
  ASSUME IInv, Told, LoopOnce, HwlocAddMachine
  PROVE  RootHeld' /\ EdgesOrdered'
<1> DEFINE id == <<"machine", GetHostName>>
           vd == AddVertexId(graph, id).ids[id]
<1>1. Running("hwloc") /\ walk = <<>> BY DEF HwlocAddMachine
<1>2. GoodY(graph) BY DEF Told, ToldExactly, Tells, Content
<1>3. /\ Added(graph, graph', {<<vd, HwlocAdapter(MachineObj)>>})
      /\ graph'.ids[id] = vd /\ graph'.root = vd
  BY <1>2, MachineAdds DEF HwlocAddMachine
<1>4. ~Ran("hwloc") BY <1>1 DEF Running, LoopOnce, Ran
<1>5. \A o \in Objects : \A v : ~At(graph, o, v) BY <1>1, <1>4, NothingFound
<1> HIDE DEF vd
<1>6. \A o, v : At(graph', o, v) <=> At(graph, o, v) \/ (v = vd /\ o = MachineObj)
  <2>1. Added(graph, graph', {<<vd, HwlocAdapter(MachineObj)>>}) BY <1>3
  <2> QED BY <2>1, ObjectAdded
<1>7. RootHeld' BY <1>3, <1>6 DEF RootHeld
<1>8. \A o \in Objects : \A k \in DOMAIN Children[o] : \A v : ~At(graph', Children[o][k], v)
  BY <1>5, <1>6, TopologyConstants, TopologyTree
<1>9. EdgesOrdered' BY <1>8 DEF EdgesOrdered, InOrderAt
<1> QED BY <1>7, <1>9

(* Every other step keeps the root and the order of the edges.             *)
LEMMA TreeKept ==
  ASSUME IInv, First', Told, Told', LoopOnce, LocalsIdle, HierGraph, HierGraph', WalkFresh,
         [Next]_vars, RootHeld, EdgesOrdered
  PROVE  RootHeld' /\ EdgesOrdered'
<1>1. /\ GrowsY(graph, graph')
      /\ \A v, k, a : HoldsAt(graph, v, k, a) => HoldsAt(graph', v, k, a)
      /\ GoodY(graph)
  BY HeldKept, Parts DEF GraphInv
<1>2. "hwloc" \in Modules BY DEF Modules
<1>3. Ran("hwloc")' => Ran("hwloc") \/ current = "hwloc" BY <1>2, RanBefore
<1>4. Ran("hwloc") => Ran("hwloc")' BY <1>2, RanBefore
<1>5. ASSUME ~HwlocAddMachine, Ran("hwloc")' \/ walk' # <<>> => Ran("hwloc") \/ walk # <<>>
      PROVE  RootHeld'
  <2>1. graph'.root = graph.root BY <1>5, RootKept
  <2> QED BY <1>1, <1>5, <2>1 DEF RootHeld, At
<1>6. ASSUME UNCHANGED graph PROVE EdgesOrdered'
  BY <1>6 DEF EdgesOrdered
<1>7. ASSUME current # "hwloc", UNCHANGED walk PROVE RootHeld' /\ EdgesOrdered'
  <2>1. walk = <<>> /\ walk' = <<>> BY <1>7 DEF LocalsIdle
  <2>2. ~HwlocAddMachine BY <1>7 DEF HwlocAddMachine, Running
  <2>3. RootHeld' BY <1>3, <1>5, <1>7, <2>1, <2>2
  <2>4. Ran("hwloc") \/ (walk' = <<>> /\ ~Ran("hwloc")') BY <1>3, <1>7, <2>1
  <2>5. \A o \in Objects : \A v : At(graph', o, v) => At(graph, o, v)
    BY <1>1, <2>4, AtKept DEF HierGraph
  <2>6. ASSUME NEW o \in Objects, NEW k \in DOMAIN Children[o], NEW l \in DOMAIN Children[o],
               k < l
        PROVE  InOrderAt(graph', o, k, l)
    <3>1. Children[o][k] \in Objects /\ Children[o][l] \in Objects BY TopologyConstants
    <3>2. InOrderAt(graph, o, k, l) BY <2>6 DEF EdgesOrdered
    <3>3. EdgesTold /\ HangsOnce(graph') BY DEF HierGraph, EdgesTold
    <3> QED BY <1>1, <2>5, <3>1, <3>2, <3>3, OrderKept
  <2>7. EdgesOrdered' BY <2>6 DEF EdgesOrdered
  <2> QED BY <2>3, <2>7
<1>8. CASE HwlocAddMachine BY <1>8, MachineRooted
<1>9. CASE HwlocVisitChild
  <2>1. walk # <<>> /\ ~HwlocAddMachine BY <1>9 DEF HwlocVisitChild, HwlocAddMachine
  <2>2. EdgesOrdered' BY <1>1, <1>9, OrderGrown
  <2> QED BY <1>5, <2>1, <2>2
<1>10. CASE HwlocVersionMismatch \/ HwlocAscend \/ HwlocReturn
  <2>1. UNCHANGED graph BY <1>10 DEF HwlocVersionMismatch, HwlocAscend, HwlocReturn
  <2>2. walk' # <<>> => walk # <<>>
    BY <1>10 DEF HwlocVersionMismatch, HwlocAscend, HwlocReturn
  <2>3. Ran("hwloc")' => Ran("hwloc") \/ walk # <<>>
    <3>1. CASE HwlocVersionMismatch
      <4>1. status \in [Modules -> Statuses \cup {"none"}] BY Parts DEF ControlInv
      <4> QED BY <1>2, <3>1, <4>1 DEF HwlocVersionMismatch, Return, Ran
    <3>2. CASE HwlocAscend BY <3>2 DEF HwlocAscend, Stay, Ran
    <3>3. CASE HwlocReturn BY <3>3 DEF HwlocReturn
    <3> QED BY <1>10, <3>1, <3>2, <3>3
  <2>4. graph'.root = graph.root BY <2>1
  <2>5. RootHeld' BY <2>1, <2>2, <2>3 DEF RootHeld
  <2> QED BY <1>6, <2>1, <2>5
<1>11. CASE (GpuNext \/ SupermucNext \/ MpiNext) /\ UNCHANGED walk
  <2>1. current # "hwloc" BY <1>11, RunsAs
  <2> QED BY <1>7, <1>11, <2>1
<1>12. CASE InitCall \/ CallModule \/ InitReturn \/ UNCHANGED vars
  <2>1. UNCHANGED <<graph, status, walk>>
    BY <1>12 DEF InitCall, CallModule, InitReturn, vars, interface, locals
  <2>2. RootHeld' BY <2>1 DEF RootHeld, Ran
  <2> QED BY <1>6, <2>1, <2>2
<1> QED
  BY <1>8, <1>9, <1>10, <1>11, <1>12 DEF Next, InitStep, ModuleStep, HwlocNext

------------------------------------------------------------------------------
(* The candidates at the vertex of an object are children of the object    *)
(* that have the CPUs.                                                     *)
LEMMA CandidateIsChild ==
  ASSUME Told, HierGraph, MasksFit(graph), NEW at, NEW o \in Objects, At(graph, o, at), NEW mask,
         NEW e \in Candidates(graph, at, mask)
  PROVE  \E k \in DOMAIN Children[o] :
           /\ At(graph, Children[o][k], graph.edges[e].target) /\ Fit(Children[o][k], mask)
           /\ Count(graph, graph.edges[e].target) = Size(Children[o][k])
<1>1. Content(graph) /\ GoodY(graph) BY DEF Told, ToldExactly, Tells, Content
<1>2. PICK v : v = graph.edges[e].target OBVIOUS
<1>3. /\ EdgeIs(graph, "CHILD", e, at, v) /\ ~IsA(graph.vertices[v].type, "MPIProcess")
      /\ \E m \in GetMask(graph, v) : mask \subseteq m
  BY <1>2 DEF Candidates, EdgeIs
<1>4. Hangs(graph, at, v) /\ v \in DOMAIN graph.vertices
  BY <1>1, <1>3, EdgeWithin, VertexRange DEF Hangs
<1>5. \A i \in Ranks : v # RankVertex(i) BY <1>1, <1>3, <1>4, RankTyped DEF RankVertex
<1>6. ~NameEdge(at, v)
  <2>1. ASSUME NEW i \in HostsTold, NEW d \in PathEdges(ProcName[i]), at = graph.ids[d[1]]
        PROVE  FALSE
    <3>1. d[1] \in Ids /\ d[1][1] = "system" BY ProcHosts, PathEdgeIds DEF HostsTold
    <3> QED BY <1>1, <2>1, <3>1, NotAtSystem
  <2> QED BY <2>1 DEF NameEdge
<1>7. TreeEdge(at, v) BY <1>4, <1>5, <1>6 DEF HierGraph, EdgesTold
<1>8. PICK p \in Objects : \E k \in DOMAIN Children[p] :
        At(graph, p, at) /\ At(graph, Children[p][k], v)
  BY <1>7 DEF TreeEdge
<1>9. p = o BY <1>1, <1>8, OneObject
<1>10. PICK k \in DOMAIN Children[o] : At(graph, Children[o][k], v) BY <1>8, <1>9
<1>11. Children[o][k] \in Objects BY TopologyConstants
<1>12. GetMask(graph, v) = CpusetOf[Children[o][k]] BY <1>1, <1>10, <1>11, MaskAt
<1>13. Fit(Children[o][k], mask) BY <1>3, <1>12 DEF Fit
<1>14. Count(graph, v) = Size(Children[o][k]) BY <1>12 DEF Count, Size
<1> QED BY <1>2, <1>10, <1>13, <1>14

(* The children that have the CPUs are candidates.                         *)
LEMMA ChildIsCandidate ==
  ASSUME Told, HierGraph, MasksFit(graph), KindsFit(graph), Ran("hwloc"),
         NEW at, NEW o \in Objects, At(graph, o, at), NEW mask,
         NEW k \in DOMAIN Children[o], Fit(Children[o][k], mask)
  PROVE  \E e \in Candidates(graph, at, mask) :
           At(graph, Children[o][k], graph.edges[e].target)
<1>1. Content(graph) /\ GoodY(graph) BY DEF Told, ToldExactly, Tells, Content
<1>2. Children[o][k] \in Objects BY TopologyConstants
<1>3. Seen(graph) = Objects BY DEF Told, Visited
<1>4. PICK v : At(graph, Children[o][k], v) BY <1>1, <1>2, <1>3, SeenAt
<1>5. TreeEdge(at, v) BY <1>4 DEF TreeEdge
<1>6. PICK e : EdgeIs(graph, "CHILD", e, at, v) BY <1>5 DEF HierGraph, EdgesTold, Hangs
<1>7. \E m \in GetMask(graph, v) : mask \subseteq m BY <1>1, <1>2, <1>4, MaskAt DEF Fit
<1>8. ~IsA(graph.vertices[v].type, "MPIProcess")
  <2>1. v \in DOMAIN graph.vertices BY <1>1, <1>6, EdgeWithin, VertexRange
  <2>2. \A i \in Ranks : graph.ids[<<"mpi_rank", i>>] # v BY <1>1, <1>4, NotAtRank
  <2> QED BY <2>1, <2>2, FitUnique DEF DevicesNotDuplicated
<1>9. e \in Candidates(graph, at, mask) BY <1>6, <1>7, <1>8 DEF Candidates, EdgeIs
<1> QED BY <1>4, <1>6, <1>9 DEF EdgeIs

(* The walk leaves for the smallest of them, the first of several.         *)
LEMMA LowerIsSmallest ==
  ASSUME StableSort, Told, HierGraph, MasksFit(graph), KindsFit(graph), Ran("hwloc"), EdgesOrdered,
         NEW o \in Objects, At(graph, o, mpi.at), NEW v \in LowerVertices
  PROVE  \E k \in DOMAIN Children[o] :
           /\ At(graph, Children[o][k], v) /\ Fit(Children[o][k], Mask)
           /\ \A l \in DOMAIN Children[o] : Fit(Children[o][l], Mask) =>
                /\ Size(Children[o][k]) <= Size(Children[o][l])
                /\ Size(Children[o][k]) = Size(Children[o][l]) => k <= l
<1> DEFINE cs == Candidates(graph, mpi.at, Mask)
           least == {i \in cs : \A j \in cs : Count(graph, graph.edges[i].target)
                                                <= Count(graph, graph.edges[j].target)}
<1>1. Content(graph) /\ GoodY(graph) BY DEF Told, ToldExactly, Tells, Content
<1>2. least \subseteq Nat
  <2>1. graph.edges \in Seq(EdgeType) BY <1>1 DEF GoodY, Good, GraphType
  <2> QED BY <2>1 DEF Candidates
<1>3. \E i \in IF StableSort /\ least # {} THEN {Min(least)} ELSE least :
        v = graph.edges[i].target
  BY DEF LowerVertices, Lower
<1>4. least # {} /\ v = graph.edges[Min(least)].target BY <1>3
<1>5. /\ \A i \in least : /\ i \in cs
                          /\ \A j \in cs : Count(graph, graph.edges[i].target)
                                             <= Count(graph, graph.edges[j].target)
      /\ \A i \in cs : (\A j \in cs : Count(graph, graph.edges[i].target)
                                        <= Count(graph, graph.edges[j].target)) => i \in least
  OBVIOUS
<1> HIDE DEF least
<1>6. PICK e : e = Min(least) OBVIOUS
<1>7. e \in least /\ \A f \in least : e <= f BY <1>2, <1>4, <1>6, LeastOfNaturals
<1>8. e \in cs /\ e \in Nat /\ v = graph.edges[e].target BY <1>2, <1>4, <1>5, <1>6, <1>7
<1>9. PICK k \in DOMAIN Children[o] :
        At(graph, Children[o][k], v) /\ Fit(Children[o][k], Mask)
        /\ Count(graph, v) = Size(Children[o][k])
  BY <1>8, CandidateIsChild
<1>10. ASSUME NEW l \in DOMAIN Children[o], Fit(Children[o][l], Mask)
       PROVE  /\ Size(Children[o][k]) <= Size(Children[o][l])
              /\ Size(Children[o][k]) = Size(Children[o][l]) => k <= l
  <2>1. Children[o][k] \in Objects /\ Children[o][l] \in Objects /\ k \in Nat /\ l \in Nat
    <3>1. Children[o] \in Seq(Objects) BY TopologyConstants
    <3> QED BY <3>1
  <2>2. PICK f \in cs : At(graph, Children[o][l], graph.edges[f].target)
    BY <1>10, ChildIsCandidate
  <2>3. PICK w : w = graph.edges[f].target OBVIOUS
  <2>4. Count(graph, w) = Size(Children[o][l])
    <3>1. PICK j \in DOMAIN Children[o] :
            At(graph, Children[o][j], w) /\ Count(graph, w) = Size(Children[o][j])
      BY <2>2, <2>3, CandidateIsChild
    <3>2. Children[o][j] \in Objects BY TopologyConstants
    <3>3. Children[o][j] = Children[o][l] BY <1>1, <2>1, <2>2, <2>3, <3>1, <3>2, OneObject
    <3> QED BY <3>1, <3>3
  <2>5. Count(graph, v) <= Count(graph, w) BY <1>5, <1>7, <1>8, <2>2, <2>3
  <2>6. ASSUME Size(Children[o][k]) = Size(Children[o][l]), l < k PROVE FALSE
    <3>1. Count(graph, w) = Count(graph, v) BY <1>9, <2>4, <2>6
    <3>2. f \in least BY <1>5, <1>7, <1>8, <2>2, <2>3, <3>1
    <3>3. InOrderAt(graph, o, l, k) BY <2>6 DEF EdgesOrdered
    <3>4. EdgeIs(graph, "CHILD", e, mpi.at, v) /\ EdgeIs(graph, "CHILD", f, mpi.at, w)
      BY <1>8, <2>2, <2>3 DEF Candidates, EdgeIs
    <3>5. f < e BY <1>9, <2>2, <2>3, <3>3, <3>4 DEF InOrderAt
    <3>6. e <= f /\ f \in Nat BY <1>2, <1>7, <3>2
    <3> QED BY <1>8, <3>5, <3>6
  <2> QED BY <1>9, <2>1, <2>4, <2>5, <2>6
<1> QED BY <1>9, <1>10

(* It stays where no child has the CPUs.                                   *)
LEMMA NoneIsLower ==
  ASSUME Told, HierGraph, MasksFit(graph), KindsFit(graph), Ran("hwloc"),
         NEW o \in Objects, At(graph, o, mpi.at), LowerVertices = {},
         NEW k \in DOMAIN Children[o], Fit(Children[o][k], Mask)
  PROVE  FALSE
<1> DEFINE cs == Candidates(graph, mpi.at, Mask)
           count(i) == Count(graph, graph.edges[i].target)
           least == {i \in cs : \A j \in cs : count(i) <= count(j)}
<1>1. Content(graph) /\ GoodY(graph) BY DEF Told, ToldExactly, Tells, Content
<1>2. cs # {} BY ChildIsCandidate
<1>3. ASSUME NEW i \in cs PROVE count(i) \in Nat
  <2>1. PICK l \in DOMAIN Children[o] : Fit(Children[o][l], Mask) /\ count(i) = Size(Children[o][l])
    BY CandidateIsChild
  <2>2. Children[o][l] \in Objects BY TopologyConstants
  <2>3. PICK m \in CpusetOf[Children[o][l]] : TRUE BY <2>1 DEF Fit
  <2> QED BY <2>1, <2>2, <2>3, SizeOf
<1>4. least # {}
  <2> DEFINE counts == {count(i) : i \in cs}
  <2>1. counts \in SUBSET Nat /\ counts # {} BY <1>2, <1>3
  <2>2. \A x \in counts : Min(counts) \in counts /\ Min(counts) <= x
    <3> HIDE DEF counts
    <3> QED BY <2>1, LeastOfNaturals
  <2>3. PICK i \in cs : count(i) = Min(counts) BY <2>1, <2>2
  <2>4. \A j \in cs : count(i) <= count(j) BY <2>2, <2>3
  <2> QED BY <2>4
<1>5. LowerVertices = {graph.edges[i].target :
                         i \in IF StableSort /\ least # {} THEN {Min(least)} ELSE least}
  BY DEF LowerVertices, Lower
<1> HIDE DEF least
<1> QED BY <1>4, <1>5

------------------------------------------------------------------------------
(* An edge that was made joins what it was made to join.                   *)
LEMMA LinkHung ==
  ASSUME NEW g, GoodY(g), NEW u \in 1..Len(g.vertices), NEW v \in 1..Len(g.vertices)
  PROVE  Hangs(Link(g, u, v), u, v)
<1>1. PICK half : half = AddEdge(g, u, v, "CHILD") OBVIOUS
<1>2. Link(g, u, v) = AddEdge(half, v, u, "PARENT") BY <1>1 DEF Link
<1>3. GoodY(half) BY <1>1, AddEdgeGrows, GrowsYGood DEF GoodY, GrowsY, EdgeTypes
<1>4. EdgeIs(half, "CHILD", Len(g.edges) + 1, u, v) BY <1>1, EdgeAppended
<1>5. EdgeIs(Link(g, u, v), "CHILD", Len(g.edges) + 1, u, v) BY <1>2, <1>3, <1>4, EdgeAppended
<1> QED BY <1>5 DEF Hangs

(* The state in which the loop over the ranks comes to the next one.       *)
LEMMA RankNext ==
  ASSUME IInv, Told, LoopOnce, Running("mpi"), mpi.stage = "ranks", mpi.rank < NRanks
  PROVE  /\ mpi.rank \in Ranks /\ env \in Envs /\ GoodY(graph) /\ ~Ran("mpi")
         /\ LET g == AddRank(graph)
            IN RankAdded(graph, g) /\ HoldsAt(g, g.ids[RankId], 1, RankAdapter)
<1>1. /\ mpi.rank \in Ranks /\ env \in Envs /\ GoodY(graph)
      /\ mpi.rank \in Nat
  BY Parts, PlatformConstants DEF MpiInv, MpiTypeOK, Ranks, ControlInv, GraphInv
<1>2. ~Ran("mpi") BY DEF LoopOnce, Ran, Running
<1>3. mpi.rank \notin RanksTold
  BY <1>1, <1>2 DEF RanksTold, Running
<1>4. Len(Elem(graph, RankId).adapters) = 0 BY <1>1, <1>3, UntoldRank DEF Told, RankId
<1>5. PICK g : g = AddRank(graph) OBVIOUS
<1>6. RankAdded(graph, g) BY <1>1, <1>5, RankWorked
<1>7. Elem(graph, RankId).adapters \in Seq(Adapters)
  <2>1. RankId \in Ids BY <1>1, IdsOf DEF RankId
  <2> QED BY <1>1, <2>1, ElemType DEF VertexType
<1>8. g.vertices[g.ids[RankId]].adapters = Append(Elem(graph, RankId).adapters, RankAdapter)
        /\ RankAdapter \in Adapters /\ g.ids[RankId] \in 1..Len(g.vertices) /\ GoodY(g)
  BY <1>6 DEF RankAdded
<1>9. g.ids[RankId] \in DOMAIN g.vertices BY <1>8, VertexRange
<1>10. HoldsAt(g, g.ids[RankId], 1, RankAdapter)
  <2>1. PICK as, a : as = Elem(graph, RankId).adapters /\ a = RankAdapter OBVIOUS
  <2>2. Append(as, a)[1] = a /\ 1 \in DOMAIN Append(as, a) BY <1>4, <1>7, <1>8, <2>1
  <2> QED BY <1>8, <1>9, <2>1, <2>2 DEF HoldsAt
<1> QED BY <1>1, <1>2, <1>5, <1>6, <1>10

(* What is attached stays placed, and nothing else needs to be looked at.  *)
LEMMA PlacedStep ==
  ASSUME IInv, LoopOnce, MpiLast, AllPlaced, First', [Next]_vars,
         \A i \in Ranks : Ran("hwloc") /\ Attached(i)' => Attached(i) \/ Placed(i)'
  PROVE  AllPlaced'
<1> SUFFICES ASSUME Ran("hwloc")', NEW i \in Ranks, Attached(i)' PROVE Placed(i)'
  BY DEF AllPlaced
<1>1. /\ GrowsY(graph, graph') /\ GoodY(graph)
      /\ \A v, k, a : HoldsAt(graph, v, k, a) => HoldsAt(graph', v, k, a)
  BY HeldKept, Parts DEF GraphInv
<1>2. CASE Ran("hwloc")
  <2>1. CASE Placed(i)' BY <2>1
  <2>2. CASE Attached(i)
    <3>1. Placed(i) BY <1>2, <2>2 DEF AllPlaced
    <3> QED BY <1>1, <3>1, PlacedKept
  <2> QED BY <1>2, <2>1, <2>2
<1>3. CASE ~Ran("hwloc")
  <2>1. "hwloc" \in Modules /\ "mpi" \in Modules BY DEF Modules
  <2>2. current = "hwloc" /\ current' = "none" BY <1>3, <2>1, RanBefore
  <2>3. Ran("mpi")' BY <2>2 DEF Attached
  <2>4. Ran("mpi") BY <2>1, <2>2, <2>3, RanBefore
  <2> QED BY <2>2, <2>4 DEF MpiLast
<1> QED BY <1>2, <1>3

(* The loop of init() and the modules other than mpi attach no rank.       *)
LEMMA OthersPlaced ==
  ASSUME IInv, LoopOnce, LocalsIdle, MpiLast, AllPlaced, First', [Next]_vars,
         current # "mpi", UNCHANGED mpi
  PROVE  AllPlaced' /\ Descending'
<1>1. mpi = MpiIdle BY DEF LocalsIdle
<1>2. mpi'.stage = "start" /\ mpi'.rank = 0 BY <1>1 DEF MpiIdle
<1>3. ASSUME NEW i \in Ranks, Attached(i)' PROVE Attached(i)
  <2>1. ~(i < 0) BY PlatformConstants DEF Ranks
  <2>2. Ran("mpi")' BY <1>2, <1>3, <2>1 DEF Attached
  <2>3. "mpi" \in Modules BY DEF Modules
  <2> QED BY <2>2, <2>3, RanBefore DEF Attached
<1>4. AllPlaced' BY <1>3, PlacedStep
<1>5. Descending' BY <1>2 DEF Descending
<1> QED BY <1>4, <1>5

(* A step of mpi that leaves the graph alone.                              *)
LEMMA QuietPlaced ==
  ASSUME IInv, LoopOnce, LocalsIdle, MpiLast, AllPlaced, First', [Next]_vars,
         MpiRefuses \/ MpiGather \/ MpiReturn
  PROVE  AllPlaced' /\ Descending'
<1>1. /\ mpi \in [stage : {"start", "ranks", "descend"}, cpusets : [Ranks -> SUBSET Nat],
                  rank : 0..NRanks, at : Nat]
      /\ NRanks \in Nat /\ \A i \in Ranks : i < NRanks /\ ~(i < 0)
      /\ "mpi" \in Modules
  BY Parts, PlatformConstants DEF MpiInv, MpiTypeOK, Ranks, Modules
<1>2. Running("mpi")
  <2>1. CASE MpiRefuses BY <2>1 DEF MpiRefuses
  <2>2. CASE MpiGather BY <2>2 DEF MpiGather
  <2>3. CASE MpiReturn BY <2>3 DEF MpiReturn
  <2> QED BY <2>1, <2>2, <2>3
<1>3. CASE MpiRefuses
  <2>1. Return("mpi", "INIT_ERROR") /\ UNCHANGED mpi /\ mpi.stage = "start"
    BY <1>3 DEF MpiRefuses, LocalsIdle
  <2>2. status \in [Modules -> Statuses \cup {"none"}] BY Parts DEF ControlInv
  <2>3. ~Ran("mpi")' /\ current' = "none" BY <1>1, <2>1, <2>2 DEF Return, Ran
  <2>4. \A i \in Ranks : ~Attached(i)' BY <2>3 DEF Attached
  <2>5. AllPlaced' BY <2>4 DEF AllPlaced
  <2>6. Descending' BY <2>1 DEF Descending
  <2> QED BY <2>5, <2>6
<1>4. CASE MpiGather
  <2>1. Stay /\ mpi.stage = "start" /\ mpi'.stage = "ranks" /\ mpi'.rank = mpi.rank
    BY <1>1, <1>4 DEF MpiGather
  <2>2. mpi'.rank = 0 BY <2>1 DEF LocalsIdle, MpiIdle
  <2>3. \A i \in Ranks : Attached(i)' => Attached(i) BY <1>1, <2>1, <2>2 DEF Attached, Stay, Ran
  <2>4. AllPlaced' BY <2>3, PlacedStep
  <2>5. Descending' BY <2>1 DEF Descending
  <2> QED BY <2>4, <2>5
<1>5. CASE MpiReturn
  <2>1. mpi.rank = NRanks /\ mpi'.stage = "start" BY <1>5 DEF MpiReturn, MpiIdle
  <2>2. \A i \in Ranks : Attached(i) BY <1>1, <1>2, <2>1 DEF Attached, Running
  <2>3. AllPlaced' BY <2>2, PlacedStep
  <2>4. Descending' BY <2>1 DEF Descending
  <2> QED BY <2>3, <2>4
<1> QED BY <1>3, <1>4, <1>5

(* When the loop over the ranks goes on, one more is attached.             *)
LEMMA OneMore ==
  ASSUME IInv, Running("mpi"), Stay, mpi'.rank = mpi.rank + 1, NEW i \in Ranks, Attached(i)'
  PROVE  Attached(i) \/ i = mpi.rank
<1>1. mpi.rank \in Nat /\ i \in Nat
  BY Parts, PlatformConstants DEF MpiInv, MpiTypeOK, Ranks
<1> QED BY <1>1 DEF Attached, Running, Stay, Ran

(* A rank elsewhere, or without a mask.                                    *)
LEMMA RemotePlaced ==
  ASSUME IInv, Told, LoopOnce, MpiLast, AllPlaced, First', [Next]_vars, MpiAddRemote
  PROVE  AllPlaced' /\ Descending'
<1>1. PICK r, g, a : r = mpi.rank /\ g = AddRank(graph) /\ a = RankAdapter OBVIOUS
<1>2. /\ Running("mpi") /\ Stay /\ mpi.stage = "ranks" /\ mpi.rank < NRanks /\ ~Pinned
      /\ graph' = Link(g, g.ids[MachineId], g.ids[RankId])
      /\ mpi'.stage = "ranks" /\ mpi'.rank = mpi.rank + 1
  BY <1>1, Parts DEF MpiAddRemote, MpiInv, MpiTypeOK
<1>3. r \in Ranks /\ RankAdded(graph, g) /\ HoldsAt(g, g.ids[RankId], 1, a)
  BY <1>1, <1>2, RankNext
<1>4. PICK u, v : /\ u = g.ids[MachineId] /\ v = g.ids[RankId] /\ GoodY(g)
                  /\ u \in 1..Len(g.vertices) /\ v \in 1..Len(g.vertices)
  BY <1>3 DEF RankAdded
<1>5. /\ graph' = Link(g, u, v) /\ graph'.vertices = g.vertices /\ graph'.ids = g.ids
      /\ Hangs(graph', u, v)
  BY <1>2, <1>4, LinkY, LinkHung
<1>6. RankVertex(r)' = v /\ graph'.ids[<<"machine", ProcName[r]>>] = u
  BY <1>1, <1>4, <1>5 DEF RankVertex, RankId, MachineId, Host
<1>7. a.mask = {} BY <1>1, <1>2, AdapterFields DEF RankAdapter
<1>8. HoldsAt(graph', v, 1, a) BY <1>3, <1>4, <1>5 DEF HoldsAt
<1>9. PlacedBy(r, a, u)' BY <1>5, <1>6, <1>7, <1>8 DEF PlacedBy
<1>10. Placed(r)' BY <1>9 DEF Placed
<1>11. \A i \in Ranks : Attached(i)' => Attached(i) \/ Placed(i)' BY <1>1, <1>2, <1>10, OneMore
<1>12. AllPlaced' BY <1>11, PlacedStep
<1>13. Descending' BY <1>2 DEF Descending
<1> QED BY <1>12, <1>13

(* The search for the place of a rank begins at the machine.               *)
LEMMA LocalPlaced ==
  ASSUME MasksKnown, IInv, BackedInv, Told, LoopOnce, MpiLast, RootHeld, AllPlaced, First',
         [Next]_vars, MpiAddLocal
  PROVE  AllPlaced' /\ Descending'
<1>1. PICK g, a : g = AddRank(graph) /\ a = RankAdapter OBVIOUS
<1>2. /\ Running("mpi") /\ Stay /\ mpi.stage = "ranks" /\ mpi.rank < NRanks /\ Pinned
      /\ graph' = g /\ mpi'.stage = "descend" /\ mpi'.rank = mpi.rank
      /\ mpi'.cpusets = mpi.cpusets /\ mpi'.at = graph.root
  BY <1>1, Parts DEF MpiAddLocal, MpiInv, MpiTypeOK
<1>3. RankAdded(graph, g) /\ HoldsAt(g, g.ids[RankId], 1, a)
  BY <1>1, <1>2, RankNext
<1>4. \A i \in Ranks : Attached(i)' => Attached(i) BY <1>2 DEF Attached, Stay, Ran
<1>5. AllPlaced' BY <1>4, PlacedStep
<1>6. Mask' = Mask /\ RankId' = RankId BY <1>2 DEF Mask, MaskOf, Bits, RankId, Stay
<1>7. Mask # {} /\ a.mask = {Mask} BY <1>1, <1>2, AdapterFields DEF RankAdapter, Pinned
<1>8. ASSUME Ran("hwloc")'
      PROVE  \E o \in Objects : At(graph', o, graph.root) /\ TightestButBelow(o, Mask)
  <2>1. Ran("hwloc") BY <1>2, <1>8 DEF Stay, Ran
  <2>2. At(graph, MachineObj, graph.root) BY <2>1 DEF RootHeld
  <2>3. At(graph', MachineObj, graph.root) BY <1>2, <1>3, <2>2 DEF At, RankAdded
  <2>4. MachineObj \in Objects /\ CpusetOf[MachineObj] # {}
    BY TopologyConstants, CpusetsNest
  <2>5. Fit(MachineObj, Mask)
    <3>1. mpi.cpusets[mpi.rank] \in CpuChoices /\ env \in Envs BY <1>2, RankRunning
    <3>2. PICK m \in CpusetOf[MachineObj] : TRUE BY <2>4
    <3> QED BY <3>1, <3>2 DEF MasksKnown, Mask, MaskOf, Bits, Fit
  <2>6. TightestButBelow(MachineObj, Mask) BY <2>5, AllUnderMachine DEF TightestButBelow
  <2> QED BY <2>3, <2>4, <2>6
<1>9. HoldsAt(graph', graph'.ids[RankId], 1, a) BY <1>2, <1>3
<1>10. Descending' BY <1>2, <1>6, <1>7, <1>8, <1>9 DEF Descending
<1> QED BY <1>5, <1>10

(* A step of the search keeps to the objects with the fewest CPUs.         *)
LEMMA DescendPlaced ==
  ASSUME StableSort, IInv, Told, HierGraph, MasksFit(graph), KindsFit(graph), EdgesOrdered,
         LoopOnce, MpiLast, AllPlaced, Descending, First', [Next]_vars, MpiDescend
  PROVE  AllPlaced' /\ Descending'
<1>1. /\ Running("mpi") /\ Stay /\ mpi.stage = "descend" /\ UNCHANGED graph
      /\ \E v \in LowerVertices : mpi' = [mpi EXCEPT !.at = v]
  BY DEF MpiDescend
<1>2. PICK v \in LowerVertices : mpi' = [mpi EXCEPT !.at = v] BY <1>1
<1>3. /\ mpi'.at = v /\ mpi'.stage = "descend" /\ mpi'.rank = mpi.rank
      /\ mpi'.cpusets = mpi.cpusets
  BY <1>1, <1>2, Parts DEF MpiInv, MpiTypeOK
<1>4. \A i \in Ranks : Attached(i)' => Attached(i) BY <1>1, <1>3 DEF Attached, Stay, Ran
<1>5. AllPlaced' BY <1>4, PlacedStep
<1>6. Mask' = Mask /\ RankId' = RankId BY <1>1, <1>3 DEF Mask, MaskOf, Bits, RankId, Stay
<1>7. ASSUME Ran("hwloc")'
      PROVE  /\ Mask # {}
             /\ \E o \in Objects : At(graph, o, v) /\ TightestButBelow(o, Mask)
             /\ \E a : HoldsAt(graph, graph.ids[RankId], 1, a) /\ a.mask = {Mask}
  <2>1. Ran("hwloc") BY <1>1, <1>7 DEF Stay, Ran
  <2>2. /\ Mask # {}
        /\ \E o \in Objects : At(graph, o, mpi.at) /\ TightestButBelow(o, Mask)
        /\ \E a : HoldsAt(graph, graph.ids[RankId], 1, a) /\ a.mask = {Mask}
    BY <1>1, <2>1 DEF Descending
  <2>3. PICK o \in Objects : At(graph, o, mpi.at) /\ TightestButBelow(o, Mask) BY <2>2
  <2>4. PICK k \in DOMAIN Children[o] :
           /\ At(graph, Children[o][k], v) /\ Fit(Children[o][k], Mask)
           /\ \A l \in DOMAIN Children[o] : Fit(Children[o][l], Mask) =>
                /\ Size(Children[o][k]) <= Size(Children[o][l])
                /\ Size(Children[o][k]) = Size(Children[o][l]) => k <= l
    BY <2>1, <2>3, LowerIsSmallest
  <2>5. TightestButBelow(Children[o][k], Mask) BY <2>2, <2>3, <2>4, SmallestChild
  <2>6. Children[o][k] \in Objects BY TopologyConstants
  <2> QED BY <2>2, <2>4, <2>5, <2>6
<1>8. Descending' BY <1>1, <1>3, <1>6, <1>7 DEF Descending
<1> QED BY <1>5, <1>8

(* Where it ends, no object with the CPUs has fewer.                       *)
LEMMA AttachPlaced ==
  ASSUME IInv, Told, HierGraph, MasksFit(graph), KindsFit(graph),
         LoopOnce, MpiLast, AllPlaced, Descending, First', [Next]_vars, MpiAttach
  PROVE  AllPlaced' /\ Descending'
<1>1. PICK r, u, v, mask : r = mpi.rank /\ u = mpi.at /\ v = graph.ids[RankId] /\ mask = Mask
  OBVIOUS
<1>2. /\ Running("mpi") /\ Stay /\ mpi.stage = "descend" /\ LowerVertices = {}
      /\ graph' = Link(graph, u, v) /\ mpi'.stage = "ranks" /\ mpi'.rank = mpi.rank + 1
      /\ mpi.rank < NRanks
  BY <1>1, Parts DEF MpiAttach, MpiInv, MpiTypeOK, MpiSound
<1>3. /\ r \in Ranks /\ GoodY(graph)
      /\ u \in 1..Len(graph.vertices) /\ v \in 1..Len(graph.vertices)
  BY <1>1, <1>2, Parts, VertexRange, PlatformConstants DEF MpiInv, MpiTypeOK, MpiSound, Ranks,
     GraphInv
<1>4. graph'.vertices = graph.vertices /\ graph'.ids = graph.ids /\ Hangs(graph', u, v)
  BY <1>2, <1>3, LinkY, LinkHung
<1>5. ASSUME Ran("hwloc") PROVE Placed(r)'
  <2>1. /\ mask # {}
        /\ \E o \in Objects : At(graph, o, mpi.at) /\ TightestButBelow(o, Mask)
        /\ \E a : HoldsAt(graph, v, 1, a) /\ a.mask = {mask}
    BY <1>1, <1>2, <1>5 DEF Descending
  <2>2. PICK o \in Objects : At(graph, o, mpi.at) /\ TightestButBelow(o, Mask) BY <2>1
  <2>3. \A l \in DOMAIN Children[o] : ~Fit(Children[o][l], Mask)
    BY <1>2, <1>5, <2>2, NoneIsLower
  <2>4. Tightest(o, Mask) BY <2>2, <2>3, NoSmallerChild
  <2>5. PICK a : HoldsAt(graph, v, 1, a) /\ a.mask = {mask} BY <2>1
  <2>6. RankVertex(r)' = v BY <1>1, <1>4 DEF RankVertex, RankId
  <2>7. HoldsAt(graph', v, 1, a) /\ At(graph', o, u)
    BY <1>1, <1>4, <2>2, <2>5, AtSame DEF HoldsAt
  <2>8. \A m \in a.mask : \E p \in Objects : At(graph', p, u) /\ Tightest(p, m)
    BY <1>1, <2>4, <2>5, <2>7
  <2>9. PlacedBy(r, a, u)'
    BY <1>4, <2>5, <2>6, <2>7, <2>8 DEF PlacedBy, Tightest, Fit, Size
  <2> QED BY <2>9 DEF Placed
<1>6. \A i \in Ranks : Ran("hwloc") /\ Attached(i)' => Attached(i) \/ Placed(i)'
  BY <1>1, <1>2, <1>5, OneMore
<1>7. AllPlaced' BY <1>6, PlacedStep
<1>8. Descending' BY <1>2 DEF Descending
<1> QED BY <1>7, <1>8

(* Every step of the first init().                                         *)
LEMMA PlacedKeeps ==
  ASSUME MasksKnown, StableSort, IInv, BackedInv, KindsFit(graph), Told, LoopOnce, LocalsIdle,
         HierGraph, RootHeld, EdgesOrdered, MpiLast, AllPlaced, Descending, First', [Next]_vars
  PROVE  AllPlaced' /\ Descending'
<1>1. MasksFit(graph) BY DEF BackedInv
<1>2. CASE MpiNext
  <2>1. ~MpiAssertFails BY DEF First, MpiAssertFails, Leave
  <2> QED
    BY <1>1, <1>2, <2>1, QuietPlaced, RemotePlaced, LocalPlaced, DescendPlaced, AttachPlaced
       DEF MpiNext
<1>3. CASE UNCHANGED mpi /\ (HwlocNext \/ GpuNext \/ SupermucNext)
  <2>1. current # "mpi" BY <1>3, ModuleRuns
  <2> QED BY <1>3, <2>1, OthersPlaced
<1>4. CASE InitCall \/ CallModule \/ InitReturn
  <2>1. current = "none" /\ UNCHANGED mpi
    BY <1>4 DEF LoopOnce, InitCall, CallModule, InitReturn, Running, locals
  <2> QED BY <2>1, OthersPlaced
<1>5. CASE UNCHANGED vars
  <2>1. UNCHANGED <<graph, status, current, env, mpi>> BY <1>5 DEF vars, interface
  <2>2. \A i \in Ranks : Attached(i)' => Attached(i) BY <2>1 DEF Attached, Ran
  <2>3. AllPlaced' BY <2>2, PlacedStep
  <2>4. Mask' = Mask /\ RankId' = RankId BY <2>1 DEF Mask, MaskOf, Bits, RankId
  <2>5. Descending' BY <2>1, <2>4 DEF Descending, Ran
  <2> QED BY <2>3, <2>5
<1> QED BY <1>2, <1>3, <1>4, <1>5 DEF Next, InitStep, ModuleStep

(* The invariant of the placement.                                         *)
LEMMA PlacedInvStep ==
  ASSUME MasksKnown, StableSort, IInv, BackedInv, KindsFit(graph), FirstInv, FirstInv',
         HierInv, HierInv', PlacedInv, [Next]_vars
  PROVE  PlacedInv'
<1> SUFFICES ASSUME First'
             PROVE  (RootHeld /\ EdgesOrdered /\ MpiLast /\ AllPlaced /\ Descending)'
  BY DEF PlacedInv
<1>1. First BY FirstBefore
<1>2. /\ Told /\ LoopOnce /\ LocalsIdle /\ Told' /\ HierGraph /\ WalkFresh /\ HierGraph'
      /\ RootHeld /\ EdgesOrdered /\ MpiLast /\ AllPlaced /\ Descending
  BY <1>1 DEF FirstInv, HierInv, PlacedInv
<1>3. RootHeld' /\ EdgesOrdered' BY <1>2, TreeKept
<1>4. MpiLast' BY <1>2, LastKept
<1>5. AllPlaced' /\ Descending' BY <1>2, PlacedKeeps
<1> QED BY <1>3, <1>4, <1>5

(* It holds at the beginning.                                              *)
LEMMA InitPlaced ==
  ASSUME Init
  PROVE  PlacedInv
<1>1. /\ graph = EmptyGraph(Ids) /\ current = "none" /\ walk = <<>> /\ mpi = MpiIdle
      /\ todo = <<>> /\ status = [m \in Modules |-> "none"]
  BY DEF Init, InterfaceInit, HwlocInit, MpiInit
<1>2. "mpi" \in Modules /\ "hwloc" \in Modules BY DEF Modules
<1>3. ~Ran("hwloc") /\ ~Ran("mpi") BY <1>1, <1>2 DEF Ran
<1>4. graph.vertices = <<>> BY <1>1 DEF EmptyGraph
<1>5. \A o, v : ~At(graph, o, v) BY <1>4 DEF At, HoldsAt
<1>6. RootHeld BY <1>1, <1>3 DEF RootHeld
<1>7. EdgesOrdered BY <1>5 DEF EdgesOrdered, InOrderAt
<1>8. MpiLast BY <1>1, <1>3 DEF MpiLast
<1>9. AllPlaced /\ Descending BY <1>3 DEF AllPlaced, Descending
<1> QED BY <1>6, <1>7, <1>8, <1>9 DEF PlacedInv

(* The invariant holds in every state.                                     *)
LEMMA PlacedInvariance ==
  ASSUME LibrariesAnswer, MasksKnown, StableSort
  PROVE  Spec => []PlacedInv
<1>1. Init => PlacedInv BY InitPlaced
<1>2. /\ IInv /\ BackedInv /\ KindsFit(graph) /\ FirstInv /\ FirstInv' /\ HierInv /\ HierInv'
      /\ PlacedInv /\ [Next]_vars
      => PlacedInv'
  BY PlacedInvStep
<1> QED
  BY <1>1, <1>2, Invariance, BackedInvariance, FitInvariance, FirstInvariance, HierInvariance, PTL
     DEF Spec

(* What the invariant says of a rank when its init() is over.              *)
LEMMA PlacedLowest ==
  ASSUME IInv, BackedInv, KindsFit(graph), Told, HierGraph, NEW i \in Ranks, Placed(i)
  PROVE  \E p \in Hardware :
           /\ Parents(RankVertex(i)) = {p}
           /\ RankMask(i) = {} => p = graph.ids[<<"machine", ProcName[i]>>]
           /\ \A mask \in RankMask(i) :
                /\ Contains(p, mask)
                /\ \A v \in Hardware : Contains(v, mask) => Count(graph, p) <= Count(graph, v)
<1>1. Content(graph) /\ GoodY(graph) /\ MasksFit(graph)
  BY DEF Told, ToldExactly, Tells, Content, BackedInv
<1>2. PICK a, p : PlacedBy(i, a, p) BY DEF Placed
<1>3. /\ HoldsAt(graph, RankVertex(i), 1, a) /\ Hangs(graph, p, RankVertex(i))
      /\ a.mask = {} => p = graph.ids[<<"machine", ProcName[i]>>]
      /\ \A mask \in a.mask : \E o \in Objects : At(graph, o, p) /\ Tightest(o, mask)
  BY <1>2 DEF PlacedBy
<1>4. p \in Vertices BY <1>1, <1>3, EdgeWithin, VertexRange DEF Hangs, Vertices
<1>5. Parents(RankVertex(i)) = {p}
  <2>1. \A u : u \in Parents(RankVertex(i)) => Hangs(graph, u, RankVertex(i))
    BY DEF Parents, ChildEdges, Hangs, EdgeIs
  <2>2. p \in Parents(RankVertex(i)) BY <1>3, <1>4 DEF Parents, ChildEdges, Hangs, EdgeIs
  <2>3. \A u : u \in Parents(RankVertex(i)) => u = p BY <1>3, <2>1, OneParent
  <2> QED BY <2>2, <2>3
<1>6. p \in Hardware
  <2>1. ~\E j \in Ranks : graph.ids[<<"mpi_rank", j>>] = p
    <3>1. \A j \in Ranks : \A u, v : Hangs(graph, u, v) => u # RankVertex(j)
      BY DEF HierGraph, RanksHang
    <3> QED BY <1>3, <3>1 DEF RankVertex
  <2>2. ~IsA(graph.vertices[p].type, "MPIProcess")
    BY <1>4, <2>1, FitUnique DEF DevicesNotDuplicated, Vertices
  <2>3. IsA("MPIProcess", "MPIProcess") BY IsAReflexive, AssignedTypes
  <2> QED BY <1>4, <2>2, <2>3 DEF Hardware
<1>7. RankMask(i) = a.mask
  <2>1. PICK list : list = graph.vertices[RankVertex(i)].adapters OBVIOUS
  <2>2. RankVertex(i) \in DOMAIN graph.vertices /\ 1 \in DOMAIN list /\ list[1] = a
    BY <1>3, <2>1 DEF HoldsAt
  <2>3. list \in Seq(Adapters) BY <1>1, <2>1, <2>2, AdaptersOfVertex
  <2>4. Len(list) <= 1
    <3>1. <<"mpi_rank", i>> \in Ids BY IdsOf
    <3>2. RankVertex(i) # NoVertex BY <1>1, <2>2, VertexRange DEF NoVertex
    <3>3. Elem(graph, <<"mpi_rank", i>>).adapters = list BY <2>1, <3>2 DEF Elem, RankVertex
    <3> QED BY <3>3 DEF Told, RanksOnce
  <2>5. Len(list) = 1
    <3>1. PICK n : n = Len(list) OBVIOUS
    <3>2. n \in Nat /\ DOMAIN list = 1..n BY <2>3, <3>1, LenProperties
    <3>3. 1 \in 1..n /\ n <= 1 BY <2>2, <2>4, <3>1, <3>2
    <3>4. n = 1 BY <3>2, <3>3
    <3> QED BY <3>1, <3>4
  <2> QED BY <2>1, <2>2, <2>5 DEF RankMask
<1>8. ASSUME NEW mask \in a.mask
      PROVE  /\ Contains(p, mask)
             /\ \A v \in Hardware : Contains(v, mask) => Count(graph, p) <= Count(graph, v)
  <2>1. PICK o \in Objects : At(graph, o, p) /\ Tightest(o, mask) BY <1>3
  <2>2. GetMask(graph, p) = CpusetOf[o] BY <1>1, <2>1, MaskAt
  <2>3. Contains(p, mask) BY <2>1, <2>2 DEF Tightest, Fit, Contains
  <2>4. ASSUME NEW v \in Hardware, Contains(v, mask) PROVE Count(graph, p) <= Count(graph, v)
    <3>1. v \in 1..Len(graph.vertices) BY <1>1, VertexRange DEF Hardware, Vertices
    <3>2. ~AtRank(graph, v)
      <4>1. v # NoVertex BY <3>1 DEF NoVertex
      <4> QED BY <4>1 DEF AtRank, BackedInv, RanksTyped, RankVertex, Hardware
    <3>3. GetMask(graph, v) # {} BY <2>4 DEF Contains
    <3>4. PICK q \in Objects : GetMask(graph, v) = CpusetOf[q]
      BY <1>1, <3>1, <3>2, <3>3, MaskIsOfObject
    <3>5. Fit(q, mask) BY <2>4, <3>4 DEF Contains, Fit
    <3>6. Size(o) <= Size(q) BY <2>1, <3>5 DEF Tightest
    <3> QED BY <2>2, <3>4, <3>6 DEF Count, Size
  <2> QED BY <2>3, <2>4
<1> QED BY <1>3, <1>5, <1>6, <1>7, <1>8

(* Where hwloc and mpi both ran in the first init(), every rank hangs below*)
(* its machine if it has no mask, and else below a vertex that contains    *)
(* the mask and has no more CPUs than any other that does.                 *)
THEOREM InitProcsPlacedLowest ==
  ASSUME LibrariesAnswer, MasksKnown, StableSort
  PROVE  Spec => []ProcsPlacedLowest
<1>1. ASSUME IInv, FirstInv, HierInv, BackedInv, KindsFit(graph), PlacedInv
      PROVE  ProcsPlacedLowest
  <2> SUFFICES ASSUME InitDone, Ran("hwloc"), Ran("mpi"), NEW i \in Ranks
               PROVE  \E p \in Hardware :
                        /\ Parents(RankVertex(i)) = {p}
                        /\ RankMask(i) = {} => p = graph.ids[<<"machine", ProcName[i]>>]
                        /\ \A mask \in RankMask(i) :
                             /\ Contains(p, mask)
                             /\ \A v \in Hardware : Contains(v, mask) =>
                                  Count(graph, p) <= Count(graph, v)
    BY DEF ProcsPlacedLowest
  <2>1. First BY DEF InitDone, First
  <2>2. Told /\ HierGraph /\ AllPlaced BY <1>1, <2>1 DEF FirstInv, HierInv, PlacedInv
  <2>3. Attached(i) BY DEF Attached
  <2>4. Placed(i) BY <2>2, <2>3 DEF AllPlaced
  <2> QED BY <1>1, <2>2, <2>4, PlacedLowest
<1> QED
  BY <1>1, Invariance, FirstInvariance, HierInvariance, BackedInvariance, FitInvariance,
     PlacedInvariance, PTL
=============================================================================
